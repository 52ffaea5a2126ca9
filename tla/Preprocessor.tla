---------------------------- MODULE Preprocessor ----------------------------
(***************************************************************************)
(* The preprocessor of as21, a line of the source at a time: conditions,   *)
(* included files and the data files of .VAR, the lines they are counted   *)
(* at, and the loop of main over the sources.  cpp.c keeps one stack of    *)
(* conditions for all files, and in each file a pointer to its first       *)
(* condition; as21-lex.l decides by that stack what it skips.  A macro is  *)
(* what #ifdef needs of it: defined or not.                                *)
(***************************************************************************)
EXTENDS Integers, Sequences

CONSTANTS
  Address,        \* of conditions, as malloc gives them
  MaxIncludes,    \* MAX_INCLUDES
  LineNumbers,    \* the numbers of #line, 0 for none
  MaxLines,       \* bound: the lines of all files
  MaxConditions,  \* bound: the conditions that are open
  MaxSources      \* bound: the sources on the command line

NoAddress == 0

ASSUME PreprocessorAssumption ==
  /\ Address \subseteq Nat \ {NoAddress} /\ LineNumbers \subseteq Nat
  /\ MaxIncludes \in Nat \ {0, 1} /\ {MaxLines, MaxConditions, MaxSources} \subseteq Nat

VARIABLES
  files,      \* file_stack, the newest first
  conds,      \* condition_stack, the newest first
  mode,       \* the lexer: "on", or "gobble" what is not a directive
  defined,    \* the macro is defined
  reader,     \* who calls yylex: "parse" or "data", the loop of a data file
  pc,         \* "lines"; "garbage", "eof": what is behind a directive on its line;
              \* "wrap", "pop": in cpp_pop_file for cpp_wrap or main;
              \* "joined": in ppparse, in another file than the directive was in;
              \* "completed", "last": that is over; "term", "main": in main; "aborted"
  parse,      \* when a file ended in a directive, what ppparse has of it: "done" its
              \* action, "open" not yet, "collect" while it takes all there is as text
  failed,     \* error_count > 0
  object,     \* the object file of the last source was left on disk
  lines,      \* lines so far
  sources,    \* sources so far
  meant,      \* history: the macro is defined when nothing skipped is obeyed
  crossed,    \* history: a file closed or changed a condition of another one, or
              \* its last directive was carried out in another one
  left,       \* history: the source began with files or conditions of another one
  whole       \* history: the source was read to its end

vars == <<files, conds, mode, defined, reader, pc, parse, failed, object,
          lines, sources, meant, crossed, left, whole>>

\* A file_t.  read, claimed, miscounted and nest are history: the lines read, the
\* number that the next one is to be reported under, whether a line was counted
\* wrong, and the conditions that the file itself has open.
File(end) ==
  [line |-> 1, delta |-> 0, first |-> NoAddress, end |-> end,
   read |-> 0, claimed |-> 1, miscounted |-> FALSE, nest |-> <<>>]

top == Head(files)

\* cpp_assembly_on
AssemblyOn(stack) == IF stack = <<>> THEN TRUE ELSE Head(stack).state

\* What the directives that are open select, each file's on its own.
Selected(stack) ==
  \A i \in DOMAIN stack : \A k \in DOMAIN stack[i].nest : stack[i].nest[k].now

\* The file after a line of it that was counted n times.
Counted(f, n) ==
  [f EXCEPT !.line = @ + n, !.read = @ + 1, !.claimed = @ + 1,
            !.miscounted = @ \/ n # 1]

Lines(n) == files' = <<Counted(top, n)>> \o Tail(files)

ReadLine == pc = "lines" /\ lines < MaxLines /\ lines' = lines + 1 /\ pc' = pc

\* A directive, and what is behind it: the next line, garbage, or the end of an
\* included file, when the parser has done the action without looking for more.
ReadDirective(behind) ==
  /\ pc = "lines" /\ lines < MaxLines /\ lines' = lines + 1
  /\ pc' \in {"lines", "garbage"} \cup behind
  /\ pc' = "eof" => Len(files) > 1

\* The parser of directives says of garbage what it is, when it has done the action.
Errors(found) == failed' = (failed \/ found \/ pc' = "garbage")

\* cpp_preprocess returns with the lexer where the conditions are.
Resume == mode' = IF AssemblyOn(conds') THEN "on" ELSE "gobble"

RestUnchanged == UNCHANGED <<parse, object, sources, left, whole>>

----------------------------------------------------------------------------
(* Conditions. *)

\* cpp_push_condition in file f, and the condition opened in it as it is meant.
PushConditionMutant(f, c, wanted) ==
  \E a \in Address \ {conds[k].at : k \in DOMAIN conds} :
    LET inherited == AssemblyOn(conds) IN
    /\ conds' = <<[at |-> a, inherited |-> inherited, state |-> inherited /\ c,
                   elsed |-> FALSE]>> \o conds
    /\ files' = <<[f EXCEPT
                     !.first = a,
                     !.nest = Append(@, [was |-> wanted, now |-> wanted])]>>
                  \o Tail(files)

PushCondition(f, c, wanted) ==
  \E a \in Address \ {conds[k].at : k \in DOMAIN conds} :
    LET inherited == AssemblyOn(conds) IN
    /\ conds' = <<[at |-> a, inherited |-> inherited, state |-> inherited /\ c,
                   elsed |-> FALSE]>> \o conds
    /\ files' = <<[f EXCEPT
                     !.first = IF @ = NoAddress THEN a ELSE @,
                     !.nest = Append(@, [was |-> wanted, now |-> wanted])]>>
                  \o Tail(files)

Condition(c, wanted, behind) ==
  /\ ReadDirective(behind) /\ Errors(FALSE) /\ Len(conds) < MaxConditions
  /\ PushCondition(Counted(top, 1), c, wanted)
  /\ UNCHANGED <<defined, reader, meant, crossed>> /\ RestUnchanged /\ Resume

If == \E c \in BOOLEAN : Condition(c, c, {})
Ifdef == Condition(defined, meant, {"eof"})
Ifndef == Condition(~ defined, ~ meant, {"eof"})

\* The file's own condition goes on with another branch.
Branch(f, c) ==
  IF f.nest = <<>> THEN f
  ELSE [f EXCEPT !.nest[Len(f.nest)] = [was |-> @.was \/ c, now |-> ~ @.was /\ c]]

\* Mutant of ElseCondition: a branch that was selected does not end the others.
ElseConditionMutant(s, c, elsed) ==
  [s EXCEPT !.state = s.inherited /\ c, !.elsed = @ \/ elsed]

\* cpp_elif_condition and cpp_else_condition on the newest condition.
ElseCondition(s, c, elsed) ==
  LET inherited == s.inherited /\ ~ s.state IN
  [s EXCEPT !.inherited = inherited, !.state = inherited /\ c, !.elsed = @ \/ elsed]

BranchCondition(f, c, elsed) ==
  /\ files' = <<Branch(f, c)>> \o Tail(files)
  /\ conds' = IF conds = <<>> THEN conds
              ELSE <<ElseCondition(Head(conds), c, elsed)>> \o Tail(conds)
  /\ Errors(IF conds = <<>> THEN TRUE ELSE Head(conds).elsed)

ElseOrElif(c, elsed) ==
  /\ ReadDirective(IF elsed THEN {"eof"} ELSE {})
  /\ BranchCondition(Counted(top, 1), c, elsed)
  /\ crossed' = (crossed \/ (conds # <<>> /\ top.nest = <<>>))
  /\ UNCHANGED <<defined, reader, meant>> /\ RestUnchanged /\ Resume

Elif == \E c \in BOOLEAN : ElseOrElif(c, FALSE)
Else == ElseOrElif(TRUE, TRUE)

\* Mutant of Closed: the file keeps the address of its first condition.
ClosedMutant(f) == f

\* The file after cpp_pop_condition.
Closed(f) ==
  IF conds # <<>> /\ f.first = Head(conds).at THEN [f EXCEPT !.first = NoAddress]
  ELSE f

Endif ==
  /\ ReadDirective({"eof"}) /\ Errors(conds = <<>>)
  /\ files' = <<LET f == Closed(Counted(top, 1)) IN
                [f EXCEPT !.nest = SubSeq(@, 1, Len(@) - 1)]>> \o Tail(files)
  /\ conds' = IF conds = <<>> THEN conds ELSE Tail(conds)
  /\ crossed' = (crossed \/ (conds # <<>> /\ top.nest = <<>>))
  /\ UNCHANGED <<defined, reader, meant>> /\ RestUnchanged /\ Resume

----------------------------------------------------------------------------
(* Lines that are obeyed or skipped. *)

\* A line of text, of an instruction or of the numbers of a data file.
Text ==
  /\ ReadLine /\ Lines(1)
  /\ UNCHANGED <<conds, mode, defined, reader, failed, meant, crossed>>
  /\ RestUnchanged

\* Mutant of SyntaxError: an error in a data file is not counted.
SyntaxErrorMutant ==
  /\ ReadLine /\ mode = "on" /\ Lines(1)
  /\ failed' = (failed \/ reader = "parse") /\ reader' = "parse"
  /\ UNCHANGED <<conds, mode, defined, meant, crossed>> /\ RestUnchanged

\* A line that neither the parser nor a data file takes.
SyntaxError ==
  /\ ReadLine /\ mode = "on" /\ Lines(1)
  /\ failed' = TRUE /\ reader' = "parse"
  /\ UNCHANGED <<conds, mode, defined, meant, crossed>> /\ RestUnchanged

\* A directive that is skipped is counted by cpp_preprocess, and its newline
\* once more by the lexer.
Skip ==
  /\ ReadLine /\ ~ AssemblyOn(conds) /\ Lines(2)
  /\ UNCHANGED <<conds, defined, reader, failed, meant, crossed>> /\ RestUnchanged /\ Resume

\* #define, whose text ends with the line, and #undef
Define(d) ==
  /\ IF d THEN ReadLine ELSE ReadDirective({"eof"})
  /\ AssemblyOn(conds) /\ Lines(1) /\ Errors(FALSE)
  /\ defined' = d /\ meant' = IF Selected(files) THEN d ELSE meant
  /\ UNCHANGED <<conds, reader, crossed>> /\ RestUnchanged /\ Resume

\* #warning, and #error, which is counted as an error.
Message(error) ==
  /\ ReadLine /\ AssemblyOn(conds) /\ Lines(1)
  /\ failed' = (failed \/ error)
  /\ UNCHANGED <<conds, defined, reader, meant, crossed>> /\ RestUnchanged /\ Resume

\* cpp_change_location, before the line of the directive itself is counted.
ChangeLocation(n) ==
  /\ ReadDirective({}) /\ AssemblyOn(conds) /\ Errors(FALSE)
  /\ files' = <<[Counted(top, 1) EXCEPT
                   !.delta = IF n = 0 THEN 0 ELSE n - top.line - 1,
                   !.claimed = IF n = 0 THEN top.read + 2 ELSE n]>> \o Tail(files)
  /\ UNCHANGED <<conds, defined, reader, meant, crossed>> /\ RestUnchanged /\ Resume

\* yylex returns 0: a data file was read, or yyparse ends.
EndOfInput ==
  /\ reader' = "parse"
  /\ pc' = IF reader = "data" THEN "lines" ELSE "term"

\* A condition or an #undef that ends before it says of what has no effect.
Incomplete ==
  /\ ReadLine /\ Lines(1) /\ failed' = TRUE
  /\ UNCHANGED <<conds, defined, reader, meant, crossed>> /\ RestUnchanged /\ Resume

\* An unknown directive is garbage.
Unknown ==
  /\ pc = "lines" /\ lines < MaxLines /\ lines' = lines + 1 /\ pc' = "garbage"
  /\ Lines(1) /\ Errors(FALSE)
  /\ UNCHANGED <<conds, defined, reader, meant, crossed>> /\ RestUnchanged /\ Resume

\* The line was counted, but its newline is still ahead.
Late(f) == [f EXCEPT !.line = @ + 1, !.miscounted = TRUE]

\* The parser of directives gives up on garbage.  When the line is not skipped, the
\* lexer is left where the newline ends its input; otherwise it is counted again.
Garbage ==
  /\ pc = "garbage"
  /\ IF AssemblyOn(conds) THEN EndOfInput /\ UNCHANGED files
     ELSE files' = <<Late(top)>> \o Tail(files) /\ pc' = "lines" /\ UNCHANGED reader
  /\ UNCHANGED <<conds, mode, defined, failed, lines, meant, crossed>> /\ RestUnchanged

----------------------------------------------------------------------------
(* Files. *)

\* cpp_push_file
CanPush == Len(files) < MaxIncludes

\* Mutant of Includer: the line of the #include is not counted.
IncluderMutant(f) == [Counted(f, 1) EXCEPT !.line = f.line]

\* The file with the #include, when the included one is on top of it.
Includer(f) == Counted(f, 1)

IncludeFile ==
  /\ ReadLine /\ AssemblyOn(conds) /\ CanPush
  /\ files' = <<File(FALSE), Includer(top)>> \o Tail(files)
  /\ UNCHANGED <<conds, mode, defined, reader, failed, meant, crossed>>
  /\ RestUnchanged

IncludeNotFound ==
  /\ ReadLine /\ AssemblyOn(conds) /\ Lines(1) /\ failed' = TRUE
  /\ UNCHANGED <<conds, mode, defined, reader, meant, crossed>> /\ RestUnchanged

\* The line is counted for the file below, as if the file had been pushed.
IncludeTooDeep ==
  /\ ReadLine /\ AssemblyOn(conds) /\ ~ CanPush
  /\ files' = <<Counted(top, 0), Late(files[2])>> \o Tail(Tail(files))
  /\ failed' = TRUE
  /\ UNCHANGED <<conds, mode, defined, reader, meant, crossed>> /\ RestUnchanged

\* .VAR with a file of values.  The line of the .VAR goes on after it.
DataFile ==
  /\ ReadLine /\ mode = "on" /\ reader = "parse"
  /\ \/ /\ CanPush /\ files' = <<File(TRUE)>> \o files /\ reader' = "data"
        /\ UNCHANGED failed
     \/ failed' = TRUE /\ UNCHANGED <<files, reader>>
  /\ UNCHANGED <<conds, mode, defined, meant, crossed>> /\ RestUnchanged

\* The beginning of cpp_pop_file.  The file may end in a string, in a comment
\* or in a continued line.
BeginPop ==
  /\ \E open \in BOOLEAN : failed' = (failed \/ open \/ top.first # NoAddress)
  /\ mode' = "on"

\* cpp_wrap keeps the last file, whose end is the end of all input.
EndFile ==
  /\ pc \in {"lines", "garbage"}
  /\ \/ Len(files) > 1 /\ BeginPop /\ pc' = "wrap" /\ UNCHANGED <<reader, whole>>
     \/ /\ Len(files) = 1 /\ pc' = "term" /\ reader' = "parse" /\ whole' = TRUE
        /\ UNCHANGED <<failed, mode>>
  /\ UNCHANGED <<files, conds, defined, parse, object, lines, sources, meant, crossed,
                 left>>

\* An included file ends within its last line, a directive, when the parser looks for
\* its end, for more of an expression, or for more of the text of a #define or an error.
EndInDirective ==
  /\ Len(files) > 1 /\ BeginPop /\ pc' = "wrap"
  /\ \/ pc = "eof" /\ parse' = "done"
     \/ pc = "lines" /\ parse' = "open"
     \/ pc = "lines" /\ AssemblyOn(conds) /\ parse' = "collect"
  /\ UNCHANGED <<files, conds, defined, reader, object, lines, sources, meant, crossed,
                 left, whole>>

\* An iteration of the loop over the conditions that the file left open.
PopCondition ==
  /\ pc \in {"wrap", "pop"} /\ top.first # NoAddress
  /\ files' = <<[Closed(top) EXCEPT !.nest = SubSeq(@, 1, Len(@) - 1)]>> \o Tail(files)
  /\ conds' = IF conds = <<>> THEN conds ELSE Tail(conds)
  /\ failed' = (failed \/ conds = <<>>)
  /\ UNCHANGED <<mode, defined, reader, pc, lines, meant, crossed>> /\ RestUnchanged

\* Back to main, or to the lexer, which has reached its end after a data file.  A
\* directive that had not ended goes on.
EndPop ==
  /\ pc \in {"wrap", "pop"} /\ top.first = NoAddress /\ files' = Tail(files)
  /\ \/ pc = "wrap" /\ parse = "none" /\ top.end /\ EndOfInput
     \/ pc = "wrap" /\ parse = "none" /\ ~ top.end /\ pc' = "lines" /\ UNCHANGED reader
     \/ /\ pc = "wrap" /\ parse # "none"
        /\ pc' = (IF top.end THEN "completed" ELSE "joined") /\ UNCHANGED reader
     \/ pc = "pop" /\ pc' = "main" /\ UNCHANGED reader
  /\ crossed' = (crossed \/ (pc = "wrap" /\ parse \in {"open", "collect"}))
  /\ UNCHANGED <<conds, mode, defined, failed, lines, meant>> /\ RestUnchanged

----------------------------------------------------------------------------
(* A directive goes on in the file below it.  The lexer is in its initial     *)
(* state there, where a newline does not end a directive.                     *)

Joined == pc = "joined" /\ lines < MaxLines

\* Text is part of what is collected; otherwise its first word is an error.
JoinedText ==
  /\ Joined
  /\ IF parse = "collect"
       THEN Lines(1) /\ lines' = lines + 1 /\ UNCHANGED <<pc, failed>>
       ELSE pc' = "completed" /\ failed' = TRUE /\ UNCHANGED <<files, lines>>
  /\ UNCHANGED <<conds, mode, defined, reader, meant, crossed>> /\ RestUnchanged

\* The assertion of cpp_preprocess that it is not in a directive.
JoinedDirective ==
  /\ Joined /\ pc' = "aborted"
  /\ UNCHANGED <<files, conds, mode, defined, reader, failed, lines, meant, crossed>>
  /\ RestUnchanged

JoinedEnd ==
  /\ pc = "joined"
  /\ \/ Len(files) > 1 /\ BeginPop /\ pc' = "wrap"
     \/ Len(files) = 1 /\ pc' = "last" /\ UNCHANGED <<failed, mode>>
  /\ UNCHANGED <<files, conds, defined, reader, lines, meant, crossed>> /\ RestUnchanged

\* What the directive does now: nothing more or nothing at all; a condition, or an
\* #undef; a #define of all the text, or an error with it.
CarryOut ==
  \/ /\ files' = <<Late(top)>> \o Tail(files)
     /\ \/ UNCHANGED <<defined, failed>>
        \/ /\ parse = "open" /\ AssemblyOn(conds)
           /\ defined' = FALSE /\ UNCHANGED failed
        \/ parse = "collect" /\ defined' = TRUE /\ UNCHANGED failed
        \/ parse = "collect" /\ failed' = TRUE /\ UNCHANGED defined
     /\ UNCHANGED conds
  \/ /\ parse = "open" /\ Len(conds) < MaxConditions
     /\ \E c \in BOOLEAN : PushCondition(Late(top), c, c)
     /\ UNCHANGED <<defined, failed>>
  \/ /\ parse = "open"
     /\ \E c \in BOOLEAN : BranchCondition(Late(top), c, FALSE)
     /\ UNCHANGED defined

\* cpp_preprocess returns, and the source has ended if that is what ended it.
Complete ==
  /\ pc \in {"completed", "last"} /\ parse' = "none"
  /\ IF pc = "last" THEN pc' = "term" /\ reader' = "parse" /\ whole' = TRUE
     ELSE pc' = "lines" /\ UNCHANGED <<reader, whole>>
  /\ CarryOut /\ Resume
  /\ UNCHANGED <<object, lines, sources, meant, crossed, left>>

----------------------------------------------------------------------------
(* main *)

\* assembler_term, and cpp_pop_file for the source.
Terminate ==
  /\ pc = "term" /\ pc' = "pop"
  /\ object' = ~ failed /\ BeginPop
  /\ UNCHANGED <<files, conds, defined, reader, parse, lines, sources, meant, crossed,
                 left, whole>>

\* The next source, with its own symbols and options: -D is a #define.
NextSource ==
  /\ pc = "main" /\ sources < MaxSources /\ sources' = sources + 1
  /\ defined' \in IF AssemblyOn(conds) THEN BOOLEAN ELSE {FALSE}
  /\ meant' = defined'
  /\ left' = (files # <<>> \/ conds # <<>>) /\ whole' = FALSE
  /\ IF CanPush
       THEN /\ files' = <<File(FALSE)>> \o files /\ pc' = "lines"
            /\ failed' = FALSE /\ reader' = "parse" /\ object' = FALSE
       ELSE UNCHANGED <<files, pc, failed, reader, object>>
  /\ UNCHANGED <<conds, mode, parse, lines, crossed>>

Stopped ==
  /\ pc = "aborted" \/ (pc = "main" /\ sources = MaxSources)
  /\ UNCHANGED vars

Init ==
  /\ files = <<>> /\ conds = <<>> /\ mode = "on" /\ defined = FALSE
  /\ reader = "parse" /\ pc = "main" /\ parse = "none" /\ failed = FALSE
  /\ object = FALSE
  /\ lines = 0 /\ sources = 0 /\ meant = FALSE /\ crossed = FALSE /\ left = FALSE
  /\ whole = FALSE

Directive ==
  \/ If \/ Ifdef \/ Ifndef \/ Elif \/ Else \/ Endif \/ Skip \/ Incomplete \/ Unknown
  \/ \E d \in BOOLEAN : Define(d)
  \/ \E error \in BOOLEAN : Message(error)
  \/ \E n \in LineNumbers : ChangeLocation(n)
  \/ IncludeFile \/ IncludeNotFound \/ IncludeTooDeep

Next ==
  \/ Text \/ SyntaxError \/ Directive \/ DataFile \/ EndFile
  \/ Garbage \/ EndInDirective \/ PopCondition \/ EndPop
  \/ JoinedText \/ JoinedDirective \/ JoinedEnd \/ Complete \/ Terminate \/ NextSource \/ Stopped

Spec == Init /\ [][Next]_vars

\* The process goes on while it is in a loop of its own.
FairSpec == Spec /\ WF_vars(PopCondition) /\ WF_vars(EndPop)

----------------------------------------------------------------------------
(* Properties. *)

\* The lexer skips exactly the lines outside of the branches that are selected,
\* and only directives inside of them have an effect, through included files,
\* errors and ends of files, if no file ends or changes a condition of another
\* one, and no directive that an included file ends in is carried out only when
\* that file is closed (crossed; cpp.c:1293, as21-lex.l:486).  One that is carried
\* out before is among them.  The code keeps it by one stack with three flags a condition; that a file
\* has conditions of its own is known only from first_condition.
SelectsWhatIsMeant ==
  pc = "lines" /\ ~ crossed /\ ~ left =>
    (mode = "on" <=> Selected(files)) /\ defined = meant

\* first_condition of every open file is the oldest one that the file has opened,
\* and none if it has none open, so that the end of a file closes its conditions
\* and no others.
OpenUpTo(i) ==
  LET sum[k \in 0 .. i] == IF k = 0 THEN 0 ELSE sum[k - 1] + Len(files[k].nest)
  IN sum[i]

FirstIsOldest ==
  ~ crossed =>
    /\ Len(conds) = OpenUpTo(Len(files))
    /\ \A i \in DOMAIN files :
         files[i].first = IF files[i].nest = <<>> THEN NoAddress
                          ELSE conds[OpenUpTo(i)].at

\* An error is reported at the line it is in, after #line and included files, as
\* long as each line of the file was counted once.
LocationIsRight ==
  pc = "lines" /\ ~ top.miscounted => top.line + top.delta = top.claimed

\* An object file is left only if its source was read to the end of the file, with
\* all its files closed, also when an included file ends in a directive, whose text
\* may then take in the rest of the source (as21.c:106-217, cpp.c:1283-1301).
ReadToEnd ==
  object /\ ~ left => whole /\ (pc = "main" => files = <<>>)

\* The end of a file is processed in finitely many steps.
PopEnds ==
  (pc \in {"wrap", "pop"} /\ ~ crossed) ~> (pc \notin {"wrap", "pop"})

=============================================================================
