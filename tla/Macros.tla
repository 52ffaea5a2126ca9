------------------------------- MODULE Macros -------------------------------
(***************************************************************************)
(* Macros of as21 (as21/cpp.c, symbol.c, as21-lex.l): #define collects a   *)
(* text with places for parameters; a name that is a macro is replaced by  *)
(* its text, which the lexer then reads before it goes on with the file.   *)
(* Conditions and files are in Preprocessor; here the source is one file.  *)
(*                                                                         *)
(* A token is <<kind>> or <<kind, what>>.  Words that nothing separates    *)
(* are one name.  Strings between double quotes, which collect_text joins, *)
(* are not in the sources.                                                 *)
(***************************************************************************)
EXTENDS Integers, Sequences, FiniteSets
LOCAL INSTANCE SequencesExt

CONSTANT
  \* Files: sequences of tokens and of the directives
  \* <<"define", name, parameters, text>> and <<"undef", name>>.
  Sources

VARIABLES
  source,
  pc,       \* "scan"; "paren" or "arguments" of a call; "done" or "aborted"
  stack,    \* the texts being read, the file last: [name, text]
  macros,   \* the definition of each macro: [parameters, body, references]
  call,     \* the macro being called, its arguments so far and its nesting
  output,   \* the names and tokens that the grammar gets
  errors

vars == <<source, pc, stack, macros, call, output, errors>>

Word(w) == <<"word", w>>
Space == <<" ">>
IsWord(token) == token[1] \in {"word", "number"}
IsDirective(token) == token[1] \in {"define", "undef"}
NoCall == [name |-> << >>, arguments |-> << >>, nesting |-> 0]
-----------------------------------------------------------------------------
(* #define: names of parameters become places for the arguments; "#" puts  *)
(* one into quotes, "##" only takes the space away, and a word with "?"    *)
(* gets the number of the reference.                                       *)

Collect(parameters, so_far, token) ==
  LET put == CASE token[1] = "word" /\ token[2] \in Range(parameters) ->
                    <<<<"parameter", CHOOSE i \in DOMAIN parameters :
                         parameters[i] = token[2]>>>>
               [] token[1] = "?"  -> <<Word(token[2]), <<"count">>>>
               [] token[1] = "##" -> << >>
               [] token[1] = "#"  -> <<<<"stringize">>>>
               [] OTHER -> <<token>>
  IN [body |-> so_far.body \o put, last |-> token,
      errors |-> so_far.errors \cup
        IF token[1] = "##" /\ so_far.last = << >>
          THEN {"'##' at the beginning"} ELSE {}]

cpp_collect_macro(parameters, text) ==
  LET all == FoldLeft(LAMBDA so_far, token : Collect(parameters, so_far, token),
                      [body |-> << >>, last |-> << >>, errors |-> {}], text)
  IN [all EXCEPT !.errors = @ \cup IF all.last = <<"##">>
                                     THEN {"'##' at the end"} ELSE {}]

\* define_macro: a definition is compared by the number of its places and the
\* text around them, not by what the places are for.
IsPlace(b) == b[1] \in {"parameter", "stringize", "count"}
Same(body1, body2) ==
  /\ Len(SelectSeq(body1, IsPlace)) = Len(SelectSeq(body2, IsPlace))
  /\ SelectSeq(body1, LAMBDA b : ~IsPlace(b))
       = SelectSeq(body2, LAMBDA b : ~IsPlace(b))

\* build_macro: the text for a call.
build_macro(body, arguments, count) ==
  FlattenSeq(
    [i \in DOMAIN body |->
       LET b == body[i]
       IN CASE b[1] = "stringize" -> << >>
            [] b[1] = "count" -> <<<<"number", count>>>>
            [] b[1] = "parameter" /\ i > 1 /\ body[i - 1] = <<"stringize">> ->
                 <<<<"string", arguments[b[2]]>>>>
            [] b[1] = "parameter" -> arguments[b[2]]
            [] OTHER -> <<b>>])

\* The assertions of build_macro: a parameter follows "#".
CanBuild(body) ==
  \A i \in DOMAIN body : body[i] = <<"stringize">> =>
    i < Len(body) /\ body[i + 1][1] = "parameter"
-----------------------------------------------------------------------------
(* The lexer reads the text on top; at its end it goes on below.           *)

Text == stack[1].text
Top(text) == [stack EXCEPT ![1].text = text]
\* The words at the start of a text are one name.
NameLength(text) ==
  CHOOSE n \in 0 .. Len(text) :
    /\ \A i \in 1 .. n : IsWord(text[i])
    /\ n < Len(text) => ~IsWord(text[n + 1])
Name == SubSeq(Text, 1, NameLength(Text))
After(n) == Top(SubSeq(Text, n + 1, Len(Text)))
\* Only the text that is being read is looked at.
ExpandingMutant == {stack[i].name : i \in 1 .. 1 \cap 1 .. Len(stack) - 1}
Expanding == {stack[i].name : i \in 1 .. Len(stack) - 1}

Init ==
  /\ source \in Sources
  /\ pc = "scan" /\ output = << >> /\ errors = {} /\ call = NoCall
  /\ stack = <<[name |-> << >>, text |-> source]>>
  /\ macros = [n \in {} |-> 0]

\* Spaces are passed over, but not in the list of arguments.
SkipSpace ==
  /\ pc \in {"scan", "paren"} /\ Text # << >> /\ Head(Text) = Space
  /\ stack' = After(1)
  /\ UNCHANGED <<source, pc, macros, call, output, errors>>

\* cpp_wrap, cpp_pop_macro
Pop ==
  /\ pc \in {"scan", "paren", "arguments"}
  /\ Text = << >> /\ Len(stack) > 1
  /\ stack' = Tail(stack)
  /\ UNCHANGED <<source, pc, macros, call, output, errors>>

\* symbol.c, define_macro.  The text that is kept has no end mark, so that a
\* definition that is the same may be found different (symbol.c:414).
Define ==
  /\ pc = "scan" /\ Text # << >> /\ Head(Text)[1] = "define"
  /\ LET name == <<Word(Head(Text)[2])>>
         new == cpp_collect_macro(Head(Text)[3], Head(Text)[4])
         told == errors \cup new.errors
     IN IF name \in DOMAIN macros
          THEN /\ \/ errors' = told \cup {"Attempt to redefine a macro"}
                  \/ Same(new.body, macros[name].body) /\ errors' = told
               /\ UNCHANGED macros
          ELSE /\ macros' = [n \in DOMAIN macros \cup {name} |->
                    IF n = name THEN [parameters |-> Len(Head(Text)[3]),
                                      body |-> new.body, references |-> 0]
                                ELSE macros[n]]
               /\ errors' = told
  /\ stack' = After(1)
  /\ UNCHANGED <<source, pc, call, output>>

\* undefine_macro
Undefine ==
  /\ pc = "scan" /\ Text # << >> /\ Head(Text)[1] = "undef"
  /\ macros' = [n \in DOMAIN macros \ {<<Word(Head(Text)[2])>>} |-> macros[n]]
  /\ stack' = After(1)
  /\ UNCHANGED <<source, pc, call, output, errors>>

\* A token that is no name, or a name that is no macro.
Deliver ==
  /\ pc = "scan" /\ Text # << >>
  /\ Head(Text) # Space /\ ~IsDirective(Head(Text))
  /\ Name \notin DOMAIN macros
  /\ IF Name = << >> THEN output' = Append(output, <<Head(Text)>>)
                     ELSE output' = Append(output, Name)
  /\ stack' = After(IF Name = << >> THEN 1 ELSE Len(Name))
  /\ UNCHANGED <<source, pc, macros, call, errors>>

\* find_macro counts the references, also those that do not expand.
Found == [macros EXCEPT ![Name].references = @ + 1]
IsMacro == pc = "scan" /\ Text # << >> /\ Name \in DOMAIN macros

\* cpp_push_macro: a macro is not expanded in its own text.
AlreadyExpanding ==
  /\ IsMacro /\ Name \in Expanding
  /\ macros' = Found
  /\ output' = Append(output, Name)
  /\ stack' = After(Len(Name))
  /\ UNCHANGED <<source, pc, call, errors>>

\* The text of macro name is read next, before what is left of the stack.
Push(name, arguments, rest) ==
  LET m == macros'[name]
  IN IF CanBuild(m.body)
       THEN /\ stack' = <<[name |-> name, text |->
                            build_macro(m.body, arguments, m.references)]>>
                          \o rest
            /\ pc' = "scan"
       ELSE pc' = "aborted" /\ stack' = rest

PushSimple ==
  /\ IsMacro /\ Name \notin Expanding /\ macros[Name].parameters = 0
  /\ macros' = Found
  /\ Push(Name, << >>, After(Len(Name)))
  /\ UNCHANGED <<source, call, output, errors>>

StartCall ==
  /\ IsMacro /\ Name \notin Expanding /\ macros[Name].parameters > 0
  /\ macros' = Found
  /\ pc' = "paren" /\ call' = [NoCall EXCEPT !.name = Name]
  /\ stack' = After(Len(Name))
  /\ UNCHANGED <<source, output, errors>>
-----------------------------------------------------------------------------
(* collect_arguments and collect_one_argument: nothing is expanded here,   *)
(* and the list may go on where the text it began in has ended.            *)

OpenParen ==
  /\ pc = "paren" /\ Text # << >> /\ Head(Text) = <<"(">>
  /\ pc' = "arguments" /\ call' = [call EXCEPT !.arguments = <<<< >>>>]
  /\ stack' = After(1)
  /\ UNCHANGED <<source, macros, output, errors>>

WrongNumber == "Wrong number of parameters provided for macro"
\* The token that is no parenthesis has been read, and is lost with the name.
NoParen ==
  /\ pc = "paren" /\ Text # << >>
  /\ Head(Text) \notin {Space, <<"(">>} /\ ~IsDirective(Head(Text))
  /\ errors' = errors \cup {WrongNumber}
  /\ pc' = "scan" /\ call' = NoCall
  /\ stack' = After(IF Name = << >> THEN 1 ELSE Len(Name))
  /\ UNCHANGED <<source, macros, output>>

Reading == pc = "arguments" /\ Text # << >> /\ ~IsDirective(Head(Text))
Closes == call.nesting = 0 /\ Head(Text) = <<")">>
Separates == call.nesting = 0 /\ Head(Text) = <<",">>

\* Spaces that follow one another are taken as one.
CollectArgument ==
  /\ Reading /\ ~Closes /\ ~Separates
  /\ LET token == Head(Text)
         one == call.arguments[Len(call.arguments)]
         again == token = Space /\ Len(Text) > 1 /\ Text[2] = Space
     IN call' = [call EXCEPT
          !.arguments[Len(call.arguments)] =
             IF again THEN @ ELSE Append(@, token),
          !.nesting = CASE token = <<"(">> -> @ + 1
                        [] token = <<")">> -> @ - 1
                        [] OTHER -> @]
  /\ stack' = After(1)
  /\ UNCHANGED <<source, pc, macros, output, errors>>

NextArgument ==
  /\ Reading /\ Separates
  /\ call' = [call EXCEPT !.arguments = Append(@, << >>)]
  /\ stack' = After(1)
  /\ UNCHANGED <<source, pc, macros, output, errors>>

EndCall ==
  /\ Reading /\ Closes
  /\ UNCHANGED macros
  /\ IF Len(call.arguments) = macros[call.name].parameters
       THEN Push(call.name, call.arguments, After(1)) /\ UNCHANGED errors
       ELSE /\ errors' = errors \cup {WrongNumber}
            /\ pc' = "scan" /\ stack' = After(1)
  /\ call' = NoCall
  /\ UNCHANGED <<source, output>>

\* The end of the file is not looked for.
EndOfFileMutant ==
  /\ pc \in {"paren", "arguments"} /\ Text = << >> /\ Len(stack) = 1
  /\ UNCHANGED vars

\* The file ends in a call: without its parenthesis the name is lost, in the
\* arguments the name is delivered.
EndOfFile ==
  /\ pc \in {"paren", "arguments"} /\ Text = << >> /\ Len(stack) = 1
  /\ errors' = errors \cup {WrongNumber} \cup
       IF pc = "arguments" THEN {"Unexpected end of file in macro"} ELSE {}
  /\ output' = IF pc = "arguments" THEN Append(output, call.name) ELSE output
  /\ pc' = "scan" /\ call' = NoCall
  /\ UNCHANGED <<source, stack, macros>>

End ==
  /\ pc = "scan" /\ Text = << >> /\ Len(stack) = 1
  /\ pc' = "done"
  /\ UNCHANGED <<source, stack, macros, call, output, errors>>

Next ==
  \/ SkipSpace \/ Pop \/ Define \/ Undefine \/ Deliver
  \/ AlreadyExpanding \/ PushSimple \/ StartCall
  \/ OpenParen \/ NoParen \/ CollectArgument \/ NextArgument \/ EndCall
  \/ EndOfFile \/ End

Spec == Init /\ [][Next]_vars
\* The assembler runs until it has read its input.
FairSpec == Spec /\ WF_vars(Next)
-----------------------------------------------------------------------------
(* What the macros of a file mean, without a stack: each token has the set *)
(* of the macros in whose text it is, and these are not expanded there.    *)
(* An end of a text is a token <<"|">>, as words do not join over it.      *)

Hide(text, names) ==
  [i \in DOMAIN text |-> [token |-> text[i], hidden |-> names]]
Depth(ts, i) ==
  Cardinality({j \in 1 .. i : ts[j].token = <<"(">>})
    - Cardinality({j \in 1 .. i : ts[j].token = <<")">>})
\* The arguments in a list that starts with "(" and ends with its ")".
Arguments(ts) ==
  LET cuts == {1, Len(ts)} \cup
                {i \in DOMAIN ts : ts[i].token = <<",">> /\ Depth(ts, i) = 1}
      cut == SetToSortSeq(cuts, <)
      Kept(i) == /\ ts[i].token # <<"|">>
                 /\ ~(ts[i].token = Space /\ ts[i + 1].token = Space)
  IN [k \in 1 .. Len(cut) - 1 |->
        LET at == SetToSortSeq({i \in cut[k] + 1 .. cut[k + 1] - 1 : Kept(i)}, <)
        IN [n \in DOMAIN at |-> ts[at[n]].token]]

NoMacros == [n \in {} |-> 0]
Alike(got, meant) ==
  /\ Len(got) = Len(meant)
  /\ \A i \in DOMAIN got :
       got[i] = meant[i] \/ (meant[i] = <<<<"open">>>> /\ got[i][1][1] = "string")

\* The text of a call; Quoted gives what "#" makes of an argument.
MeantText(body, arguments, count, Quoted(_)) ==
  LET IsQuoted(i) == i \in 2 .. Len(body) /\ body[i - 1] = <<"stringize">>
      Put(i) == CASE body[i][1] = "stringize" -> << >>
                  [] body[i][1] = "count" -> <<<<"number", count>>>>
                  [] body[i][1] = "parameter" /\ IsQuoted(i) ->
                       <<Quoted(arguments[body[i][2]])>>
                  [] body[i][1] = "parameter" -> arguments[body[i][2]]
                  [] OTHER -> <<body[i]>>
  IN FlattenSeq([i \in DOMAIN body |-> Put(i)])

RECURSIVE Meant(_, _)
Meant(ts, table) ==
  IF ts = << >> THEN << >>
  ELSE
    LET token == ts[1].token
        hidden == ts[1].hidden
        n == NameLength([i \in DOMAIN ts |-> ts[i].token])
        name == [i \in 1 .. n |-> ts[i].token]
        rest == SubSeq(ts, n + 1, Len(ts))
        counted == [table EXCEPT ![name].references = @ + 1]
        \* An argument that has something to expand, or to quote again, is open.
        Quoted(argument) ==
          IF /\ Range(Meant(Hide(argument, {}), NoMacros)) \cap DOMAIN table = {}
             /\ \A i \in DOMAIN argument : argument[i][1] \notin {"string", "open"}
            THEN <<"string", argument>> ELSE <<"open">>
        Expand(arguments, names, after) ==
          Meant(Hide(MeantText(table[name].body, arguments,
                               counted[name].references, Quoted), names)
                  \o Hide(<<<<"|">>>>, {}) \o after, counted)
        opens == {i \in DOMAIN rest : rest[i].token \notin {Space, <<"|">>}}
        open == CHOOSE i \in opens : \A j \in opens : i <= j
        list == SubSeq(rest, open, Len(rest))
        ends == {i \in DOMAIN list : Depth(list, i) = 0}
        close == CHOOSE i \in ends : \A j \in ends : i <= j
        arguments == Arguments(SubSeq(list, 1, close))
    IN CASE token \in {Space, <<"|">>} -> Meant(Tail(ts), table)
         [] token[1] = "undef" ->
              Meant(Tail(ts), [x \in DOMAIN table \ {<<Word(token[2])>>} |->
                                 table[x]])
         [] token[1] = "define" ->
              Meant(Tail(ts), [x \in DOMAIN table \cup {<<Word(token[2])>>} |->
                IF x \in DOMAIN table THEN table[x]
                ELSE [parameters |-> Len(token[3]), references |-> 0,
                      body |-> cpp_collect_macro(token[3], token[4]).body]])
         [] n = 0 /\ ~IsDirective(token) /\ token \notin {Space, <<"|">>} ->
              <<<<token>>>> \o Meant(Tail(ts), table)
         [] n > 0 /\ name \notin DOMAIN table -> <<name>> \o Meant(rest, table)
         [] n > 0 /\ name \in DOMAIN table /\ name \in hidden ->
              <<name>> \o Meant(rest, counted)
         [] n > 0 /\ name \in DOMAIN table \ hidden ->
              IF table[name].parameters = 0
                THEN Expand(<< >>, hidden \cup {name}, rest)
              ELSE IF \/ opens = {} \/ list[1].token # <<"(">>
                      \/ ends = {} \/ Len(arguments) # table[name].parameters
                THEN <<<<<<"wrong">>>>>>
              ELSE Expand(arguments, list[close].hidden \cup {name},
                          SubSeq(list, close + 1, Len(list)))

\* What the grammar gets is what the macros mean, wherever their texts and the
\* arguments of their calls begin and end; a call that has not its arguments is
\* told, and no other (cpp_push_macro, cpp_pop_macro, collect_arguments).  What
\* "#" makes of an argument that names a macro, and of a string, is left open, and
\* so is the kind of the quotes: the manual has the argument expanded and put into
\* double quotes (man1/as218x.1:157), build_macro puts it as it is into single ones.
ExpandsAsMeant ==
  pc = "done" =>
    LET meant == Meant(Hide(source, {}), NoMacros)
    IN IF WrongNumber \in errors
         THEN <<<<"wrong">>>> \in Range(meant)
         ELSE Alike(output, meant)

\* Macros that use one another or themselves are expanded a finite number of
\* times: the assembler comes to the end of its input.
Ends == <>(pc = "done")
=============================================================================
