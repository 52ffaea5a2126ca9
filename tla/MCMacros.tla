------------------------------ MODULE MCMacros ------------------------------
(* Two macros with every pair of texts from a list, one with a parameter   *)
(* and one with up to two, and files that call them in every way.  No      *)
(* directive stands between a macro and the parenthesis of its call.       *)
EXTENDS Macros

W(s) == Word(s)
Call(name, text) == <<W(name), <<"(">>>> \o text \o <<<<")">>>>
\* The texts: plain, pasted, quoted, with a label, with a call of the other, of
\* itself, and of one whose arguments follow the macro.
Texts ==
  {<<W("x")>>, <<Space, W("a"), <<"##">>, W("x"), Space>>,
   <<<<"#">>, W("x"), W("f")>>, <<<<"?", "l">>, Space, W("f")>>,
   <<W("g"), Space, W("x")>>, Call("g", <<W("x"), <<",">>, W("b")>>),
   Call("g", <<W("x"), <<"##">>, W("b")>>), <<W("f"), Space, W("g")>>,
   Call("f", Call("g", <<W("x")>>)), <<W("x"), <<"(">>, W("x")>>, << >>}

Uses ==
  {Call("f", <<W("a")>>), Call("f", <<W("g")>>) \o Call("f", <<W("b")>>),
   <<W("f"), Space>> \o Call("g", <<Space, Space, W("f"), <<",">>, W("a")>>),
   Call("f", Call("f", <<W("a"), <<",">>, W("g")>>)) \o <<<<")">>>>,
   <<W("g")>> \o Call("f", << >>) \o <<Space, W("g"), <<"(">>, W("a")>>,
   Call("g", <<W("c")>>) \o <<W("y"), <<"undef", "g">>, Space>> \o Call("g", <<W("c")>>)
     \o <<W("y"), <<"define", "g", << >>, <<W("f")>>>>>> \o Call("g", <<W("d")>>)}

Define2(name, parameters, text) == <<"define", name, parameters, text>>
MCSources ==
  {<<Define2("f", <<"x">>, text1), Define2("g", parameters, text2)>> \o use :
     text1 \in Texts, text2 \in Texts \ {<<<<"#">>, W("x"), W("f")>>},
     parameters \in {<< >>, <<"x">>, <<"x", "y">>}, use \in Uses}
  \cup {<<Define2("f", <<"x">>, text1), Define2("f", <<"x">>, text2)>>
          \o Call("f", <<W("a")>>) :
          text1 \in Texts,
          text2 \in {<<W("x")>>, <<<<"##">>, W("a"), <<"##">>>>}}
=============================================================================
