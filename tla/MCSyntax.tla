------------------------------ MODULE MCSyntax ------------------------------
(***************************************************************************)
(* Texts for Syntax: broken ones, as every sequence of up to Depth pieces   *)
(* in three contexts, and whole programs with one gap of each kind at each *)
(* place.                                                                  *)
(***************************************************************************)
EXTENDS Syntax
CONSTANT Depth

Pieces == {"fn f()", "data D", "use a::", "(", "{", "}", "x", "=>", "..", "= 1;",
           "// c\n", "/* ", "'b", "match x", "if -", "[i32]", "mut", ",", "let"}
RECURSIVE Joined(_, _)
Joined(words, gap) ==
  IF words = <<>> THEN "" ELSE Head(words) \o gap \o Joined(Tail(words), gap)
Broken ==
  {c[1] \o Joined(s, " ") \o c[2] :
     c \in {<<"", "">>, <<"fn g(a: b) { ", " }">>, <<"data D { ", " }">>,
            <<"fn g() { match x { A => 1, ", " } }">>, <<"fn g() { f(a, ", "); }">>,
            <<"fn g() { P { x: 1, ", " }; }">>, <<"fn g(a: b, ", ") { }">>},
     s \in UNION {[1 .. n -> Pieces] : n \in 0 .. Depth}}

\* Each program is its tokens; a gap replaces the blank after one of them.
Programs ==
  {<<"use", "a", "::", "b", "as", "c", ";", "use", "d", ";", "fn", "f", "(", ")", "{", "}">>,
   <<"data", "D", "{", "x", ":", "i32", ";", "y", ":", "[", "D", "]", ";", "}">>,
   <<"data", "E", "{", "A", ";", "B", "(", "i32", ",", "m", "::", "T", ")", ";", "}">>,
   <<"fn", "f", "(", "mut", "a", ":", "D", ")", "->", "i32", "{", "return", "-", "a", ".", "x", ";", "}">>,
   <<"fn", "f", "(", ")", "{", "if", "(", "a", ")", "{", "b", "(", "1", ")", ";", "}",
     "else", "{", "x", "=", "y", "-", "!", "z", ";", "}", "}">>,
   <<"fn", "f", "(", ")", "{", "for", "i", "in", "0", "..", "{", "s", "[", "i", "]", "}",
     "a", "[", "1", "..", "]", "}">>,
   <<"fn", "f", "(", ")", "{", "match", "e", "{", "E", "::", "A", "(", "x", ")", "=>", "{", "}",
     ",", "_", "=>", "D", "{", "x", ":", "[", "]", "}", "}", "}">>}
Gaps == {"", "\n", " // c \n", "\n// c\n", " /* c */ ", "\n\n/* a\nb */\n"}
WithGap(words, at, gap) ==
  Joined(SubSeq(words, 1, at - 1), " ") \o words[at] \o gap
    \o Joined(SubSeq(words, at + 1, Len(words)), " ")
Gapped == UNION {{WithGap(w, at, g) : at \in 1 .. Len(w), g \in Gaps} : w \in Programs}
MCSources == Broken \cup Gapped
=============================================================================
