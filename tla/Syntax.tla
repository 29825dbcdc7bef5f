------------------------------- MODULE Syntax -------------------------------
(***************************************************************************)
(* format_file (fmt.rs) over the lexer and the parser, run twice: a text is *)
(* lexed, parsed and, when it has no error, printed; the printed text then *)
(* goes through the same three loops.  Each loop of the code is an action, *)
(* one iteration a step.                                                   *)
(***************************************************************************)
EXTENDS Fmt

CONSTANTS Sources,             \* the texts
          Lexing(_, _),        \* the passes, one iteration each: LexToken,
          Parsing(_),          \* Item and
          Printing(_, _, _, _, _)   \* PrintToken
VARIABLES src, stage, lx, parser, tree, printer, next, pass, original
vars == <<src, stage, lx, parser, tree, printer, next, pass, original>>

Empty == [k |-> "none", lo |-> 1, hi |-> 1, kids |-> <<>>]
Init ==
  /\ src \in Sources
  /\ stage = "lex"
  /\ lx = NewLexer
  /\ parser = NewParser(<<>>)
  /\ tree = Empty
  /\ printer = NewPrinter
  /\ next = 1
  /\ pass = 1
  /\ original = <<>>

Errors == Len(lx.codes) + Len(parser.diags)

LexOne ==
  /\ stage = "lex" /\ lx.pos < Len(src)
  /\ lx' = Lexing(lx, src)
  /\ UNCHANGED <<src, stage, parser, tree, printer, next, pass, original>>

StartParse ==
  /\ stage = "lex" /\ lx.pos = Len(src)
  /\ stage' = "parse"
  /\ parser' = Start(NewParser(lx.toks), "SOURCE_FILE")
  /\ UNCHANGED <<src, lx, tree, printer, next, pass, original>>

ParseItem ==
  /\ stage = "parse" /\ ~AtEnd(parser)
  /\ parser' = Parsing(parser)
  /\ UNCHANGED <<src, stage, lx, tree, printer, next, pass, original>>

EndParse ==
  /\ stage = "parse" /\ AtEnd(parser)
  /\ parser' = SourceFile(parser)
  /\ tree' = parser'.kids[1]
  /\ stage' = IF Errors = 0 THEN "format" ELSE "rejected"
  /\ printer' = NewPrinter
  /\ next' = 1
  /\ UNCHANGED <<src, lx, pass, original>>

PrintOne ==
  /\ stage = "format" /\ next <= Len(lx.toks)
  /\ printer' = Printing(printer, next, tree, lx.toks, src)
  /\ next' = next + 1
  /\ UNCHANGED <<src, stage, lx, parser, tree, pass, original>>

\* The words of a text: its tokens but whitespace, a line comment without the
\* blanks at its end.
Words(toks, text) ==
  LET word(t) == IF t.kind = "comment" /\ TextAt(text, t.start, 2) = "//"
                 THEN TrimEnd(TokenText(text, t)) ELSE TokenText(text, t)
      kept == SelectSeq(toks, LAMBDA t : t.kind # "whitespace")
  IN [j \in 1 .. Len(kept) |-> word(kept[j])]

Reformat ==
  /\ stage = "format" /\ next > Len(lx.toks) /\ pass = 1
  /\ original' = Words(lx.toks, src)
  /\ src' = FinalText(printer)
  /\ pass' = 2
  /\ stage' = "lex"
  /\ lx' = NewLexer
  /\ UNCHANGED <<parser, tree, printer, next>>

EndFormat ==
  /\ stage = "format" /\ next > Len(lx.toks) /\ pass = 2
  /\ stage' = "done"
  /\ UNCHANGED <<src, lx, parser, tree, printer, next, pass, original>>

Next == LexOne \/ StartParse \/ ParseItem \/ EndParse \/ PrintOne \/ Reformat \/ EndFormat
Spec == Init /\ [][Next]_vars

(* ---- properties ---- *)
\* The parser's elements, finished and open alike, cover every token it has
\* consumed exactly once and in order, so the tree reproduces the text whatever
\* was wrong with it (lib.rs: the green tree is lossless); and every iteration of
\* the item loop consumes a token, the ones that recover from an error included.
RECURSIVE Covers(_)
Covers(node) ==
  IF node.kids = <<>> THEN node.lo <= node.hi
  ELSE /\ node.kids[1].lo = node.lo /\ node.kids[Len(node.kids)].hi = node.hi
       /\ \A j \in 1 .. (Len(node.kids) - 1) : node.kids[j].hi = node.kids[j + 1].lo
       /\ \A j \in 1 .. Len(node.kids) : Covers(node.kids[j])
Lossless ==
  /\ \A j \in 1 .. Len(lx.toks) :
       lx.toks[j].start = (IF j = 1 THEN 0 ELSE lx.toks[j - 1].end)
  /\ stage = "parse" =>
       LET k == parser.kids IN
       /\ Len(parser.open) = 1
       /\ \A j \in 1 .. Len(k) :
            Covers(k[j]) /\ k[j].lo = (IF j = 1 THEN 1 ELSE k[j - 1].hi)
       /\ parser.pos = (IF k = <<>> THEN 1 ELSE Last(k).hi)
       /\ ~AtEnd(parser) => Parsing(parser).pos > parser.pos
  /\ stage \in {"format", "rejected", "done"} =>
       Covers(tree) /\ tree.lo = 1 /\ tree.hi = Len(lx.toks) + 1 /\ parser.open = <<>>

\* A file the parser accepts has no node that stands for a hole: no ERROR node, no
\* name, list, type or block without tokens, which the formatter and the AST would
\* otherwise have to guess at.
RECURSIVE Whole(_)
Whole(node) ==
  /\ node.k # "ERROR" /\ node.lo < node.hi
  /\ \A j \in 1 .. Len(node.kids) : Whole(node.kids[j])
AcceptedIsWhole == stage \in {"format", "done"} => Whole(tree) \/ lx.toks = <<>>

\* Formatting moves whitespace only: the printed text is accepted again, with the
\* same words in the same order, comments included.
FormatPreserves ==
  /\ pass = 2 => stage # "rejected"
  /\ pass = 2 /\ stage \in {"parse", "format", "done"} => Words(lx.toks, src) = original

\* Formatting what was formatted changes nothing.
FormatIdempotent == stage = "done" => FinalText(printer) = src
=============================================================================
