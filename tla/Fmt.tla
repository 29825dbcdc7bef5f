-------------------------------- MODULE Fmt --------------------------------
(***************************************************************************)
(* fmt.rs: the canonical text of a file that parsed without errors.  The   *)
(* formatter re-emits every token but whitespace, and chooses what to put  *)
(* before each from the token, the one before it and the nodes around it.  *)
(***************************************************************************)
EXTENDS Parser

Indent == "    "
LineKinds == {"USE_DECL", "DATA_DECL", "FN_DECL", "FIELD", "VARIANT", "LET_STMT",
              "ASSIGN_STMT", "RETURN_STMT", "EXPR_STMT", "MATCH_ARM"}
Braced == {"BLOCK", "DATA_DECL", "STRUCT_LIT", "MATCH_ARM_LIST"}

\* The nodes around token i, innermost first: parent_ancestors.
RECURSIVE Around(_, _)
Around(node, i) ==
  LET in == SelectSeq(node.kids, LAMBDA c : c.lo <= i /\ i < c.hi)
  IN IF in = <<>> THEN <<>> ELSE Append(Around(in[1], i), node)

\* A token as the formatter sees it.
Seen(root, toks, src, i) ==
  [i |-> i, kind |-> toks[i].kind, text |-> TokenText(src, toks[i]),
   start |-> toks[i].start, end |-> toks[i].end, around |-> Around(root, i)]
Parent(t) == Head(t.around)
\* Mutant: the comment that ends with its line is taken to be the block comment.
LineCommentSwapped(t) == t.kind = "comment" /\ TextAt(t.text, 0, 2) = "/*"
LineComment(t) == t.kind = "comment" /\ TextAt(t.text, 0, 2) = "//"

OpensIndent(t) == t.kind \in {"(", "["} \/ (t.kind = "{" /\ Parent(t).k \in Braced)
ClosesIndent(t) == t.kind \in {")", "]"} \/ (t.kind = "}" /\ Parent(t).k \in Braced)
IsBlockClose(t) == t.kind = "}" /\ Parent(t).k \in Braced \ {"STRUCT_LIT"}
IsPrefixOp(t) == t.kind \in {"-", "!"} /\ Parent(t).k = "PREFIX_EXPR"

\* Whether t starts a line: the kind of the line node if it is a top-level item,
\* "nested" if it is not, "no" when t is not the first token of a line node.
LinePos(t, toks) ==
  LET lines == SelectInSeq(t.around, LAMBDA n : n.k \in LineKinds)
      node == t.around[lines]
      before == {toks[j].kind : j \in node.lo .. (t.i - 1)}
      skipped == IF t.kind = "comment" THEN {"whitespace"} ELSE Trivia
  IN IF lines = 0 THEN "no"
     ELSE IF ~(before \subseteq skipped) THEN "no"
     ELSE IF lines = Len(t.around) - 1 THEN node.k ELSE "nested"

ItemKindOf(t) == IF Len(t.around) < 2 THEN "none" ELSE t.around[Len(t.around) - 1].k

\* Mutant: the character right after the first token is skipped.
NewlineAfterBlank(a, b, src) == \E p \in (a.end + 1) .. (b.start - 1) : Peek(src, p) = "\n"
NewlineBetween(a, b, src) == \E p \in a.end .. (b.start - 1) : Peek(src, p) = "\n"

\* What goes between the adjacent tokens prev and cur.
Separator(prev, cur, toks, src) ==
  LET line == LinePos(cur, toks)
      glues == \/ cur.kind \in {")", "]", ",", ";", ":", "::", ".", ".."}
               \/ cur.kind = "(" /\ prev.kind \notin Keywords
               \/ cur.kind = "[" /\ Parent(cur).k = "INDEX_EXPR"
               \/ prev.kind \in {"(", "[", ".", "::"}
               \/ prev.kind = ".." /\ Parent(prev) \in ToSet(cur.around)
               \/ IsPrefixOp(prev)
  IN CASE LineComment(prev) -> "newline"
       [] ~LineComment(prev) /\ prev.kind = "{" /\ cur.kind = "}" -> "none"
       [] ~LineComment(prev) /\ cur.kind = "comment" /\ ~NewlineBetween(prev, cur, src) -> "space"
       [] OTHER ->
            IF line = "nested" THEN "newline"
            ELSE IF line # "no"
            THEN IF prev.kind = "comment" \/ (line = "USE_DECL" /\ ItemKindOf(prev) = "USE_DECL")
                 THEN "newline" ELSE "blank line"
            ELSE IF cur.kind = "comment" \/ IsBlockClose(cur) THEN "newline"
            ELSE IF glues THEN "none" ELSE "space"

RECURSIVE TrimEnd(_)
TrimEnd(s) == IF Len(s) > 0 /\ Peek(s, Len(s) - 1) \in Space
              THEN TrimEnd(SubSeq(s, 1, Len(s) - 1)) ELSE s
RECURSIVE Indentation(_)
Indentation(n) == IF n = 0 THEN "" ELSE Indent \o Indentation(n - 1)

\* render: a printer is its text so far, its indentation and the last token it
\* emitted.  PrintToken is one iteration of its loop, for token i.
NewPrinter == [out |-> "", indent |-> 0, prev |-> 0]
PrintToken(pr, i, root, toks, src) ==
  LET cur == Seen(root, toks, src, i)
      sep == IF pr.prev = 0 THEN "none"
             ELSE Separator(Seen(root, toks, src, pr.prev), cur, toks, src)
      at == IF pr.prev # 0 /\ ClosesIndent(cur) /\ pr.indent > 0 THEN pr.indent - 1 ELSE pr.indent
      gap == CASE sep = "none" -> ""
               [] sep = "space" -> " "
               [] sep = "newline" -> "\n" \o Indentation(at)
               [] sep = "blank line" -> "\n\n" \o Indentation(at)
  IN IF cur.kind = "whitespace" THEN pr
     ELSE [out |-> pr.out \o gap \o (IF LineComment(cur) THEN TrimEnd(cur.text) ELSE cur.text),
           indent |-> IF OpensIndent(cur) THEN at + 1 ELSE at,
           prev |-> i]
FinalText(pr) == IF pr.out = "" THEN "" ELSE pr.out \o "\n"
=============================================================================
