------------------------------- MODULE Lexer -------------------------------
(***************************************************************************)
(* lexer.rs and kinds.rs: a source text to its flat token sequence, trivia *)
(* included.  A token is its kind and the half-open range [start, end) of   *)
(* characters it covers, counted from 0 as in the code; a character stands  *)
(* for its bytes.  The kind of a punctuation mark or a keyword is its own   *)
(* text; the other kinds are words.                                         *)
(***************************************************************************)
EXTENDS Integers, Sequences

Digits == {"0", "1", "2", "3", "4", "5", "6", "7", "8", "9"}
Letters == {"a", "b", "c", "d", "e", "f", "g", "h", "i", "j", "k", "l", "m",
            "n", "o", "p", "q", "r", "s", "t", "u", "v", "w", "x", "y", "z",
            "A", "B", "C", "D", "E", "F", "G", "H", "I", "J", "K", "L", "M",
            "N", "O", "P", "Q", "R", "S", "T", "U", "V", "W", "X", "Y", "Z"}
IdentStart == Letters \cup {"_"}
IdentContinue == IdentStart \cup Digits
Space == {" ", "\t", "\n", "\r"}
Escapes == {"n", "t", "r", "0", "\\", "\"", "'"}

Punct2 == {"::", "..", "->", "-=", "==", "=>", "!=", "<=", "<<", ">=", ">>",
           "+=", "*=", "/=", "%=", "&&", "||"}
Punct1 == {"(", ")", "{", "}", "[", "]", ",", ";", "?", "@", "#", "~", "^", ":",
           ".", "-", "=", "!", "<", ">", "+", "*", "/", "%", "&", "|"}

\* keyword_kind; the words from `unsafe` on are reserved
UsedKeywords == {"data", "fn", "let", "return", "if", "else", "true", "false",
                 "use", "as"}
ReservedKeywords ==
  {"unsafe", "mut", "shared", "region", "parallel", "trait", "impl", "match",
   "for", "while", "loop", "break", "continue", "struct", "enum", "pub", "mod",
   "const", "static", "type", "where", "in", "move", "async", "await", "dyn",
   "try", "self", "Self", "super", "crate", "requires", "ensures", "invariant"}
Keywords == UsedKeywords \cup ReservedKeywords
Trivia == {"whitespace", "comment"}

\* The n characters from position p on, as far as the text goes.
TextAt(src, p, n) == SubSeq(src, p + 1, IF p + n > Len(src) THEN Len(src) ELSE p + n)
Peek(src, p) == TextAt(src, p, 1)          \* "" past the end: peek's None
TokenText(src, tok) == SubSeq(src, tok.start + 1, tok.end)

\* The first position from p on whose character is not in cs.
RECURSIVE SkipWhile(_, _, _)
SkipWhile(src, p, cs) ==
  IF p < Len(src) /\ Peek(src, p) \in cs THEN SkipWhile(src, p + 1, cs) ELSE p

Scan(kind, end, codes) == [kind |-> kind, end |-> end, codes |-> codes]

LineCommentEnd(src, p) ==
  CHOOSE q \in p .. Len(src) :
    /\ q = Len(src) \/ Peek(src, q) = "\n"
    /\ \A r \in p .. (q - 1) : Peek(src, r) # "\n"

RECURSIVE BlockComment(_, _)
BlockComment(src, p) ==
  IF p = Len(src) THEN Scan("comment", p, <<"UnterminatedComment">>)
  ELSE IF TextAt(src, p, 2) = "*/" THEN Scan("comment", p + 2, <<>>)
  ELSE BlockComment(src, p + 1)

Number(src, p) ==
  LET more == Digits \cup {"_"}
      int  == SkipWhile(src, p + 1, more)
      frac == IF Peek(src, int) = "." /\ Peek(src, int + 1) \in Digits
              THEN SkipWhile(src, int + 1, more) ELSE int
      sign == IF Peek(src, frac + 1) \in {"+", "-"} THEN 1 ELSE 0
      exp  == IF Peek(src, frac) \in {"e", "E"} /\ Peek(src, frac + 1 + sign) \in Digits
              THEN SkipWhile(src, frac + 1 + sign, more) ELSE frac
  IN Scan(IF exp > int THEN "float" ELSE "int", exp, <<>>)

\* string and char_lit share their scan: up to the closing quote, an unescaped
\* newline or the end of the text; an unknown escape is reported and skipped.
RECURSIVE Quoted(_, _, _, _, _)
Quoted(src, p, quote, kind, codes) ==
  CASE Peek(src, p) \in {"", "\n"} -> Scan(kind, p, Append(codes, "UnterminatedString"))
    [] Peek(src, p) = quote -> Scan(kind, p + 1, codes)
    [] Peek(src, p) = "\\" ->
         IF Peek(src, p + 1) = ""
         THEN Scan(kind, p + 1, Append(codes, "UnterminatedString"))
         ELSE Quoted(src, p + 2, quote, kind,
                     IF Peek(src, p + 1) \in Escapes THEN codes ELSE Append(codes, "Parse"))
    [] OTHER -> Quoted(src, p + 1, quote, kind, codes)

IdentOrKeyword(src, p) ==
  LET end == SkipWhile(src, p, IdentContinue)
      text == TextAt(src, p, end - p)
  IN Scan(IF text \in Keywords THEN text ELSE "ident", end, <<>>)

Punctuation(src, p) ==
  CASE TextAt(src, p, 2) \in Punct2 -> Scan(TextAt(src, p, 2), p + 2, <<>>)
    [] TextAt(src, p, 1) \in Punct1 -> Scan(TextAt(src, p, 1), p + 1, <<>>)
    [] OTHER -> Scan("error", p + 1, <<"UnexpectedCharacter">>)

\* One iteration of Lexer::run.
ScanAt(src, p) ==
  LET c == Peek(src, p)
  IN CASE c \in Space -> Scan("whitespace", SkipWhile(src, p, Space), <<>>)
       [] TextAt(src, p, 2) = "//" -> Scan("comment", LineCommentEnd(src, p), <<>>)
       [] TextAt(src, p, 2) = "/*" -> BlockComment(src, p + 2)
       [] c \in Digits -> Number(src, p)
       [] c = "\"" -> Quoted(src, p + 1, c, "string", <<>>)
       [] c = "'" -> Quoted(src, p + 1, c, "char", <<>>)
       [] c \in IdentStart -> IdentOrKeyword(src, p)
       [] OTHER -> Punctuation(src, p)

\* The loop of run: a lexer is its position, its tokens so far and the codes of
\* its diagnostics.
NewLexer == [pos |-> 0, toks |-> <<>>, codes |-> <<>>]
LexToken(lx, src) ==
  LET t == ScanAt(src, lx.pos)
  IN [pos |-> t.end, codes |-> lx.codes \o t.codes,
      toks |-> Append(lx.toks, [kind |-> t.kind, start |-> lx.pos, end |-> t.end])]
=============================================================================
