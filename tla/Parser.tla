------------------------------- MODULE Parser -------------------------------
(***************************************************************************)
(* parser.rs: the recursive-descent parser, from the token sequence to the *)
(* lossless tree.  One operator per grammar function, each taking the      *)
(* parser and returning it.  The parser is the token cursor, rowan's tree  *)
(* builder (the elements finished so far, and the open nodes with the      *)
(* number of elements before each) and the diagnostics, of which only the  *)
(* token they point at is kept.                                            *)
(*                                                                         *)
(* An element of the tree covers the tokens lo .. hi - 1; a token is an    *)
(* element without children whose kind is the token's.                     *)
(***************************************************************************)
EXTENDS Lexer, SequencesExt

NewParser(toks) == [toks |-> toks, pos |-> 1, kids |-> <<>>, open |-> <<>>, diags |-> <<>>]

(* ---- the token cursor ---- *)
KindAt(p, i) == IF i > Len(p.toks) THEN "eof" ELSE p.toks[i].kind

RECURSIVE NonTrivia(_, _)
NonTrivia(p, i) == IF KindAt(p, i) \in Trivia THEN NonTrivia(p, i + 1) ELSE i

Here(p) == NonTrivia(p, p.pos)
Current(p) == KindAt(p, Here(p))
Second(p) == KindAt(p, NonTrivia(p, Here(p) + 1))       \* nth(1)
At(p, kind) == Current(p) = kind
AtAny(p, kinds) == Current(p) \in kinds
AtEnd(p) == At(p, "eof")

Leaf(p, i) == [k |-> p.toks[i].kind, lo |-> i, hi |-> i + 1, kids |-> <<>>]
TakeTo(p, next) ==
  [p EXCEPT !.pos = next,
            !.kids = @ \o [i \in 1 .. (next - p.pos) |-> Leaf(p, p.pos + i - 1)]]
BumpTrivia(p) == TakeTo(p, Here(p))
\* Mutant: the blanks before a token stay out of the tree.
BumpBare(p) == IF AtEnd(p) THEN p ELSE TakeTo([p EXCEPT !.pos = Here(p)], Here(p) + 1)
Bump(p) == TakeTo(p, IF AtEnd(p) THEN Here(p) ELSE Here(p) + 1)
Eat(p, kind) == IF At(p, kind) THEN Bump(p) ELSE p

(* ---- the tree builder and the diagnostics ---- *)
Checkpoint(p) == Len(p.kids)
StartAt(p, cp, kind) == [p EXCEPT !.open = Append(@, [k |-> kind, first |-> cp])]
Start(p, kind) == StartAt(p, Checkpoint(p), kind)
Finish(p) ==
  LET o == Last(p.open)
      kids == SubSeq(p.kids, o.first + 1, Len(p.kids))
      lo == IF kids = <<>> THEN p.pos ELSE Head(kids).lo
      node == [k |-> o.k, lo |-> lo, hi |-> p.pos, kids |-> kids]
  IN [p EXCEPT !.open = Front(@), !.kids = Append(SubSeq(@, 1, o.first), node)]
Wrap(p, cp, kind) == Finish(StartAt(p, cp, kind))

Error(p) == [p EXCEPT !.diags = Append(@, Here(p))]
Expect(p, kind) == IF At(p, kind) THEN Bump(p) ELSE Error(p)
RECURSIVE SkipTo(_, _)
SkipTo(p, recovery) ==
  IF AtEnd(p) \/ AtAny(p, recovery) THEN p ELSE SkipTo(Bump(p), recovery)
ErrRecover(p, recovery) ==
  LET e == Error(p)
  IN IF AtAny(e, recovery) \/ AtEnd(e) THEN e
     ELSE Finish(SkipTo(Start(e, "ERROR"), recovery))

(* ---- names and types ---- *)
\* Mutant: a missing name is left out in silence.
NameNodeSilent(p, node, keywords) ==
  LET s == Start(p, node)
  IN Finish(IF At(s, "ident") \/ AtAny(s, keywords) THEN Bump(s) ELSE s)
\* Name declares, NameRef refers; the first takes any keyword (with an error) for
\* the name, the second the reserved ones.
NameNode(p, node, keywords) ==
  LET s == Start(p, node)
  IN Finish(CASE At(s, "ident") -> Bump(s)
              [] AtAny(s, keywords) -> Bump(Error(s))
              [] OTHER -> Error(s))
Name(p) == NameNode(p, "NAME", Keywords)
NameRef(p) == NameNode(p, "NAME_REF", ReservedKeywords)

RECURSIVE PathRest(_, _)                                  \* (:: segment)*
PathRest(p, decl) ==
  IF At(p, "::") THEN PathRest(IF decl THEN Name(Bump(p)) ELSE NameRef(Bump(p)), decl) ELSE p

RECURSIVE TypeRef(_)
TypeRef(p) ==
  LET s == Start(p, "TYPE_REF")
  IN Finish(IF At(s, "[") THEN Expect(TypeRef(Bump(s)), "]") ELSE PathRest(Name(s), TRUE))

UseDecl(p) ==
  LET path == PathRest(NameRef(Bump(Start(p, "USE_DECL"))), FALSE)
  IN Finish(Expect(IF At(path, "as") THEN Name(Bump(path)) ELSE path, ";"))

CanStartExpr(kind) ==
  kind \in {"int", "float", "string", "char", "true", "false", "ident", "(", "{", "[",
            "if", "for", "match", "-", "!", ".."}
UnaryBp == 13
InfixOps == {"..", "||", "&&", "==", "!=", "<", "<=", ">", ">=", "+", "-", "*", "/", "%"}
LeftBp(op) ==
  CASE op = ".." -> 0
    [] op = "||" -> 1
    [] op = "&&" -> 3
    [] op \in {"==", "!="} -> 5
    [] op \in {"<", "<=", ">", ">="} -> 7
    [] op \in {"+", "-"} -> 9
    [] OTHER -> 11

(* ---- expressions ---- *)
RECURSIVE ExprBp(_, _, _), Postfix(_, _), Infix(_, _, _, _), Atom(_, _), Block(_),
          Stmts(_), Stmt(_), CommaList(_, _, _), IfExpr(_)

Expr(p) == ExprBp(p, 0, TRUE)
HeadExpr(p) == ExprBp(p, 0, FALSE)          \* before a `{` that opens a block
\* A bare `{` is never a range bound.
Bound(p, bp, struct) ==
  IF CanStartExpr(Current(p)) /\ ~At(p, "{") THEN ExprBp(p, bp, struct) ELSE p

ExprBp(p, minBp, struct) ==
  LET cp == Checkpoint(p)
      prefix == CASE AtAny(p, {"-", "!"}) ->
                       Finish(ExprBp(Bump(Start(p, "PREFIX_EXPR")), UnaryBp, struct))
                  [] At(p, "..") -> Finish(Bound(Bump(Start(p, "RANGE")), 0, struct))
                  [] OTHER -> Atom(p, struct)
  IN Infix(Postfix(prefix, cp), cp, minBp, struct)

ArgList(p) == Finish(Expect(CommaList(Bump(Start(p, "ARG_LIST")), ")", "argument"), ")"))
IndexContent(p) == IF CanStartExpr(Current(p)) THEN Expr(p) ELSE Error(p)

Postfix(p, cp) ==
  CASE At(p, "(") -> Postfix(Finish(ArgList(StartAt(p, cp, "CALL_EXPR"))), cp)
    [] At(p, ".") -> Postfix(Finish(NameRef(Bump(StartAt(p, cp, "FIELD_EXPR")))), cp)
    [] At(p, "[") ->
         Postfix(Finish(Expect(IndexContent(Bump(StartAt(p, cp, "INDEX_EXPR"))), "]")), cp)
    [] OTHER -> p

Infix(p, cp, minBp, struct) ==
  LET op == Current(p)
  IN IF op \notin InfixOps \/ (op \in InfixOps /\ LeftBp(op) < minBp) THEN p
     ELSE IF op = ".."
          THEN Infix(Finish(Bound(Bump(StartAt(p, cp, "RANGE")), LeftBp(op) + 1, struct)),
                     cp, minBp, struct)
          ELSE Infix(Finish(ExprBp(Bump(StartAt(p, cp, "BIN_EXPR")), LeftBp(op) + 1, struct)),
                     cp, minBp, struct)

ForExpr(p) ==
  LET var == Name(Eat(Bump(Start(p, "FOR_EXPR")), "mut"))
  IN Finish(Block(HeadExpr(Expect(var, "in"))))

IfExpr(p) ==
  LET then == Block(HeadExpr(Bump(Start(p, "IF_EXPR"))))
      else == Bump(then)
  IN Finish(IF ~At(then, "else") THEN then
            ELSE IF At(else, "if") THEN IfExpr(else) ELSE Block(else))

MatchExpr(p) ==
  LET m == Bump(Start(p, "MATCH_EXPR"))
      arms == Start(IF CanStartExpr(Current(m)) THEN HeadExpr(m) ELSE Error(m),
                    "MATCH_ARM_LIST")
      list == IF At(arms, "{") THEN Expect(CommaList(Bump(arms), "}", "arm"), "}")
              ELSE Error(arms)
  IN Finish(Finish(list))

Pattern(p) ==
  CASE At(p, "ident") /\ Second(p) \in {"::", "("} ->
         LET path == PathRest(NameRef(Start(p, "PAT_VARIANT")), FALSE)
         IN Finish(IF At(path, "(")
                   THEN Expect(CommaList(Bump(path), ")", "binding"), ")") ELSE path)
    [] At(p, "ident") -> Finish(Name(Start(p, "PAT_BIND")))
    [] AtAny(p, Keywords) -> Bump(Error(p))
    [] OTHER -> ErrRecover(p, {"=>", ",", "}"})

MatchArm(p) ==
  LET a == Expect(Pattern(Start(p, "MATCH_ARM")), "=>")
  IN Finish(IF CanStartExpr(Current(a)) THEN Expr(a) ELSE Error(a))

NameAtom(p, struct) ==                    \* x, m::x, S { .. }, m::S { .. }
  LET cp == Checkpoint(p)
      first == NameRef(p)
      path == IF At(first, "::") THEN Wrap(PathRest(first, FALSE), cp, "PATH_EXPR") ELSE first
      lit == CommaList(Expect(StartAt(path, cp, "STRUCT_LIT"), "{"), "}", "initializer")
  IN IF struct /\ At(path, "{") THEN Finish(Expect(lit, "}")) ELSE path

Atom(p, struct) ==
  CASE AtAny(p, {"int", "float", "string", "char", "true", "false"}) ->
         Finish(Bump(Start(p, "LITERAL")))
    [] At(p, "if") -> IfExpr(p)
    [] At(p, "for") -> ForExpr(p)
    [] At(p, "match") -> MatchExpr(p)
    [] At(p, "[") -> Finish(Expect(CommaList(Bump(Start(p, "ARRAY_EXPR")), "]", "element"), "]"))
    [] At(p, "(") -> Finish(Expect(Expr(Bump(Start(p, "PAREN_EXPR"))), ")"))
    [] At(p, "{") -> Block(p)
    [] At(p, "ident") -> NameAtom(p, struct)
    [] AtAny(p, {";", "}", ")", ",", "eof"}) -> Wrap(Error(p), Checkpoint(p), "ERROR")
    [] OTHER -> Finish(Bump(Start(Error(p), "ERROR")))     \* reserved words included

Param(p) == Finish(TypeRef(Expect(Name(Eat(Start(p, "PARAM"), "mut")), ":")))

\* One member of a comma-separated list.
ListItem(p, what) ==
  CASE what = "argument" ->
         IF CanStartExpr(Current(p)) THEN Expr(p) ELSE ErrRecover(p, {",", ")"})
    [] what = "element" ->
         IF CanStartExpr(Current(p)) THEN Expr(p) ELSE ErrRecover(p, {",", "]"})
    [] what = "payload" ->
         IF AtAny(p, {"ident", "["}) THEN TypeRef(p) ELSE ErrRecover(p, {",", ")"})
    [] what = "param" ->
         IF AtAny(p, {"ident", "mut"}) THEN Param(p) ELSE ErrRecover(p, {",", ")"})
    [] what = "binding" ->
         IF At(p, "ident") THEN Finish(Name(Start(p, "PAT_BIND"))) ELSE ErrRecover(p, {",", ")"})
    [] what = "initializer" ->
         IF At(p, "ident")
         THEN Finish(Expr(Expect(NameRef(Start(p, "STRUCT_LIT_FIELD")), ":")))
         ELSE ErrRecover(p, {",", "}", "ident"})
    [] what = "arm" -> MatchArm(p)

CommaList(p, close, what) ==
  IF AtEnd(p) \/ At(p, close) THEN p
  ELSE LET q == ListItem(p, what)
       IN IF At(q, ",") THEN CommaList(Bump(q), close, what) ELSE q

(* ---- statements and blocks ---- *)
LetStmt(p) ==
  LET name == Name(Eat(Bump(Start(p, "LET_STMT")), "mut"))
      ty == IF At(name, ":") THEN TypeRef(Bump(name)) ELSE name
  IN Finish(Expect(IF At(ty, "=") THEN Expr(Bump(ty)) ELSE ty, ";"))

ReturnStmt(p) ==
  LET r == Bump(Start(p, "RETURN_STMT"))
  IN Finish(Expect(IF CanStartExpr(Current(r)) THEN Expr(r) ELSE r, ";"))

\* An expression, then `= value ;`, or a `;` that only a tail may leave out.
ExprStmt(p) ==
  LET cp == Checkpoint(p)
      e == Expr(p)
  IN IF At(e, "=")
     THEN Finish(Expect(Expr(Bump(StartAt(e, cp, "ASSIGN_STMT"))), ";"))
     ELSE LET s == StartAt(e, cp, "EXPR_STMT")
          IN Finish(IF At(s, "}") THEN s ELSE Expect(s, ";"))

Stmt(p) ==
  CASE At(p, "let") -> LetStmt(p)
    [] At(p, "return") -> ReturnStmt(p)
    [] AtAny(p, {"if", "{", "for", "match"}) ->
         Finish(Eat(StartAt(Expr(p), Checkpoint(p), "EXPR_STMT"), ";"))
    [] At(p, ";") -> Bump(p)
    [] ~CanStartExpr(Current(p)) -> Eat(ErrRecover(p, {";", "}"}), ";")
    [] OTHER -> ExprStmt(p)

Stmts(p) == IF AtEnd(p) \/ At(p, "}") THEN p ELSE Stmts(Stmt(p))
Block(p) ==
  LET b == Start(p, "BLOCK")
  IN Finish(IF At(b, "{") THEN Expect(Stmts(Bump(b)), "}") ELSE Error(b))

(* ---- items ---- *)
Field(p) == Finish(Expect(TypeRef(Expect(Name(Start(p, "FIELD")), ":")), ";"))
Variant(p) ==
  LET n == Name(Start(p, "VARIANT"))
      v == IF At(n, "(") THEN Expect(CommaList(Bump(n), ")", "payload"), ")") ELSE n
  IN Finish(Expect(v, ";"))
KeywordMember(p) ==
  LET c == Expect(Bump(Error(Start(p, "FIELD"))), ":")
  IN Finish(Eat(IF AtAny(c, {";", "}"}) THEN c ELSE TypeRef(c), ";"))

\* saw: which of "field" and "variant" members came before; mixing them is an error.
RECURSIVE Members(_, _)
Members(p, saw) ==
  CASE AtEnd(p) \/ At(p, "}") -> p
    [] At(p, "ident") /\ Second(p) = ":" ->
         Members(Field(IF "variant" \in saw THEN Error(p) ELSE p), saw \cup {"field"})
    [] At(p, "ident") /\ Second(p) \in {"(", ";"} ->
         Members(Variant(IF "field" \in saw THEN Error(p) ELSE p), saw \cup {"variant"})
    [] At(p, "ident") /\ Second(p) \notin {":", "(", ";"} -> Members(Field(p), saw)
    [] AtAny(p, Keywords) -> Members(KeywordMember(p), saw)
    [] At(p, ";") -> Members(Bump(p), saw)
    [] OTHER -> Members(ErrRecover(p, {";", "}", "ident"}), saw)

DataDecl(p) ==
  LET n == Name(Bump(Start(p, "DATA_DECL")))
  IN Finish(IF At(n, "{") THEN Expect(Members(Bump(n), {}), "}") ELSE Error(n))

ParamList(p) ==
  IF At(p, "(") THEN Finish(Expect(CommaList(Bump(Start(p, "PARAM_LIST")), ")", "param"), ")"))
  ELSE Error(p)
FnDecl(p) ==
  LET ps == ParamList(Name(Bump(Start(p, "FN_DECL"))))
  IN Finish(Block(IF At(ps, "->") THEN Finish(TypeRef(Bump(Start(ps, "RET_TYPE")))) ELSE ps))

\* Mutant: the recovery between items also stops at a closing brace.
ItemStoppingAtBrace(p) ==
  CASE At(p, "use") -> UseDecl(p)
    [] At(p, "data") -> DataDecl(p)
    [] At(p, "fn") -> FnDecl(p)
    [] OTHER -> ErrRecover(p, {"use", "data", "fn", "}"})
\* One iteration of source_file's loop, and what follows the loop.
Item(p) ==
  LET kind == Current(p)
  IN CASE kind = "use" -> UseDecl(p)
       [] kind = "data" -> DataDecl(p)
       [] kind = "fn" -> FnDecl(p)
       [] OTHER -> ErrRecover(p, {"use", "data", "fn"})
SourceFile(p) == Finish(BumpTrivia(p))
=============================================================================
