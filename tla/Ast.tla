-------------------------------- MODULE Ast --------------------------------
(***************************************************************************)
(* ast/lower.rs: the syntax tree to the canonical AST.  The lowering is     *)
(* structural: an ERROR node or a missing piece drops what it is part of    *)
(* (the code's None) or becomes Expr::Error, and parentheses disappear.    *)
(*                                                                         *)
(* f is a parsed file, with its text and tokens.  An identifier is its name *)
(* and the token it stands on.  What the code returns as an Option is a     *)
(* sequence of at most one element.                                        *)
(***************************************************************************)
EXTENDS Parser

Values == {"LITERAL", "CALL_EXPR", "FIELD_EXPR", "INDEX_EXPR", "PATH_EXPR", "BIN_EXPR",
           "PREFIX_EXPR", "IF_EXPR", "FOR_EXPR", "MATCH_EXPR", "PAREN_EXPR", "BLOCK",
           "STRUCT_LIT", "ARRAY_EXPR", "RANGE", "NAME_REF"}
OtherNodes == {"SOURCE_FILE", "ERROR", "NAME", "USE_DECL", "TYPE_REF", "DATA_DECL", "FIELD",
               "VARIANT", "FN_DECL", "PARAM_LIST", "PARAM", "RET_TYPE", "LET_STMT",
               "ASSIGN_STMT", "RETURN_STMT", "EXPR_STMT", "ARG_LIST", "MATCH_ARM_LIST",
               "MATCH_ARM", "PAT_BIND", "PAT_VARIANT", "STRUCT_LIT_FIELD"}
Nodes == Values \cup OtherNodes

Children(node, kinds) == SelectSeq(node.kids, LAMBDA c : c.k \in kinds)
Tokens(node) == SelectSeq(node.kids, LAMBDA c : c.k \notin Nodes \cup Trivia)
HasToken(node, kind) == \E j \in 1 .. Len(node.kids) : node.kids[j].k = kind
First(s) == IF s = <<>> THEN <<>> ELSE <<s[1]>>
Opt(s, F(_)) == IF s = <<>> THEN <<>> ELSE F(s[1])
\* (the concatenation makes TLC compute the elements once)
Each(s, F(_)) == <<>> \o [j \in 1 .. Len(s) |-> F(s[j])]
EachOpt(s, F(_)) == FlattenSeq(Each(s, F))

(* ---- names, paths and types ---- *)
TextOf(f, leaf) == TokenText(f.src, f.toks[leaf.lo])
NameOf(f, node) ==
  LET t == Tokens(node)
  IN IF t = <<>> THEN [name |-> "<missing>", at |-> node.lo]
     ELSE [name |-> TextOf(f, t[1]), at |-> t[1].lo]
FirstName(f, node) ==
  LET names == Children(node, {"NAME", "NAME_REF"})
  IN IF names = <<>> THEN [name |-> "<missing>", at |-> node.lo] ELSE NameOf(f, names[1])
PathOf(f, node) == Each(Children(node, {"NAME", "NAME_REF"}), LAMBDA n : NameOf(f, n))

RECURSIVE TypeExpr(_, _)
TypeExpr(f, node) ==
  LET elem == Children(node, {"TYPE_REF"})
  IN IF elem # <<>> THEN [k |-> "Array", elem |-> TypeExpr(f, elem[1])]
     ELSE [k |-> "Named", path |-> PathOf(f, node)]
TypeRefOf(f, node) == Each(First(Children(node, {"TYPE_REF"})), LAMBDA t : TypeExpr(f, t))

UseOf(f, node) ==
  [path |-> Each(Children(node, {"NAME_REF"}), LAMBDA n : NameOf(f, n)),
   alias |-> Each(First(Children(node, {"NAME"})), LAMBDA n : NameOf(f, n))]

(* ---- literals ---- *)
DigitsOf(text) == SelectSeq([j \in 1 .. Len(text) |-> Peek(text, j - 1)], LAMBDA c : c # "_")
DigitValue == [d \in Digits |-> CHOOSE n \in 0 .. 9 : ToString(n) = d]
RECURSIVE Decimal(_)
Decimal(ds) == IF ds = <<>> THEN 0 ELSE 10 * Decimal(Front(ds)) + DigitValue[Last(ds)]
MaxDigits == 38                            \* every such number is an i128
\* decode_string: one decoded character per escape, a backslash kept before an
\* unknown one.
RECURSIVE Decoded(_)
Decoded(s) ==
  IF s = "" THEN <<>>
  ELSE IF Peek(s, 0) # "\\" THEN <<Peek(s, 0)>> \o Decoded(SubSeq(s, 2, Len(s)))
  ELSE IF Peek(s, 1) \in Escapes
  THEN <<"\\" \o Peek(s, 1)>> \o Decoded(SubSeq(s, 3, Len(s)))
  ELSE <<"\\", Peek(s, 1)>> \o Decoded(SubSeq(s, 3, Len(s)))
Unquoted(text) ==
  LET quote == Peek(text, 0)
      closed == Len(text) > 1 /\ Peek(text, Len(text) - 1) = quote
  IN SubSeq(text, 2, IF closed THEN Len(text) - 1 ELSE Len(text))
Literal(kind, text) ==
  CASE kind \in {"true", "false"} -> <<"bool", kind = "true">>
    [] kind = "int" -> <<"int", IF Len(DigitsOf(text)) <= MaxDigits
                                THEN Decimal(DigitsOf(text)) ELSE 0>>
    [] kind = "float" -> <<"float", text>>
    [] kind = "string" -> <<"str", Decoded(Unquoted(text))>>
    [] kind = "char" -> <<"char", IF Len(Decoded(Unquoted(text))) = 1
                                  THEN Decoded(Unquoted(text))[1] ELSE "\\0">>
    [] OTHER -> <<"int", 0>>

(* ---- expressions ---- *)
BinOps == InfixOps \ {".."}
ErrorExpr == [k |-> "Error"]

RECURSIVE AstExpr(_, _), AstBlock(_, _), PlaceNames(_, _)

\* The names of an assignment target, base first; none when it is no place.
PlaceNames(f, node) ==
  CASE node.k = "NAME_REF" -> <<NameOf(f, node)>>
    [] node.k = "FIELD_EXPR" ->
         LET parts == Children(node, Nodes)
             field == Children([node EXCEPT !.kids = Tail(parts)], {"NAME_REF"})
             base == PlaceNames(f, parts[1])
         IN IF field = <<>> \/ base = <<>> THEN <<>> ELSE Append(base, NameOf(f, field[1]))
    [] OTHER -> <<>>

\* The base and the field of a FIELD_EXPR.
FieldExpr(f, node) ==
  LET parts == Children(node, Nodes)
      field == Children([node EXCEPT !.kids = Tail(parts)], {"NAME_REF"})
  IN IF field = <<>> THEN <<>>
     ELSE Each(AstExpr(f, parts[1]),
               LAMBDA b : [k |-> "Field", base |-> b, name |-> NameOf(f, field[1])])

CallExpr(f, node) ==
  LET callee == Children(node, Nodes \ {"ARG_LIST"})[1]
      args == EachOpt(Children(node, {"ARG_LIST"}), LAMBDA l : Children(l, Values))
      path == IF callee.k = "NAME_REF" THEN <<NameOf(f, callee)>> ELSE PathOf(f, callee)
  IN IF callee.k \notin {"NAME_REF", "PATH_EXPR"} THEN <<>>
     ELSE <<[k |-> "Call", callee |-> path, args |-> EachOpt(args, LAMBDA a : AstExpr(f, a))]>>

\* A bound before the `..` token is lo, one after it hi.
RangeBounds(f, node) ==
  LET dots == SelectInSeq(node.kids, LAMBDA c : c.k = "..")
      bound(kids) == Opt(SelectSeq(kids, LAMBDA c : c.k \in Values), LAMBDA c : AstExpr(f, c))
  IN [lo |-> bound(SubSeq(node.kids, 1, dots - 1)),
      hi |-> bound(SubSeq(node.kids, dots + 1, Len(node.kids)))]

IndexExpr(f, node) ==
  LET parts == Children(node, Values)
      base == IF parts = <<>> THEN <<>> ELSE AstExpr(f, parts[1])
      range == RangeBounds(f, parts[2])
  IN IF base = <<>> THEN <<>>
     ELSE IF Len(parts) = 1 THEN <<ErrorExpr>>
     ELSE IF parts[2].k = "RANGE"
     THEN <<[k |-> "Slice", base |-> base[1], lo |-> range.lo, hi |-> range.hi]>>
     ELSE Each(AstExpr(f, parts[2]), LAMBDA i : [k |-> "Index", base |-> base[1], index |-> i])

ForExprOf(f, node) ==
  LET parts == Children(node, Values)
      at == SelectInSeq(parts, LAMBDA c : AstExpr(f, c) # <<>>)
      bodies == SelectSeq(SubSeq(parts, at + 1, Len(parts)), LAMBDA c : c.k = "BLOCK")
  IN IF at = 0 THEN <<>>
     ELSE <<[k |-> "For", var |-> FirstName(f, node), mutable |-> HasToken(node, "mut"),
             iter |-> AstExpr(f, parts[at])[1],
             body |-> IF bodies = <<>> THEN [stmts |-> <<>>, tail |-> <<>>]
                      ELSE AstBlock(f, Last(bodies))]>>

AstPattern(f, node) ==
  IF node.k = "PAT_BIND" THEN [k |-> "Bind", name |-> FirstName(f, node)]
  ELSE [k |-> "Variant", path |-> PathOf(f, node),
        binds |-> Each(Children(node, {"PAT_BIND"}), LAMBDA b : FirstName(f, b))]

ArmOf(f, node) ==
  LET pats == Children(node, {"PAT_BIND", "PAT_VARIANT"})
      bodies == Children(node, Values)
      body == IF bodies = <<>> THEN <<>> ELSE AstExpr(f, Last(bodies))
  IN [pat |-> IF pats = <<>> THEN [k |-> "Bind", name |-> [name |-> "_", at |-> node.lo]]
              ELSE AstPattern(f, Last(pats)),
      body |-> IF body = <<>> THEN ErrorExpr ELSE body[1]]

MatchOf(f, node) ==
  LET scrutinee == Opt(Children(node, Values), LAMBDA c : AstExpr(f, c))
      arms == EachOpt(Children(node, {"MATCH_ARM_LIST"}), LAMBDA l : Children(l, {"MATCH_ARM"}))
  IN [k |-> "Match", scrutinee |-> IF scrutinee = <<>> THEN ErrorExpr ELSE scrutinee[1],
      arms |-> Each(arms, LAMBDA a : ArmOf(f, a))]

BinExpr(f, node) ==
  LET ops == Tokens(node)
      parts == EachOpt(Children(node, Values), LAMBDA c : AstExpr(f, c))
  IN IF \E j \in 1 .. Len(ops) : ops[j].k \notin BinOps THEN <<>>
     ELSE IF Len(parts) # 2 THEN <<ErrorExpr>>
     ELSE <<[k |-> "Binary", op |-> Last(ops).k, lhs |-> parts[1], rhs |-> parts[2]]>>

\* The first block is the condition when nothing comes before it.
IfOf(f, node) ==
  LET parts == Children(node, Values)
      cond == IF parts = <<>> THEN <<>> ELSE AstExpr(f, parts[1])
      blocks == SelectSeq(Tail(parts), LAMBDA c : c.k = "BLOCK")
      chained == SelectSeq(Tail(parts), LAMBDA c : c.k = "IF_EXPR")
      else == IF chained # <<>> THEN AstExpr(f, Last(chained))
              ELSE IF Len(blocks) < 2 THEN <<>>
              ELSE <<[k |-> "Block", block |-> AstBlock(f, blocks[2])]>>
  IN IF cond = <<>> \/ blocks = <<>> THEN <<>>
     ELSE <<[k |-> "If", cond |-> cond[1], then |-> AstBlock(f, blocks[1]), else |-> else]>>

StructLitOf(f, node) ==
  LET head == Children(node, {"NAME_REF", "PATH_EXPR"})[1]
      init(c) == LET parts == Children(c, Values)
                 IN IF Len(parts) < 2 \/ parts[1].k # "NAME_REF" THEN <<>>
                    ELSE Each(AstExpr(f, parts[2]),
                              LAMBDA v : [name |-> NameOf(f, parts[1]), value |-> v])
  IN [k |-> "StructLit",
      path |-> IF head.k = "PATH_EXPR" THEN PathOf(f, head) ELSE <<NameOf(f, head)>>,
      fields |-> EachOpt(Children(node, {"STRUCT_LIT_FIELD"}), init)]

AstExpr(f, node) ==
  LET parts == Children(node, Values)
      toks == Tokens(node)
      operand == IF parts = <<>> THEN <<>> ELSE AstExpr(f, parts[1])
      range == RangeBounds(f, node)
  IN CASE node.k = "LITERAL" ->
            Each(First(toks), LAMBDA t : [k |-> "Literal", value |-> Literal(t.k, TextOf(f, t))])
       [] node.k = "NAME_REF" -> <<[k |-> "Var", name |-> NameOf(f, node)]>>
       [] node.k = "PATH_EXPR" -> <<[k |-> "Path", path |-> PathOf(f, node)]>>
       [] node.k = "CALL_EXPR" -> CallExpr(f, node)
       [] node.k = "FIELD_EXPR" -> FieldExpr(f, node)
       [] node.k = "INDEX_EXPR" -> IndexExpr(f, node)
       [] node.k = "RANGE" -> <<[k |-> "Range", lo |-> range.lo, hi |-> range.hi]>>
       [] node.k = "ARRAY_EXPR" ->
            <<[k |-> "ArrayLit", elems |-> EachOpt(parts, LAMBDA c : AstExpr(f, c))]>>
       [] node.k = "FOR_EXPR" -> ForExprOf(f, node)
       [] node.k = "MATCH_EXPR" -> <<MatchOf(f, node)>>
       [] node.k = "BIN_EXPR" -> BinExpr(f, node)
       [] node.k = "PREFIX_EXPR" ->
            Each(operand, LAMBDA e : [k |-> "Unary", op |-> toks[1].k, operand |-> e])
       [] node.k = "IF_EXPR" -> IfOf(f, node)
       [] node.k = "PAREN_EXPR" -> operand
       [] node.k = "BLOCK" -> <<[k |-> "Block", block |-> AstBlock(f, node)]>>
       [] node.k = "STRUCT_LIT" -> <<StructLitOf(f, node)>>
       [] node.k = "ERROR" -> <<ErrorExpr>>
       [] OTHER -> <<>>

(* ---- statements, blocks and items ---- *)
LetOf(f, node) ==
  LET init == IF HasToken(node, "=")
              THEN Opt(Children(node, Values), LAMBDA e : AstExpr(f, e)) ELSE <<>>
  IN Each(First(Children(node, {"NAME"})),
          LAMBDA n : [k |-> "Let", name |-> NameOf(f, n), mutable |-> HasToken(node, "mut"),
                      ty |-> TypeRefOf(f, node), init |-> init])

AssignOf(f, node) ==
  LET parts == Children(node, Values)
      place == IF parts = <<>> THEN <<>> ELSE PlaceNames(f, parts[1])
      value == IF Len(parts) < 2 THEN <<>> ELSE AstExpr(f, parts[2])
  IN IF place = <<>> \/ value = <<>> THEN <<>>
     ELSE <<[k |-> "Assign", base |-> place[1], fields |-> Tail(place), value |-> value[1]]>>

AstStmt(f, node) ==
  LET value == Opt(Children(node, Values), LAMBDA e : AstExpr(f, e))
  IN CASE node.k = "LET_STMT" -> LetOf(f, node)
       [] node.k = "ASSIGN_STMT" -> AssignOf(f, node)
       [] node.k = "RETURN_STMT" -> <<[k |-> "Return", value |-> value]>>
       [] node.k = "EXPR_STMT" ->
            Each(value, LAMBDA e : [k |-> "Expr", expr |-> e, semi |-> HasToken(node, ";")])
       [] OTHER -> <<>>

\* Only the last child, an expression without `;`, is the block's value.
AstBlock(f, node) ==
  LET kids == Children(node, Nodes)
      lowered == Each(kids, LAMBDA c : AstStmt(f, c))
      stmts == FlattenSeq(lowered)
      tail == kids # <<>> /\ Last(kids).k = "EXPR_STMT" /\ ~HasToken(Last(kids), ";")
                /\ Last(lowered) # <<>>
  IN IF tail THEN [stmts |-> Front(stmts), tail |-> <<Last(stmts).expr>>]
     ELSE [stmts |-> stmts, tail |-> <<>>]

\* A field or a parameter without a type is dropped.
Typed(f, node, mutable) ==
  Each(TypeRefOf(f, node), LAMBDA t : [name |-> FirstName(f, node), ty |-> t, mutable |-> mutable])
DataOf(f, node) ==
  [k |-> "Data", name |-> FirstName(f, node),
   fields |-> EachOpt(Children(node, {"FIELD"}), LAMBDA c : Typed(f, c, FALSE)),
   variants |-> Each(Children(node, {"VARIANT"}),
                     LAMBDA v : [name |-> FirstName(f, v),
                                 payload |-> Each(Children(v, {"TYPE_REF"}),
                                                  LAMBDA t : TypeExpr(f, t))])]
FnOf(f, node) ==
  LET params == EachOpt(First(Children(node, {"PARAM_LIST"})), LAMBDA l : Children(l, {"PARAM"}))
      blocks == Children(node, {"BLOCK"})
  IN [k |-> "Fn", name |-> FirstName(f, node),
      params |-> EachOpt(params, LAMBDA p : Typed(f, p, HasToken(p, "mut"))),
      ret |-> EachOpt(First(Children(node, {"RET_TYPE"})), LAMBDA r : TypeRefOf(f, r)),
      body |-> IF blocks = <<>> THEN [stmts |-> <<>>, tail |-> <<>>] ELSE AstBlock(f, blocks[1])]

(* ---- the structural errors lowering reports ---- *)
RECURSIVE AstErrors(_, _)
AstErrors(f, node) ==
  LET parts == Children(node, Values)
      text == TextOf(f, Tokens(node)[1])
      here == CASE node.k = "CALL_EXPR" ->
                     Children(node, Nodes)[1].k \notin {"NAME_REF", "PATH_EXPR"}
                [] node.k = "ASSIGN_STMT" -> parts # <<>> /\ PlaceNames(f, parts[1]) = <<>>
                [] node.k = "LITERAL" ->
                     \/ Tokens(node)[1].k = "int" /\ Len(DigitsOf(text)) > MaxDigits
                     \/ Tokens(node)[1].k = "char" /\ Len(Decoded(Unquoted(text))) # 1
                [] OTHER -> FALSE
      below == {j \in 1 .. Len(node.kids) : node.kids[j].k \in Nodes \ {"ERROR"}
                                             /\ AstErrors(f, node.kids[j])}
  IN here \/ below # {}

\* lower_module: the uses and the items of a file, and whether an error was reported.
LowerModule(f, root) ==
  LET items == Children(root, {"DATA_DECL", "FN_DECL"})
  IN [uses |-> Each(Children(root, {"USE_DECL"}), LAMBDA u : UseOf(f, u)),
      items |-> Each(items, LAMBDA i : IF i.k = "FN_DECL" THEN FnOf(f, i) ELSE DataOf(f, i)),
      failed |-> AstErrors(f, root)]
=============================================================================
