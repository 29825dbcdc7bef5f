------------------------------- MODULE Meaning -------------------------------
(***************************************************************************)
(* What a checked program means, stated on its HIR without blocks, cells or  *)
(* operands: an expression is evaluated where it is written, and every value *)
(* is a tree of its own.  MIR and the machine are to compute the same.       *)
(*                                                                         *)
(* g is the program: its scope and, of each function, the checked body and   *)
(* its root.  c is the body being evaluated, with g.  s is an evaluation:    *)
(* env, the tree each symbol of the function holds, out ("go", "return" or   *)
(* the reason of a trap) and val, the last value.                            *)
(***************************************************************************)
EXTENDS Interp

RECURSIVE With(_, _, _)
With(tree, path, v) ==
  IF path = <<>> THEN v ELSE [tree EXCEPT ![3][Head(path)] = With(@, Tail(path), v)]
Value(s, v) == IF IsTrap(v) THEN [s EXCEPT !.out = v[2]] ELSE Returning(s, v)
Bind(s, sym, v) == IF sym = 0 THEN s ELSE [s EXCEPT !.env[sym] = v]

\* An element of a string or an array of trees, and a part of one.
ItemAt(base, i) ==
  IF i[2] \notin 0 .. Len(PartsOf(base)) - 1 THEN Trapped("bounds")
  ELSE IF base[1] = "str" THEN <<"str", <<base[2][i[2] + 1]>>>> ELSE base[3][i[2] + 1]
PartOf(base, lo, hi) ==
  IF lo < 0 \/ hi < lo \/ hi > Len(PartsOf(base)) THEN Trapped("bounds")
  ELSE IF base[1] = "str" THEN <<"str", SubSeq(base[2], lo + 1, hi)>>
  ELSE <<"array", <<>>, SubSeq(base[3], lo + 1, hi)>>
Compare(op, l, r) ==
  IF Aggregate(l) /\ op \in Equality THEN Trapped("kind") ELSE BinaryValue(op, l, r)

RECURSIVE Eval(_, _, _), EvalAll(_, _, _, _), EvalStmts(_, _, _), Loop(_, _, _, _), Meant(_, _, _)

EvalAll(c, s, ids, vs) ==
  IF s.out # "go" THEN s
  ELSE IF ids = <<>> THEN Returning(s, vs)
  ELSE LET e == Eval(c, s, Head(ids)) IN EvalAll(c, e, Tail(ids), Append(vs, e.val))

\* The symbol and the path of the tree a place names.
PathIn(c, place) == Projected(c, c.types[place.base], Each(place.fields, LAMBDA n : [name |-> n]))
\* A mutably borrowed place holds, after the call, what its parameter was left with.
EvalCall(c, s, e) ==
  LET a == EvalAll(c, s, e.args, <<>>)
      r == Meant(c.program, e.def, a.val)
      place(i) == PlaceOf(c, e.args[i])[1]
      lent == SelectSeq([i \in 1 .. Len(e.args) |-> i],
                        LAMBDA i : Contract(c, e.def, i) = "BorrowMut" /\ PlaceOf(c, e.args[i]) # <<>>)
      back(env, i) == [env EXCEPT ![place(i).base] = With(@, PathIn(c, place(i)), r.env[i])]
  IN IF a.out # "go" THEN a
     ELSE IF r.out # "go" THEN [a EXCEPT !.out = r.out]
     ELSE [a EXCEPT !.env = FoldLeft(back, @, lent), !.val = r.val]

ArmFor(e, v) == SelectInSeq(e.arms, LAMBDA a : a.pat.k = "Bind" \/ a.pat.variant = v[2][2])
EvalMatch(c, s, e) ==
  LET v == Eval(c, s, e.scrutinee)
      arm == e.arms[ArmFor(e, v.val)]
      bound == IF arm.pat.k = "Bind" THEN Bind(v, arm.pat.sym, v.val)
               ELSE FoldLeft(LAMBDA t, j : Bind(t, arm.pat.binds[j], v.val[3][j]), v,
                             [j \in 1 .. Len(arm.pat.binds) |-> j])
  IN IF v.out # "go" THEN v ELSE Eval(c, bound, arm.body)

\* The body, once for each value of a sequence fixed before the first.
Loop(c, s, e, vs) ==
  IF s.out # "go" THEN s
  ELSE IF vs = <<>> THEN Returning(s, Unit)
  ELSE Loop(c, Eval(c, Bind(s, e.var, Head(vs)), e.body), e, Tail(vs))
Counted(lo, hi) == [j \in 1 .. hi - lo |-> <<"int", lo + j - 1>>]
EvalFor(c, s, e) ==
  LET iter == c.exprs[e.iter]
      bounds == EvalAll(c, s, iter.lo \o iter.hi, <<>>)
      array == Eval(c, s, e.iter)
      lo == IF iter.lo = <<>> THEN 0 ELSE bounds.val[1][2]
  IN IF iter.k # "Range" THEN IF array.out = "go" THEN Loop(c, array, e, array.val[3]) ELSE array
     ELSE IF bounds.out = "go" THEN Loop(c, bounds, e, Counted(lo, Last(bounds.val)[2])) ELSE bounds

Eval(c, s, id) ==
  LET e == c.exprs[id]
      p == EvalAll(c, s, IF e.k \in {"Call", "Match", "For"} THEN <<>> ELSE Parts(e), <<>>)
      short == p.val[1] = <<"bool", e.op = "||">>
      fields == Each(c.scope.defs[e.def].fields, LAMBDA x : x.name)
      given(name) == p.val[SelectInSeq(e.fields, LAMBDA x : x.name.name = name)]
      lo == IF e.lo = <<>> THEN 0 ELSE p.val[2][2]
      hi == IF e.hi = <<>> THEN Len(PartsOf(p.val[1])) ELSE Last(p.val)[2]
      body == EvalStmts(c, s, e.stmts)
  IN IF p.out # "go" THEN p
     ELSE CASE e.k = "Literal" -> Returning(s, e.value)
            [] e.k = "Var" -> Value(s, IF s.env[e.sym] = Hole THEN Trapped("hole") ELSE s.env[e.sym])
            [] e.k = "Field" -> Returning(p, p.val[1][3][FieldIndex(c, c.ty[e.base], e.name.name)])
            [] e.k = "Len" -> Returning(p, <<"int", Len(PartsOf(p.val[1]))>>)
            [] e.k = "Unary" -> Returning(p, UnaryValue(e.op, p.val[1]))
            [] e.k = "Binary" /\ e.op \notin {"&&", "||"} -> Value(p, Compare(e.op, p.val[1], p.val[2]))
            [] e.k = "Binary" /\ e.op \in {"&&", "||"} ->
                 IF short THEN Returning(p, p.val[1]) ELSE Eval(c, p, e.rhs)
            [] e.k = "Index" -> Value(p, ItemAt(p.val[1], p.val[2]))
            [] e.k = "Slice" -> Value(p, PartOf(p.val[1], lo, hi))
            [] e.k = "ArrayLit" -> Returning(p, <<"array", <<>>, p.val>>)
            [] e.k = "StructLit" -> Returning(p, <<"struct", <<e.def>>, Each(fields, given)>>)
            [] e.k = "VariantLit" -> Returning(p, <<"variant", <<e.def, e.variant>>, p.val>>)
            [] e.k = "Call" -> EvalCall(c, s, e)
            [] e.k = "If" -> IF p.val[1][2] THEN Eval(c, p, e.then)
                             ELSE IF e.else = <<>> THEN Returning(p, Unit) ELSE Eval(c, p, e.else[1])
            [] e.k = "Match" -> EvalMatch(c, s, e)
            [] e.k = "For" -> EvalFor(c, s, e)
            [] e.k = "Block" -> IF e.tail = <<>> THEN (IF body.out = "go" THEN Returning(body, Unit) ELSE body)
                                ELSE Eval(c, body, e.tail[1])

EvalStmts(c, s, ss) ==
  LET x == Head(ss)
      v == EvalAll(c, s, IF x.k = "Return" THEN x.value ELSE StmtParts(x), <<>>)
      path == Projected(c, c.types[x.target.base], x.target.fields)
      after == CASE v.out # "go" -> v
                 [] v.out = "go" /\ x.k = "Let" -> Bind(v, x.sym, IF x.init = <<>> THEN Hole ELSE v.val[1])
                 [] v.out = "go" /\ x.k = "Assign" ->
                      [v EXCEPT !.env[x.target.base] = With(@, path, v.val[1])]
                 [] v.out = "go" /\ x.k = "Return" ->
                      [v EXCEPT !.out = "return", !.val = IF x.value = <<>> THEN Unit ELSE @[1]]
                 [] OTHER -> v
  IN IF ss = <<>> \/ s.out # "go" THEN s ELSE EvalStmts(c, after, Tail(ss))

\* A call of definition d: what its parameters are left with, and its value.
Meant(g, d, args) ==
  LET c == g.views[d] @@ [scope |-> g.scope, program |-> g]
      env == [sym \in 1 .. Len(c.locals) |-> IF sym <= Len(args) THEN args[sym] ELSE Hole]
      r == Eval(c, [env |-> env, out |-> "go", val |-> Unit], g.roots[d])
  IN IF r.out = "return" THEN [r EXCEPT !.out = "go"] ELSE r
=============================================================================
