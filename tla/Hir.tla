-------------------------------- MODULE Hir --------------------------------
(***************************************************************************)
(* hir/lower.rs: function bodies to the resolved, ID-based HIR.             *)
(*                                                                         *)
(* A body is its expressions, in the order lower_body allocates them (an    *)
(* ExprId is a place in the sequence), its local symbols (parameters first) *)
(* and its root block.  b is the lowerer: the body so far, what each name   *)
(* in scope stands for (the innermost last), the codes of the errors, and   *)
(* val, what the last operation returned.  c is the module scope and the    *)
(* file of the function.  An unresolved name leaves a Poison node.          *)
(***************************************************************************)
EXTENDS Resolve

NewBody == [exprs |-> <<>>, locals |-> <<>>, visible |-> <<>>, codes |-> <<>>, val |-> <<>>]

Alloc(b, node) == [b EXCEPT !.exprs = Append(@, node), !.val = Len(b.exprs) + 1]
Report(b, code) == [b EXCEPT !.codes = Append(@, code)]
Poison(b, code) == Alloc(Report(b, code), [k |-> "Poison"])
Returning(b, v) == [b EXCEPT !.val = v]

(* ---- scopes ---- *)
Lookup(b, name) == SelectLastInSeq(b.visible, LAMBDA x : x.name = name)
SymbolOf(b, name) == b.visible[Lookup(b, name)].sym
Declare(b, ident, mutable, kind) ==
  LET sym == Len(b.locals) + 1
  IN [b EXCEPT !.locals = Append(@, [name |-> ident.name, at |-> ident.at,
                                     mutable |-> mutable, kind |-> kind]),
               !.visible = Append(@, [name |-> ident.name, sym |-> sym]),
               !.val = sym]
\* inner, lowered in a scope of its own, back in the scope of outer
Leave(inner, outer) == [inner EXCEPT !.visible = outer.visible]

(* ---- paths ---- *)
Found(d) == [found |-> TRUE, def |-> d, code |-> "none"]
NotFound(why) == [found |-> FALSE, def |-> 0, code |-> why]
\* Mutant: names are looked up in the root file.
EnvOfRoot(c) == c.scope.envs[1]
EnvOf(c) == c.scope.envs[c.file]
IsKind(c, d, kind) == c.scope.defs[d].k = kind

PathDef(c, path) ==
  LET env == EnvOf(c)
      n == path[1].name
      known == env.fns @@ env.datas @@ env.imports
      g == c.scope.envs[env.modules[n]]
  IN IF Len(path) = 1
     THEN IF n \in DOMAIN known THEN Found(known[n]) ELSE NotFound("NotFound")
     ELSE IF Len(path) # 2 THEN NotFound("NotFound")
     ELSE IF n \notin DOMAIN env.modules THEN NotFound("UnknownModule")
     ELSE IF path[2].name \in DOMAIN (g.fns @@ g.datas)
     THEN Found((g.fns @@ g.datas)[path[2].name]) ELSE NotFound("UnknownMember")

\* T::V or m::T::V, with the place of the variant in its data; when the data has
\* no such variant the code is NotVariant.
ResolveVariant(c, path) ==
  LET env == EnvOf(c)
      n == path[1].name
      imported == n \in DOMAIN env.imports /\ IsKind(c, env.imports[n], "Data")
      datas == c.scope.envs[env.modules[n]].datas
      variant(d) ==
        LET j == SelectInSeq(c.scope.defs[d].variants, LAMBDA v : v.name = Last(path).name)
        IN [found |-> j > 0, def |-> d, variant |-> j, code |-> IF j > 0 THEN "none" ELSE "NotVariant"]
  IN CASE Len(path) = 2 /\ n \in DOMAIN env.datas -> variant(env.datas[n])
       [] Len(path) = 2 /\ n \notin DOMAIN env.datas /\ imported -> variant(env.imports[n])
       [] Len(path) = 3 /\ n \notin DOMAIN env.modules -> NotFound("UnknownModule")
       [] Len(path) = 3 /\ n \in DOMAIN env.modules /\ path[2].name \in DOMAIN datas ->
            variant(datas[path[2].name])
       [] OTHER -> NotFound("NotFound")

PathCode(why, code) == IF why = "UnknownModule" THEN "UnknownModule" ELSE code
VariantCode(why) == PathCode(why, "UnknownSymbol")

RECURSIVE BodyType(_, _)
BodyType(c, ty) ==
  LET d == PathDef(c, ty.path)
  IN IF ty.k = "Array" THEN ArrayOf(BodyType(c, ty.elem))
     ELSE IF Len(ty.path) = 1 /\ ty.path[1].name \in Builtins THEN Ty(<<ty.path[1].name>>, <<>>)
     ELSE IF d.found /\ IsKind(c, d.def, "Data") THEN Ty(<<"struct", d.def>>, <<>>)
     ELSE Ty(PoisonTy, <<IF d.found THEN "UnknownType" ELSE PathCode(d.code, "UnknownType")>>)

(* ---- expressions ---- *)
RECURSIVE LowerExpr(_, _, _), LowerAll(_, _, _, _), LowerStmts(_, _, _, _),
          LowerArms(_, _, _, _), LowerInits(_, _, _, _)

\* The ids of a sequence of expressions, in order.
LowerAll(c, b, es, ids) ==
  IF es = <<>> THEN Returning(b, ids)
  ELSE LET e == LowerExpr(c, b, Head(es)) IN LowerAll(c, e, Tail(es), Append(ids, e.val))

Place(b, s) ==
  [base |-> SymbolOf(b, s.base.name), at |-> s.base.at, fields |-> s.fields]

\* A let declares its name after its initializer; an assignment lowers its value
\* before its target, and is dropped when the target is unknown.
LowerStmt(c, b, s) ==
  CASE s.k = "Let" ->
         LET init == LowerAll(c, b, s.init, <<>>)
             types == Each(s.ty, LAMBDA t : BodyType(c, t))
             typed == [init EXCEPT !.codes = @ \o EachOpt(types, LAMBDA t : t.codes)]
             d == Declare(typed, s.name, s.mutable, "Local")
         IN Returning(d, <<[k |-> "Let", sym |-> d.val, ty |-> Each(types, LAMBDA t : t.ty),
                            init |-> init.val]>>)
    [] s.k = "Assign" ->
         LET v == LowerExpr(c, b, s.value)
         IN IF Lookup(v, s.base.name) = 0 THEN Returning(Report(v, "UnknownSymbol"), <<>>)
            ELSE Returning(v, <<[k |-> "Assign", target |-> Place(v, s), value |-> v.val]>>)
    [] s.k = "Expr" ->
         LET e == LowerExpr(c, b, s.expr)
         IN Returning(e, <<[k |-> "Expr", expr |-> e.val, semi |-> s.semi]>>)
    [] s.k = "Return" ->
         LET v == LowerAll(c, b, s.value, <<>>)
         IN Returning(v, <<[k |-> "Return", value |-> v.val]>>)

LowerStmts(c, b, ss, done) ==
  IF ss = <<>> THEN Returning(b, done)
  ELSE LET s == LowerStmt(c, b, Head(ss)) IN LowerStmts(c, s, Tail(ss), done \o s.val)

LowerBlock(c, b, block) ==
  LET stmts == LowerStmts(c, b, block.stmts, <<>>)
      tail == LowerAll(c, stmts, block.tail, <<>>)
  IN Alloc(Leave(tail, b), [k |-> "Block", stmts |-> stmts.val, tail |-> tail.val])

\* A name that only refers: `_` binds nothing (symbol 0).
Binding(b, ident) ==
  IF ident.name = "_" THEN Returning(b, 0) ELSE Declare(b, ident, FALSE, "Local")
RECURSIVE Bindings(_, _, _)
Bindings(b, idents, syms) ==
  IF idents = <<>> THEN Returning(b, syms)
  ELSE LET d == Binding(b, Head(idents)) IN Bindings(d, Tail(idents), Append(syms, d.val))

LowerPattern(c, b, pat) ==
  LET v == ResolveVariant(c, pat.path)
      one == Binding(b, pat.name)
      binds == Bindings(b, pat.binds, <<>>)
  IN IF pat.k = "Bind" THEN Returning(one, [k |-> "Bind", sym |-> one.val])
     ELSE IF ~v.found THEN Returning(Report(b, VariantCode(v.code)), [k |-> "Poison"])
     ELSE Returning(binds, [k |-> "Variant", def |-> v.def, variant |-> v.variant,
                            binds |-> binds.val, path |-> pat.path])

LowerArms(c, b, arms, done) ==
  IF arms = <<>> THEN Returning(b, done)
  ELSE LET pat == LowerPattern(c, b, Head(arms).pat)
           body == LowerExpr(c, pat, Head(arms).body)
       IN LowerArms(c, Leave(body, b), Tail(arms),
                    Append(done, [pat |-> pat.val, body |-> body.val]))

LowerInits(c, b, inits, done) ==
  IF inits = <<>> THEN Returning(b, done)
  ELSE LET v == LowerExpr(c, b, Head(inits).value)
       IN LowerInits(c, v, Tail(inits), Append(done, [name |-> Head(inits).name, value |-> v.val]))

LowerCall(c, b, e) ==
  LET args == LowerAll(c, b, e.args, <<>>)
      d == PathDef(c, e.callee)
      v == ResolveVariant(c, e.callee)
  IN IF d.found
     THEN IF IsKind(c, d.def, "Fn")
          THEN Alloc(args, [k |-> "Call", def |-> d.def, args |-> args.val, path |-> e.callee])
          ELSE Poison(args, "NotCallable")
     ELSE IF d.code = "NotFound" /\ Len(e.callee) = 1
     THEN Poison(args, IF Lookup(args, e.callee[1].name) > 0 THEN "NotCallable" ELSE "UnknownSymbol")
     ELSE IF v.found
     THEN Alloc(args, [k |-> "VariantLit", def |-> v.def, variant |-> v.variant,
                       args |-> args.val, path |-> e.callee])
     ELSE Poison(args, IF v.code = "NotVariant" THEN "UnknownSymbol"
                       ELSE PathCode(d.code, "UnknownSymbol"))

LowerPath(c, b, e) ==
  LET d == PathDef(c, e.path)
      v == ResolveVariant(c, e.path)
  IN IF ~d.found /\ v.found
     THEN Alloc(b, [k |-> "VariantLit", def |-> v.def, variant |-> v.variant, args |-> <<>>,
                    path |-> e.path])
     ELSE Poison(b, IF d.found \/ v.code = "NotVariant" THEN "UnknownSymbol"
                    ELSE PathCode(d.code, "UnknownSymbol"))

LowerStructLit(c, b, e) ==
  LET inits == LowerInits(c, b, e.fields, <<>>)
      d == PathDef(c, e.path)
  IN IF d.found /\ IsKind(c, d.def, "Data")
     THEN Alloc(inits, [k |-> "StructLit", def |-> d.def, fields |-> inits.val, path |-> e.path])
     ELSE Poison(inits, PathCode(d.code, "UnknownType"))

LowerFor(c, b, e) ==
  LET iter == LowerExpr(c, b, e.iter)
      var == Declare(iter, e.var, e.mutable, "Local")
      body == LowerBlock(c, var, e.body)
  IN Alloc(Leave(body, b), [k |-> "For", var |-> var.val, iter |-> iter.val, body |-> body.val])

\* An else block is lowered as a block, not as an expression that holds one.
LowerIf(c, b, e) ==
  LET cond == LowerExpr(c, b, e.cond)
      then == LowerBlock(c, cond, e.then)
      else == LowerAll(c, then, e.else, <<>>)
  IN Alloc(else, [k |-> "If", cond |-> cond.val, then |-> then.val, else |-> else.val])

LowerExpr(c, b, e) ==
  LET base == LowerExpr(c, b, e.base)
      first == LowerExpr(c, b, e.lhs)
      second == LowerExpr(c, first, e.rhs)
      index == LowerExpr(c, base, e.index)
      lo == LowerAll(c, IF e.k = "Slice" THEN base ELSE b, e.lo, <<>>)
      hi == LowerAll(c, lo, e.hi, <<>>)
      operand == LowerExpr(c, b, e.operand)
      elems == LowerAll(c, b, e.elems, <<>>)
      scrutinee == LowerExpr(c, b, e.scrutinee)
      arms == LowerArms(c, scrutinee, e.arms, <<>>)
  IN CASE e.k = "Literal" -> Alloc(b, e)
       [] e.k = "Var" ->
            IF Lookup(b, e.name.name) = 0 THEN Poison(b, "UnknownSymbol")
            ELSE Alloc(b, [k |-> "Var", sym |-> SymbolOf(b, e.name.name), at |-> e.name.at])
       [] e.k = "Call" -> LowerCall(c, b, e)
       [] e.k = "Path" -> LowerPath(c, b, e)
       [] e.k = "Field" -> Alloc(base, [k |-> "Field", base |-> base.val, name |-> e.name])
       [] e.k = "Index" -> Alloc(index, [k |-> "Index", base |-> base.val, index |-> index.val])
       [] e.k = "Slice" ->
            Alloc(hi, [k |-> "Slice", base |-> base.val, lo |-> lo.val, hi |-> hi.val])
       [] e.k = "Range" -> Alloc(hi, [k |-> "Range", lo |-> lo.val, hi |-> hi.val])
       [] e.k = "ArrayLit" -> Alloc(elems, [k |-> "ArrayLit", elems |-> elems.val])
       [] e.k = "For" -> LowerFor(c, b, e)
       [] e.k = "Match" ->
            Alloc(arms, [k |-> "Match", scrutinee |-> scrutinee.val, arms |-> arms.val])
       [] e.k = "Binary" ->
            Alloc(second, [k |-> "Binary", op |-> e.op, lhs |-> first.val, rhs |-> second.val])
       [] e.k = "Unary" -> Alloc(operand, [k |-> "Unary", op |-> e.op, operand |-> operand.val])
       [] e.k = "If" -> LowerIf(c, b, e)
       [] e.k = "Block" -> LowerBlock(c, b, e.block)
       [] e.k = "StructLit" -> LowerStructLit(c, b, e)
       [] e.k = "Error" -> Alloc(b, [k |-> "Poison"])

RECURSIVE Params(_, _)
Params(b, ps) ==
  IF ps = <<>> THEN b
  ELSE Params(Declare(b, Head(ps).name, Head(ps).mutable, "Param"), Tail(ps))

\* lower_body: item f of a file, in scope.
LowerBody(scope, file, item) ==
  LET b == LowerBlock([scope |-> scope, file |-> file], Params(NewBody, item.params), item.body)
  IN [exprs |-> b.exprs, locals |-> b.locals, root |-> b.val, codes |-> b.codes]
=============================================================================
