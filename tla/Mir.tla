-------------------------------- MODULE Mir --------------------------------
(***************************************************************************)
(* mir/lower.rs and mir.rs: a checked body as a graph of basic blocks.      *)
(*                                                                         *)
(* m is the lowerer: the locals so far (parameters first, then bindings and *)
(* temporaries), the local of each symbol (0: none yet), the blocks, the    *)
(* block being filled, whether it was closed, and val, the operand last     *)
(* computed.  An operand is a constant or a place, read when the statement  *)
(* that uses it runs.  c is a body as in Ownership, with its scope and the  *)
(* slots of its struct literals.                                            *)
(***************************************************************************)
EXTENDS Ownership

Unit == <<"unit">>
Pending == [k |-> "Goto", target |-> 0]
Const(v) == [k |-> "Const", value |-> v]
Stored(l) == [k |-> "Place", local |-> l, proj |-> <<>>]
Goto(b) == [k |-> "Goto", target |-> b]
Use(op) == [k |-> "Use", ops |-> <<op>>]

AllocLocal(m, sym, ty, mutable) ==
  [m EXCEPT !.locals = Append(@, [sym |-> sym, ty |-> ty, mutable |-> mutable]),
            !.val = Len(m.locals) + 1]
LocalOf(c, m, sym, ty) ==
  LET fresh == AllocLocal(m, sym, ty, c.locals[sym].mutable)
  IN IF m.localOf[sym] # 0 THEN Returning(m, m.localOf[sym])
     ELSE [fresh EXCEPT !.localOf[sym] = fresh.val]
NewBlock(m) ==
  [m EXCEPT !.blocks = Append(@, [stmts |-> <<>>, term |-> Pending]), !.val = Len(m.blocks) + 1]
\* What follows a closed block goes to a fresh one nothing leads to.
EnsureOpen(m) ==
  IF m.closed THEN [NewBlock(m) EXCEPT !.cur = Len(m.blocks) + 1, !.closed = FALSE] ELSE m
Emit(m, dst, rv) ==
  LET o == EnsureOpen(m)
  IN [o EXCEPT !.blocks[o.cur].stmts = Append(@, [dst |-> dst, rv |-> rv])]
Close(m, term) ==
  LET o == EnsureOpen(m)
  IN [o EXCEPT !.blocks[o.cur].term = term, !.closed = TRUE]
IsOpen(m) == m.blocks[m.cur].term = Pending
CloseIfOpen(m, term) == IF m.closed THEN m ELSE Close(m, term)
Enter(m, block) == [m EXCEPT !.cur = block, !.closed = FALSE]

\* rv into a temporary of its own.
Into(m, ty, rv) ==
  LET t == AllocLocal(m, 0, ty, TRUE)
  IN Returning(Emit(t, Stored(t.val), rv), Stored(t.val))

(* ---- places ---- *)
RECURSIVE MirExpr(_, _, _), MirAll(_, _, _, _), MirStmts(_, _, _), MirArms(_, _, _, _)

EvalPlace(c, m, id) ==
  LET e == c.exprs[id]
      l == LocalOf(c, m, e.sym, c.ty[id])
      base == MirExpr(c, m, e.base)
      held == IF base.val.k = "Const" THEN Into(base, c.ty[e.base], Use(base.val)) ELSE base
      j == FieldIndex(c, c.ty[e.base], e.name.name)
  IN IF e.k = "Var" THEN Returning(l, Stored(l.val))
     ELSE IF j = 0 THEN held
     ELSE Returning(held, [held.val EXCEPT !.proj = Append(@, j)])

RECURSIVE Projected(_, _, _)
Projected(c, ty, fields) ==
  LET j == FieldIndex(c, ty, Head(fields).name)
  IN IF fields = <<>> THEN <<>>
     ELSE IF j = 0 THEN Projected(c, PoisonTy, Tail(fields))
     ELSE <<j>> \o Projected(c, ShapeOf(c, ty).fields[j].ty, Tail(fields))

(* ---- statements ---- *)
MirStmts(c, m, ss) ==
  LET s == Head(ss)
      v == MirAll(c, m, IF s.k = "Return" THEN s.value ELSE StmtParts(s), <<>>)
      bound == LocalOf(c, m, s.sym, c.types[s.sym])
      init == MirAll(c, bound, s.init, <<>>)
      target == LocalOf(c, v, s.target.base, c.types[s.target.base])
      place == [Stored(target.val) EXCEPT !.proj = Projected(c, c.types[s.target.base], s.target.fields)]
      after == CASE s.k = "Let" /\ s.init = <<>> -> bound
                 [] s.k = "Let" /\ s.init # <<>> -> Emit(init, Stored(bound.val), Use(init.val[1]))
                 [] s.k = "Assign" -> Emit(target, place, Use(v.val[1]))
                 [] s.k = "Return" ->
                      Close(v, [k |-> "Return", ops |-> IF s.value = <<>> THEN <<Const(Unit)>> ELSE v.val])
                 [] OTHER -> v
  IN IF ss = <<>> THEN m ELSE MirStmts(c, after, Tail(ss))

(* ---- expressions ---- *)
MirAll(c, m, ids, ops) ==
  IF ids = <<>> THEN Returning(m, ops)
  ELSE LET e == MirExpr(c, m, Head(ids)) IN MirAll(c, e, Tail(ids), Append(ops, e.val))

\* The right side is evaluated on its own branch; both branches write the result.
ShortCircuit(c, m, e) ==
  LET skip == e.op = "||"
      cond == MirExpr(c, m, e.lhs)
      result == AllocLocal(cond, 0, BoolTy, TRUE)
      rhsBb == Len(result.blocks) + 1
      split == Close(NewBlock(NewBlock(NewBlock(result))),
                     [k |-> "Branch", ops |-> <<cond.val>>,
                      then |-> IF skip THEN rhsBb + 1 ELSE rhsBb,
                      else |-> IF skip THEN rhsBb ELSE rhsBb + 1])
      rhs == MirExpr(c, Enter(split, rhsBb), e.rhs)
      done == IF rhs.closed THEN rhs
              ELSE Close(Emit(rhs, Stored(result.val), Use(rhs.val)), Goto(rhsBb + 2))
      skipped == Close(Emit(Enter(done, rhsBb + 1), Stored(result.val), Use(Const(<<"bool", skip>>))),
                       Goto(rhsBb + 2))
  IN Returning(Enter(skipped, rhsBb + 2), Stored(result.val))

\* Mutant: only a branch with a value goes on to the join.
JoinedValues(m, result, join) ==
  IF result = <<>> THEN m ELSE CloseIfOpen(Emit(m, result[1], Use(m.val)), Goto(join))
\* The value of a branch goes to the result, then to the join.
Joined(m, result, join) ==
  CloseIfOpen(IF result = <<>> THEN m ELSE Emit(m, result[1], Use(m.val)), Goto(join))
ResultOf(m, ty) ==
  LET t == AllocLocal(m, 0, ty, TRUE)
  IN IF ty = UnitTy THEN Returning(m, <<>>) ELSE Returning(t, <<Stored(t.val)>>)
Yield(m, result) == Returning(m, IF result = <<>> THEN Const(Unit) ELSE result[1])

MirIf(c, m, id, e) ==
  LET cond == MirExpr(c, m, e.cond)
      result == ResultOf(cond, c.ty[id])
      thenBb == Len(result.blocks) + 1
      elseBb == thenBb + 1
      join == elseBb + Len(e.else)
      opened == IF e.else = <<>> THEN NewBlock(NewBlock(result))
                ELSE NewBlock(NewBlock(NewBlock(result)))
      split == Close(opened, [k |-> "Branch", ops |-> <<cond.val>>, then |-> thenBb, else |-> elseBb])
      then == Joined(MirExpr(c, Enter(split, thenBb), e.then), result.val, join)
      else == Joined(MirExpr(c, Enter(then, elseBb), e.else[1]), result.val, join)
  IN Yield(Enter(IF e.else = <<>> THEN then ELSE else, join), result.val)

\* The bindings of an arm are copies of the scrutinee or of its payload.
RECURSIVE MirBinds(_, _, _, _, _)
MirBinds(c, m, binds, i, op) ==
  LET l == LocalOf(c, m, binds[i], c.types[binds[i]])
  IN IF i > Len(binds) THEN m
     ELSE MirBinds(c, IF binds[i] = 0 THEN m
                      ELSE Emit(l, Stored(l.val), [k |-> "VariantPayload", ops |-> <<op>>, index |-> i]),
                   binds, i + 1, op)
MirPattern(c, m, pat, op, ty) ==
  LET l == LocalOf(c, m, pat.sym, ty)
  IN CASE pat.k = "Variant" -> MirBinds(c, m, pat.binds, 1, op)
       [] pat.k = "Bind" /\ pat.sym # 0 -> Emit(l, Stored(l.val), [k |-> "Duplicate", ops |-> <<op>>])
       [] OTHER -> m

\* x: the scrutinee, its type, the result, the join and the block of the first arm.
MirArms(c, m, arms, x) ==
  IF arms = <<>> THEN m
  ELSE LET bound == MirPattern(c, Enter(m, x.block), Head(arms).pat, x.op, x.ty)
           body == MirExpr(c, bound, Head(arms).body)
       IN MirArms(c, Joined(body, x.result, x.join), Tail(arms), [x EXCEPT !.block = @ + 1])
MirMatch(c, m, id, e) ==
  LET s == MirExpr(c, m, e.scrutinee)
      result == ResultOf(s, c.ty[id])
      join == Len(result.blocks) + 1
      opened == [result EXCEPT !.blocks = @ \o [j \in 1 .. Len(e.arms) + 1 |-> [stmts |-> <<>>, term |-> Pending]]]
      block(j) == join + j
      arms == SelectSeq([j \in 1 .. Len(e.arms) |-> [pat |-> e.arms[j].pat, block |-> block(j)]],
                        LAMBDA a : a.pat.k = "Variant")
      default == SelectInSeq(e.arms, LAMBDA a : a.pat.k = "Bind")
      split == Close(opened, [k |-> "Match", ops |-> <<s.val>>,
                              arms |-> Each(arms, LAMBDA a : <<a.pat.variant, a.block>>),
                              default |-> IF default = 0 THEN <<>> ELSE <<block(default)>>])
      done == MirArms(c, split, e.arms, [op |-> s.val, ty |-> c.ty[e.scrutinee], result |-> result.val,
                                         join |-> join, block |-> join + 1])
  IN Yield(Enter(done, join), result.val)

\* A range counts in its variable up to a bound kept in a temporary; an array is
\* kept in a temporary and counted by another.
MirFor(c, m, e) ==
  LET iter == c.exprs[e.iter]
      ranged == iter.k = "Range"
      var == AllocLocal(m, e.var, c.types[e.var], TRUE)
      start == [var EXCEPT !.localOf[e.var] = var.val]
      boundOf(n, ids) == IF ids = <<>> THEN Returning(n, Const(<<"int", 0>>)) ELSE MirExpr(c, n, ids[1])
      lo == boundOf(start, iter.lo)
      loT == Into(lo, c.types[e.var], Use(lo.val))
      hi == boundOf(loT, iter.hi)
      hiT == Into(hi, c.types[e.var], Use(hi.val))
      array == MirExpr(c, start, e.iter)
      arrT == Into(array, c.ty[e.iter], Use(array.val))
      lenT == Into(arrT, <<"i32">>, [k |-> "Len", ops |-> <<arrT.val>>])
      idxT == Into(lenT, <<"i32">>, Use(Const(<<"int", 0>>)))
      ready == IF ranged THEN Emit(hiT, Stored(var.val), Use(loT.val)) ELSE idxT
      counter == IF ranged THEN Stored(var.val) ELSE idxT.val
      limit == IF ranged THEN hiT.val ELSE lenT.val
      head == Len(ready.blocks) + 1
      looped == Close(NewBlock(NewBlock(NewBlock(ready))), Goto(head))
      test == Into(Enter(looped, head), BoolTy, [k |-> "Binary", op |-> "<", ops |-> <<counter, limit>>])
      split == Close(test, [k |-> "Branch", ops |-> <<test.val>>, then |-> head + 1, else |-> head + 2])
      entered == Enter(split, head + 1)
      bound == IF ranged THEN entered
               ELSE Emit(entered, Stored(var.val), [k |-> "Index", ops |-> <<arrT.val, counter>>])
      body == MirExpr(c, bound, e.body)
      next == Emit(body, counter, [k |-> "Binary", op |-> "+", ops |-> <<counter, Const(<<"int", 1>>)>>])
  IN Returning(Enter(IF IsOpen(body) THEN Close(next, Goto(head)) ELSE body, head + 2), Const(Unit))

MirExpr(c, m, id) ==
  LET e == c.exprs[id]
      p == MirAll(c, m, Parts(e), <<>>)
      into(rv) == Into(p, c.ty[id], rv)
      tail == MirStmts(c, m, e.stmts)
  IN CASE e.k = "Literal" -> Returning(m, Const(e.value))
       [] e.k \in {"Var", "Field"} -> EvalPlace(c, m, id)
       [] e.k = "Binary" -> IF e.op \in {"&&", "||"} THEN ShortCircuit(c, m, e)
                            ELSE into([k |-> "Binary", op |-> e.op, ops |-> p.val])
       [] e.k = "Unary" -> into([k |-> "Unary", op |-> e.op, ops |-> p.val])
       [] e.k \in {"Len", "Index", "ArrayLit"} -> into([k |-> e.k, ops |-> p.val])
       [] e.k = "Slice" -> into([k |-> "Slice", ops |-> p.val, lo |-> Len(e.lo), hi |-> Len(e.hi)])
       [] e.k = "Call" -> into([k |-> "Call", ops |-> p.val, def |-> e.def,
                                contract |-> c.contracts[e.def]])
       [] e.k = "StructLit" -> into([k |-> "StructLit", ops |-> p.val, def |-> e.def, slots |-> c.slots[id]])
       [] e.k = "VariantLit" -> into([k |-> "VariantLit", ops |-> p.val, def |-> e.def,
                                      variant |-> e.variant])
       [] e.k = "If" -> MirIf(c, m, id, e)
       [] e.k = "Match" -> MirMatch(c, m, id, e)
       [] e.k = "For" -> MirFor(c, m, e)
       [] e.k = "Block" -> IF e.tail = <<>> THEN Returning(tail, Const(Unit))
                           ELSE MirExpr(c, tail, e.tail[1])
       [] e.k \in {"Range", "Poison"} -> Returning(m, Const(Unit))

\* lower_fn: the root's value is returned; a block never closed returns unit.
LowerFn(scope, t, view, root) ==
  LET c == view @@ [scope |-> scope, slots |-> t.slots]
      params == [j \in 1 .. c.params |-> [sym |-> j, ty |-> c.types[j], mutable |-> c.locals[j].mutable]]
      m == [locals |-> <<>> \o params,
            localOf |-> [s \in 1 .. Len(c.locals) |-> IF s <= c.params THEN s ELSE 0],
            blocks |-> <<[stmts |-> <<>>, term |-> Pending]>>, cur |-> 1, closed |-> FALSE, val |-> 0]
      r == MirExpr(c, m, root)
      ended == IF IsOpen(r) THEN Close(r, [k |-> "Return", ops |-> <<r.val>>]) ELSE r
      swept(b) == IF b.term = Pending THEN [b EXCEPT !.term = [k |-> "Return", ops |-> <<Const(Unit)>>]]
                  ELSE b
  IN [params |-> c.params, locals |-> ended.locals, blocks |-> Each(ended.blocks, swept),
      open |-> {b \in 1 .. Len(ended.blocks) : ended.blocks[b].term = Pending}]
=============================================================================
