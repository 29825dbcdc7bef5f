------------------------------- MODULE Interp -------------------------------
(***************************************************************************)
(* interpreter/interp.rs and value.rs: the machine that runs MIR, one       *)
(* statement or terminator a step.                                          *)
(*                                                                         *)
(* x is the machine: the heap of cells, the frames (the innermost last),    *)
(* its status, the trap when there is one, and the value returned.  A value *)
(* is a tuple <<kind, ...>>; a struct, a variant or an array refers to the  *)
(* cells of its parts, so two values may share them.  Floats are not        *)
(* computed with.                                                           *)
(***************************************************************************)
EXTENDS Mir

Hole == <<"hole">>
Aggregate(v) == v[1] \in {"struct", "variant", "array"}     \* <<kind, tag, cells>>
IsTrap(v) == v[1] = "trap"
Trapped(why) == <<"trap", why>>
Stop(x, why) == [x EXCEPT !.status = "trapped", !.why = why]
Frame(x) == Last(x.frames)

\* The whole of a value, and a copy of one that shares no cell with it.
RECURSIVE Tree(_, _)
Tree(heap, v) ==
  IF Aggregate(v) THEN <<v[1], v[2], Each(v[3], LAMBDA cell : Tree(heap, heap[cell]))>> ELSE v
RECURSIVE Build(_, _), BuildAll(_, _, _)
BuildAll(heap, trees, cells) ==
  IF trees = <<>> THEN [heap |-> heap, val |-> cells]
  ELSE LET b == Build(heap, Head(trees))
       IN BuildAll(Append(b.heap, b.val), Tail(trees), Append(cells, Len(b.heap) + 1))
Build(heap, tree) ==
  LET parts == BuildAll(heap, tree[3], <<>>)
  IN IF Aggregate(tree) THEN [heap |-> parts.heap, val |-> <<tree[1], tree[2], parts.val>>]
     ELSE [heap |-> heap, val |-> tree]
RECURSIVE HasHole(_)
HasHole(tree) == tree = Hole \/ (Aggregate(tree) /\ \E j \in DOMAIN tree[3] : HasHole(tree[3][j]))
DeepEq(a, b) == a = b /\ ~HasHole(a)

(* ---- places and operands ---- *)
\* The cell of a place, 0 when a projection fails.
RECURSIVE Project(_, _, _)
Project(heap, cell, proj) ==
  IF proj = <<>> \/ cell = 0 THEN cell
  ELSE LET v == heap[cell]
       IN IF v[1] # "struct" THEN 0 ELSE Project(heap, v[3][Head(proj)], Tail(proj))
CellOf(x, place) == Project(x.heap, Frame(x).locals[place.local], place.proj)
OperandValue(x, op) ==
  IF op.k = "Const" THEN op.value
  ELSE IF CellOf(x, op) = 0 THEN Trapped("projection")
  ELSE IF x.heap[CellOf(x, op)] = Hole THEN Trapped("hole") ELSE x.heap[CellOf(x, op)]
FirstTrap(vs) == SelectInSeq(vs, IsTrap)

(* ---- pure operations ---- *)
Ordered == " 0123456789ABCDEFGHIJKLMNOPQRSTUVWXYZ_abcdefghijklmnopqrstuvwxyz"   \* as Unicode orders them
CodeOf(ch) == CHOOSE i \in 1 .. Len(Ordered) : SubSeq(Ordered, i, i) = ch
RECURSIVE TextBefore(_, _)
TextBefore(a, b) ==
  IF b = <<>> THEN FALSE ELSE IF a = <<>> THEN TRUE
  ELSE IF a[1] = b[1] THEN TextBefore(Tail(a), Tail(b)) ELSE CodeOf(a[1]) < CodeOf(b[1])
Less(l, r) == CASE l[1] = "int" -> l[2] < r[2]
                [] l[1] = "char" -> CodeOf(l[2]) < CodeOf(r[2])
                [] l[1] = "str" -> TextBefore(l[2], r[2])
Magnitude(n) == IF n < 0 THEN -n ELSE n
Quotient(a, b) ==         \* Rust divides towards zero
  LET q == Magnitude(a) \div Magnitude(b) IN IF (a < 0) = (b < 0) THEN q ELSE -q
IntResult(op, a, b) ==
  CASE op = "+" -> a + b [] op = "-" -> a - b [] op = "*" -> a * b
    [] op = "/" -> Quotient(a, b) [] op = "%" -> a - b * Quotient(a, b)
BinaryValue(op, l, r) ==
  LET ints == l[1] = "int" /\ r[1] = "int"
  IN CASE op \in {"/", "%"} /\ ints /\ r[2] = 0 -> Trapped("zero")
       [] op \in Arithmetic /\ ints /\ ~(op \in {"/", "%"} /\ r[2] = 0) ->
            <<"int", IntResult(op, l[2], r[2])>>
       [] op = "+" /\ l[1] = "str" /\ r[1] = "str" -> <<"str", l[2] \o r[2]>>
       [] op = "==" -> <<"bool", ~Aggregate(l) /\ l = r>>
       [] op = "!=" -> <<"bool", Aggregate(l) \/ l # r>>
       [] op \in Ordering /\ l[1] = r[1] /\ l[1] \in {"int", "char", "str"} ->
            <<"bool", CASE op = "<" -> Less(l, r) [] op = "<=" -> ~Less(r, l)
                        [] op = ">" -> Less(r, l) [] op = ">=" -> ~Less(l, r)>>
       [] OTHER -> Trapped("kind")
UnaryValue(op, v) ==
  CASE op = "-" /\ v[1] = "int" -> <<"int", -v[2]>>
    [] op = "!" /\ v[1] = "bool" -> <<"bool", ~v[2]>>
    [] OTHER -> Trapped("kind")

\* The parts of a string or an array, and the part of it from lo to hi.
PartsOf(v) == IF v[1] = "str" THEN v[2] ELSE v[3]
Sequence(v) == v[1] \in {"str", "array"}
IndexValue(heap, base, index) ==
  IF ~Sequence(base) \/ index[1] # "int" THEN Trapped("kind")
  ELSE IF index[2] \notin 0 .. Len(PartsOf(base)) - 1 THEN Trapped("bounds")
  ELSE IF base[1] = "str" THEN <<"str", <<base[2][index[2] + 1]>>>> ELSE heap[base[3][index[2] + 1]]

(* ---- rvalues: [heap, val], a trap in val ---- *)
Fresh(heap, kind, tag, vs) ==
  [heap |-> heap \o vs, val |-> <<kind, tag, <<>> \o [j \in 1 .. Len(vs) |-> Len(heap) + j]>>]
SliceResult(heap, rv, vs) ==
  LET base == vs[1]
      lo == IF rv.lo = 0 THEN <<"int", 0>> ELSE vs[2]
      hi == IF rv.hi = 0 THEN <<"int", Len(PartsOf(base))>> ELSE vs[2 + rv.lo]
      out == SubSeq(PartsOf(base), lo[2] + 1, hi[2])
  IN IF ~Sequence(base) \/ lo[1] # "int" \/ hi[1] # "int" THEN [heap |-> heap, val |-> Trapped("kind")]
     ELSE IF lo[2] < 0 \/ hi[2] < lo[2] \/ hi[2] > Len(PartsOf(base))
     THEN [heap |-> heap, val |-> Trapped("bounds")]
     ELSE IF base[1] = "str" THEN [heap |-> heap, val |-> <<"str", out>>]
     ELSE Fresh(heap, "array", <<>>, Each(out, LAMBDA cell : heap[cell]))
\* Mutant: a binding shares the cells of the payload it matched.
PayloadShared(heap, base, index) ==
  IF base[1] # "variant" \/ index \notin DOMAIN base[3] THEN [heap |-> heap, val |-> Trapped("kind")]
  ELSE [heap |-> heap, val |-> heap[base[3][index]]]
PayloadResult(heap, base, index) ==
  IF base[1] # "variant" \/ index \notin DOMAIN base[3] THEN [heap |-> heap, val |-> Trapped("kind")]
  ELSE Build(heap, Tree(heap, heap[base[3][index]]))
\* Mutant: the fields of a literal are taken in the order they are written.
StructCellsAsWritten(scope, rv, vs) == <<>> \o vs
StructCells(scope, rv, vs) ==
  <<>> \o [j \in 1 .. Len(scope.defs[rv.def].fields) |->
             LET i == SelectLastInSeq(rv.slots, LAMBDA s : s = j) IN IF i = 0 THEN Hole ELSE vs[i]]

RvalueResult(scope, x, rv, vs) ==
  LET pure(v) == [heap |-> x.heap, val |-> v]
      tree == Tree(x.heap, vs[1])
  IN IF FirstTrap(vs) # 0 THEN pure(vs[FirstTrap(vs)])
     ELSE CASE rv.k = "Use" -> pure(vs[1])
            [] rv.k = "Unary" -> pure(UnaryValue(rv.op, vs[1]))
            [] rv.k = "Binary" -> pure(BinaryValue(rv.op, vs[1], vs[2]))
            [] rv.k = "Len" -> pure(IF Sequence(vs[1]) THEN <<"int", Len(PartsOf(vs[1]))>>
                                    ELSE Trapped("kind"))
            [] rv.k = "Index" -> pure(IndexValue(x.heap, vs[1], vs[2]))
            [] rv.k = "ArrayLit" -> Fresh(x.heap, "array", <<>>, vs)
            [] rv.k = "Slice" -> SliceResult(x.heap, rv, vs)
            [] rv.k = "StructLit" -> Fresh(x.heap, "struct", <<rv.def>>, StructCells(scope, rv, vs))
            [] rv.k = "VariantLit" -> Fresh(x.heap, "variant", <<rv.def, rv.variant>>, vs)
            [] rv.k = "VariantPayload" -> PayloadResult(x.heap, vs[1], rv.index)
            [] rv.k = "Duplicate" -> Build(x.heap, tree)

(* ---- statements ---- *)
\* v to the place a statement assigns, and on to the next statement.
Store(x, dst, v) ==
  IF IsTrap(v) THEN Stop(x, v[2])
  ELSE IF CellOf(x, dst) = 0 THEN Stop(x, "projection")
  ELSE [x EXCEPT !.heap[CellOf(x, dst)] = v, !.frames[Len(x.frames)].at = @ + 1]

\* A call: borrowed places pass the caller's own cell (a shared one is remembered as
\* it was), anything else passes a fresh cell; a consumed place is emptied on return.
Push(x, mir, def, cells, shared, consumed) ==
  LET body == mir[def]
      holes == [j \in 1 .. Len(body.locals) - Len(cells) |-> Hole]
      locals == cells \o [j \in 1 .. Len(body.locals) - Len(cells) |-> Len(x.heap) + j]
  IN IF Len(cells) # body.params THEN Stop(x, "arguments")
     ELSE [x EXCEPT !.heap = @ \o holes,
                    !.frames = Append(@, [def |-> def, locals |-> locals, block |-> 1, at |-> 1,
                                          shared |-> shared, consumed |-> consumed])]
CallStep(x, mir, rv) ==
  LET args == 1 .. Len(rv.ops)
      mode(i) == IF i \in DOMAIN rv.contract THEN rv.contract[i] ELSE "Unknown"
      place(i) == rv.ops[i].k = "Place"
      lent(i) == place(i) /\ mode(i) \in {"Borrow", "BorrowMut"}
      taken(i) == place(i) /\ mode(i) \in {"Move", "Escape", "Unknown"}
      cell(i) == CellOf(x, rv.ops[i])
      vs == Each(rv.ops, LAMBDA op : OperandValue(x, op))
      bad == {i \in args : IF lent(i) THEN cell(i) = 0 ELSE IsTrap(vs[i])}
      cells == [i \in args |-> IF lent(i) THEN cell(i) ELSE Len(x.heap) + i]
      passed == [i \in args |-> IF lent(i) THEN Hole ELSE vs[i]]
      snapshots == [i \in args |-> [cell |-> cell(i), before |-> Tree(x.heap, x.heap[cell(i)])]]
      shared == {snapshots[i] : i \in {j \in args : lent(j) /\ mode(j) = "Borrow"}}
  IN IF bad # {} THEN Stop(x, IF cell(Min(bad)) = 0 THEN "projection" ELSE "hole")
     ELSE Push([x EXCEPT !.heap = @ \o passed], mir, rv.def, <<>> \o cells, shared,
               {cell(i) : i \in {j \in args : taken(j)}})

\* The callee's value returns to the statement that called.
Pop(x, mir, v) ==
  LET f == Frame(x)
      heap == <<>> \o [j \in DOMAIN x.heap |-> IF j \in f.consumed THEN Hole ELSE x.heap[j]]
      caller == [x EXCEPT !.heap = heap, !.frames = Front(@)]
      g == Frame(caller)
      violated == \E s \in f.shared : ~DeepEq(Tree(heap, heap[s.cell]), s.before)
  IN IF Len(x.frames) = 1
     THEN [x EXCEPT !.status = "returned", !.value = Tree(x.heap, v), !.frames = <<>>]
     ELSE IF violated THEN Stop(x, "contract")
     ELSE Store(caller, mir[g.def].blocks[g.block].stmts[g.at].dst, v)

Jump(x, block) ==
  [x EXCEPT !.frames[Len(x.frames)].block = block, !.frames[Len(x.frames)].at = 1]
TerminatorStep(x, mir, term) ==
  LET v == OperandValue(x, term.ops[1])
      arm == SelectInSeq(term.arms, LAMBDA a : a[1] = v[2][2])
  IN CASE term.k = "Goto" -> Jump(x, term.target)
       [] term.k # "Goto" /\ IsTrap(v) -> Stop(x, v[2])
       [] term.k = "Return" /\ ~IsTrap(v) -> Pop(x, mir, v)
       [] term.k = "Branch" /\ ~IsTrap(v) ->
            IF v[1] # "bool" THEN Stop(x, "kind") ELSE Jump(x, IF v[2] THEN term.then ELSE term.else)
       [] term.k = "Match" /\ ~IsTrap(v) ->
            IF v[1] # "variant" THEN Stop(x, "kind")
            ELSE IF arm # 0 THEN Jump(x, term.arms[arm][2])
            ELSE IF term.default # <<>> THEN Jump(x, term.default[1]) ELSE Stop(x, "match")

\* One statement or terminator of the innermost frame.
MachineStep(scope, mir, x) ==
  LET f == Frame(x)
      block == mir[f.def].blocks[f.block]
      stmt == block.stmts[f.at]
      vs == Each(stmt.rv.ops, LAMBDA op : OperandValue(x, op))
      r == RvalueResult(scope, x, stmt.rv, vs)
  IN IF f.at > Len(block.stmts) THEN TerminatorStep(x, mir, block.term)
     ELSE IF stmt.rv.k = "Call" THEN CallStep(x, mir, stmt.rv)
     ELSE Store([x EXCEPT !.heap = r.heap], stmt.dst, r.val)

\* run: the entry function is called without arguments.
Boot(mir, entry) ==
  Push([heap |-> <<>>, frames |-> <<>>, status |-> "running", why |-> "none", value |-> Unit],
       mir, entry, <<>>, {}, {})
=============================================================================
