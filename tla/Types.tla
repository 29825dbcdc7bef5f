------------------------------- MODULE Types -------------------------------
(***************************************************************************)
(* types/check.rs and ty.rs: the type of every expression and local of a   *)
(* body, the bidirectional `expected` context, and the paths that cannot   *)
(* reach their end.                                                        *)
(*                                                                         *)
(* t is the checker: the body's expressions (a `len` field is rewritten to  *)
(* a Len node), the type of each (poison until checked), the types of its  *)
(* locals, the slots of its struct literals, the codes and val, the type   *)
(* last computed.  c is the module scope, the body and its return type.    *)
(* What is expected is a sequence of at most one type.  Integers keep to   *)
(* their width where it is at most 32 bits, the width of TLC's.            *)
(***************************************************************************)
EXTENDS Hir

Integer == {<<"i8">>, <<"i16">>, <<"i32">>, <<"i64">>, <<"isize">>,
            <<"u8">>, <<"u16">>, <<"u32">>, <<"u64">>, <<"usize">>}
Float == {<<"f32">>, <<"f64">>}
Numeric == Integer \cup Float
BoolTy == <<"bool">>
StrTy == <<"str">>
CharTy == <<"char">>
IsStruct(ty) == ty[1] = "struct"
IsArray(ty) == ty[1] = "array"
IsCopy(ty) == ty[1] \notin {"struct", "array", "poison"}
\* Mutant: poison is a type like any other.
CompatibleStrict(a, b) == a = b
Compatible(a, b) == a = PoisonTy \/ b = PoisonTy \/ a = b
IntFits(v, ty) ==
  CASE ty = <<"i8">> -> v \in -128 .. 127
    [] ty = <<"i16">> -> v \in -32768 .. 32767
    [] ty = <<"u8">> -> v \in 0 .. 255
    [] ty = <<"u16">> -> v \in 0 .. 65535
    [] ty \in {<<"u32">>, <<"u64">>, <<"usize">>} -> v >= 0
    [] OTHER -> TRUE

IsEnum(c, ty) == IsStruct(ty) /\ c.scope.defs[ty[2]].variants # <<>>
ShapeOf(c, ty) == c.scope.defs[ty[2]]
FieldIndex(c, ty, name) ==
  IF IsStruct(ty) THEN SelectInSeq(ShapeOf(c, ty).fields, LAMBDA f : f.name = name) ELSE 0
When(want, types) == IF want # <<>> /\ want[1] \in types THEN want ELSE <<>>

Unify(t, actual, expected) ==
  IF Compatible(expected, actual)
  THEN Returning(t, IF expected = PoisonTy THEN actual ELSE expected)
  ELSE Returning(Report(t, "TypeMismatch"), PoisonTy)
Fail(t, code) == Returning(Report(t, code), PoisonTy)
SetTy(t, id, ty) == [t EXCEPT !.ty[id] = ty, !.val = ty]
SetLocal(t, sym, ty) == [t EXCEPT !.locals[sym] = ty]

(* ---- which paths end ---- *)
MatchIsExhaustive(c, t, e) ==
  LET ty == t.ty[e.scrutinee]
      covered == {e.arms[j].pat.variant : j \in {i \in 1 .. Len(e.arms) :
                    e.arms[i].pat.k = "Variant" /\ e.arms[i].pat.def = ty[2]}}
  IN \/ \E j \in 1 .. Len(e.arms) : e.arms[j].pat.k = "Bind"
     \/ IsEnum(c, ty) /\ Cardinality(covered) >= Len(ShapeOf(c, ty).variants)

\* The expressions an expression evaluates, always and in order, before it is done;
\* the rest of If, Match and the logical operators is conditional.
Parts(e) ==
  CASE e.k = "Binary" -> IF e.op \in {"&&", "||"} THEN <<e.lhs>> ELSE <<e.lhs, e.rhs>>
    [] e.k = "Unary" -> <<e.operand>>
    [] e.k \in {"Field", "Len"} -> <<e.base>>
    [] e.k = "Index" -> <<e.base, e.index>>
    [] e.k = "Slice" -> <<e.base>> \o e.lo \o e.hi
    [] e.k = "Range" -> e.lo \o e.hi
    [] e.k \in {"Call", "VariantLit"} -> e.args
    [] e.k = "StructLit" -> Each(e.fields, LAMBDA f : f.value)
    [] e.k = "ArrayLit" -> e.elems
    [] e.k = "For" -> <<e.iter>>
    [] e.k = "If" -> <<e.cond>>
    [] e.k = "Match" -> <<e.scrutinee>>
    [] OTHER -> <<>>
StmtParts(s) ==
  CASE s.k = "Let" -> s.init
    [] s.k = "Assign" -> <<s.value>>
    [] s.k = "Expr" -> <<s.expr>>
    [] OTHER -> <<>>

RECURSIVE CanComplete(_, _, _)
CanComplete(c, t, id) ==
  LET e == t.exprs[id]
      all(ids) == \A j \in 1 .. Len(ids) : CanComplete(c, t, ids[j])
  IN /\ all(Parts(e))
     /\ e.k = "Block" => /\ \A j \in 1 .. Len(e.stmts) :
                              e.stmts[j].k # "Return" /\ all(StmtParts(e.stmts[j]))
                         /\ all(e.tail)
     /\ e.k = "If" => CanComplete(c, t, e.then) \/ all(e.else)
     /\ e.k = "Match" => \/ e.arms = <<>> \/ ~MatchIsExhaustive(c, t, e)
                         \/ \E j \in 1 .. Len(e.arms) : CanComplete(c, t, e.arms[j].body)

(* ---- expressions ---- *)
RECURSIVE ExprTy(_, _, _, _), ArgTys(_, _, _, _), ElemTys(_, _, _, _, _, _), Bounds(_, _, _, _),
          RangeBoundTys(_, _, _, _, _), ArmTys(_, _, _, _, _), InitTys(_, _, _, _, _), StmtTys(_, _, _)

LiteralTy(t, v, want) ==
  LET ty == IF When(want, Integer) # <<>> THEN want[1] ELSE <<"i32">>
  IN CASE v[1] = "int" -> IF IntFits(v[2], ty) THEN Returning(t, ty) ELSE Fail(t, "LiteralOverflow")
       [] v[1] = "float" -> Returning(t, IF When(want, Float) # <<>> THEN want[1] ELSE <<"f64">>)
       [] OTHER -> Returning(t, <<v[1]>>)

\* The type of a field; a `len` reached here is assigned to.
FieldTy(c, t, ty, name) ==
  CASE ty = PoisonTy -> Returning(t, PoisonTy)
    [] (ty = StrTy \/ IsArray(ty)) /\ name = "len" -> Fail(t, "UnsupportedOperation")
    [] IsStruct(ty) -> LET j == FieldIndex(c, ty, name)
                       IN IF j = 0 THEN Fail(t, "UnknownField")
                          ELSE Returning(t, ShapeOf(c, ty).fields[j].ty)
    [] OTHER -> Fail(t, "NotAStruct")

RECURSIVE PlaceTy(_, _, _, _)
PlaceTy(c, t, ty, fields) ==
  IF fields = <<>> THEN Returning(t, ty)
  ELSE LET f == FieldTy(c, t, ty, Head(fields).name)
       IN PlaceTy(c, f, f.val, Tail(fields))

\* Each argument against its parameter; the arguments too many have no context.
ArgTys(c, t, args, params) ==
  IF args = <<>> THEN t
  ELSE LET a == ExprTy(c, t, Head(args), First(params))
       IN ArgTys(c, IF params = <<>> THEN a ELSE Unify(a, a.val, params[1]), Tail(args),
                 IF params = <<>> THEN <<>> ELSE Tail(params))
Applied(c, t, args, params, ret) ==
  LET counted == IF Len(args) = Len(params) THEN t ELSE Report(t, "ArgCount")
  IN Returning(ArgTys(c, counted, args, params), ret)

\* Index and slice bounds must be integers; ok is whether all is well so far.
Bounds(c, t, ids, ok) ==
  IF ids = <<>> THEN Returning(t, ok)
  ELSE LET i == ExprTy(c, t, Head(ids), <<>>)
           integer == i.val \in Integer \cup {PoisonTy}
       IN Bounds(c, IF integer THEN i ELSE Report(i, "TypeMismatch"), Tail(ids), ok /\ integer)
Accessed(c, t, base, bounds, F(_)) ==
  LET b == ExprTy(c, t, base, <<>>)
      ok == b.val \in {StrTy, PoisonTy} \/ IsArray(b.val)
      r == Bounds(c, IF ok THEN b ELSE Report(b, "UnsupportedOperation"), bounds, ok)
  IN Returning(r, IF r.val THEN F(b.val) ELSE PoisonTy)

\* An array literal: elem is the element type known so far, ok whether all agree.
ElemTys(c, t, elems, want, elem, ok) ==
  IF elems = <<>>
  THEN [t EXCEPT !.val = [elem |-> elem, ok |-> ok]]
  ELSE LET e == ExprTy(c, t, Head(elems), want)
           agrees == elem = <<>> \/ Compatible(elem[1], e.val)
       IN ElemTys(c, IF agrees THEN e ELSE Report(e, "TypeMismatch"), Tail(elems), want,
                  IF elem = <<>> THEN <<e.val>> ELSE elem, ok /\ agrees)
ArrayLitTy(c, t, elems, want) ==
  LET context == IF want # <<>> /\ IsArray(want[1]) THEN <<want[1][2]>> ELSE <<>>
      r == ElemTys(c, t, elems, context, context, TRUE)
      elem == r.val.elem[1]
  IN IF r.val.elem = <<>>
     THEN IF want = <<PoisonTy>> THEN Returning(r, PoisonTy) ELSE Fail(r, "CannotInfer")
     ELSE IF ~r.val.ok \/ elem = PoisonTy THEN Returning(r, PoisonTy)
     ELSE IF elem = UnitTy \/ IsArray(elem) THEN Fail(r, "UnsupportedOperation")
     ELSE Returning(r, <<"array", elem>>)

\* The bounds of a for range share one integer type; a literal lower bound takes
\* the type of the upper one.
RangeBoundTys(c, t, ids, elem, ok) ==
  IF ids = <<>> THEN Returning(t, IF ~ok THEN PoisonTy ELSE IF elem = <<>> THEN <<"i32">> ELSE elem[1])
  ELSE LET b == ExprTy(c, t, Head(ids), elem)
       IN CASE b.val = PoisonTy -> RangeBoundTys(c, b, Tail(ids), elem, FALSE)
            [] b.val # PoisonTy /\ (b.val \notin Integer \/ elem \notin {<<>>, <<b.val>>}) ->
                 RangeBoundTys(c, Report(b, "TypeMismatch"), Tail(ids), elem, FALSE)
            [] OTHER -> RangeBoundTys(c, b, Tail(ids), <<b.val>>, ok)
RangeIterTy(c, t, e) ==
  LET start == IF e.hi = <<>> THEN Report(t, "UnsupportedOperation") ELSE t
      literal == e.lo # <<>> /\ t.exprs[e.lo[1]].k = "Literal"
  IN RangeBoundTys(c, start, IF literal THEN e.hi \o e.lo ELSE e.lo \o e.hi, <<>>, e.hi # <<>>)
ForTy(c, t, e) ==
  LET iter == t.exprs[e.iter]
      i == IF iter.k = "Range" THEN RangeIterTy(c, t, iter) ELSE ExprTy(c, t, e.iter, <<>>)
      elem == CASE iter.k = "Range" -> i
                [] iter.k # "Range" /\ IsArray(i.val) -> Returning(i, i.val[2])
                [] iter.k # "Range" /\ i.val = PoisonTy -> i
                [] OTHER -> Fail(i, "UnsupportedOperation")
  IN Returning(ExprTy(c, SetLocal(elem, e.var, elem.val), e.body, <<>>), UnitTy)

Arithmetic == {"+", "-", "*", "/", "%"}
Equality == {"==", "!="}
Ordering == {"<", "<=", ">", ">="}
NumberLiteral(t, id) == t.exprs[id].k = "Literal" /\ t.exprs[id].value[1] \in {"int", "float"}
NumericLiteralOperand(t, id) ==
  LET e == t.exprs[id]
  IN NumberLiteral(t, id) \/ (e.k = "Unary" /\ e.op = "-" /\ NumberLiteral(t, e.operand))
RECURSIVE ContextIndependentPeer(_, _)
ContextIndependentPeer(t, id) ==
  LET e == t.exprs[id]
  IN CASE e.k \in {"Var", "Call", "Field", "Index", "Len"} -> TRUE
       [] e.k = "Block" -> e.tail # <<>> /\ ContextIndependentPeer(t, e.tail[1])
       [] e.k = "Unary" -> e.op = "-" /\ ContextIndependentPeer(t, e.operand)
       [] e.k = "Binary" -> e.op \in Arithmetic /\ ContextIndependentPeer(t, e.lhs)
       [] OTHER -> FALSE

\* A numeric literal on the left takes the type of a peer that has one of its own.
BinaryTy(c, t, e, want) ==
  LET context == IF e.op \in Arithmetic THEN When(want, Numeric) ELSE <<>>
      peer == /\ context = <<>> /\ e.op \notin {"&&", "||"}
              /\ NumericLiteralOperand(t, e.lhs) /\ ContextIndependentPeer(t, e.rhs)
      rhs1 == ExprTy(c, t, e.rhs, <<>>)
      lhs2 == ExprTy(c, rhs1, e.lhs, When(<<rhs1.val>>, Numeric))
      lhs1 == ExprTy(c, t, e.lhs, context)
      rhs2 == ExprTy(c, lhs1, e.rhs, <<lhs1.val>>)
      l == IF peer THEN lhs2.val ELSE lhs1.val
      r == IF peer THEN rhs1.val ELSE rhs2.val
      q == IF peer THEN lhs2 ELSE rhs2
      poisoned == l = PoisonTy \/ r = PoisonTy
      mismatch == Fail(q, IF Compatible(l, r) THEN "UnsupportedOperation" ELSE "TypeMismatch")
      ok(ty) == Returning(q, ty)
  IN CASE e.op \in Arithmetic ->
            IF l \in Numeric /\ Compatible(l, r) THEN ok(l)
            ELSE IF e.op = "+" /\ l = StrTy /\ r = StrTy THEN ok(StrTy)
            ELSE IF poisoned THEN ok(PoisonTy) ELSE mismatch
       [] e.op \in Equality ->
            IF ~Compatible(l, r) THEN mismatch
            ELSE IF l \in Numeric \cup {BoolTy, StrTy, CharTy, PoisonTy} THEN ok(BoolTy) ELSE mismatch
       [] e.op \in Ordering ->
            IF l \in Numeric \cup {StrTy, CharTy} /\ Compatible(l, r) THEN ok(BoolTy)
            ELSE IF poisoned THEN ok(PoisonTy) ELSE mismatch
       [] OTHER ->
            IF l = BoolTy /\ r = BoolTy THEN ok(BoolTy)
            ELSE IF poisoned THEN ok(PoisonTy) ELSE Fail(q, "TypeMismatch")

\* A minus before an integer literal is one literal: -128 fits i8.
UnaryTy(c, t, e, want) ==
  LET operand == t.exprs[e.operand]
      folds == /\ e.op = "-" /\ operand.k = "Literal" /\ operand.value[1] = "int"
               /\ want = <<>> \/ want[1] \in Integer
      ty == IF want = <<>> THEN <<"i32">> ELSE want[1]
      x == ExprTy(c, t, e.operand, IF e.op = "-" THEN When(want, Numeric) ELSE <<>>)
      allowed == IF e.op = "-" THEN Numeric ELSE {BoolTy}
  IN IF folds
     THEN IF IntFits(-operand.value[2], ty) THEN SetTy(t, e.operand, ty)
          ELSE SetTy(Report(t, "LiteralOverflow"), e.operand, PoisonTy)
     ELSE IF x.val \in allowed \cup {PoisonTy} THEN x
     ELSE Fail(x, IF e.op = "-" THEN "UnsupportedOperation" ELSE "TypeMismatch")

Default(want) == IF want = <<>> THEN UnitTy ELSE want[1]
IfTy(c, t, e, want) ==
  LET cond == ExprTy(c, t, e.cond, <<BoolTy>>)
      tested == IF cond.val \in {BoolTy, PoisonTy} THEN cond ELSE Report(cond, "TypeMismatch")
      then == ExprTy(c, tested, e.then, want)
      else == ExprTy(c, then, e.else[1], want)
      thenEnds == CanComplete(c, else, e.then)
      elseEnds == CanComplete(c, else, e.else[1])
  IN IF e.else = <<>> THEN Returning(then, UnitTy)
     ELSE IF thenEnds /\ elseEnds THEN Unify(else, else.val, then.val)
     ELSE Returning(else, IF thenEnds THEN then.val ELSE IF elseEnds THEN else.val ELSE Default(want))

\* Types for the bindings of a pattern: payload types, poison past the payload.
RECURSIVE BindAll(_, _, _)
BindAll(t, binds, payload) ==
  IF binds = <<>> THEN t
  ELSE BindAll(IF Head(binds) = 0 THEN t
               ELSE SetLocal(t, Head(binds), IF payload = <<>> THEN PoisonTy ELSE payload[1]),
               Tail(binds), IF payload = <<>> THEN <<>> ELSE Tail(payload))
PatternTy(c, t, pat, sty) ==
  LET payload == ShapeOf(c, sty).variants[pat.variant].payload
      counted == IF Len(pat.binds) = Len(payload) THEN t ELSE Report(t, "ArgCount")
  IN CASE pat.k = "Bind" -> IF pat.sym = 0 THEN t ELSE SetLocal(t, pat.sym, sty)
       [] pat.k = "Poison" -> t
       [] OTHER -> IF ~IsEnum(c, sty) THEN BindAll(t, pat.binds, <<>>)
                   ELSE IF pat.def = sty[2] THEN BindAll(counted, pat.binds, payload)
                   ELSE BindAll(Report(t, "TypeMismatch"), pat.binds, <<>>)

\* seen: the variants covered so far, 0 for a catch-all; result: the arms' type so
\* far, from the arms that can complete.
ArmTys(c, t, arms, want, m) ==
  IF arms = <<>> THEN [t EXCEPT !.val = m]
  ELSE LET pat == Head(arms).pat
           covers == CASE pat.k = "Bind" -> {0} [] pat.k = "Variant" -> {pat.variant} [] OTHER -> {}
           dead == 0 \in m.seen \/ (pat.k = "Variant" /\ pat.variant \in m.seen)
           bound == PatternTy(c, t, pat, m.sty)
           body == ExprTy(c, IF dead THEN Report(bound, "UnreachableArm") ELSE bound, Head(arms).body,
                          IF want = <<>> THEN m.result ELSE want)
           joined == IF m.result = <<>> THEN body ELSE Unify(body, body.val, m.result[1])
           ends == CanComplete(c, body, Head(arms).body)
       IN ArmTys(c, IF ends THEN joined ELSE body, Tail(arms), want,
                 [m EXCEPT !.seen = @ \cup covers, !.result = IF ends THEN <<joined.val>> ELSE @])
MatchTy(c, t, e, want) ==
  LET s == ExprTy(c, t, e.scrutinee, <<>>)
      checked == IF s.val = PoisonTy \/ IsEnum(c, s.val) THEN s ELSE Report(s, "UnsupportedOperation")
      r == ArmTys(c, checked, e.arms, want, [sty |-> s.val, seen |-> {}, result |-> <<>>])
      missing == IsEnum(c, s.val)
                 /\ ~(0 \in r.val.seen \/ DOMAIN ShapeOf(c, s.val).variants \subseteq r.val.seen)
  IN Returning(IF missing THEN Report(r, "NonExhaustive") ELSE r,
               IF r.val.result # <<>> THEN r.val.result[1] ELSE Default(want))

InitTys(c, t, ty, inits, slots) ==
  IF inits = <<>> THEN Returning(t, slots)
  ELSE LET j == FieldIndex(c, ty, Head(inits).name.name)
           again == IF \E i \in 1 .. Len(slots) : slots[i] = j THEN Report(t, "DuplicateField") ELSE t
           known == ExprTy(c, again, Head(inits).value, <<ShapeOf(c, ty).fields[j].ty>>)
           unknown == ExprTy(c, Report(t, "UnknownField"), Head(inits).value, <<>>)
       IN IF j = 0 THEN InitTys(c, unknown, ty, Tail(inits), slots)
          ELSE InitTys(c, Unify(known, known.val, ShapeOf(c, ty).fields[j].ty), ty, Tail(inits),
                       Append(slots, j))
RECURSIVE Untyped(_, _, _)
Untyped(c, t, ids) == IF ids = <<>> THEN t
                      ELSE Untyped(c, ExprTy(c, t, Head(ids), <<>>), Tail(ids))
StructLitTy(c, t, id, e) ==
  LET ty == <<"struct", e.def>>
      r == InitTys(c, t, ty, e.fields, <<>>)
      missing == Cardinality(DOMAIN ShapeOf(c, ty).fields \ ToSet(r.val))
      full == [r EXCEPT !.codes = @ \o [j \in 1 .. missing |-> "MissingField"], !.slots[id] = r.val]
      enum == Untyped(c, Report(t, "UnsupportedOperation"), Each(e.fields, LAMBDA f : f.value))
  IN Returning(IF IsEnum(c, ty) THEN enum ELSE full, ty)

FieldExprTy(c, t, id, e) ==
  LET b == ExprTy(c, t, e.base, <<>>)
      len == e.name.name = "len" /\ (b.val = StrTy \/ IsArray(b.val))
      f == FieldTy(c, b, b.val, e.name.name)
  IN IF len THEN Returning([b EXCEPT !.exprs[id] = [k |-> "Len", base |-> e.base]], <<"i32">>)
     ELSE f

BlockTy(c, t, id, e, want) ==
  LET body == StmtTys(c, t, e.stmts)
  IN IF e.tail # <<>> THEN ExprTy(c, body, e.tail[1], want)
     ELSE Returning(body, IF CanComplete(c, body, id) THEN UnitTy ELSE Default(want))

ExprTy(c, t, id, want) ==
  LET e == t.exprs[id]
      elemOf(ty) == IF IsArray(ty) THEN ty[2] ELSE ty
      self(ty) == ty
      payload == c.scope.defs[e.def].variants[e.variant].payload
      sig == c.scope.defs[e.def]
      r == CASE e.k = "Literal" -> LiteralTy(t, e.value, want)
             [] e.k = "Var" -> IF t.locals[e.sym] = <<"untyped">> THEN Fail(t, "Internal")
                               ELSE Returning(t, t.locals[e.sym])
             [] e.k = "Call" -> Applied(c, t, e.args, Each(sig.params, LAMBDA p : p.ty), sig.ret)
             [] e.k = "VariantLit" -> Applied(c, t, e.args, payload, <<"struct", e.def>>)
             [] e.k = "Field" -> FieldExprTy(c, t, id, e)
             [] e.k = "Index" -> Accessed(c, t, e.base, <<e.index>>, elemOf)
             [] e.k = "Slice" -> Accessed(c, t, e.base, e.lo \o e.hi, self)
             [] e.k = "ArrayLit" -> ArrayLitTy(c, t, e.elems, want)
             [] e.k = "Range" -> Fail(Untyped(c, t, e.lo \o e.hi), "UnsupportedOperation")
             [] e.k = "For" -> ForTy(c, t, e)
             [] e.k = "Binary" -> BinaryTy(c, t, e, want)
             [] e.k = "Unary" -> UnaryTy(c, t, e, want)
             [] e.k = "If" -> IfTy(c, t, e, want)
             [] e.k = "Block" -> BlockTy(c, t, id, e, want)
             [] e.k = "StructLit" -> StructLitTy(c, t, id, e)
             [] e.k = "Match" -> MatchTy(c, t, e, want)
             [] e.k = "Poison" -> Returning(t, PoisonTy)
  IN SetTy(r, id, r.val)

(* ---- statements and the body ---- *)
LetTy(c, t, s) ==
  LET init == ExprTy(c, t, s.init[1], s.ty)
      r == CASE s.init # <<>> /\ s.ty # <<>> -> Unify(init, init.val, s.ty[1])
             [] s.init # <<>> /\ s.ty = <<>> -> init
             [] s.init = <<>> /\ s.ty # <<>> -> Returning(t, s.ty[1])
             [] OTHER -> Fail(t, "CannotInfer")
  IN SetLocal(r, s.sym, r.val)
AssignTy(c, t, s) ==
  LET base == IF t.locals[s.target.base] = <<"untyped">> THEN Fail(t, "Internal")
              ELSE Returning(t, t.locals[s.target.base])
      place == PlaceTy(c, base, base.val, s.target.fields)
      v == ExprTy(c, place, s.value, <<place.val>>)
  IN Unify(v, v.val, place.val)
ReturnTy(c, t, s) ==
  LET v == ExprTy(c, t, s.value[1], <<c.ret>>)
  IN IF s.value # <<>> THEN Unify(v, v.val, c.ret)
     ELSE IF c.ret \in {UnitTy, PoisonTy} THEN t ELSE Report(t, "TypeMismatch")
StmtTys(c, t, ss) ==
  IF ss = <<>> THEN t
  ELSE LET s == Head(ss)
       IN StmtTys(c, CASE s.k = "Let" -> LetTy(c, t, s)
                       [] s.k = "Assign" -> AssignTy(c, t, s)
                       [] s.k = "Expr" -> ExprTy(c, t, s.expr, <<>>)
                       [] s.k = "Return" -> ReturnTy(c, t, s), Tail(ss))

\* check_body: body is LowerBody's result, sig the function's definition.
CheckBody(scope, body, sig) ==
  LET c == [scope |-> scope, ret |-> sig.ret]
      start == [exprs |-> body.exprs,
                ty |-> [j \in 1 .. Len(body.exprs) |-> PoisonTy],
                locals |-> [j \in 1 .. Len(body.locals) |->
                              IF j <= Len(sig.params) THEN sig.params[j].ty ELSE <<"untyped">>],
                slots |-> [j \in 1 .. Len(body.exprs) |-> <<>>],
                codes |-> <<>>, val |-> PoisonTy]
      t == ExprTy(c, start, body.root, <<sig.ret>>)
      tail == t.exprs[body.root].tail
  IN IF ~CanComplete(c, t, body.root) THEN t
     ELSE IF tail # <<>> THEN Unify(t, t.ty[tail[1]], sig.ret)
     ELSE IF sig.ret \in {UnitTy, PoisonTy} THEN t ELSE Report(t, "MissingReturn")
=============================================================================
