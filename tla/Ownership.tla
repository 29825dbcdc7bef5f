----------------------------- MODULE Ownership -----------------------------
(***************************************************************************)
(* memory/analyze.rs on real bodies: what a function does with each of its  *)
(* parameters (phase A, FactCollector and classify) and whether its body    *)
(* keeps the ownership rules (phase B, Enforcer).  The fixpoint over the    *)
(* call graph is OwnershipOracle; here a round collects every body under    *)
(* the contracts of the round before.                                       *)
(*                                                                         *)
(* c is a checked body: its exprs, the type ty of each, the types and the   *)
(* declarations of its locals, the number of its parameters, and the        *)
(* contracts of every function.  A context is "Move" or "Read".             *)
(***************************************************************************)
EXTENDS Types

Keeps == {"Copy", "Borrow", "BorrowMut"}       \* ParamBehavior::caller_keeps_arg
IsCopyExpr(c, id) == IsCopy(c.ty[id])

\* A place: a binding and the fields projected from it, when id is one.
RECURSIVE PlaceOf(_, _)
PlaceOf(c, id) ==
  LET e == c.exprs[id]
  IN CASE e.k = "Var" -> <<[base |-> e.sym, fields |-> <<>>]>>
       [] e.k = "Field" ->
            Each(PlaceOf(c, e.base), LAMBDA p : [p EXCEPT !.fields = Append(@, e.name.name)])
       [] OTHER -> <<>>
Overlaps(p, q) ==
  p.base = q.base /\ (IsPrefix(p.fields, q.fields) \/ IsPrefix(q.fields, p.fields))

Contract(c, def, i) ==
  IF i \in DOMAIN c.contracts[def] THEN c.contracts[def][i] ELSE "Move"
BoundBy(pat) == IF pat.k = "Variant" THEN ToSet(pat.binds) \ {0}
               ELSE IF pat.k = "Bind" THEN {pat.sym} \ {0} ELSE {}

(* ---- phase A: f holds the parameters read, moved, mutated and escaped, ---- *)
(* ---- the parameters each local may carry, and val, those of the value  ---- *)
NoFacts(c) == [read |-> {}, moved |-> {}, mutated |-> {}, escaped |-> {},
               carriers |-> [s \in 1 .. Len(c.locals) |-> {}], val |-> {}]
FlagMutated(c, f, sym) ==
  IF sym <= c.params THEN [f EXCEPT !.mutated = @ \cup {sym}] ELSE f
Escape(f) == [f EXCEPT !.escaped = @ \cup f.val]

RECURSIVE Facts(_, _, _, _), FactsAll(_, _, _, _, _), CallFacts(_, _, _, _, _),
          ArmFacts(_, _, _, _, _, _), StmtFacts(_, _, _)

FactsAll(c, f, ids, ctx, out) ==
  IF ids = <<>> THEN Returning(f, out)
  ELSE LET g == Facts(c, f, Head(ids), ctx) IN FactsAll(c, g, Tail(ids), ctx, out \cup g.val)
Reads(c, f, ids) == Returning(FactsAll(c, f, ids, "Read", {}), {})

\* Each argument under the contract of its parameter; what escapes there flows on.
CallFacts(c, f, e, i, out) ==
  LET b == Contract(c, e.def, i)
      a == Facts(c, f, e.args[i], IF b \in Keeps THEN "Read" ELSE "Move")
      place == PlaceOf(c, e.args[i])
      g == IF b = "BorrowMut" /\ place # <<>> THEN FlagMutated(c, a, place[1].base) ELSE a
  IN IF i > Len(e.args) THEN Returning(f, out)
     ELSE CallFacts(c, g, e, i + 1, IF b = "Escape" THEN out \cup a.val ELSE out)

ArmFacts(c, f, arms, ctx, scrutinee, out) ==
  LET pat == Head(arms).pat
      carrying == {s \in BoundBy(pat) : pat.k = "Bind" \/ ~IsCopy(c.types[s])}
      g == Facts(c, [f EXCEPT !.carriers = [s \in DOMAIN @ |-> IF s \in carrying THEN scrutinee
                                                              ELSE @[s]]],
                 Head(arms).body, ctx)
  IN IF arms = <<>> THEN Returning(f, out)
     ELSE ArmFacts(c, g, Tail(arms), ctx, scrutinee, out \cup g.val)

\* A copy-typed field, element or slice only reads its base.
Facts(c, f, id, ctx) ==
  LET e == c.exprs[id]
      base == Facts(c, f, e.base, IF IsCopyExpr(c, id) THEN "Read" ELSE ctx)
      out == IF IsCopyExpr(c, id) THEN {} ELSE base.val
      cond == Facts(c, f, e.cond, "Read")
      scrutinee == Facts(c, f, e.scrutinee, "Read")
      used == IF e.sym > c.params THEN f
              ELSE IF ctx = "Read" THEN [f EXCEPT !.read = @ \cup {e.sym}]
              ELSE [f EXCEPT !.moved = @ \cup {e.sym}]
  IN CASE e.k \in {"Literal", "Poison"} -> Returning(f, {})
       [] e.k = "Var" -> Returning(used, IF e.sym <= c.params THEN {e.sym} ELSE f.carriers[e.sym])
       [] e.k \in {"Field", "Index", "Slice"} ->
            Returning(Reads(c, base, Tail(Parts(e))), out)
       [] e.k \in {"Len", "Unary", "Range"} -> Reads(c, f, Parts(e))
       [] e.k = "Binary" -> Reads(c, f, <<e.lhs, e.rhs>>)
       [] e.k = "Call" -> CallFacts(c, f, e, 1, {})
       [] e.k = "If" -> FactsAll(c, cond, <<e.then>> \o e.else, ctx, {})
       [] e.k = "Block" -> FactsAll(c, StmtFacts(c, f, e.stmts), e.tail, ctx, {})
       [] e.k \in {"StructLit", "ArrayLit", "VariantLit"} -> FactsAll(c, f, Parts(e), "Move", {})
       [] e.k = "For" -> Returning(Facts(c, Reads(c, f, <<e.iter>>), e.body, "Move"), {})
       [] e.k = "Match" -> ArmFacts(c, scrutinee, e.arms, ctx, scrutinee.val, {})

StmtFacts(c, f, ss) ==
  LET s == Head(ss)
      v == FactsAll(c, f, IF s.k = "Return" THEN s.value ELSE StmtParts(s), "Move", {})
      written == FlagMutated(c, v, s.target.base)
  IN IF ss = <<>> THEN f
     ELSE StmtFacts(c, CASE s.k = "Let" -> [v EXCEPT !.carriers[s.sym] = v.val]
                         [] s.k = "Assign" -> [written EXCEPT !.carriers[s.target.base] = @ \cup v.val]
                         [] s.k = "Return" -> Escape(v)
                         [] OTHER -> v, Tail(ss))

CollectFacts(c, root) == Escape(Facts(c, NoFacts(c), root, "Move"))
Classify(f, i, ty) ==
  CASE IsCopy(ty) -> "Copy"
    [] ~IsCopy(ty) /\ i \in f.escaped -> "Escape"
    [] ~IsCopy(ty) /\ i \in f.moved \ f.escaped -> "Move"
    [] ~IsCopy(ty) /\ i \in f.mutated \ (f.escaped \cup f.moved) -> "BorrowMut"
    [] ~IsCopy(ty) /\ i \in f.read \ (f.escaped \cup f.moved \cup f.mutated) -> "Borrow"
    [] OTHER -> "Move"
Inferred(c, root) ==
  LET f == CollectFacts(c, root) IN <<>> \o [i \in 1 .. c.params |-> Classify(f, i, c.types[i])]

(* ---- phase B: n holds the state of each binding reached so far (whether ---- *)
(* ---- it holds a value and whether the value moved away), the loans of   ---- *)
(* ---- the calls being evaluated, and the codes                           ---- *)
Live == [init |-> "Yes", moved |-> "No"]
Unset == [init |-> "Never", moved |-> "No"]
JoinInit(a, b) == IF a = b THEN a ELSE "Maybe"
\* Mutant: a value moved on one of two paths counts as kept.
JoinMovedNever(a, b) == IF a = b THEN a ELSE "No"
JoinMoved(a, b) == IF a = b THEN a ELSE "Maybe"
Merge(a, b) ==
  [s \in DOMAIN a \cap DOMAIN b |-> [init |-> JoinInit(a[s].init, b[s].init),
                                   moved |-> JoinMoved(a[s].moved, b[s].moved)]] @@ a @@ b
Insert(n, syms, binding) == [n EXCEPT !.state = [s \in syms |-> binding] @@ @]
Complain(n, wrong, code) == IF wrong THEN Report(n, code) ELSE n

UseVar(c, n, sym, ctx) ==
  LET known == IF sym \in DOMAIN n.state THEN n ELSE Insert(n, {sym}, Unset)
      s == known.state[sym]
      checked == Complain(Complain(known, s.init # "Yes", "Uninitialized"),
                          s.moved # "No", "UseAfterMove")
  IN IF ctx = "Move" /\ ~IsCopy(c.types[sym])
     THEN [checked EXCEPT !.state[sym].moved = "Yes"] ELSE checked

CheckMoveLoans(n, place) ==
  Complain(n, \E j \in DOMAIN n.loans : Overlaps(n.loans[j].place, place), "MoveWhileBorrowed")
AddLoan(n, place, kind) ==
  IF \E j \in DOMAIN n.loans : /\ Overlaps(n.loans[j].place, place)
                               /\ kind = "Mut" \/ n.loans[j].kind = "Mut"
  THEN Report(n, "BorrowConflict")
  ELSE [n EXCEPT !.loans = Append(@, [place |-> place, kind |-> kind])]

\* The Enforcer's own can_complete: unlike the checker's it does not ask whether a
\* match is exhaustive.
RECURSIVE Completes(_, _)
Completes(c, id) ==
  LET e == c.exprs[id]
      all(ids) == \A j \in 1 .. Len(ids) : Completes(c, ids[j])
  IN /\ all(Parts(e))
     /\ e.k = "Block" => /\ \A j \in 1 .. Len(e.stmts) :
                              e.stmts[j].k # "Return" /\ all(StmtParts(e.stmts[j]))
                         /\ all(e.tail)
     /\ e.k = "If" => Completes(c, e.then) \/ all(e.else)
     /\ e.k = "Match" => \/ e.arms = <<>>
                         \/ \E j \in 1 .. Len(e.arms) : Completes(c, e.arms[j].body)

RECURSIVE Enforce(_, _, _, _), EnforceAll(_, _, _, _), EnforceArgs(_, _, _, _),
          EnforceArms(_, _, _, _, _, _), EnforceStmts(_, _, _)

EnforceAll(c, n, ids, ctx) ==
  IF ids = <<>> THEN n ELSE EnforceAll(c, Enforce(c, n, Head(ids), ctx), Tail(ids), ctx)

\* A borrowed place is lent until the call returns; a mutable loan needs a `mut`.
EnforceArgs(c, n, e, i) ==
  LET b == Contract(c, e.def, i)
      a == Enforce(c, n, e.args[i], IF b \in Keeps THEN "Read" ELSE "Move")
      place == PlaceOf(c, e.args[i])
      authority == Complain(a, b = "BorrowMut" /\ ~c.locals[place[1].base].mutable,
                            "MutableBorrowOfImmutable")
  IN IF i > Len(e.args) THEN n
     ELSE EnforceArgs(c, IF b \in {"Borrow", "BorrowMut"} /\ place # <<>>
                         THEN AddLoan(authority, place[1], IF b = "Borrow" THEN "Shared" ELSE "Mut")
                         ELSE a, e, i + 1)

\* joined: the states of the arms that can complete, merged, none at first.
EnforceArms(c, n, arms, ctx, saved, joined) ==
  LET a == Enforce(c, Insert([n EXCEPT !.state = saved], BoundBy(Head(arms).pat), Live),
                   Head(arms).body, ctx)
  IN IF arms = <<>> THEN [n EXCEPT !.state = IF joined = <<>> THEN saved ELSE joined[1]]
     ELSE EnforceArms(c, a, Tail(arms), ctx, saved,
                      IF ~Completes(c, Head(arms).body) THEN joined
                      ELSE IF joined = <<>> THEN <<a.state>> ELSE <<Merge(joined[1], a.state)>>)

EnforceLogical(c, n, e) ==
  LET lhs == Enforce(c, n, e.lhs, "Read")
      rhs == Enforce(c, lhs, e.rhs, "Read")
  IN IF e.op \notin {"&&", "||"} THEN rhs
     ELSE [rhs EXCEPT !.state = IF Completes(c, e.rhs) THEN Merge(lhs.state, @) ELSE lhs.state]

EnforceIf(c, n, e, ctx) ==
  LET cond == Enforce(c, n, e.cond, "Read")
      then == Enforce(c, cond, e.then, ctx)
      else == EnforceAll(c, [then EXCEPT !.state = cond.state], e.else, ctx)
      thenEnds == Completes(c, e.then)
      elseEnds == e.else = <<>> \/ Completes(c, e.else[1])
  IN [else EXCEPT !.state = CASE thenEnds /\ elseEnds -> Merge(@, then.state)
                              [] thenEnds /\ ~elseEnds -> then.state
                              [] ~thenEnds /\ elseEnds -> @
                              [] OTHER -> cond.state]

\* The body of a loop is enforced once and may not run at all.
EnforceFor(c, n, e) ==
  LET iter == Enforce(c, n, e.iter, "Read")
      body == Enforce(c, Insert(iter, {e.var}, Live), e.body, "Move")
      after == [s \in DOMAIN body.state \ {e.var} |-> body.state[s]]
  IN [body EXCEPT !.state = Merge(after, iter.state)]

Enforce(c, n, id, ctx) ==
  LET e == c.exprs[id]
      place == PlaceOf(c, id)
      start == IF ctx = "Move" /\ ~IsCopyExpr(c, id) /\ place # <<>>
               THEN CheckMoveLoans(n, place[1]) ELSE n
      base == Enforce(c, start, e.base, IF IsCopyExpr(c, id) THEN "Read" ELSE ctx)
  IN CASE e.k \in {"Literal", "Poison"} -> start
       [] e.k = "Var" -> UseVar(c, start, e.sym, ctx)
       [] e.k \in {"Field", "Index", "Slice"} -> EnforceAll(c, base, Tail(Parts(e)), "Read")
       [] e.k \in {"Len", "Unary", "Range"} -> EnforceAll(c, start, Parts(e), "Read")
       [] e.k = "Binary" -> EnforceLogical(c, start, e)
       [] e.k = "Call" -> [EnforceArgs(c, start, e, 1) EXCEPT !.loans = start.loans]
       [] e.k = "If" -> EnforceIf(c, start, e, ctx)
       [] e.k = "Block" -> EnforceAll(c, EnforceStmts(c, start, e.stmts), e.tail, ctx)
       [] e.k \in {"StructLit", "ArrayLit", "VariantLit"} -> EnforceAll(c, start, Parts(e), "Move")
       [] e.k = "For" -> EnforceFor(c, start, e)
       [] e.k = "Match" ->
            LET s == Enforce(c, start, e.scrutinee, "Read")
            IN EnforceArms(c, s, e.arms, ctx, s.state, <<>>)

\* The first write of a `let x;` needs no `mut`; a write to a field needs a value.
AssignPlace(c, n, target) ==
  LET s == IF target.base \in DOMAIN n.state THEN n.state[target.base] ELSE Unset
      allowed == c.locals[target.base].mutable \/ (target.fields = <<>> /\ s = Unset)
      checked == Complain(n, ~allowed, "ImmutableAssignment")
  IN IF target.fields = <<>> THEN Insert(checked, {target.base}, Live)
     ELSE [UseVar(c, checked, target.base, "Read") EXCEPT !.state[target.base].init = "Yes"]

EnforceStmts(c, n, ss) ==
  LET s == Head(ss)
      v == EnforceAll(c, n, IF s.k = "Return" THEN s.value ELSE StmtParts(s), "Move")
  IN IF ss = <<>> THEN n
     ELSE EnforceStmts(c, CASE s.k = "Let" ->
                                 Insert(v, {s.sym}, IF s.init = <<>> THEN Unset ELSE Live)
                            [] s.k = "Assign" -> AssignPlace(c, v, s.target)
                            [] OTHER -> v, Tail(ss))

\* The enforcement codes of a body.
Enforced(c, root) ==
  LET params == [s \in 1 .. c.params |-> Live]
  IN Enforce(c, [state |-> params, loans |-> <<>>, codes |-> <<>>], root, "Move").codes

(* ---- one function of the pipeline ---- *)
\* What the two phases read: the HIR body, its type table, the current contracts.
Viewed(body, t, sig, contracts) ==
  [exprs |-> t.exprs, ty |-> t.ty, types |-> t.locals, locals |-> body.locals,
   params |-> Len(sig.params), contracts |-> contracts]
Bottom(sig) ==
  <<>> \o [i \in 1 .. Len(sig.params) |-> IF IsCopy(sig.params[i].ty) THEN "Copy" ELSE "Borrow"]
=============================================================================
