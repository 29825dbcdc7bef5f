----------------------------- MODULE MCPrograms -----------------------------
(***************************************************************************)
(* Small workspaces of two files through the whole compiler: a library of   *)
(* functions that borrow, change, consume and return their argument, and a  *)
(* main that uses them in two statements and a result.                      *)
(***************************************************************************)
EXTENDS Compiler, Meaning

CONSTANTS MaxProbed,          \* the largest body, in expressions, that NoCascade probes
          MeaningOf(_, _, _)  \* Meant

MCModules == <<"main", "lib">>
Lib == "data P { x: i32; } data W { p: P; n: i32; } data O { S(P); N; } " \o
       "fn get(p: P) -> i32 { p.x } fn bump(mut p: P) { p.x = p.x + 1; } " \o
       "fn eat(p: P) -> i32 { let q = p; q.x } fn same(p: P) -> P { p } " \o
       "fn both(mut p: P, q: P) -> i32 { p.x = 8; q.x }"

(* ---- programs that use the library ---- *)
\* What each statement may do to a: lend, change, move, take back, overwrite, or
\* one of these on some path only; and to w, to a part of it.
Statements == {
  "lib::bump(a);", "let b = a;", "a = lib::same(a);", "a = lib::P { x: 7 };",
  "if lib::get(a) > 0 { lib::bump(w.p); }", "if w.n == 3 && lib::eat(a) > 0 { w.n = 4; }",
  "match o { lib::O::S(v) => { let mut q = v; q.x = 9; w.p = q; }, lib::O::N => {} }",
  "for x in [lib::P { x: 3 }, a][0..2] { w.n = w.n + lib::get(x); }",
  "for i in 0..2 { w.n = w.n + i; }", "w.p = a;", "let d = lib::same(w.p);",
  "if w.n > 2 { a.x = 6; } else { let e = a; }",
  "let k: i32; if w.n == 3 { k = 1; } w.n = k;",
  "if w.n > 3 { return lib::eat(a); }", "w.n = lib::both(a, w.p);", "w.n = lib::both(w.p, w.p);",
  "w.n = 6 / (w.n - 3);", "w.n = [1, 2][w.n];" }
Results == {"lib::get(a) + w.p.x", "match o { lib::O::S(v) => v.x + w.n, lib::O::N => 0 }",
            "if w.n < 4 { return w.n; } a.x"}
Main(s, t, r) ==
  "use lib; fn main() -> i32 { let mut a = lib::P { x: 1 }; " \o
  "let mut w = lib::W { n: 3, p: lib::P { x: 2 } }; let o = lib::O::S(lib::P { x: 5 }); " \o
  s \o t \o r \o " }"
Pairs == {Main(s, t, r) : s \in Statements, t \in Statements, r \in Results}

(* ---- small bodies: every kind of expression, and types named in every way ---- *)
Bodies == {
  "if c { 1 } else { n }", "let s = [n, 2][0..1]; s.len + n * 2", "-(n + 1) % 7",
  "match o { O::S(p) => p.x, _ => n }", "for i in 0..n { if i == n { return i; } } n",
  "let p = P { x: n }; p.x", "let t: str = !c; t.len", "if c && n > 1 { return n; }",
  "match o { O::S(p) => { return p.x; }, O::N => { return n; } }", "f(c, n, O::N)", "1 < n",
  "let u: i8 = 300; n", "[n][c]", "o", "n = 2; n" }
Small(b) == "use lib::P; use lib::O; fn f(c: bool, n: i32, o: O) -> i32 { " \o b \o " }"
Uses == {
  "use lib; use lib as l; use lib::P; data Q { a: P; b: l::W; } fn h(q: Q) {}",
  "use lib::P as R; use lib::get; data P { r: R; } fn W() {}",
  "use lib::P; use lib::W as l; use lib; fn P() {} data lib { } data get { } use lib::get;" }
SmallTexts == <<{Small(b) : b \in Bodies} \cup Uses, {Lib}>>
MCTexts == <<Pairs \cup SmallTexts[1], {Lib}>>

\* Programs that move an outer value in the body of a loop.
LoopTexts == <<{Main("for i in 0..2 { w.n = lib::eat(a); }", t, "w.n") : t \in Statements}, {Lib}>>

(* ---- properties ---- *)
\* An accepted program stops only at a division by zero or an index out of bounds:
\* no value read after it moved or before it was set, no borrow contract broken, no
\* value of the wrong kind (interp.rs: a trap is always a compiler bug).
AcceptedNeverTraps == machine.why \in {"none", "zero", "bounds"}

\* The machine, with its blocks, temporaries and shared cells, stops as the program
\* means to: with its value, or at its fault.
ComputesItsMeaning ==
  machine.status \in {"returned", "trapped"} =>
    LET fns == {d \in 1 .. Len(scope.defs) : IsFn(d)}
        program == [scope |-> scope, views |-> [d \in fns |-> View(d)],
                    roots |-> [d \in fns |-> bodies[d].root]]
        r == MeaningOf(program, scope.envs[1].fns["main"], <<>>)
    IN IF machine.status = "returned" THEN r.out = "go" /\ r.val = machine.value
       ELSE r.out = machine.why

\* While a program runs, every local of every frame holds a value of the type the
\* checker gave it, or nothing.
RECURSIVE Fits(_, _)
Fits(tree, ty) ==
  LET def == scope.defs[ty[2]]
      parts == IF tree[1] = "struct" THEN Each(def.fields, LAMBDA x : x.ty)
               ELSE def.variants[tree[2][2]].payload
      all(types) == Len(types) = Len(tree[3]) /\ \A j \in DOMAIN types : Fits(tree[3][j], types[j])
  IN \/ tree = Hole
     \/ ty[1] = "array" /\ tree[1] = "array" /\ all(Each(tree[3], LAMBDA v : ty[2]))
     \/ ty[1] = "struct" /\ tree[1] \in {"struct", "variant"} /\ tree[2][1] = ty[2] /\ all(parts)
     \/ ~Aggregate(tree) /\ tree[1] = (IF ty \in Integer THEN "int" ELSE ty[1])
ValuesHaveTheirTypes ==
  machine.status = "running" =>
    \A f \in ToSet(machine.frames) : \A l \in DOMAIN f.locals :
      Fits(Tree(machine.heap, machine.heap[f.locals[l]]), mir[f.def].locals[l].ty)

\* A block that was never closed, and only returns unit for want of anything better,
\* is never reached: its place in the graph is after a return (lower.rs: error paths).
RECURSIVE ReachedFrom(_, _)
Targets(term) ==
  CASE term.k = "Goto" -> {term.target}
    [] term.k = "Branch" -> {term.then, term.else}
    [] term.k = "Match" -> {a[2] : a \in ToSet(term.arms)} \cup ToSet(term.default)
    [] term.k = "Return" -> {}
ReachedFrom(blocks, seen) ==
  LET more == seen \cup UNION {Targets(blocks[b].term) : b \in seen}
  IN IF more = seen THEN seen ELSE ReachedFrom(blocks, more)
NoFallThrough ==
  stage = "boot" => \A d \in 1 .. Len(mir) :
                      IsFn(d) => ReachedFrom(mir[d].blocks, {1}) \cap mir[d].open = {}
\* Poison suppresses cascades (check.rs): an accepted body in which any one expression
\* fails to resolve gets no further type error.  A match that returns on every arm is
\* the exception, as a match on poison no longer covers its variants.
NoCascade ==
  stage = "mir" /\ mir = <<>> =>
    \A d \in 1 .. Len(scope.defs) :
      IsFn(d) /\ scope.defs[d].file = 1 /\ Len(bodies[d].exprs) <= MaxProbed =>
        \A id \in 1 .. Len(bodies[d].exprs) \ {bodies[d].root} :
          Errors(Checking(scope, [bodies[d] EXCEPT !.exprs[id] = [k |-> "Poison"]],
                           scope.defs[d]).codes) = {}

\* A type named in a body and the same type named in a declaration are one type,
\* or one error: lower.rs and resolve.rs each resolve names on their own.
Names == {"i32", "P", "Q", "W", "R", "l", "lib", "get", "f", "zap"}
Named(path) == [k |-> "Named", path |-> Each(path, LAMBDA n : [name |-> n])]
Annotations ==
  LET named == {Named(<<n>>) : n \in Names} \cup {Named(<<m, n>>) : m \in Names, n \in Names} \cup
               {Named(<<"lib", "P", "x">>)}
      arrays(types) == {[k |-> "Array", elem |-> t] : t \in types}
  IN named \cup arrays(named) \cup arrays(arrays({Named(<<"P">>)}))
AnnotationsMeanTheSame ==
  stage = "lower" /\ at = 1 =>
    \A f \in DOMAIN asts, ty \in Annotations :
      BodyType([scope |-> scope, file |-> f], ty) =
        ResolveType(scope.envs, Each(scope.defs, LAMBDA x : x.k), f, ty)
=============================================================================
