----------------------------- MODULE MCRefactor -----------------------------
(***************************************************************************)
(* Workspaces of two files, every name of them renamed in several ways, and *)
(* patches of one and two operations on them.                              *)
(***************************************************************************)
EXTENDS Refactor

CONSTANTS MeaningOf(_),          \* Meaning
          StructureOf(_),        \* Structure
          Expected(_, _)         \* Patched

MCModules == <<"main", "lib">>

(* ---- workspaces ---- *)
\* Imports with and without aliases, a field that is read, assigned and initialized.
Plain ==
  <<"use lib;\nuse lib::P;\nuse lib::get as g;\n" \o
    "fn f(mut p: P, n: i32) -> i32 { let y = g(p); p.x = y + n; p.x }\nfn main() { f(P { x: 1 }, 2); }",
    "data P { x: i32; } data O { S(P); N; }\nfn get(p: P) -> i32 { p.x }\n">>
\* Variants and types named through every kind of import, in every kind of expression.
Rich ==
  <<"use lib::P as R; use lib::O; use lib as l;\nfn f(o: O, q: [R]) -> R { for i in q[0..1] { " \o
    "let x: [l::P] = [R { x: i.x }]; if l::get(x[0]) == -1 { return R { x: 0 }; } } " \o
    "match o { O::S(v) => v, l::O::N => l::P { x: (l::get(q[0])) } } }",
    "data P { x: i32; } data O { S(P); N; } fn get(p: P) -> i32 { p.x } fn mk() -> O { O::S(P { x: 1 }) }">>
\* The same names in both files, and fields of the same name in two types.
Twins ==
  <<"use lib;\ndata P { x: lib::P; y: i32; }\n" \o
    "fn get(mut p: P) -> i32 { p.x.x = 2; let x = lib::get(p.x); { let p = x; p + 1 } }\n",
    "data P { x: i32; }\nfn get(p: P) -> i32 { p.x }">>
\* Comments and blanks where patches edit; a file that no line end closes.
Layout ==
  <<"use lib; fn main() {}",
    "// c\nfn a(){ }\ndata D {\n  // c\n  x: i32;\n  y: [ i32 ];\n}\n" \o
    "fn b(p: // c\n i32) -> [i32] { [p] }\ndata E { /* { */ }\nfn c() -> /* c */ i32 { 1 }">>
Broken == <<"fn f() -> i32 { true }", "data P { x: zap; }">>
MCWorkspaces == {Plain, Rich, Twins, Layout, Broken}

(* ---- requests ---- *)
NewName == "z"
Symbols == {<<"P">>, <<"lib", "P">>, <<"O">>, <<"get">>, <<"lib", "get">>, <<"g">>, <<"f">>, <<"mk">>,
            <<"lib", "f">>, <<"zap">>}
Renames == [op : {"rename"}, symbol : Symbols, to : {NewName, "P", "get", "g", "R", "lib", "x", "fn"}]
LocalRenames == [op : {"rename_at"}, file : {1}, at : 1 .. 94, to : {NewName, "x", "p", "y", "v"}]

Data == <<"lib", "P">>
Patches(ops) == {[op |-> "patch", ops |-> o] : o \in ops}
OnPlain == {
  [op |-> "replace_body", symbol |-> <<"f">>, body |-> "{ n }"],
  [op |-> "replace_body", symbol |-> Data, body |-> "{ n }"],
  [op |-> "remove_def", symbol |-> <<"lib", "O">>], [op |-> "remove_def", symbol |-> <<"main">>],
  [op |-> "remove_def", symbol |-> <<"g">>],
  [op |-> "add_def", module |-> <<"lib">>, text |-> "fn z() -> i32 { get(P { x: 1 }) }"],
  [op |-> "add_def", module |-> <<>>, text |-> "data Z { z: P; }"],
  [op |-> "add_def", module |-> <<"lib">>, text |-> "data Y { y: P; }"],
  [op |-> "add_def", module |-> <<"zap">>, text |-> "data Z { }"],
  [op |-> "add_def", module |-> <<>>, text |-> "use lib; data Z { }"],
  [op |-> "rename_param", symbol |-> <<"f">>, param |-> "p", to |-> NewName],
  [op |-> "rename_param", symbol |-> <<"f">>, param |-> "n", to |-> "y"],
  [op |-> "set_param_type", symbol |-> <<"f">>, param |-> "n", ty |-> "[lib::O]"],
  [op |-> "set_param_type", symbol |-> <<"g">>, param |-> "p", ty |-> "O"],
  [op |-> "set_ret_type", symbol |-> <<"main">>, ty |-> <<"i32">>],
  [op |-> "set_ret_type", symbol |-> <<"f">>, ty |-> <<>>],
  [op |-> "replace_body", symbol |-> <<"main">>, body |-> "{ f(P { x: 1, z: 2 }, 3) }"],
  [op |-> "add_use", module |-> <<>>, path |-> "lib::O", alias |-> <<NewName>>],
  [op |-> "add_use", module |-> <<"lib">>, path |-> "lib::P", alias |-> <<>>],
  [op |-> "remove_use", module |-> <<>>, path |-> "lib::get", alias |-> <<"g">>],
  [op |-> "remove_use", module |-> <<>>, path |-> "lib", alias |-> <<>>],
  [op |-> "remove_use", module |-> <<>>, path |-> "lib::P", alias |-> <<"g">>],
  [op |-> "add_field", symbol |-> Data, field |-> "z", ty |-> "i32"],
  [op |-> "add_field", symbol |-> <<"lib", "O">>, field |-> "z", ty |-> "i32"],
  [op |-> "remove_field", symbol |-> Data, field |-> "x"],
  [op |-> "rename_field", symbol |-> Data, field |-> "x", to |-> NewName],
  [op |-> "rename_field", symbol |-> <<"f">>, field |-> "x", to |-> NewName],
  [op |-> "set_field_type", symbol |-> <<"P">>, field |-> "x", ty |-> "i8"] }
OnTwins == {
  [op |-> "rename_field", symbol |-> <<"P">>, field |-> "x", to |-> NewName],
  [op |-> "rename_field", symbol |-> <<"P">>, field |-> "x", to |-> "y"],
  [op |-> "rename_field", symbol |-> <<"P">>, field |-> "y", to |-> "x"],
  [op |-> "rename_field", symbol |-> Data, field |-> "x", to |-> "y"],
  [op |-> "rename_param", symbol |-> <<"get">>, param |-> "p", to |-> NewName],
  [op |-> "rename_param", symbol |-> <<"lib", "get">>, param |-> "p", to |-> NewName],
  [op |-> "rename_param", symbol |-> <<"get">>, param |-> "x", to |-> NewName] }
OnLayout == {
  [op |-> "set_ret_type", symbol |-> <<"lib", "a">>, ty |-> <<"[i32]">>],
  [op |-> "set_ret_type", symbol |-> <<"b">>, ty |-> <<"i32">>],
  [op |-> "set_ret_type", symbol |-> <<"c">>, ty |-> <<>>],
  [op |-> "set_param_type", symbol |-> <<"b">>, param |-> "p", ty |-> "bool"],
  [op |-> "replace_body", symbol |-> <<"a">>, body |-> "{ return; }"],
  [op |-> "replace_body", symbol |-> <<"b">>, body |-> "{ [1, 2] }"],
  [op |-> "remove_field", symbol |-> <<"D">>, field |-> "x"],
  [op |-> "remove_field", symbol |-> <<"D">>, field |-> "y"],
  [op |-> "add_field", symbol |-> <<"D">>, field |-> "n", ty |-> "D"],
  [op |-> "add_field", symbol |-> <<"E">>, field |-> "n", ty |-> "[D]"],
  [op |-> "set_field_type", symbol |-> <<"D">>, field |-> "y", ty |-> "i32"],
  [op |-> "remove_def", symbol |-> <<"lib", "a">>], [op |-> "remove_def", symbol |-> <<"E">>],
  [op |-> "remove_def", symbol |-> <<"c">>],
  [op |-> "add_def", module |-> <<"lib">>, text |-> "fn d() { a() } // d"],
  [op |-> "add_use", module |-> <<>>, path |-> "lib::a", alias |-> <<>>],
  [op |-> "add_use", module |-> <<"lib">>, path |-> "main", alias |-> <<"m">>] }
Pairs(ops) == {<<o>> : o \in ops} \cup {<<o, p>> : o, p \in ops}
MCRequests(ws) ==
  CASE ws = Plain -> Renames \cup LocalRenames \cup Patches({<<>>} \cup Pairs(OnPlain))
    [] ws = Rich -> Renames \cup LocalRenames
    [] ws = Twins -> Renames \cup LocalRenames \cup Patches(Pairs(OnTwins))
    [] ws = Layout -> Patches(Pairs(OnLayout) \cup {<<o, o, o>> : o \in OnLayout})
    [] OTHER -> {[op |-> "rename", symbol |-> <<"f">>, to |-> NewName],
                 [op |-> "rename_at", file |-> 1, at |-> 1, to |-> NewName]}
                \cup Patches({<<o>> : o \in OnPlain})

\* A type renamed to a type the language has.
BuiltinWorkspaces == {<<"use lib::P;\nfn f(p: P) -> P { p }\n", "data P { x: i32; }">>}
BuiltinRequests(ws) == [op : {"rename"}, symbol : {<<"P">>}, to : {NewName, "i32"}]

(* ---- what a rename must keep ---- *)
\* The workspace without names: definitions, bodies and types, a member by its place.
Meaning(w) ==
  LET field(ty, name) == IF ty[1] = "struct" THEN <<"field", FieldOf(w, ty[2], name)>> ELSE <<name, 0>>
      def(d) == LET x == w.scope.defs[d]
                IN IF x.k = "Data"
                   THEN <<x.file, Each(x.fields, LAMBDA f : f.ty), Each(x.variants, LAMBDA v : v.payload)>>
                   ELSE <<x.file, Each(x.params, LAMBDA p : <<p.ty, p.mutable>>), x.ret>>
      steps(table, place) ==
        LET ty[j \in 0 .. Len(place.fields)] ==
              IF j = 0 THEN table.locals[place.base]
              ELSE w.scope.defs[ty[j - 1][2]].fields[FieldOf(w, ty[j - 1][2], place.fields[j].name)].ty
        IN [j \in 1 .. Len(place.fields) |-> field(ty[j - 1], place.fields[j].name)]
      stmt(table, s) ==
        IF s.k = "Assign" THEN <<"Assign", s.target.base, steps(table, s.target), s.value>> ELSE s
      arm(a) == IF a.pat.k = "Variant"
                THEN <<a.pat.def, a.pat.variant, a.pat.binds, a.body>> ELSE <<a.pat.k, a.pat.sym, a.body>>
      expr(table, e) ==
        CASE e.k = "Var" -> <<"Var", e.sym>>
          [] e.k = "Field" -> <<"Field", e.base, field(table.ty[e.base], e.name.name)>>
          [] e.k = "StructLit" ->
               <<"StructLit", e.def, Each(e.fields, LAMBDA x : <<FieldOf(w, e.def, x.name.name), x.value>>)>>
          [] e.k = "Match" -> <<"Match", e.scrutinee, Each(e.arms, arm)>>
          [] e.k = "Block" -> <<"Block", Each(e.stmts, LAMBDA s : stmt(table, s)), e.tail>>
          [] e.k \in {"Call", "VariantLit"} -> [e EXCEPT !.path = <<>>]
          [] OTHER -> e
      body(d) == LET t == w.tables[d]
                 IN <<Each(t.exprs, LAMBDA e : expr(t, e)), t.ty, t.locals,
                      Each(w.bodies[d].locals, LAMBDA l : <<l.mutable, l.kind>>)>>
      defs == 1 .. Len(w.scope.defs)
  IN [defs |-> <<>> \o [d \in defs |-> def(d)],
      bodies |-> <<>> \o [d \in defs |-> IF IsFnDef(w, d) THEN body(d) ELSE <<>>]]

Ended == phase \in {"accepted", "applied", "mismatch"}
RenamingOps == {"rename_param", "rename_field"}
\* The new names of a request that only renames; empty for any other.
NewNames(request) ==
  CASE request.op \in {"rename", "rename_at"} -> {request.to}
    [] request.op = "patch" ->
         IF \A j \in DOMAIN request.ops : request.ops[j].op \in RenamingOps
         THEN {request.ops[j].to : j \in DOMAIN request.ops} ELSE {}
    [] OTHER -> {}

\* A rename that is accepted changes names only: every definition, body, type and
\* binding of the candidate is the one it was (rename.rs: any site that would resolve
\* to a different symbol rejects).
RenameKeepsMeaning ==
  Ended /\ NewNames(plan.request) # {} => MeaningOf(Compiled) = MeaningOf(base)

\* A rename to a name the workspace does not use is never refused by its own
\* verification, and the plan applies: the scan finds every site, and no other.
FreshNameAccepted ==
  phase \in {"rejected", "mismatch"} => NewNames(plan.request) # {NewName}

(* ---- what a patch must do ---- *)
NodeWords(f, node) ==
  LET kept == SelectSeq(SubSeq(f.toks, node.lo, node.hi - 1), LAMBDA t : t.kind \notin Trivia)
  IN Each(kept, LAMBDA t : TokenText(f.src, t))
TextWords(t) ==
  LET f == [src |-> t, toks |-> LexAll(NewLexer, t).toks]
  IN NodeWords(f, [lo |-> 1, hi |-> Len(f.toks) + 1])
Structured(f, node) ==
  LET words(kinds) == Each(Children(node, kinds), LAMBDA c : NodeWords(f, c))
      typed(c) == [name |-> FirstName(f, c).name, mutable |-> HasToken(c, "mut"),
                   ty |-> NodeWords(f, TypeOf(c))]
      ret == Children(node, {"RET_TYPE"})
  IN [name |-> FirstName(f, node).name, kind |-> node.k,
      params |-> Each(ParamNodes(node), typed), fields |-> Each(Children(node, {"FIELD"}), typed),
      variants |-> words({"VARIANT"}), body |-> words({"BLOCK"}),
      ret |-> Each(ret, LAMBDA r : NodeWords(f, TypeOf(r)))]
FileStructure(f) ==
  [uses |-> Each(Children(f.tree, {"USE_DECL"}), LAMBDA u : NodeWords(f, u)),
   items |-> Each(Children(f.tree, {"DATA_DECL", "FN_DECL"}), LAMBDA i : Structured(f, i))]
Structure(w) == Each(w.files, FileStructure)
ItemStructure(t) ==
  LET toks == LexAll(NewLexer, t).toks
      p == ParseAll(Start(NewParser(toks), "SOURCE_FILE"))
  IN FileStructure([src |-> t, toks |-> toks, tree |-> p.kids[1]]).items[1]

\* s with operation o of a patch on w done to it.  The operations name what w has, so
\* the names change last, all at once.
DefAt(w, d) == [file |-> w.scope.defs[d].file, name |-> w.scope.defs[d].name.name]
Done(w, s, o) ==
  LET f == IF o.op \notin FileOps THEN DefAt(w, ResolveTarget(w, o.symbol).def).file
           ELSE IF o.module = <<>> THEN 1 ELSE ModuleFile(w, o.module[1])
      words == TextWords(UseDeclText(o))
      use == SelectInSeq(s[f].uses, LAMBDA u : u = words)
      item == SelectInSeq(s[f].items,
                          LAMBDA i : i.name = DefAt(w, ResolveTarget(w, o.symbol).def).name)
      in(members, name) == SelectInSeq(members, LAMBDA m : m.name = name)
      field == in(s[f].items[item].fields, o.field)
  IN CASE o.op = "add_use" -> [s EXCEPT ![f].uses = Append(@, words)]
       [] o.op = "remove_use" -> [s EXCEPT ![f].uses = RemoveAt(@, use)]
       [] o.op = "add_def" -> [s EXCEPT ![f].items = Append(@, ItemStructure(o.text))]
       [] o.op = "remove_def" -> [s EXCEPT ![f].items = RemoveAt(@, item)]
       [] o.op = "replace_body" -> [s EXCEPT ![f].items[item].body = <<TextWords(o.body)>>]
       [] o.op = "set_ret_type" -> [s EXCEPT ![f].items[item].ret = Each(o.ty, TextWords)]
       [] o.op = "set_param_type" ->
            [s EXCEPT ![f].items[item].params[in(s[f].items[item].params, o.param)].ty = TextWords(o.ty)]
       [] o.op = "add_field" ->
            [s EXCEPT ![f].items[item].fields =
                        Append(@, [name |-> o.field, mutable |-> FALSE, ty |-> TextWords(o.ty)])]
       [] o.op = "remove_field" -> [s EXCEPT ![f].items[item].fields = RemoveAt(@, field)]
       [] o.op = "set_field_type" -> [s EXCEPT ![f].items[item].fields[field].ty = TextWords(o.ty)]
       [] o.op \in RenamingOps -> s
Patched(w, ops) ==
  LET renames == SelectSeq(ops, LAMBDA o : o.op \in RenamingOps)
      member(o) == IF o.op = "rename_param" THEN <<"params", o.param>> ELSE <<"fields", o.field>>
      named(f, item, kind, m) ==
        LET j == SelectInSeq(renames, LAMBDA o : /\ member(o) = <<kind, m.name>>
                                                 /\ DefAt(w, ResolveTarget(w, o.symbol).def)
                                                      = [file |-> f, name |-> item.name])
        IN IF j = 0 THEN m ELSE [m EXCEPT !.name = renames[j].to]
      s == FoldLeft(LAMBDA t, o : Done(w, t, o), Structure(w), ops)
  IN <<>> \o [f \in DOMAIN s |->
       [s[f] EXCEPT !.items =
          Each(@, LAMBDA i : [i EXCEPT !.params = Each(@, LAMBDA m : named(f, i, "params", m)),
                                       !.fields = Each(@, LAMBDA m : named(f, i, "fields", m))])]]

\* Renames inside bodies are RenameKeepsMeaning's business.
WithoutBodies(s) == Each(s, LAMBDA f : [f EXCEPT !.items = Each(@, LAMBDA i : [i EXCEPT !.body = <<>>])])
\* An insertion and a replacement that start together, the insertion by the later operation.
Collide(edits) ==
  \E a, b \in ToSet(edits) : /\ a.file = b.file /\ a.start = b.start /\ a.op > b.op
                             /\ a.start = a.end /\ b.start < b.end
\* An accepted patch does to the declarations of the workspace what its operations say,
\* each on its own target, in order, and nothing else.
DoesItsOperations ==
  LET result == StructureOf(Compiled)
      wanted == Expected(base, plan.request.ops)
      renames == \E j \in DOMAIN plan.request.ops : plan.request.ops[j].op \in RenamingOps
  IN IF renames THEN WithoutBodies(result) = WithoutBodies(wanted) ELSE result = wanted
PatchDoesItsOperations ==
  Ended /\ plan.request.op = "patch" /\ ~Collide(plan.edits) => DoesItsOperations
=============================================================================
