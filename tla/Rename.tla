------------------------------- MODULE Rename -------------------------------
(***************************************************************************)
(* rename.rs: the plan of a rename, the splice that makes its candidate,   *)
(* and the checks on the candidate and on the plan.  Refactor is the state *)
(* machine that compiles the candidate in between.                         *)
(*                                                                         *)
(* w is a compiled workspace: its files (module and AST), the text, tokens *)
(* and tree of each, the module scope, the bodies, their type tables, and  *)
(* the codes of the errors.  The root is file 1.  An edit replaces the     *)
(* characters start .. end - 1 of a file; a place in a file that is a name *)
(* is its token.  A symbol is the segments of `x` or `m::x`.               *)
(***************************************************************************)
EXTENDS Types

IsIdent(name) ==
  /\ name # ""
  /\ LET lx == LexToken(NewLexer, name)
     IN lx.pos = Len(name) /\ lx.codes = <<>> /\ lx.toks[1].kind = "ident"

Files(w) == 1 .. Len(w.asts)
Own(w, f) == w.scope.envs[f].fns @@ w.scope.envs[f].datas
IsFnDef(w, d) == w.scope.defs[d].k = "Fn"

(* ---- edits ---- *)
Edit(file, start, end, new, op) ==
  [file |-> file, start |-> start, end |-> end, new |-> new, op |-> op]
TokenEdit(w, f, at, new, op) ==
  LET t == w.files[f].toks[at] IN Edit(f, t.start, t.end, new, op)
Covered(w, e) == SubSeq(w.files[e.file].src, e.start + 1, e.end)
\* One edit per name, in the order of the texts.
NameEdits(w, sites, new, op) ==
  LET tokens(f) == SelectSeq([t \in 1 .. Len(w.files[f].toks) |-> t], LAMBDA t : <<f, t>> \in sites)
  IN FlattenSeq([f \in Files(w) |-> Each(tokens(f), LAMBDA t : TokenEdit(w, f, t, new, op))])

\* splice_sources: from the last edit of a file to the first, edits with one start in
\* the order they come.
Replace(text, e) == SubSeq(text, 1, e.start) \o e.new \o SubSeq(text, e.end + 1, Len(text))
SpliceSources(w, edits) ==
  LET first(i, j) == edits[i].start > edits[j].start \/ (edits[i].start = edits[j].start /\ i < j)
      order(f) == SortSeq(SelectSeq([i \in 1 .. Len(edits) |-> i], LAMBDA i : edits[i].file = f), first)
  IN <<>> \o [f \in Files(w) |->
                FoldLeft(Replace, w.files[f].src, Each(order(f), LAMBDA i : edits[i]))]

(* ---- the target ---- *)
Target(d) == [code |-> "none", def |-> d]
NoTarget(code) == [code |-> code, def |-> 0]
ModuleFile(w, m) == SelectInSeq(w.asts, LAMBDA x : x.module = m)      \* 0: unknown
ResolveTarget(w, symbol) ==
  LET n == Last(symbol)
      f == ModuleFile(w, symbol[1])
      root == Own(w, 1) @@ w.scope.envs[1].imports
      found == {Own(w, g)[n] : g \in {g \in Files(w) : n \in DOMAIN Own(w, g)}}
  IN CASE Len(symbol) = 2 ->
            IF f > 0 /\ n \in DOMAIN Own(w, f) THEN Target(Own(w, f)[n]) ELSE NoTarget("UnknownSymbol")
       [] Len(symbol) = 1 /\ n \in DOMAIN root -> Target(root[n])
       [] Len(symbol) = 1 /\ n \notin DOMAIN root ->
            IF found = {} THEN NoTarget("UnknownSymbol")
            ELSE IF Cardinality(found) > 1 THEN NoTarget("AmbiguousSymbol")
            ELSE Target(CHOOSE d \in found : TRUE)

(* ---- the sites of a definition ---- *)
UseTargets(w, u, target) ==
  LET g == ModuleFile(w, u.path[1].name)
  IN /\ Len(u.path) = 2 /\ g > 0
     /\ u.path[2].name \in DOMAIN Own(w, g) /\ Own(w, g)[u.path[2].name] = target
UsesOf(w, f, target) == SelectSeq(w.asts[f].ast.uses, LAMBDA u : UseTargets(w, u, target))
\* Mutant: aliases are rewritten like the name they stand for.
ImportedNames(w, f, target) ==
  {IF u.alias = <<>> THEN u.path[2].name ELSE u.alias[1].name : u \in ToSet(UsesOf(w, f, target))}
\* The names the file's imports of the target keep after the rename are its aliases.
Unaliased(w, f, target) ==
  {u.path[2].name : u \in {u \in ToSet(UsesOf(w, f, target)) : u.alias = <<>>}}

\* A file's paths with what each may name: a definition ("name"), a definition or a
\* variant ("expr"), a variant only ("pattern").
RECURSIVE TypeSites(_), ExprSites(_), BlockSites(_)
TypeSites(ty) == IF ty.k = "Array" THEN TypeSites(ty.elem) ELSE {<<"name", ty.path>>}
TypesSites(tys) == UNION {TypeSites(tys[j]) : j \in 1 .. Len(tys)}
OwnSites(e) ==
  CASE e.k = "Call" -> {<<"expr", e.callee>>}
    [] e.k = "StructLit" -> {<<"name", e.path>>}
    [] e.k = "Path" -> {<<"expr", e.path>>}
    [] e.k = "Match" ->
         {<<"pattern", e.arms[j].pat.path>> : j \in {j \in DOMAIN e.arms : e.arms[j].pat.k = "Variant"}}
    [] OTHER -> {}
Operands(e) ==
  CASE e.k = "Call" -> e.args
    [] e.k = "StructLit" -> Each(e.fields, LAMBDA x : x.value)
    [] e.k = "Match" -> <<e.scrutinee>> \o Each(e.arms, LAMBDA a : a.body)
    [] e.k = "Field" -> <<e.base>>
    [] e.k = "Index" -> <<e.base, e.index>>
    [] e.k = "Slice" -> <<e.base>> \o e.lo \o e.hi
    [] e.k = "ArrayLit" -> e.elems
    [] e.k = "Range" -> e.lo \o e.hi
    [] e.k = "For" -> <<e.iter>>
    [] e.k = "Binary" -> <<e.lhs, e.rhs>>
    [] e.k = "Unary" -> <<e.operand>>
    [] e.k = "If" -> <<e.cond>> \o e.else
    [] OTHER -> <<>>
Bodies(e) ==
  CASE e.k = "For" -> <<e.body>>
    [] e.k = "If" -> <<e.then>>
    [] e.k = "Block" -> <<e.block>>
    [] OTHER -> <<>>
StmtExprs(s) ==
  CASE s.k = "Let" -> s.init
    [] s.k = "Assign" -> <<s.value>>
    [] s.k = "Expr" -> <<s.expr>>
    [] s.k = "Return" -> s.value
ExprsSites(es) == UNION {ExprSites(es[j]) : j \in 1 .. Len(es)}
ExprSites(e) ==
  OwnSites(e) \cup ExprsSites(Operands(e)) \cup UNION {BlockSites(Bodies(e)[j]) : j \in DOMAIN Bodies(e)}
BlockSites(block) ==
  UNION {ExprsSites(StmtExprs(block.stmts[j])) : j \in DOMAIN block.stmts}
  \cup UNION {TypesSites(block.stmts[j].ty) : j \in {j \in DOMAIN block.stmts : block.stmts[j].k = "Let"}}
  \cup ExprsSites(block.tail)
ItemSites(item) ==
  IF item.k = "Data"
  THEN TypesSites(Each(item.fields, LAMBDA x : x.ty))
       \cup UNION {TypesSites(item.variants[j].payload) : j \in DOMAIN item.variants}
  ELSE TypesSites(Each(item.params, LAMBDA x : x.ty)) \cup TypesSites(item.ret) \cup BlockSites(item.body)

\* c: the workspace, the file, the target and the file's unaliased imports of it.
NameHit(c, path) ==
  LET n == path[1].name
      env == c.w.scope.envs[c.file]
      own == Own(c.w, c.file)
      members == Own(c.w, env.modules[n])
  IN CASE Len(path) = 1 /\ n \in DOMAIN own -> own[n] = c.target
       [] Len(path) = 1 /\ n \notin DOMAIN own ->
            n \in DOMAIN env.imports /\ env.imports[n] = c.target /\ n \in c.unaliased
       [] Len(path) = 2 -> /\ n \in DOMAIN env.modules /\ path[2].name \in DOMAIN members
                           /\ members[path[2].name] = c.target
       [] OTHER -> FALSE
VariantHit(c, role, path) ==
  LET env == c.w.scope.envs[c.file]
      n == path[1].name
      data == path[Len(path) - 1].name
      datas == c.w.scope.envs[env.modules[n]].datas
      is(names) == data \in DOMAIN names /\ names[data] = c.target
      resolves == PathDef([scope |-> c.w.scope, file |-> c.file], path).found
  IN /\ role \in {"expr", "pattern"} /\ Len(path) \in {2, 3}
     /\ ~(role = "expr" /\ resolves)
     /\ IF Len(path) = 2
        THEN is(env.datas) \/ (data \notin DOMAIN env.datas /\ data \in c.unaliased /\ is(env.imports))
        ELSE n \in DOMAIN env.modules /\ is(datas)
     /\ ~IsFnDef(c.w, c.target)
     /\ \E v \in ToSet(c.w.scope.defs[c.target].variants) : v.name = Last(path).name
SiteTokens(c, site) ==
  LET path == site[2]
      renamed(j) == \/ j = Len(path) /\ site[1] # "pattern" /\ NameHit(c, path)
                    \/ j = Len(path) - 1 /\ VariantHit(c, site[1], path)
  IN {path[j].at : j \in {j \in DOMAIN path : renamed(j)}}

\* scan_file: the tokens of a file to rewrite.
ScanFile(w, f, target) ==
  LET c == [w |-> w, file |-> f, target |-> target, unaliased |-> Unaliased(w, f, target)]
      def == w.scope.defs[target]
      items == w.asts[f].ast.items
  IN {u.path[2].at : u \in ToSet(UsesOf(w, f, target))}
     \cup {t \in {def.name.at} : def.file = f}
     \cup UNION {SiteTokens(c, s) : s \in UNION {ItemSites(items[j]) : j \in DOMAIN items}}

\* check_conflicts: in the files the new name enters, it must not name another definition.
Conflicts(w, target, new) ==
  LET enters(f) == f = w.scope.defs[target].file \/ Unaliased(w, f, target) # {}
      known(f) == Own(w, f) @@ w.scope.envs[f].imports
  IN \E f \in Files(w) : enters(f) /\ new \in DOMAIN known(f) /\ known(f)[new] # target

(* ---- binding correspondence ---- *)
\* What each name of a body stands for, in the order of its expressions.
BindingSeq(body) ==
  LET local(s) == <<"local", s>>
      arm(a) == CASE a.pat.k = "Variant" ->
                       <<<<"def", a.pat.def>>>>
                       \o Each(SelectSeq(a.pat.binds, LAMBDA b : b > 0), local)
                  [] a.pat.k = "Bind" /\ a.pat.sym > 0 -> <<local(a.pat.sym)>>
                  [] OTHER -> <<>>
      stmt(s) == CASE s.k = "Let" -> <<local(s.sym)>>
                   [] s.k = "Assign" -> <<local(s.target.base)>>
                   [] OTHER -> <<>>
      bound(e) == CASE e.k = "Var" -> <<local(e.sym)>>
                    [] e.k \in {"Call", "StructLit", "VariantLit"} -> <<<<"def", e.def>>>>
                    [] e.k = "Match" -> EachOpt(e.arms, arm)
                    [] e.k = "Block" -> EachOpt(e.stmts, stmt)
                    [] OTHER -> <<>>
  IN EachOpt(body.exprs, bound)

\* The functions whose bindings the rename may change, each its file and its old name.
Watched(w, request) ==
  {[file |-> w.scope.defs[d].file, name |-> w.scope.defs[d].name.name, def |-> d] :
     d \in {d \in 1 .. Len(w.scope.defs) :
              IsFnDef(w, d) /\ (request.op = "rename_at" => request.fn = d)}}
\* Mutant: a candidate that compiles is enough.
AnyBindings(w, shadow, watched) == TRUE
\* verify_candidate's second half: a function that lost its name is not compared.
SameBindings(w, shadow, watched) ==
  \A x \in watched :
    LET fns == shadow.scope.envs[x.file].fns
    IN x.name \in DOMAIN fns =>
         BindingSeq(shadow.bodies[fns[x.name]]) = BindingSeq(w.bodies[x.def])

(* ---- the plans ---- *)
Refused(code) == [code |-> code, edits |-> <<>>, request |-> [op |-> "none"]]
Planned(edits, request) == [code |-> "none", edits |-> edits, request |-> request]

PlanRename(w, r) ==
  LET target == ResolveTarget(w, r.symbol)
      sites == UNION {{<<f, t>> : t \in ScanFile(w, f, target.def)} : f \in Files(w)}
  IN CASE ~IsIdent(r.to) -> Refused("InvalidName")
       [] IsIdent(r.to) /\ w.codes # {} -> Refused("BaselineErrors")
       [] OTHER ->
            IF target.code # "none" THEN Refused(target.code)
            ELSE IF Conflicts(w, target.def, r.to) THEN Refused("NameConflict")
            ELSE Planned(NameEdits(w, sites, r.to, 0),
                         r @@ [def |-> target.def, old |-> w.scope.defs[target.def].name.name])

\* local_target: the symbol a token declares, refers to or assigns; 0 for none.
LocalTarget(body, at) ==
  LET declared == SelectInSeq(body.locals, LAMBDA l : l.at = at)
      var == SelectInSeq(body.exprs, LAMBDA e : e.k = "Var" /\ e.at = at)
      stmts == EachOpt(SelectSeq(body.exprs, LAMBDA e : e.k = "Block"), LAMBDA e : e.stmts)
      place == SelectInSeq(stmts, LAMBDA s : s.k = "Assign" /\ s.target.at = at)
  IN IF declared > 0 THEN declared
     ELSE IF var > 0 THEN body.exprs[var].sym
     ELSE IF place > 0 THEN stmts[place].target.base ELSE 0
\* local_binding_sites: the tokens of a local symbol.
LocalSites(body, sym) ==
  LET blocks == {j \in DOMAIN body.exprs : body.exprs[j].k = "Block"}
      assigns(j) == {i \in DOMAIN body.exprs[j].stmts :
                       /\ body.exprs[j].stmts[i].k = "Assign"
                       /\ body.exprs[j].stmts[i].target.base = sym}
  IN {body.locals[sym].at}
     \cup {body.exprs[j].at : j \in {j \in DOMAIN body.exprs :
                                       body.exprs[j].k = "Var" /\ body.exprs[j].sym = sym}}
     \cup UNION {{body.exprs[j].stmts[i].target.at : i \in assigns(j)} : j \in blocks}

\* The tree of a definition, and the function whose declaration holds a token.
ItemNode(w, d) ==
  LET f == w.scope.defs[d].file
  IN Children(w.files[f].tree, {"DATA_DECL", "FN_DECL"})[d - Before(w.asts, f)]
FnAt(w, f, at) ==
  {d \in 1 .. Len(w.scope.defs) :
     /\ w.scope.defs[d].file = f /\ IsFnDef(w, d)
     /\ Tokens(ItemNode(w, d))[1].lo <= at /\ at < ItemNode(w, d).hi}

\* plan_rename_at: the place is a token of a file.
PlanRenameAt(w, r) ==
  LET fns == FnAt(w, r.file, r.at)
      d == CHOOSE d \in fns : TRUE
      sym == LocalTarget(w.bodies[d], r.at)
      sites == {<<r.file, t>> : t \in LocalSites(w.bodies[d], sym)}
  IN CASE ~IsIdent(r.to) -> Refused("InvalidName")
       [] IsIdent(r.to) /\ w.codes # {} -> Refused("BaselineErrors")
       [] OTHER ->
            IF r.file \notin Files(w) \/ fns = {} THEN Refused("UnknownSymbol")
            ELSE IF w.scope.defs[d].name.at = r.at THEN Refused("UnsupportedTarget")
            ELSE IF sym = 0 THEN Refused("UnknownSymbol")
            ELSE Planned(NameEdits(w, sites, r.to, 0),
                         r @@ [fn |-> d, old |-> w.bodies[d].locals[sym].name])

\* apply_rename's last check: every edit still covers the old name.
CoversOldName(w, plan) == \A e \in ToSet(plan.edits) : Covered(w, e) = plan.request.old
=============================================================================
