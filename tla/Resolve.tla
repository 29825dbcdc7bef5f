------------------------------ MODULE Resolve ------------------------------
(***************************************************************************)
(* hir/resolve.rs: the definitions of all the files of a workspace, what   *)
(* each file can name, and the types of the signatures.                    *)
(*                                                                         *)
(* files is the sequence of the workspace's files, each its module name and *)
(* its AST; a file is its place in the sequence.  A definition is its place *)
(* in the sequence of all items of all files, in order.  A type is a tuple: *)
(* <<"i32">>, <<"struct", def>>, <<"array", type>>, <<"poison">>, ...       *)
(***************************************************************************)
EXTENDS Ast

Builtins == {"bool", "i8", "i16", "i32", "i64", "isize", "u8", "u16", "u32", "u64",
             "usize", "f32", "f64", "str", "char", "unit"}
PoisonTy == <<"poison">>
UnitTy == <<"unit">>

FirstWith(s, n) == SelectInSeq(s, LAMBDA x : x.name.name = n)
\* The members of s whose name an earlier member has.
Repeats(s) == {j \in 1 .. Len(s) : FirstWith(s, s[j].name.name) < j}
Distinct(s) ==
  LET js == SelectSeq([j \in 1 .. Len(s) |-> j], LAMBDA j : j \notin Repeats(s))
  IN Each(js, LAMBDA j : s[j])
Repeated(s, code) == [j \in 1 .. Cardinality(Repeats(s)) |-> code]

(* ---- pass 0 and 1: modules and definitions ---- *)
\* The last file that provides a module name is the module.
ModuleOf(files) ==
  [m \in {files[f].module : f \in 1 .. Len(files)} |->
     SelectLastInSeq(files, LAMBDA x : x.module = m)]
Before(files, f) == FoldFunctionOnSet(+, 0, [g \in 1 .. Len(files) |-> Len(files[g].ast.items)],
                                      1 .. (f - 1))
\* name -> definition, for the items of one kind of a file; the first of a name wins.
Owned(files, f, kind) ==
  LET items == files[f].ast.items
      mine == {i \in 1 .. Len(items) : i \notin Repeats(items) /\ items[i].k = kind}
  IN [n \in {items[i].name.name : i \in mine} |->
        Before(files, f) + FirstWith(items, n)]

(* ---- pass 2: use declarations ---- *)
\* env is the declaring file's [fns, datas, modules, imports], u the declaration.
UseInto(files, owned, f, env, u) ==
  LET m == u.path[1].name
      g == ModuleOf(files)[m]
      bind == IF u.alias # <<>> THEN u.alias[1].name ELSE Last(u.path).name
      member == u.path[2].name
      known == owned[g].fns @@ owned[g].datas
      taken == DOMAIN env.fns \cup DOMAIN env.datas \cup DOMAIN env.imports
      err(code) == [env EXCEPT !.codes = Append(@, code)]
  IN IF u.path = <<>> THEN env
     ELSE IF m \notin DOMAIN ModuleOf(files) THEN err("UnknownModule")
     ELSE IF g = f THEN err("UnknownModule")
     ELSE IF Len(u.path) > 2 THEN err("UnknownSymbol")
     ELSE IF Len(u.path) = 1 THEN [env EXCEPT !.modules = (bind :> g) @@ @]
     ELSE IF member \notin DOMAIN known THEN err("UnknownSymbol")
     ELSE IF bind \in taken THEN err("DuplicateDef")
     ELSE [env EXCEPT !.imports = (bind :> known[member]) @@ @]

RECURSIVE UseAll(_, _, _, _, _)
UseAll(files, owned, f, env, uses) ==
  IF uses = <<>> THEN env
  ELSE UseAll(files, owned, f, UseInto(files, owned, f, env, Head(uses)), Tail(uses))

Envs(files) ==
  LET owned == [f \in 1 .. Len(files) |->
                  [fns |-> Owned(files, f, "Fn"), datas |-> Owned(files, f, "Data"),
                   modules |-> <<>>, imports |-> <<>>,
                   codes |-> Repeated(files[f].ast.items, "DuplicateDef")
                             \o (IF \E g \in 1 .. (f - 1) : files[g].module = files[f].module
                                 THEN <<"DuplicateDef">> ELSE <<>>)]]
  IN [f \in 1 .. Len(files) |-> UseAll(files, owned, f, owned[f], files[f].ast.uses)]

(* ---- pass 3: signatures ---- *)
\* A resolved type and the codes of the errors met.
Ty(ty, codes) == [ty |-> ty, codes |-> codes]
ArrayOf(elem) ==
  CASE elem.ty = PoisonTy -> elem
    [] elem.ty[1] = "array" \/ elem.ty = UnitTy -> Ty(PoisonTy, <<"UnsupportedOperation">>)
    [] OTHER -> Ty(<<"array", elem.ty>>, elem.codes)

\* kinds: the kind of each definition.
RECURSIVE ResolveType(_, _, _, _)
ResolveType(envs, kinds, f, ty) ==
  LET path == ty.path
      name == path[1].name
      env == envs[f]
      imported == name \in DOMAIN env.imports /\ kinds[env.imports[name]] = "Data"
      g == env.modules[name]
  IN IF ty.k = "Array" THEN ArrayOf(ResolveType(envs, kinds, f, ty.elem))
     ELSE IF Len(path) = 1
     THEN CASE name \in Builtins -> Ty(<<name>>, <<>>)
            [] name \notin Builtins /\ name \in DOMAIN env.datas ->
                 Ty(<<"struct", env.datas[name]>>, <<>>)
            [] name \notin Builtins \cup DOMAIN env.datas /\ imported ->
                 Ty(<<"struct", env.imports[name]>>, <<>>)
            [] OTHER -> Ty(PoisonTy, <<"UnknownType">>)
     ELSE IF Len(path) # 2 THEN Ty(PoisonTy, <<"UnknownType">>)
     ELSE IF name \notin DOMAIN env.modules THEN Ty(PoisonTy, <<"UnknownModule">>)
     ELSE IF path[2].name \notin DOMAIN envs[g].datas THEN Ty(PoisonTy, <<"UnknownType">>)
     ELSE Ty(<<"struct", envs[g].datas[path[2].name]>>, <<>>)

\* The definition of an item: the shape of a data, the signature of a function.
Define(envs, kinds, f, item) ==
  LET type(t) == ResolveType(envs, kinds, f, t)
      fields == Distinct(item.fields)
      variants == Distinct(item.variants)
      codesOf(ts) == EachOpt(ts, LAMBDA t : type(t).codes)
      tyOf(x) == type(x.ty).ty
  IN IF item.k = "Data"
     THEN [k |-> "Data", file |-> f, name |-> item.name,
           fields |-> Each(fields, LAMBDA x : [name |-> x.name.name, ty |-> tyOf(x)]),
           variants |-> Each(variants, LAMBDA v : [name |-> v.name.name,
                                 payload |-> Each(v.payload, LAMBDA t : type(t).ty)]),
           codes |-> Repeated(item.fields, "DuplicateField")
                     \o codesOf(Each(fields, LAMBDA x : x.ty))
                     \o Repeated(item.variants, "DuplicateDef")
                     \o EachOpt(variants, LAMBDA v : codesOf(v.payload))]
     ELSE [k |-> "Fn", file |-> f, name |-> item.name,
           params |-> Each(item.params, LAMBDA p : [name |-> p.name.name, ty |-> tyOf(p),
                                                    mutable |-> p.mutable]),
           ret |-> IF item.ret = <<>> THEN UnitTy ELSE type(item.ret[1]).ty,
           codes |-> Repeated(item.params, "DuplicateDef")
                     \o codesOf(Each(item.params, LAMBDA p : p.ty)) \o codesOf(item.ret)]

\* resolve_workspace: the definitions, what each file can name, the errors.
ResolveWorkspace(files) ==
  LET envs == Envs(files)
      items == FlattenSeq(Each(files, LAMBDA x : x.ast.items))
      kinds == Each(items, LAMBDA i : i.k)
      fileOf == FlattenSeq([f \in 1 .. Len(files) |-> [i \in 1 .. Len(files[f].ast.items) |-> f]])
      defs == <<>> \o [d \in 1 .. Len(items) |-> Define(envs, kinds, fileOf[d], items[d])]
  IN [defs |-> defs, envs |-> <<>> \o envs,
      codes |-> EachOpt(envs, LAMBDA e : e.codes) \o EachOpt(defs, LAMBDA d : d.codes)]
=============================================================================
