-------------------------------- MODULE Patch --------------------------------
(***************************************************************************)
(* patch.rs: a patch is a short list of structured edits.  OpEdits is what  *)
(* one of them changes in the texts, or the code it is refused with;        *)
(* PlanPatch is plan_patch up to the splice, whose candidate Refactor       *)
(* compiles.  Names, types and texts come trimmed.                          *)
(***************************************************************************)
EXTENDS Rename

CONSTANTS MaxPatchOps,      \* MAX_PATCH_OPS
          Reading(_)        \* Parsed

(* ---- texts ---- *)
RECURSIVE SkipBack(_, _, _), LexAll(_, _), ParseAll(_)
\* The first position such that everything from it to p is in cs.
SkipBack(src, p, cs) == IF p > 0 /\ Peek(src, p - 1) \in cs THEN SkipBack(src, p - 1, cs) ELSE p
LexAll(lx, src) == IF lx.pos < Len(src) THEN LexAll(LexToken(lx, src), src) ELSE lx
ParseAll(p) == IF AtEnd(p) THEN SourceFile(p) ELSE ParseAll(Item(p))
OneItem(ast) == ~ast.failed /\ ast.uses = <<>> /\ Len(ast.items) = 1
OneParam(ast) == OneItem(ast) /\ ast.items[1].k = "Fn" /\ Len(ast.items[1].params) = 1
OneUse(ast) == /\ ~ast.failed /\ ast.items = <<>> /\ Len(ast.uses) = 1
               /\ Len(ast.uses[1].path) <= 2 /\ ast.uses[1].alias = <<>>
\* parse_ast of a payload, and whether it reports an error.
Parsed(payload) ==
  LET lexed == LexAll(NewLexer, payload)
      p == ParseAll(Start(NewParser(lexed.toks), "SOURCE_FILE"))
      ast == LowerModule([src |-> payload, toks |-> lexed.toks], p.kids[1])
  IN [ast EXCEPT !.failed = @ \/ lexed.codes # <<>> \/ p.diags # <<>>]

(* ---- check_op: the shape of the payloads ---- *)
TypeText(ty) == ty # "" /\ OneParam(Reading("fn __patch(p: " \o ty \o ") { }"))
UsePath(path) == path # "" /\ OneUse(Reading("use " \o path \o ";"))
ItemText(item) == item # "" /\ OneItem(Reading(item))
BlockText(body) == Peek(body, 0) = "{" /\ Peek(body, Len(body) - 1) = "}"
Typing == {"set_param_type", "set_field_type", "add_field"}
Identifiers(o) ==
  CASE o.op \in {"rename_param", "rename_field"} -> {o.to}
    [] o.op = "add_field" -> {o.field}
    [] o.op \in {"add_use", "remove_use"} -> ToSet(o.alias)
    [] OTHER -> {}
TypeTexts(o) ==
  CASE o.op \in Typing -> {o.ty}
    [] o.op = "set_ret_type" -> ToSet(o.ty)
    [] OTHER -> {}
WellFormed(o) ==
  /\ \A name \in Identifiers(o) : IsIdent(name)
  /\ \A ty \in TypeTexts(o) : TypeText(ty)
  /\ CASE o.op \in {"rename_param", "set_param_type"} -> o.param # ""
       [] o.op \in {"remove_field", "rename_field", "set_field_type"} -> o.field # ""
       [] o.op \in {"add_use", "remove_use"} -> UsePath(o.path)
       [] o.op = "replace_body" -> BlockText(o.body)
       [] o.op = "add_def" -> ItemText(o.text)
       [] OTHER -> TRUE

(* ---- places in the texts ---- *)
NodeStart(w, f, node) == w.files[f].toks[node.lo].start
NodeEnd(w, f, node) == w.files[f].toks[node.hi - 1].end
DeclStart(w, f, node) == w.files[f].toks[Tokens(node)[1].lo].start
TokenStart(w, f, ident) == w.files[f].toks[ident.at].start
TokenEnd(w, f, ident) == w.files[f].toks[ident.at].end
\* A declaration and the line end that follows it at once.
WithLineEnd(src, end) ==
  IF TextAt(src, end, 2) = "\r\n" THEN end + 2 ELSE IF Peek(src, end) = "\n" THEN end + 1 ELSE end
LineEnding(src) == IF \E p \in 1 .. Len(src) : TextAt(src, p - 1, 2) = "\r\n" THEN "\r\n" ELSE "\n"
\* ty_edit_span: a type without the blanks before it; start -1 when a comment is there.
TypeSpan(w, f, node) ==
  LET src == w.files[f].src
      path == PathOf(w.files[f], node)
      array == Children(node, {"TYPE_REF"}) # <<>>
      start == SkipWhile(src, IF array THEN NodeStart(w, f, node) ELSE TokenStart(w, f, path[1]), Space)
  IN [start |-> IF TextAt(src, start, 2) \in {"//", "/*"} THEN -1 ELSE start,
      end |-> IF array THEN NodeEnd(w, f, node) ELSE TokenEnd(w, f, Last(path))]
Member(nodes, f, name) == SelectInSeq(nodes, LAMBDA n : FirstName(f, n).name = name)
ParamNodes(node) == EachOpt(Children(node, {"PARAM_LIST"}), LAMBDA l : Children(l, {"PARAM"}))
TypeOf(node) == Children(node, {"TYPE_REF"})[1]

(* ---- the edits of the operations on functions ---- *)
Changed(edits) == [code |-> "none", edits |-> edits]
Refusal(code) == [code |-> code, edits |-> <<>>]
SetType(w, f, node, ty, i) ==
  LET span == TypeSpan(w, f, TypeOf(node))
  IN IF span.start < 0 THEN Refusal("UnsupportedTarget")
     ELSE Changed(<<Edit(f, span.start, span.end, ty, i)>>)

ReplaceBody(w, f, node, o, i) ==
  LET src == w.files[f].src
      block == Children(node, {"BLOCK"})[1]
      start == SkipWhile(src, NodeStart(w, f, block), Space)
  IN IF Peek(src, start) # "{" THEN Refusal("UnsupportedTarget")
     ELSE Changed(<<Edit(f, start, NodeEnd(w, f, block), o.body, i)>>)

RenameParam(w, d, f, o, i) ==
  LET sym == SelectInSeq(w.scope.defs[d].params, LAMBDA p : p.name = o.param)
      body == w.bodies[d]
      sites == {<<f, t>> : t \in LocalSites(body, sym)}
  IN IF sym = 0 THEN Refusal("UnknownSymbol")
     ELSE IF \E l \in ToSet(body.locals) : l.name = o.to THEN Refusal("NameConflict")
     ELSE Changed(NameEdits(w, sites, o.to, i))

SetParamType(w, f, node, o, i) ==
  LET j == Member(ParamNodes(node), w.files[f], o.param)
  IN IF j = 0 THEN Refusal("UnknownSymbol") ELSE SetType(w, f, ParamNodes(node)[j], o.ty, i)

\* o.ty is empty to remove the type.
SetRetType(w, f, node, o, i) ==
  LET src == w.files[f].src
      ret == Children(node, {"RET_TYPE"})
      span == TypeSpan(w, f, TypeOf(ret[1]))
      arrow == SkipBack(src, span.start, Space) - 2
      close == SkipBack(src, NodeStart(w, f, Children(node, {"BLOCK"})[1]), Space)
  IN CASE ret = <<>> /\ o.ty = <<>> -> Refusal("UnsupportedTarget")
       [] ret = <<>> /\ o.ty # <<>> ->
            IF Peek(src, close - 1) # ")" THEN Refusal("UnsupportedTarget")
            ELSE Changed(<<Edit(f, close, close, " -> " \o o.ty[1], i)>>)
       [] ret # <<>> /\ o.ty # <<>> -> SetType(w, f, ret[1], o.ty[1], i)
       [] ret # <<>> /\ o.ty = <<>> ->
            IF span.start < 0 \/ TextAt(src, arrow, 2) # "->" THEN Refusal("UnsupportedTarget")
            ELSE Changed(<<Edit(f, SkipBack(src, arrow, {" ", "\t"}), span.end, "", i)>>)

(* ---- on data ---- *)
AddField(w, f, node, o, i) ==
  LET src == w.files[f].src
      fields == Children(node, {"FIELD"})
      name == TokenStart(w, f, FirstName(w.files[f], Last(fields)))
      gap == SubSeq(src, SkipBack(src, name, Space) + 1, name)
      brace == NodeStart(w, f, SelectSeq(node.kids, LAMBDA c : c.k = "{")[1]) + 1
      decl == o.field \o ": " \o o.ty \o ";"
  IN IF fields = <<>> THEN Changed(<<Edit(f, brace, brace, " " \o decl, i)>>)
     ELSE LET end == NodeEnd(w, f, Last(fields)) IN Changed(<<Edit(f, end, end, gap \o decl, i)>>)

RemoveField(w, f, node, o, i) ==
  LET fields == Children(node, {"FIELD"})
      j == Member(fields, w.files[f], o.field)
      name == FirstName(w.files[f], fields[j])
  IN IF j = 0 THEN Refusal("UnknownField")
     ELSE IF \E t \in fields[j].lo .. name.at : w.files[f].toks[t].kind = "comment"
     THEN Refusal("UnsupportedTarget")
     ELSE Changed(<<Edit(f, NodeStart(w, f, fields[j]), NodeEnd(w, f, fields[j]), "", i)>>)

SetFieldType(w, f, node, o, i) ==
  LET j == Member(Children(node, {"FIELD"}), w.files[f], o.field)
  IN IF j = 0 THEN Refusal("UnknownField") ELSE SetType(w, f, Children(node, {"FIELD"})[j], o.ty, i)

\* field_sites: accesses whose base has the type of the data, initializers of its literals,
\* and the steps of assigned places that pass through the field.
FieldOf(w, d, name) == SelectInSeq(w.scope.defs[d].fields, LAMBDA x : x.name = name)
PlaceSites(w, table, target, name, place) ==
  LET walk[j \in 0 .. Len(place.fields)] ==         \* the type before step j + 1
        IF j = 0 THEN table.locals[place.base]
        ELSE LET ty == walk[j - 1]
                 x == IF ty[1] = "struct" THEN FieldOf(w, ty[2], place.fields[j].name) ELSE 0
             IN IF x = 0 THEN PoisonTy ELSE w.scope.defs[ty[2]].fields[x].ty
  IN {place.fields[j].at : j \in {j \in DOMAIN place.fields :
        walk[j - 1] = <<"struct", target>> /\ place.fields[j].name = name}}
FieldSites(w, target, name) ==
  LET fns == {d \in 1 .. Len(w.scope.defs) : IsFnDef(w, d)}
      own(d, e) ==
        CASE e.k = "Field" /\ w.tables[d].ty[e.base] = <<"struct", target>> /\ e.name.name = name ->
               {e.name.at}
          [] e.k = "StructLit" /\ e.def = target ->
               {x.name.at : x \in {x \in ToSet(e.fields) : x.name.name = name}}
          [] e.k = "Block" ->
               UNION {PlaceSites(w, w.tables[d], target, name, e.stmts[j].target) :
                        j \in {j \in DOMAIN e.stmts : e.stmts[j].k = "Assign"}}
          [] OTHER -> {}
      exprs(d) == w.tables[d].exprs
      sites(d) == UNION {own(d, exprs(d)[j]) : j \in DOMAIN exprs(d)}
  IN UNION {{<<w.scope.defs[d].file, t>> : t \in sites(d)} : d \in fns}
RenameField(w, d, f, o, i) ==
  LET fields == Children(ItemNode(w, d), {"FIELD"})
      j == Member(fields, w.files[f], o.field)
  IN IF j = 0 THEN Refusal("UnknownField")
     ELSE Changed(NameEdits(w, {<<f, FirstName(w.files[f], fields[j]).at>>}, o.to, i)
                  \o NameEdits(w, FieldSites(w, d, o.field), o.to, i))

(* ---- on files ---- *)
AddDef(w, f, o, i) ==
  LET src == w.files[f].src
      open == src # "" /\ Peek(src, Len(src) - 1) # "\n"
  IN Changed(<<Edit(f, Len(src), Len(src), (IF open THEN "\n" ELSE "") \o o.text \o "\n", i)>>)

UseDeclText(o) == "use " \o o.path \o FoldLeft(\o, "", Each(o.alias, LAMBDA a : " as " \o a)) \o ";"
AddUse(w, f, o, i) ==
  LET src == w.files[f].src
      nl == LineEnding(src)
      uses == Children(w.files[f].tree, {"USE_DECL"})
      items == Children(w.files[f].tree, {"DATA_DECL", "FN_DECL"})
      eol == LineCommentEnd(src, NodeEnd(w, f, Last(uses)))      \* the next "\n", or the end
      at(p, text) == Changed(<<Edit(f, p, p, text, i)>>)
  IN IF uses # <<>>
     THEN IF eol < Len(src) THEN at(eol + 1, UseDeclText(o) \o nl)
          ELSE at(Len(src), nl \o UseDeclText(o) \o nl)
     ELSE at(IF items = <<>> THEN 0 ELSE DeclStart(w, f, items[1]), UseDeclText(o) \o nl)

PathText(names) == FoldLeft(\o, names[1].name, Each(Tail(names), LAMBDA n : "::" \o n.name))
RemoveUse(w, f, o, i) ==
  LET j == SelectInSeq(w.asts[f].ast.uses,
                       LAMBDA u : PathText(u.path) = o.path /\ Each(u.alias, LAMBDA a : a.name) = o.alias)
      node == Children(w.files[f].tree, {"USE_DECL"})[j]
  IN IF j = 0 THEN Refusal("UnknownSymbol")
     ELSE Changed(<<Edit(f, DeclStart(w, f, node),
                         WithLineEnd(w.files[f].src, NodeEnd(w, f, node)), "", i)>>)

RemoveDef(w, f, node, i) ==
  Changed(<<Edit(f, DeclStart(w, f, node), WithLineEnd(w.files[f].src, NodeEnd(w, f, node)), "", i)>>)

(* ---- op_edits ---- *)
FileOps == {"add_def", "add_use", "remove_use"}
FnOps == {"replace_body", "rename_param", "set_param_type", "set_ret_type"}
DataOps == {"add_field", "remove_field", "rename_field", "set_field_type"}
FileEdits(w, f, o, i) ==
  CASE f = 0 -> Refusal("UnknownModule")
    [] f > 0 /\ o.op = "add_def" -> AddDef(w, f, o, i)
    [] f > 0 /\ o.op = "add_use" -> AddUse(w, f, o, i)
    [] f > 0 /\ o.op = "remove_use" -> RemoveUse(w, f, o, i)
DefEdits(w, d, f, node, o, i) ==
  CASE o.op = "remove_def" -> RemoveDef(w, f, node, i)
    [] o.op = "replace_body" -> ReplaceBody(w, f, node, o, i)
    [] o.op = "rename_param" -> RenameParam(w, d, f, o, i)
    [] o.op = "set_param_type" -> SetParamType(w, f, node, o, i)
    [] o.op = "set_ret_type" -> SetRetType(w, f, node, o, i)
    [] o.op = "add_field" -> AddField(w, f, node, o, i)
    [] o.op = "remove_field" -> RemoveField(w, f, node, o, i)
    [] o.op = "rename_field" -> RenameField(w, d, f, o, i)
    [] o.op = "set_field_type" -> SetFieldType(w, f, node, o, i)
TargetEdits(w, target, o, i) ==
  IF target.code # "none" THEN Refusal(target.code)
  ELSE IF o.op \in (IF IsFnDef(w, target.def) THEN DataOps ELSE FnOps) THEN Refusal("UnsupportedTarget")
  ELSE DefEdits(w, target.def, w.scope.defs[target.def].file, ItemNode(w, target.def), o, i)
OpEdits(w, o, i) ==
  IF o.op \in FileOps
  THEN FileEdits(w, IF o.module = <<>> THEN 1 ELSE ModuleFile(w, o.module[1]), o, i)
  ELSE TargetEdits(w, ResolveTarget(w, o.symbol), o, i)

(* ---- plan_patch ---- *)
\* check_overlap: two edits may touch, and two insertions may share their place.
Overlap(a, b) == a.file = b.file /\ a.start < b.end /\ b.start < a.end
SpliceBy(edits, Sooner(_, _)) ==
  LET before(i, j) == \/ edits[i].start > edits[j].start
                      \/ edits[i].start = edits[j].start /\ Sooner(<<edits[i].op, i>>, <<edits[j].op, j>>)
  IN Each(SortSeq([i \in 1 .. Len(edits) |-> i], before), LAMBDA i : edits[i])
\* Mutant: at one place the earlier operation first.
EarlierFirst(edits) == SpliceBy(edits, LAMBDA a, b : a[1] < b[1] \/ (a[1] = b[1] /\ a[2] < b[2]))
\* The order of the splice: from the last place to the first, at one place the later
\* operation before the earlier.
SpliceOrder(edits) == SpliceBy(edits, LAMBDA a, b : a[1] > b[1] \/ (a[1] = b[1] /\ a[2] < b[2]))

\* The plan of the edits of each operation.
Combined(each, r) ==
  LET bad == SelectInSeq(each, LAMBDA x : x.code # "none")
      edits == EachOpt(each, LAMBDA x : x.edits)
      overlap == \E i, j \in DOMAIN edits : i < j /\ Overlap(edits[i], edits[j])
  IN IF bad > 0 THEN Refused(each[bad].code)
     ELSE IF overlap THEN Refused("MalformedPatch")
     ELSE Planned(SpliceOrder(edits), r)
PlanPatch(w, r) ==
  IF r.ops = <<>> \/ Len(r.ops) > MaxPatchOps \/ \E j \in DOMAIN r.ops : ~WellFormed(r.ops[j])
  THEN Refused("MalformedPatch")
  ELSE IF w.codes # {} THEN Refused("BaselineErrors")
  ELSE Combined(Each([j \in 1 .. Len(r.ops) |-> j], LAMBDA j : OpEdits(w, r.ops[j], j)), r)
=============================================================================
