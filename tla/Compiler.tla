------------------------------ MODULE Compiler ------------------------------
(***************************************************************************)
(* A workspace compiled and run, from its texts to the value of main: the   *)
(* queries of db.rs and eval.rs in the order a compile demands them, and    *)
(* `ontixa run` (main.rs) on what they produce.  Every loop of the code is  *)
(* an action, one iteration a step: a token lexed, an item parsed, a body   *)
(* lowered, checked, collected, enforced or lowered again, a statement run. *)
(*                                                                         *)
(* The files are read from the last to the first, the root; at is the file  *)
(* or the definition being worked on.  machine runs the MIR as interp.rs.   *)
(***************************************************************************)
EXTENDS Interp

CONSTANTS Modules,     \* the module name of each file, the root first
          Texts,       \* the texts each file may have
          \* the passes: LexToken, Item, LowerModule, ResolveWorkspace, LowerBody, CheckBody,
          \* Inferred, Enforced, LowerFn and MachineStep
          Lexing(_, _), Parsing(_), Building(_, _), Resolving(_), Lowering(_, _, _),
          Checking(_, _, _), Inferring(_, _), Enforcing(_, _), Blocking(_, _, _, _),
          Running(_, _, _)
VARIABLES stage, at, text, lx, parser, asts, scope, bodies, tables, contracts, codes, mir,
          machine
front == <<text, lx, parser, asts>>
middle == <<scope, bodies, tables, contracts>>
vars == <<stage, at, front, middle, codes, mir, machine>>

Idle == [status |-> "idle", why |-> "none", value |-> Unit, frames |-> <<>>, heap |-> <<>>]
Init ==
  /\ stage = "open" /\ at = Len(Modules)
  /\ text = "" /\ lx = NewLexer /\ parser = NewParser(<<>>) /\ asts = <<>>
  /\ scope = [defs |-> <<>>, envs |-> <<>>, codes |-> <<>>]
  /\ bodies = <<>> /\ tables = <<>> /\ contracts = <<>> /\ codes = {} /\ mir = <<>>
  /\ machine = Idle

(* ---- one file: its text, its tokens, its tree, its AST ---- *)
Open ==
  /\ stage = "open"
  /\ \E t \in Texts[at] : text' = t
  /\ stage' = "lex" /\ lx' = NewLexer
  /\ UNCHANGED <<at, parser, asts, middle, codes, mir, machine>>
LexOne ==
  /\ stage = "lex" /\ lx.pos < Len(text)
  /\ lx' = Lexing(lx, text)
  /\ UNCHANGED <<stage, at, text, parser, asts, middle, codes, mir, machine>>
StartParse ==
  /\ stage = "lex" /\ lx.pos = Len(text)
  /\ stage' = "parse"
  /\ parser' = Start(NewParser(lx.toks), "SOURCE_FILE")
  /\ UNCHANGED <<at, text, lx, asts, middle, codes, mir, machine>>
ParseItem ==
  /\ stage = "parse" /\ ~AtEnd(parser)
  /\ parser' = Parsing(parser)
  /\ UNCHANGED <<stage, at, text, lx, asts, middle, codes, mir, machine>>
EndFile ==
  /\ stage = "parse" /\ AtEnd(parser)
  /\ LET ast == Building([src |-> text, toks |-> lx.toks], SourceFile(parser).kids[1])
         bad == parser.diags # <<>> \/ lx.codes # <<>> \/ ast.failed
     IN asts' = <<[module |-> Modules[at], ast |-> ast, failed |-> bad]>> \o asts
  /\ at' = at - 1
  /\ stage' = IF at = 1 THEN "resolve" ELSE "open"
  /\ lx' = NewLexer /\ parser' = NewParser(<<>>) /\ text' = ""
  /\ UNCHANGED <<middle, codes, mir, machine>>

(* ---- the workspace, then its bodies one by one ---- *)
IsFn(d) == scope.defs[d].k = "Fn"
ItemOf(d) == FlattenSeq(Each(asts, LAMBDA x : x.ast.items))[d]
Errors(cs) == ToSet(cs) \ {"UnreachableArm"}
\* The next definition, or the next stage when there is none.
Advance(next) ==
  /\ at' = IF at = Len(scope.defs) THEN 1 ELSE at + 1
  /\ stage' = IF at = Len(scope.defs) THEN next ELSE stage

\* The files the root reaches by its use declarations, breadth first: the others are not
\* part of the workspace, whatever is wrong with them.
RECURSIVE Discovered(_, _)
Discovered(order, head) ==
  LET uses == SelectSeq(asts[order[head]].ast.uses, LAMBDA u : u.path # <<>>)
      deps == Each(uses, LAMBDA u : SelectInSeq(asts, LAMBDA x : x.module = u.path[1].name))
      reach(known, d) == IF d = 0 \/ d \in ToSet(known) THEN known ELSE Append(known, d)
  IN IF head > Len(order) THEN order ELSE Discovered(FoldLeft(reach, order, deps), head + 1)

Resolve ==
  /\ stage = "resolve"
  /\ asts' = Each(Discovered(<<1>>, 1), LAMBDA f : asts[f])
  /\ scope' = Resolving(asts')
  /\ codes' = codes \cup ToSet(scope'.codes)
                    \cup {c \in {"Syntax"} : \E f \in DOMAIN asts' : asts'[f].failed}
  /\ stage' = IF scope'.defs = <<>> THEN "rejected" ELSE "lower"
  /\ at' = 1
  /\ UNCHANGED <<text, lx, parser, bodies, tables, contracts, mir, machine>>
LowerOne ==
  /\ stage = "lower"
  /\ bodies' = Append(bodies, IF IsFn(at) THEN Lowering(scope, scope.defs[at].file, ItemOf(at))
                              ELSE [codes |-> <<>>])
  /\ codes' = codes \cup ToSet(bodies'[at].codes)
  /\ Advance("check")
  /\ UNCHANGED <<front, scope, tables, contracts, mir, machine>>
CheckOne ==
  /\ stage = "check"
  /\ tables' = Append(tables, IF IsFn(at) THEN Checking(scope, bodies[at], scope.defs[at])
                              ELSE [codes |-> <<>>])
  /\ codes' = codes \cup Errors(tables'[at].codes)
  /\ contracts' = Append(contracts, IF IsFn(at) THEN Bottom(scope.defs[at]) ELSE <<>>)
  /\ Advance("infer")
  /\ UNCHANGED <<front, scope, bodies, mir, machine>>

View(d) == Viewed(bodies[d], tables[d], scope.defs[d], contracts)
\* A round of the fixpoint: every body under the contracts of the round before.
InferRound ==
  /\ stage = "infer"
  /\ contracts' = <<>> \o [d \in 1 .. Len(scope.defs) |->
                             IF IsFn(d) THEN Inferring(View(d), bodies[d].root) ELSE <<>>]
  /\ stage' = IF contracts' = contracts THEN "enforce" ELSE "infer"
  /\ UNCHANGED <<at, front, scope, bodies, tables, codes, mir, machine>>
EnforceOne ==
  /\ stage = "enforce"
  /\ codes' = codes \cup (IF IsFn(at) THEN ToSet(Enforcing(View(at), bodies[at].root)) ELSE {})
  /\ Advance(IF codes' = {} THEN "mir" ELSE "rejected")
  /\ UNCHANGED <<front, middle, mir, machine>>
MirOne ==
  /\ stage = "mir"
  /\ mir' = Append(mir, IF IsFn(at) THEN Blocking(scope, tables[at], View(at), bodies[at].root)
                        ELSE <<>>)
  /\ Advance("boot")
  /\ UNCHANGED <<front, middle, codes, machine>>

(* ---- ontixa run ---- *)
RunMain ==
  /\ stage = "boot"
  /\ LET fns == scope.envs[1].fns
     IN machine' = IF "main" \in DOMAIN fns THEN Boot(mir, fns["main"])
                   ELSE [Idle EXCEPT !.status = "missing"]
  /\ stage' = "run"
  /\ UNCHANGED <<at, front, middle, codes, mir>>

Step ==
  /\ stage = "run" /\ machine.status = "running"
  /\ machine' = Running(scope, mir, machine)
  /\ UNCHANGED <<stage, at, front, middle, codes, mir>>

Next ==
  \/ Open \/ LexOne \/ StartParse \/ ParseItem \/ EndFile
  \/ Resolve \/ LowerOne \/ CheckOne \/ InferRound \/ EnforceOne \/ MirOne
  \/ RunMain \/ Step
Spec == Init /\ [][Next]_vars
=============================================================================
