------------------------------ MODULE Refactor ------------------------------
(***************************************************************************)
(* A rename or a patch of a small workspace, from the baseline compile to  *)
(* the sources it leaves: Db::plan_rename, plan_rename_at and plan_patch,   *)
(* then apply_rename and apply_patch on the plan.  Planning is pure: the   *)
(* edits are spliced into copies of the texts, the copies are compiled by  *)
(* a database of their own (the steps of Compiler once more) and only the  *)
(* verdict decides.                                                        *)
(***************************************************************************)
EXTENDS Compiler, Patch

CONSTANTS Workspaces,              \* each the texts of Modules
          Requests(_),             \* what may be asked of a workspace (its texts)
          Planning(_, _),          \* Plan
          Splicing(_, _),          \* SpliceSources
          Verifying(_, _, _)       \* Verified
VARIABLES phase,      \* "baseline", "shadow", then the verdict or "applied"
          texts,      \* the sources being compiled, one per file
          files,      \* the text, tokens and tree of each file read
          base,       \* the workspace the plan is made on
          plan
refactor == <<phase, texts, files, base, plan>>
every == <<vars, refactor>>

Nothing == [codes |-> {"none"}]
StartRefactor ==
  /\ Init
  /\ phase = "baseline" /\ texts \in Workspaces
  /\ files = <<>> /\ base = Nothing /\ plan = Refused("none")

\* The workspace as the compile that just ended leaves it.
Compiled ==
  [asts |-> asts, files |-> SubSeq(files, 1, Len(asts)), scope |-> scope, bodies |-> bodies,
   tables |-> tables, codes |-> codes]
CompileEnds == stage \in {"mir", "rejected"}

OpenText ==
  /\ stage = "open" /\ text' = texts[at]
  /\ stage' = "lex" /\ lx' = NewLexer
  /\ UNCHANGED <<at, parser, asts, middle, codes, mir, machine, refactor>>
KeepFile ==
  /\ EndFile
  /\ files' = <<[src |-> text, toks |-> lx.toks, tree |-> SourceFile(parser).kids[1]]>> \o files
  /\ UNCHANGED <<phase, texts, base, plan>>
CompileStep ==
  /\ phase \in {"baseline", "shadow"}
  /\ \/ OpenText
     \/ KeepFile
     \/ /\ LexOne \/ StartParse \/ ParseItem \/ Resolve \/ LowerOne \/ CheckOne \/ InferRound
           \/ EnforceOne
        /\ UNCHANGED refactor

\* What is asked of the workspace, and what the plan of it would change.
Plan(w, request) ==
  CASE request.op = "rename" -> PlanRename(w, request)
    [] request.op = "rename_at" -> PlanRenameAt(w, request)
    [] request.op = "patch" -> PlanPatch(w, request)
Request ==
  /\ phase = "baseline" /\ CompileEnds
  /\ \E request \in Requests(texts) : plan' = Planning(Compiled, request)
  /\ base' = Compiled
  /\ IF plan'.code = "none"
     THEN /\ phase' = "shadow"
          /\ texts' = Splicing(Compiled, plan'.edits) \o SubSeq(texts, Len(asts) + 1, Len(texts))
          /\ stage' = "open" /\ at' = Len(Modules)
          /\ files' = <<>> /\ asts' = <<>> /\ codes' = {} /\ bodies' = <<>> /\ tables' = <<>>
          /\ contracts' = <<>> /\ scope' = [defs |-> <<>>, envs |-> <<>>, codes |-> <<>>]
          /\ UNCHANGED <<text, lx, parser, mir, machine>>
     ELSE phase' = "refused" /\ UNCHANGED <<vars, texts, files>>

\* verify_candidate, or the shadow compile of a patch: no error, and for a rename the
\* bindings of every function as before.
Verified(w, shadow, request) ==
  /\ shadow.codes = {}
  /\ request.op # "patch" => SameBindings(w, shadow, Watched(w, request))
Verify ==
  /\ phase = "shadow" /\ CompileEnds
  /\ phase' = IF Verifying(base, Compiled, plan.request) THEN "accepted" ELSE "rejected"
  /\ UNCHANGED <<vars, texts, files, base, plan>>

\* The bytes the edits expect to find, then one set_sources of all the files.
Apply ==
  /\ phase = "accepted"
  /\ phase' = IF plan.request.op # "patch" /\ ~CoversOldName(base, plan) THEN "mismatch" ELSE "applied"
  /\ UNCHANGED <<vars, texts, files, base, plan>>

RefactorNext == CompileStep \/ Request \/ Verify \/ Apply
RefactorSpec == StartRefactor /\ [][RefactorNext]_every
=============================================================================
