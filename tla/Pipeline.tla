------------------------------ MODULE Pipeline ------------------------------
(***************************************************************************)
(* What each query of ontixa-db asks, returns and emits (eval.rs), for a   *)
(* workspace rooted at file "m", which holds function "f" and may import   *)
(* file "n", which holds function "g".  f calls g.                         *)
(*                                                                         *)
(* A text is what the stages tell apart: `uses` (the import), `sig` and    *)
(* `body` of its function, `shift` (bytes before the function) and `bad`   *)
(* (a syntax error the parser recovers from).                              *)
(* A demand an evaluation repeats is left out: it reads an entry that is   *)
(* fresh by then.                                                          *)
(***************************************************************************)
EXTENDS Naturals, Sequences

Files == {"m", "n"}
FileOf == [f |-> "m", g |-> "n"]

Source(x)   == <<"Source", x>>
Parse(x)    == <<"Parse", x>>
Ast(x)      == <<"Ast", x>>
AstItem(fn) == <<"AstItem", fn>>
HirBody(fn) == <<"HirBody", fn>>
BodyTypes(fn) == <<"BodyTypes", fn>>
Scope       == <<"Scope", "m">>
Ownership   == <<"Ownership", "m">>
Diagnostics == <<"Diagnostics", "m">>

Keys ==
    {Source(x) : x \in Files} \cup {Parse(x) : x \in Files} \cup {Ast(x) : x \in Files}
    \cup {AstItem(fn) : fn \in {"f", "g"}} \cup {HirBody(fn) : fn \in {"f", "g"}}
    \cup {BodyTypes(fn) : fn \in {"f", "g"}} \cup {Scope, Ownership, Diagnostics}

FileOfKey ==
    [k \in Keys |-> IF k[1] \in {"AstItem", "HirBody", "BodyTypes"}
                    THEN Source(FileOf[k[2]]) ELSE Source(k[2])]

NoMore == <<"NoMore", "">>

\* scope_eval: the files reached from the root, over the module table.
Imports(ast, table) == ast.uses /\ Source("n") \in table

\* The demands of an evaluation known from the answers so far.
ScopePlan(answers, table) ==
    IF answers # << >> /\ Imports(answers[1], table)
    THEN <<Ast("m"), Ast("n")>> ELSE <<Ast("m")>>

\* ownership: the scope, then body and types of every function.
OwnershipPlan(answers) ==
    <<Scope, HirBody("f"), BodyTypes("f")>>
    \o (IF answers # << >> /\ "n" \in answers[1].files
        THEN <<HirBody("g"), BodyTypes("g")>> ELSE << >>)

\* diagnostics: Parse directly, per reachable file, then what emits.
DiagnosticsPlan(answers) ==
    <<Parse("m"), Scope, Ast("m")>>
    \o (IF Len(answers) >= 2 /\ "n" \in answers[2].files
        THEN <<Parse("n"), Ast("n"), BodyTypes("f"), BodyTypes("g"), Ownership>>
        ELSE <<BodyTypes("f"), Ownership>>)

Plan(k, answers, table) ==
    CASE k[1] = "Source"      -> << >>
      [] k[1] = "Parse"       -> <<Source(k[2])>>
      [] k[1] = "Ast"         -> <<Parse(k[2])>>
      [] k[1] = "AstItem"     -> <<Ast(FileOf[k[2]])>>
      [] k[1] = "HirBody"     -> <<Scope, AstItem(k[2])>>
      [] k[1] = "BodyTypes"   -> <<Scope, HirBody(k[2])>>
      [] k[1] = "Scope"       -> ScopePlan(answers, table)
      [] k[1] = "Ownership"   -> OwnershipPlan(answers)
      [] k[1] = "Diagnostics" -> DiagnosticsPlan(answers)

NextDemand(k, answers, table) ==
    LET plan == Plan(k, answers, table)
    IN  IF Len(answers) < Len(plan) THEN plan[Len(answers) + 1] ELSE NoMore

\* resolve_workspace: the reachable files and their signatures.
ScopeValue(answers) ==
    [files |-> IF Len(answers) = 2 THEN {"m", "n"} ELSE {"m"},
     sigs  |-> [i \in DOMAIN answers |-> answers[i].sig]]

\* lower_body: f's call of g resolves when n is in the workspace.
Resolves(fn, scope) == fn = "g" \/ "n" \in scope.files

\* check_body: the signatures the body was checked against.
CheckedAgainst(fn, scope) ==
    IF fn = "f" THEN scope.sigs ELSE [i \in {2} \cap DOMAIN scope.sigs |-> scope.sigs[i]]

Evaluate(k, answers, table) ==
    CASE k[1] = "Parse"     -> answers[1]
      [] k[1] = "Ast"       -> [uses |-> answers[1].uses, sig |-> answers[1].sig,
                                body |-> answers[1].body, shift |-> answers[1].shift]
      [] k[1] = "AstItem"   -> [sig |-> answers[1].sig, body |-> answers[1].body]
      [] k[1] = "HirBody"   -> [body |-> answers[2].body,
                                calls |-> Resolves(k[2], answers[1])]
      [] k[1] = "BodyTypes" -> [hir |-> answers[2],
                                sigs |-> CheckedAgainst(k[2], answers[1])]
      [] k[1] = "Scope"     -> ScopeValue(answers)
      [] k[1] = "Ownership" -> [i \in {j \in DOMAIN answers : j > 1 /\ j % 2 = 1} |-> answers[i]]
      \* Spans are rebased to where the items are now.
      [] k[1] = "Diagnostics" ->
            [i \in {j \in DOMAIN answers : DiagnosticsPlan(answers)[j][1] = "Ast"} |->
                answers[i].shift]

\* The diagnostics of an evaluation itself.
Emit(k, answers, table) ==
    CASE k[1] = "Parse" /\ answers[1].bad -> {<<"syntax", k[2]>>}
      [] k[1] = "Scope" /\ answers[1].uses /\ Len(answers) = 1 -> {<<"import", "m">>}
      [] k[1] = "HirBody" /\ ~Resolves(k[2], answers[1]) -> {<<"call", k[2]>>}
      [] k[1] = "BodyTypes" /\ k[2] = "f" /\ Len(answers[1].sigs) = 2
           /\ answers[1].sigs[2] = 2 -> {<<"argument", "f">>}
      [] OTHER -> {}
=============================================================================
