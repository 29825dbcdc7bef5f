--------------------------- MODULE MCQueryEngine ---------------------------
(***************************************************************************)
(* QueryEngine over the queries of Pipeline, against a clean build: the    *)
(* value every query has when evaluated from the texts alone.              *)
(***************************************************************************)
EXTENDS QueryEngine, Pipeline, TLC

Plain == [uses |-> TRUE, sig |-> 1, body |-> 1, shift |-> 0, bad |-> FALSE]

\* m: with and without the import, and moved; n: with a syntax error and with
\* another signature.
MCTexts ==
    Source("m") :> {Plain, [Plain EXCEPT !.uses = FALSE], [Plain EXCEPT !.shift = 1]}
    @@ Source("n") :> {Plain, [Plain EXCEPT !.bad = TRUE], [Plain EXCEPT !.sig = 2]}

\* Files open with the plain text, m with or without the import.
MCOpened ==
    Source("m") :> {Plain, [Plain EXCEPT !.uses = FALSE]} @@ Source("n") :> {Plain}

MCInput      == {Source(x) : x \in Files}
MCTop        == {Diagnostics, HirBody("f")}
MCCompared   == Keys \ {Parse(x) : x \in Files}
MCCollectors == {Diagnostics}

-----------------------------------------------------------------------------
(* A clean build of texts w: every key that can be asked, dependencies first. *)

BuildOrder ==
    <<Source("m"), Source("n"), Parse("m"), Parse("n"), Ast("m"), Ast("n"), Scope,
      AstItem("f"), AstItem("g"), HirBody("f"), HirBody("g"), BodyTypes("f"),
      BodyTypes("g"), Ownership, Diagnostics>>

\* A key of Pipeline is about its file and about the workspace of m.
MCNeeds ==
    [k \in Keys |-> IF k[1] \in {"Source", "Parse", "Ast"} THEN {FileOfKey[k]}
                    ELSE {FileOfKey[k], Source("m")}]

RECURSIVE Asked(_, _, _, _), Built(_, _, _)

\* What k asks of `built` from here on, and what it is told.
Asked(k, w, built, read) ==
    LET d == Ask(k, read.told, DOMAIN w)
    IN  IF d = Done THEN read
        ELSE Asked(k, w, built, [asks |-> Append(read.asks, d),
                                 told |-> Append(read.told, built[d].value)])

Built(i, w, built) ==
    IF i > Len(BuildOrder) THEN built
    ELSE LET k     == BuildOrder[i]
             read  == Asked(k, w, built, [asks |-> << >>, told |-> << >>])
             under == Under(read.asks, built)
             says  == Result(k, read.told, DOMAIN w)
             entry ==
                IF k \in Input THEN [value |-> w[k], asks |-> << >>, below |-> {}]
                ELSE [value |-> IF k \in Collectors
                                THEN [own |-> says, collected |-> under] ELSE says,
                      asks  |-> read.asks,
                      below |-> Emits(k, read.told, DOMAIN w) \cup under]
         IN  Built(i + 1, w,
                   IF MCNeeds[k] \subseteq DOMAIN w THEN (k :> entry) @@ built ELSE built)

\* Evaluated once: TLC keeps the value of a definition, not of what replaces a constant.
BuildOf      == [w \in Workspaces |-> Built(1, w, << >>)] @@ << >>
MCCleanBuild == BuildOf

\* What Sound, DiagnosticsCurrent and EvaluatedForAReason ask of the evaluators.
ASSUME PipelineObserves == CollectorsObserve /\ UncomparedDiffer

-----------------------------------------------------------------------------
(* The evaluators keep to the files their key names: what the proofs about the *)
(* engine ask of them, over every answer they may be given.                    *)

RECURSIVE AsksOf(_, _, _, _), SaidBy(_, _, _, _), ProperFrom(_, _, _)

\* Whatever k is told by the queries in `said`, it asks one of them, or is done.
AsksOf(k, table, said, answers) ==
    LET d == Ask(k, answers, table)
    IN  d # Done => /\ d \in DOMAIN said \ Collectors
                    /\ \A v \in said[d] : AsksOf(k, table, said, Append(answers, v))

\* ... and this is all it may say.
SaidBy(k, table, said, answers) ==
    LET d == Ask(k, answers, table)
    IN  IF d = Done THEN {Result(k, answers, table)}
        ELSE UNION {SaidBy(k, table, said, Append(answers, v)) : v \in said[d]}

\* The queries about these files ask only those before them in BuildOrder.
ProperFrom(i, table, said) ==
    i <= Len(BuildOrder) =>
      LET k == BuildOrder[i]
          says == IF k \in Input THEN Texts[k]
                  ELSE IF k \in Collectors THEN {} ELSE SaidBy(k, table, said, << >>)
      IN  IF MCNeeds[k] \subseteq table
          THEN /\ k \notin Input => AsksOf(k, table, said, << >>)
               /\ ProperFrom(i + 1, table, (k :> says) @@ said)
          ELSE ProperFrom(i + 1, table, said)

ASSUME PipelineIsProper == \A table \in SUBSET Input : ProperFrom(1, table, << >>)
=============================================================================
