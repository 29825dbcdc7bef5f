---------------------------- MODULE QueryEngine ----------------------------
(***************************************************************************)
(* The incremental engine of ontixa-db (db.rs): a table of memoized query  *)
(* results, each with the dependencies it read and two revisions, the one  *)
(* its value last changed at and the one it was last found fresh at.  An   *)
(* edit only writes Source entries; a demand walks the dependencies and    *)
(* evaluates what drifted.                                                 *)
(*                                                                         *)
(* The recursion of ensure_fresh and run_eval is an explicit stack, newest *)
(* call first.  An evaluator is what it asks next, given the answers so    *)
(* far, and what it returns and emits in the end; `table` is the set of    *)
(* registered files, which an evaluator can also see (Db::file_count and   *)
(* file_module) without asking.                                            *)
(***************************************************************************)
EXTENDS Naturals, Sequences, FiniteSets

CONSTANTS
    Key,            \* QueryKey
    Input,          \* the keys that are Source(_)
    Texts,          \* the texts each file may have
    Opened,         \* ... and those it may be registered with
    Home,           \* per key, the Source key of its file (QueryKey::file)
    Top,            \* the keys the public accessors demand
    Compared,       \* keys whose values same_value compares: not Parse, Compile
    Collectors,     \* keys that collect diagnostics: Diagnostics(_)
    Done,           \* no further question
    Ask(_, _, _),   \* (key, answers, table): the next key, or Done
    Result(_, _, _),\* (key, answers, table): the value
    Emits(_, _, _), \* (key, answers, table): the diagnostics of the evaluation
    MaxRevision,    \* bound on the input changes; edits leave room in it for
                    \* the files still to be registered
    LateFiles,      \* files may be registered after the first demand
    needs,          \* the files a key names: its own, and the root of its workspace
    CleanBuild      \* per choice of texts, what a build from them alone makes of
                    \* every key that names no other file

ASSUME KeyAssumption ==
    /\ Input \subseteq Key /\ Top \subseteq Key /\ Compared \subseteq Key
    /\ Collectors \subseteq Key \ Input
    /\ Done \notin Key
    /\ DOMAIN Texts = Input /\ DOMAIN Opened = Input
    /\ \A k \in Input : Opened[k] \subseteq Texts[k]
    /\ Home \in [Key -> Input] /\ \A k \in Input : Home[k] = k
    /\ IsFiniteSet(Input)
    /\ MaxRevision \in Nat /\ LateFiles \in BOOLEAN
    /\ needs \in [Key -> SUBSET Input]

-----------------------------------------------------------------------------
(* Clean builds *)

\* The texts of some of the files.
Workspaces ==
    {w \in UNION {[F -> UNION {Texts[k] : k \in F}] : F \in SUBSET Input} :
        \A k \in DOMAIN w : w[k] \in Texts[k]}

\* What is told to a query that asks these keys of a build, and the diagnostics of
\* everything below them.
Told(asks, build)  == [i \in DOMAIN asks |-> build[asks[i]].value]
Under(asks, build) == UNION {build[asks[i]].below : i \in DOMAIN asks}

\* Every query of a build asks, is told by the others, and says what its evaluator
\* makes of it; a file says its text.  No memo and no revision is involved.
IsCleanBuild(w, build) ==
    /\ DOMAIN build = {k \in Key : needs[k] \subseteq DOMAIN w}
    /\ \A k \in DOMAIN build \cap Input :
          build[k].value = w[k] /\ build[k].asks = << >> /\ build[k].below = {}
    /\ \A k \in DOMAIN build \ Input :
          LET asks  == build[k].asks
              told  == Told(asks, build)
              says  == Result(k, told, DOMAIN w)
          IN  /\ asks \in Seq(DOMAIN build)
              /\ \A i \in DOMAIN asks : Ask(k, SubSeq(told, 1, i - 1), DOMAIN w) = asks[i]
              /\ Ask(k, told, DOMAIN w) = Done
              /\ build[k].value = IF k \in Collectors
                                  THEN [own |-> says, collected |-> Under(asks, build)]
                                  ELSE says
              /\ build[k].below = Emits(k, told, DOMAIN w) \cup Under(asks, build)

ASSUME CleanBuildAssumption == \A w \in Workspaces : IsCleanBuild(w, CleanBuild[w])

None == [none |-> TRUE]     \* no entry

VARIABLES
    revision,   \* Db::revision
    memo,       \* Db::memo: Entry, or None, per key
    stack,      \* the calls in flight: ensure_fresh's loops and evaluations
    past        \* history: the texts of the files, per revision

vars == <<revision, memo, stack, past>>

-----------------------------------------------------------------------------
Registered == {k \in Input : memo[k] # None}
Sources    == [k \in Registered |-> memo[k].value]

Fresh(k) == memo[k] # None /\ memo[k].verified_at = revision

\* A loop of ensure_fresh over the dependencies still to verify, which compares
\* with the revision of the entry's last verification.
Verification(k) ==
    [key |-> k, mode |-> "verify", since |-> memo[k].verified_at,
     deps |-> memo[k].deps, answers |-> << >>]

\* A run of the evaluator; deps and answers are the frame recorded so far.
Evaluation(k) ==
    [key |-> k, mode |-> "eval", since |-> 0, deps |-> << >>, answers |-> << >>]

\* ensure_fresh of a key that is not fresh.
CallFor(k) == IF memo[k] = None THEN Evaluation(k) ELSE Verification(k)

Push(k) == stack' = <<CallFor(k)>> \o stack
Replace(call) == stack' = <<call>> \o Tail(stack)

Call == Head(stack)
In(mode) == stack # << >> /\ Call.mode = mode

\* collect_diags: the diagnostics of the entries reached through recorded
\* dependencies, each entry's own once.
Collected(deps) ==
    LET below[k \in {j \in Key : memo[j] # None}] ==
            memo[k].diags \cup UNION {below[memo[k].deps[i]] : i \in DOMAIN memo[k].deps}
    IN  UNION {below[deps[i]] : i \in DOMAIN deps}

ValueOf(k, deps, answers) ==
    IF k \in Collectors
    THEN [own |-> Result(k, answers, Registered), collected |-> Collected(deps)]
    ELSE Result(k, answers, Registered)

\* A fault: a changed value is stamped with the revision to come.
ChangedAtNext(k, value) ==
    IF k \in Compared /\ memo[k] # None /\ memo[k].value = value
    THEN memo[k].computed_at ELSE revision + 1

\* A fault: every later value of an entry keeps the stamp of the first.
ChangedAtFirst(k, value) ==
    IF memo[k] # None THEN memo[k].computed_at ELSE revision

\* Early cutoff: an equal value keeps its computed_at.
ChangedAt(k, value) ==
    IF k \in Compared /\ memo[k] # None /\ memo[k].value = value
    THEN memo[k].computed_at ELSE revision

-----------------------------------------------------------------------------
(* Input changes *)

Init ==
    /\ revision = 0
    /\ memo = [k \in Key |-> None]
    /\ stack = << >>
    /\ past = << >>

SourceEntry(text, computed) ==
    [value |-> text, deps |-> << >>, diags |-> {}, table |-> {},
     computed_at |-> computed, verified_at |-> revision + 1]

\* add_source_named
AddSource(k, text) ==
    /\ stack = << >> /\ revision < MaxRevision
    /\ memo[k] = None
    /\ ~LateFiles => \A j \in Key \ Input : memo[j] = None
    /\ revision' = revision + 1
    /\ memo' = [memo EXCEPT ![k] = SourceEntry(text, revision + 1)]
    /\ past' = Append(past, [j \in Registered \cup {k} |->
                               IF j = k THEN text ELSE Sources[j]])
    /\ UNCHANGED stack

\* set_source and set_sources: one revision for all files of the edit; a file
\* whose text is the same keeps its computed_at.
SetSources(edit) ==
    /\ stack = << >>
    /\ revision + Cardinality(Input \ Registered) < MaxRevision
    /\ DOMAIN edit \subseteq Registered
    /\ revision' = revision + 1
    /\ memo' = [k \in Key |->
                  IF k \notin DOMAIN edit THEN memo[k]
                  ELSE SourceEntry(edit[k], IF memo[k].value = edit[k]
                                            THEN memo[k].computed_at
                                            ELSE revision + 1)]
    /\ past' = Append(past, [j \in Registered |->
                               IF j \in DOMAIN edit THEN edit[j] ELSE Sources[j]])
    /\ UNCHANGED stack

-----------------------------------------------------------------------------
(* Demands *)

\* top_demand; a fresh entry is served as it is.
Demand(k) ==
    /\ stack = << >> /\ Home[k] \in Registered
    /\ IF Fresh(k) THEN UNCHANGED stack ELSE Push(k)
    /\ UNCHANGED <<revision, memo, past>>

\* ensure_fresh, the loop: bring the next dependency fresh first.
VerifyCall ==
    /\ In("verify") /\ Call.deps # << >>
    /\ ~Fresh(Head(Call.deps))
    /\ Push(Head(Call.deps))
    /\ UNCHANGED <<revision, memo, past>>

\* A fault: compare with the revision the entry's own value changed at.
ChangedSinceComputed(dep) == memo[dep].computed_at > memo[Call.key].computed_at

\* The dependency changed after the entry's last verification.
Changed(dep) == memo[dep].computed_at > Call.since

\* ... it did not change since: the next one.
VerifySame ==
    /\ In("verify") /\ Call.deps # << >>
    /\ Fresh(Head(Call.deps)) /\ ~Changed(Head(Call.deps))
    /\ Replace([Call EXCEPT !.deps = Tail(Call.deps)])
    /\ UNCHANGED <<revision, memo, past>>

\* ... it changed: evaluate.
VerifyDirty ==
    /\ In("verify") /\ Call.deps # << >>
    /\ Fresh(Head(Call.deps)) /\ Changed(Head(Call.deps))
    /\ Replace(Evaluation(Call.key))
    /\ UNCHANGED <<revision, memo, past>>

\* No dependency changed: the entry is fresh as it is.
VerifyClean ==
    /\ In("verify") /\ Call.deps = << >>
    /\ memo' = [memo EXCEPT ![Call.key].verified_at = revision]
    /\ stack' = Tail(stack)
    /\ UNCHANGED <<revision, past>>

Question == Ask(Call.key, Call.answers, Registered)

\* run_eval: the evaluator demands a key that is not fresh.
EvalCall ==
    /\ In("eval") /\ Question # Done /\ ~Fresh(Question)
    /\ Push(Question)
    /\ UNCHANGED <<revision, memo, past>>

\* ... and is answered with its value.
EvalRead ==
    /\ In("eval") /\ Question # Done /\ Fresh(Question)
    /\ Replace([Call EXCEPT !.deps = Append(@, Question),
                            !.answers = Append(@, memo[Question].value)])
    /\ UNCHANGED <<revision, memo, past>>

\* A fault: the entry also keeps the diagnostics of its dependencies.
NewEntryCopying ==
    LET value == ValueOf(Call.key, Call.deps, Call.answers)
    IN  [value       |-> value,
         deps        |-> Call.deps,
         diags       |-> Emits(Call.key, Call.answers, Registered) \cup Collected(Call.deps),
         table       |-> Registered,
         computed_at |-> ChangedAt(Call.key, value),
         verified_at |-> revision]

\* A fault: the entry keeps the dependencies of its first evaluation.
NewEntryFirstDeps ==
    LET value == ValueOf(Call.key, Call.deps, Call.answers)
    IN  [value       |-> value,
         deps        |-> IF memo[Call.key] = None THEN Call.deps ELSE memo[Call.key].deps,
         diags       |-> Emits(Call.key, Call.answers, Registered),
         table       |-> Registered,
         computed_at |-> ChangedAt(Call.key, value),
         verified_at |-> revision]

\* The result of an evaluation and its dependencies become the entry.
NewEntry ==
    LET value == ValueOf(Call.key, Call.deps, Call.answers)
    IN  [value       |-> value,
         deps        |-> Call.deps,
         diags       |-> Emits(Call.key, Call.answers, Registered),
         table       |-> Registered,
         computed_at |-> ChangedAt(Call.key, value),
         verified_at |-> revision]

Install ==
    /\ In("eval") /\ Question = Done
    /\ memo' = [memo EXCEPT ![Call.key] = NewEntry]
    /\ stack' = Tail(stack)
    /\ UNCHANGED <<revision, past>>

Edits ==
    {e \in UNION {[F -> UNION {Texts[k] : k \in F}] : F \in SUBSET Registered \ {{}}} :
        \A k \in DOMAIN e : e[k] \in Texts[k]}

Engine == VerifyCall \/ VerifySame \/ VerifyDirty \/ VerifyClean
          \/ EvalCall \/ EvalRead \/ Install

Next ==
    \/ \E k \in Input : \E text \in Opened[k] : AddSource(k, text)
    \/ \E edit \in Edits : SetSources(edit)
    \/ \E k \in Top : Demand(k)
    \/ Engine

Spec == Init /\ [][Next]_vars

-----------------------------------------------------------------------------
(* Properties *)

\* Entries, revisions and calls are well formed, and no key waits for itself.
TypeOK ==
    /\ revision \in 0 .. MaxRevision /\ Len(past) = revision
    /\ \A k \in Key : memo[k] # None =>
          /\ memo[k].computed_at \in 1 .. memo[k].verified_at
          /\ memo[k].verified_at \in 1 .. revision
          /\ \A i \in DOMAIN memo[k].deps : memo[memo[k].deps[i]] # None
    /\ \A i \in DOMAIN stack : stack[i].mode \in {"verify", "eval"}
    /\ \A i, j \in DOMAIN stack : stack[i].key = stack[j].key => i = j

\* What a value says itself, without the diagnostics a collector gathers.
Says(k, value) == IF k \in Collectors THEN value.own ELSE value

\* The present values of what an entry depends on.
Given(k) == [i \in DOMAIN memo[k].deps |-> memo[memo[k].deps[i]].value]

\* The dependencies of k are fresh, and its evaluator, answered with their
\* present values, asks for them again in that order, and returns and emits
\* what the entry holds.
Replays(k) ==
    /\ \A i \in DOMAIN memo[k].deps :
          /\ Fresh(memo[k].deps[i])
          /\ Ask(k, SubSeq(Given(k), 1, i - 1), Registered) = memo[k].deps[i]
    /\ Ask(k, Given(k), Registered) = Done
    /\ Says(k, memo[k].value) = Result(k, Given(k), Registered)
    /\ memo[k].diags = Emits(k, Given(k), Registered)

\* Evaluated or only verified, an entry that is fresh is what its evaluator
\* makes of its dependencies now, in the middle of a demand too
\* (db.rs 473-475: verify each dependency, re-evaluate only when one changed).
FreshReplays == \A k \in Key \ Input : Fresh(k) => Replays(k)

\* Incremental recomputation never produces another artifact than a clean build
\* (lib.rs 443-445): every entry that is fresh has the clean build's value,
\* in the middle of a demand too.
Sound == \A k \in Key \ Input : Fresh(k) => memo[k].value = CleanBuild[Sources][k].value

\* Diagnostics are current too: early cutoff of a value does not keep the
\* errors of an earlier text (Entry.diags, collect_diags).
DiagnosticsCurrent ==
    \A k \in Key \ Input : Fresh(k) => Collected(<<k>>) = CleanBuild[Sources][k].below

\* A key has another value in a clean build of revision r than in one of the
\* revision before.
Differs(k, r) == CleanBuild[past[r]][k].value # CleanBuild[past[r - 1]][k].value

\* An entry is evaluated again only when one of its dependencies had another
\* value in some revision since it was last found fresh (db.rs 8-13: what did
\* not drift is not re-evaluated).
EvaluatedForAReason ==
    \A i \in DOMAIN stack :
        LET k == stack[i].key
        IN  stack[i].mode = "eval" /\ memo[k] # None =>
              \E j \in DOMAIN memo[k].deps, r \in memo[k].verified_at + 1 .. revision :
                  Differs(memo[k].deps[j], r)

-----------------------------------------------------------------------------
(* What the last three properties ask of the evaluators *)

\* The keys that k asks in the build of w have the values they have in that of v.
AsksTheSame(k, w, v) ==
    \A i \in DOMAIN CleanBuild[w][k].asks :
        LET d == CleanBuild[w][k].asks[i]
        IN  CleanBuild[w][d].value = CleanBuild[v][d].value

\* A collector asks for enough: the diagnostics below it are determined by the
\* values it asks for, so early cutoff cannot hide a change of diagnostics only
\* (eval.rs 355-359, which is why `diagnostics` demands Parse of every file).
CollectorsObserve ==
    \A w, v \in Workspaces : DOMAIN w = DOMAIN v =>
        \A c \in Collectors \cap DOMAIN CleanBuild[w] :
            AsksTheSame(c, w, v) => CleanBuild[w][c].value = CleanBuild[v][c].value

\* What is not compared counts as changed whenever something it asked changed.
UncomparedDiffer ==
    \A w, v \in Workspaces : DOMAIN w = DOMAIN v =>
        \A k \in DOMAIN CleanBuild[w] \ (Input \cup Compared) :
            CleanBuild[w][k].value = CleanBuild[v][k].value => AsksTheSame(k, w, v)
=============================================================================
