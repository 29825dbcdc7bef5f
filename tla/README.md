# Verification of Ontixa

TLA+ models of Ontixa: the journalled file persistence, the incremental query engine,
contract inference with its memo, the language itself from a source text to the value of
`main`, the formatter, renames and patches, and the daemon's sessions — with TLC
configurations that check them on small instances and TLAPS proofs for every value of
the constants. The Rust code is the reference; every definition of the models is listed
in `PROJECT.json` with the lines it models.

## 1. The system

Ontixa is a compiler pipeline (text → CST → AST → HIR → types → ownership → MIR,
graph) inside a memoizing database, used by a command line tool that rewrites
source files and by a daemon that keeps sessions for editors and agents.

| component (crate) | state it keeps | operations | interacts with | what is hard | what makes it correct |
|---|---|---|---|---|---|
| journalled persistence (`ontixa-cli/persist.rs`) | source files, staged files, backups, journal on disk | `persist_tx`: prepare, journal, stage, commit, roll back, finalize; `recover` | called by `rename`, `patch`, `fmt --write`; editors write the same files | process death between any two calls, failing calls, several processes, editors | all or nothing, no bytes lost, answers tell the truth, recovery ends |
| query engine (`ontixa-db` `db.rs`, `query.rs`, `eval.rs`) | memo table (value, dependencies, diagnostics, two revisions), revision, file slots, workspace roots | `add_source`, `set_source(s)`, `demand`, verification, evaluation, diagnostics collection | calls every stage; called by the CLI and the daemon | stale values after early cutoff, dependencies that change, reads that are not recorded | incremental result = clean build, in every revision and in the middle of a demand |
| ownership inference (`ontixa-memory/analyze.rs`) | `OwnershipOracle`: previous contracts, facts per body | rounds of a worklist under a hypothesis, memo, verification; then the enforcement walk | a query of the engine; stamps come from the memo table | stale facts, renumbered definitions, recursion, termination | contracts are a fixpoint, never too weak; the rounds end |
| rename and patch (`ontixa-db` `rename.rs`, `patch.rs`) | a plan: edits, revision, fingerprint of the sources | plan (resolve sites, shadow compile), apply (guards, one batch) | reads and writes the `Db` | a plan applied to other sources than it was made from | a plan applies only to the sources it was computed from, whole or not at all |
| daemon (`ontixad.rs`) | session: `Db`, path → slot, display names, `poisoned` | one request per line: open, set, check, explain, rename, patch, fmt, stats, close, diff | owns a `Db`; reads sibling files from disk | a panic in the middle of a request, close and reopen, files that appear later | nothing is served from a poisoned session; a guard refuses stale plans |
| CLI, explain, semantic diff (`main.rs`, `explain.rs`, `diff/`) | none across calls | load a workspace, compile, print; `--write` goes through persistence | `Db`, persistence | – | output only |
| source, spans, interning (`ontixa-source`) | line starts, interner table | positions, edits, interning | all | offsets at the end of a file | positions round-trip |
| lexer, parser, formatter (`ontixa-syntax`) | token cursor | `parse_file`, `format_file` | text → CST | recovery after errors | lossless; formatting keeps the program |
| canonical AST (`ontixa-ast`) | – | lowering, `rebase_item` | CST → AST | spans relative to the item | a shifted item lowers to the same value |
| HIR, resolution (`ontixa-hir`) | scope, per-file environments | `resolve_workspace`, `lower_body` | AST → HIR | imports, duplicates, module cycles | every name resolves as the environments say |
| types (`ontixa-types`) | type tables per body | `check_body` | HIR → types | literals that adopt an expected type, poison | every expression has a type, no cascades |
| MIR and interpreter (`ontixa-mir`, `ontixa-interpreter`) | blocks; value cells | `lower_fn`; `run` | contracts decide sharing of cells | shared storage of borrowed arguments | execution does what the contracts say |
| diagnostics, graph (`ontixa-diagnostics`, `ontixa-semantic`) | – | rendering, projection to JSON | all | – | – |

How they meet: a daemon request or a CLI command fills a `Db`; a `compile` or a `check`
demands the stages of a root, each stage a query over the one before; a rename or a
patch compiles the present sources, edits copies of them and compiles the copies in a
second `Db`; the CLI hands the accepted texts to persistence, the daemon keeps them in
its session and returns them to the client.

`PROJECT.json` lists the hazards of this code at the lines where they bite and the
properties that cover each of them, or the reason none does yet.

## 2. The modules

### PersistTx, AtomicUpdate, MCPersistTx, and the proofs PersistTxProofs, PersistTxAtomic, PersistTxRefines, PersistTxEdits

`PersistTx` models `persist_tx_hooks`, `write_journal`, `pending_journals`,
`recover` and `recover_one`, one file-system call per action. State:

* `dest`, `stage`, `bak`: what each live, staged and backup file holds — the old
  bytes (`"orig"`), a transaction's new bytes (the transaction), an editor's
  (`"foreign"`), a write that did not finish (`"partial"`) or no file (`"missing"`);
* `journal`: none, the phase the journal file states, or torn (truncated by
  `File::create`, not written yet);
* per transaction: program counter, the files the current loop has still to visit,
  the swapped ones, the errors of the rollback, the value returned;
* for `recover`: program counter, the journal it works on, its loop sets, its answer.

Every call may fail while the budget `MaxFaults` lasts (`Call`), a failed write
may leave partial bytes, a process may die between any two calls (`Crash`,
`RecoverCrash`, budget `MaxCrashes`), and an editor may save a file (`Edit`, budget
`MaxEdits`; all saves are one value). Without `RacingEdits` an editor keeps out of the window
that persist.rs 27-31 names and of nothing else (`Unguarded`): it does not save a file that a running `persist_tx`
has checked and may still swap (`MaySwap`), or that a running recovery has classified as
pending and may still swap (`MayRecover`). It may save a file that has been swapped, while the others are
swapped and the backups removed, and any file while a transaction is rolled back. `Overlap` chooses between processes that take turns and
processes that run at the same time. Loops over `journal.files` visit files in
order (`IsNext`). Preparation of paths (canonicalize, symlink and root checks) is a
prepare step that may fail, and `common_ancestor` the constant `Root`.

`AtomicUpdate` is the specification a user of `--write` has in mind: a
transaction begins, then either all its files change in one step or none does.
`ImplementsAtomicUpdate` maps `PersistTx` to it: a reader who respects
journals sees, for the files of an unresolved transaction, the bytes it started from.

The proofs are in four modules, each over the one before: typing and whole live files
(`PersistTxProofs`), processes that take turns and the shape of the disk at each point of the
protocol (`PersistTxAtomic`), the refinement (`PersistTxRefines`), and editors that save files
meanwhile (`PersistTxEdits`).

### OwnershipOracle, MCOwnershipOracle, OwnershipOracleProofs

`OwnershipOracle` models phase A of analyze.rs over a session. The program is
`order` (the definitions; a `DefId` is a position) and `code`; edits change a
body, add a definition anywhere or delete one, and the latter two renumber the later
definitions. `Infer` takes the previous contracts as the hypothesis, `Visit` is
one iteration of the worklist loop (`memo_take`, else `collect_facts` and the insert;
`classify`; enqueueing the callers), `NextRound` and `Finish` are the two ends of
the loop of `infer_ownership`.

What is abstracted: a function has one parameter, of a type that is not `Copy`; a
body is the set of flags it sets itself and the calls it passes the parameter
to; the two stamps of a body (`HirBody`, `BodyTypes`) are one; summaries and
evidence, which no contract depends on, are left out; one workspace root. The
enforcement walk (phase B), and the facts and contracts of whole bodies, are `Ownership`.

What a clean build would report, `Least`, is defined as the least fixpoint of the
contracts of the present bodies, not as the result of an iteration: that there is one for
every module is part of the proofs, and on the small instances TLC finds it.

### QueryEngine, Pipeline, MCQueryEngine, and the proofs QueryEngineProofs, QueryEngineBuilds

`QueryEngine` models db.rs for any evaluator: the recursion of `ensure_fresh` and
`run_eval` is an explicit stack, so an invariant is checked in the middle of a
demand too. `VerifyCall`, `VerifySame`, `VerifyDirty`, `VerifyClean` are the loop of
`ensure_fresh`; `EvalCall`, `EvalRead` a `demand` of an evaluator; `Install` the end of
`run_eval` with early cutoff. `AddSource` and `SetSources` are the input changes; they
happen only between demands (`&mut Db`). An evaluator is a constant: what
it asks next, given the answers so far (`Ask`), and what it returns and emits
(`Result`, `Emits`). `past` is the history of the texts; no action reads it.

`CleanBuild` is what the properties compare with: for each choice of texts, what a build from them
alone asks, returns and emits for each query. It is a constant with an assumption
(`IsCleanBuild`): every query of the build asked what its evaluator asks, was told what the build
makes of that, and returned what its evaluator returns.

`Pipeline` gives the evaluators of eval.rs for a workspace of a root `m` with
function `f` and an importable file `n` with function `g`, called by `f`: which
queries each evaluator demands and in which order, and which part of its answers
its value depends on. A text is what the stages tell apart: the import, the
signature, the body, the offset of the item, a syntax error. Demands an
evaluator repeats are left out (they read an entry that is fresh by then).
`MCQueryEngine` computes the clean build of every combination of texts and gives it as
`CleanBuild`; TLC evaluates the assumption on it.

`FreshReplays` says what the engine owes any evaluators: ask the evaluator of a fresh
entry again, answer with the present values of the entry's dependencies, and it asks for
them in that order, returns the entry's value and emits its diagnostics. The proofs ask
of the evaluators that they are `Proper`: a query asks queries of a lower rank only, about
files its own key names (a `DefKey` names the file of the definition and the root of its
workspace), whatever it was told by evaluators that do the same. `PipelineIsProper`, an
assumption TLC evaluates on the run, checks exactly that of `Pipeline`, over
every answer each evaluator may be given. `PipelineObserves` is the other assumption on evaluators
(`CollectorsObserve`, `UncomparedDiffer`; section 4), evaluated on every pair of clean builds.

Left out: `MirBody`, `Graph` and `Compile`, which are values like the others, over the
same inputs; the routing of a file that belongs to several roots (`roots`); ownership is
a pure function here, its memo is `OwnershipOracle`; queries are not recursive, and the
code has no cycle detection either.

### Lexer, Parser, Fmt, Syntax, MCSyntax

`Lexer` (lexer.rs, kinds.rs), `Parser` (parser.rs, one operator per production, with the
recovery) and `Fmt` (fmt.rs) work on texts character by character, because what they
promise is about characters. `Syntax` is `format_file` run twice as a state machine: one
token, one item or one printed token per step. A character stands for its bytes; the
wording of diagnostics is left out.

### Ast, Resolve, Hir, Types, Ownership, Mir, Interp, Compiler, MCPrograms

One module per stage, each a set of operators from the value of the stage before:
`Ast` (ast/lower.rs), `Resolve` (hir/resolve.rs), `Hir` (hir/lower.rs), `Types`
(types/check.rs, ty.rs), `Ownership` (memory/analyze.rs: facts, `classify`, and the
`Enforcer` with moves, initialization and loans), `Mir` (mir/lower.rs), `Interp`
(interpreter/interp.rs, value.rs: cells, frames, the contract oracle). `Compiler` is the
state machine that runs them in the order a compile demands them and then steps the
interpreter: `at` is the file or the function being worked on.

`Meaning` is the abstract specification of the back half: an evaluator of checked HIR on
plain trees, with no blocks, cells or operands. What MIR and the interpreter compute must
be what it computes. It has no lines of the code.

Left out: spans beyond the token a name stands on (so `rebase.rs`), 64-bit integers and
the values of floats, the JSON forms, labels and notes of diagnostics (codes are kept).

### Rename, Patch, Refactor, MCRefactor

`Rename` is rename.rs: targets, the scan for sites (`ScanFile`), conflicts, the
splice, the comparison of bindings before and after. `Patch` is patch.rs: the twelve
operations, each as the edits it makes, their overlap check and their order in
the splice. `Refactor` EXTENDS `Compiler`: the texts are compiled, a plan is made, the
candidate is compiled (the same steps, as `shadow_db` does with a second database), the
verdict is given and an accepted plan applied to the bytes it expects.

### Session, MCSession, SessionProofs

`Session` is ontixad.rs with `workspace.rs` and the parts of `Db` it needs. `session` is
the `Session` struct: the slots (path, text, revision of the last change), the scope each
root was last evaluated to, the bound paths by key, the revision and `poisoned`; `id`
counts its resets. `job` is the request being handled or the answer to it. A request that
touches the session once is one action; `check`, `rename` and `patch` are several:
`Load` (open the root, list the directory), `ReadSibling` and `BindSiblings` (the two
halves of `ensure_workspace`, files being saved in between), then the request proper,
and an apply writes its files one by one (`Write`). `Panic` ends a handler at any of
these points. What an edit does is abstracted to "rewrite this name in every file in
scope that has it, unless it is taken or the scope has an error"; `Rename` and `Patch`
have the real plans. The fingerprints and the database id that `apply_rename` compares
cannot differ there (the plan is made in the same request), so they are not in the model.

### Passes as constants

The heavy passes are constant operators (`Parsing(_)`, `Checking(_, _, _)`, ...) of the
state machines, and every configuration binds them to the operators of the modules
(`Checking <- CheckBody`). Nothing is replaced: a constant has no other definition. TLC
expands the calls of an action's operators when it prepares its statistics, and with
the compiler written out in the actions it runs out of memory before it starts.

## 3. The runs

| run | question | bounds | size |
|---|---|---|---|
| `crash` | all or nothing under failures and deaths; answers and recovery come | 2 transactions over the same 3 files, taking turns, 2 failing calls, 2 deaths | about 456,000 states |
| `edits` | an editor's bytes | 2 transactions, 2 files, 2 saves, 1 failing call or lookup, 2 deaths | about 1,475,000 states |
| `infer` | contracts over a session | 2 functions, 12 bodies each, 2 edits | about 344,000 states |
| `chain` | chains of calls, termination | 3 functions, 6 bodies, 1 edit | about 194,000 states |
| `queries` | incremental = clean | 2 files, 3 texts each, 4 input changes, `check` and the body of `f` demanded | about 346,000 states |
| `syntax` | lossless trees, a formatter that only moves whitespace | about 5,000 texts: all sequences of 2 pieces in 3 contexts, programs with every kind of gap at every place | about 193,000 states |
| `programs` | accepted programs run, and as they mean | about 1,000 workspaces of 2 files | about 225,000 states |
| `refactor` | renames and patches | 5 workspaces of 2 files, about 80 symbol renames, a rename at each offset, about 50 patch operations alone and in pairs | about 173,000 states |
| `session` | one client, one daemon | 2 files, one of them on disk at first, 2 names, 4 requests of any kind, 1 panic anywhere, 2 saves anywhere | about 1,250,000 states |
| `v_loop`, `v_builtin`, `v_rounds` | what a comment or a document says and the code does not do | as small as the case allows | violated, see section 5 |

What each shows:

* `crash`: at every moment each file's old or new bytes are on disk somewhere
  (`NoBytesLost`); each staged file or backup that outlives its transaction stands for a call
  that failed, so deaths alone leave nothing that recovery has not removed by the time the
  journal is gone (`StraysAreFailures`); a transaction
  that is over has replaced all its files or none (`ResolvedAtomically`); the values
  returned and recovery's answers say what happened to the files (`ReturnTruthful`,
  `RecoverTruthful`); the protocol implements `AtomicUpdate`,
  where a transaction begins only when none of its journal directory is pending. Two failures are
  needed for a failing commit step whose restore fails too, two deaths
  for a recovery that dies; three files are the least where one file is swapped,
  one in between and one untouched.
  Of the same run: every started transaction is answered (`EventuallyAnswered`), and
  repeated recovery resolves an intact one once calls stop failing
  (`RecoveryCompletes`). Fairness: the steps of a running process and of
  recovery are weakly fair (a process that runs keeps executing), and recovery is started
  again while a journal is left (a user who is blocked by it runs it). Nothing is
  assumed of editors, deaths or failures.
* `edits`: a backup holds only the bytes the transaction was planned from
  (`BackupIsSnapshot`); an editor's bytes leave a live file only through a transaction
  planned from them or, saved after a transaction had moved the file aside, when that
  transaction fails later and gives the file its backup back (`EditsSurvive`, `GivesBack`; the
  second happens in the run, see section 5); and no reader sees a half-written live file
  (`NoPartialLive`). A death of a transaction and one of the recovery after it, with
  a save in between, need two deaths; two files are the least where one is swapped, and saved
  again, when the other's swap fails.
* `infer`: contracts of a completed run are a fixpoint of the present bodies
  (`FixpointReached`), never weaker than those of a clean build (`NeverWeaker`), equal
  to them when the run had no previous contracts (`CleanBuildExact`), and only rise
  within a round (`ContractsAscend`). Two functions are enough for mutual recursion,
  for a stale memo and for a renumbering; two edits for a contract that was right, got
  stale and is reused.
* `chain`: without recursion the incremental contracts are exactly a clean build's and
  runs end (fairness: `infer_ownership`, once called, keeps running); a clean build is
  confirmed by its first round.
* `queries`: `FreshReplays` — a fresh entry is what its evaluator makes of the present
  values of its dependencies; `Sound` — an entry that is fresh has the clean build's value, also while a
  demand is under way; `DiagnosticsCurrent` — the diagnostics below it are the clean
  build's; `EvaluatedForAReason` — nothing is evaluated again unless a dependency
  had another value since it was last found fresh. Deadlock is checked: a demand never
  gets stuck. Four changes are two registrations and two edit batches, which is the least
  for an early cutoff in one revision to matter in the next. `Opened` limits the
  texts at registration to the plain ones, since every other is reached by an edit.

* `syntax`: the tree covers every token once and in order whatever is wrong with the text,
  and every iteration of the item loop consumes one (`Lossless`); an accepted tree has no
  hole (`AcceptedIsWhole`); formatting keeps the words and comments in order and is accepted
  again (`FormatPreserves`), and changes nothing the second time (`FormatIdempotent`).
  Pieces in pairs are enough for a token that ends one production and starts another.
* `programs`: an accepted program stops only with its value, a division by zero or an index
  out of bounds (`AcceptedNeverTraps`); its value is the one `Meaning` gives
  (`ComputesItsMeaning`); locals hold values of their types (`ValuesHaveTheirTypes`); no
  block without an end is reached (`NoFallThrough`); one unresolved expression in an
  accepted body sets off no other error (`NoCascade`); a type means the same in a body and
  in a signature (`AnnotationsMeanTheSame`). The programs are every pair of 18 statements
  and 3 results around a struct, a nested struct and a variant that are borrowed,
  changed, moved on one path only, returned and matched, and bodies with every kind of
  expression. They leave out the shapes listed in section 5 that are known to break
  one of these properties: a loop body that moves an outer value, a written copy of a
  loop variable, an operand that a later operand of the same expression changes or moves,
  the same place borrowed and aliased by a shallow copy, a place-less `borrow_mut`
  argument, a range variable that is assigned.
* `refactor`: an accepted rename leaves every binding and type what it was
  (`RenameKeepsMeaning`, on a name-free reading of the workspace), a rename to a name
  nobody uses is accepted (`FreshNameAccepted`), and an accepted patch changes
  exactly what its operations say, in any order of operations (`PatchDoesItsOperations`),
  except where an insertion and a replacement start at the same place (section 5). The
  workspaces have every kind of import, alias, variant and field use, equal names in two
  files, comments and blanks where edits happen.
* `session`: an apply that names its preview's revision writes what the preview showed,
  where the path has one slot (`PreviewIsWhatApplies`; section 5 says what happens where it
  has two); answers are computed from the texts the client gave
  (`ClientTextsWin`) and never from a half-written apply (`NothingHalfServed`). Four
  requests are the least for set, preview, something in between, apply; a panic, a
  reset and two requests after it fit too. Two saves and a file that is missing at first
  are the least for a path that is bound twice: created by one save and removed by another.

No fairness is assumed in the runs without a temporal property.

`CHECK_DEADLOCK FALSE` stands in the configurations of systems that really stop:
`PersistTx`, when all transactions are answered, `OwnershipOracle`, when edits run out,
`Syntax`, `Compiler` and `Refactor`, which end with their text, program or request, and
`Session`, when the client has sent its last request.

Each property of a passing run has a mutant in `PROJECT.json`: a definition that
carries a plausible bug (the operators introduced by "A fault:" or "Mutant") and makes
that property fail.

## 4. What is proved

Every theorem holds for all values of the constants: any number of transactions, files,
functions, queries, paths, failing calls, deaths, edits, saves, requests and panics. Beside
the assumptions on the shape of the constants that each module states, some theorems
have a hypothesis, named and justified below. Where a theorem states a property of a run,
the run shows it on a small instance that meets the hypothesis.

### Persistence

For every interleaving, processes that overlap included:

* `PersistTxProofs!Typing` — `[]TypeOK`: besides the types, no loop of the
  protocol or of recovery is entered with nothing to visit. It is proved and not run: what it says
  is about the shape of the model, and the other proofs rest on it.
* `PersistTxProofs!LiveFilesWhole` — `[]NoPartialLive`: no live file ever holds a
  write that did not finish. The invariant says where
  partial bytes may be: only in a staged file whose stage step has not succeeded,
  and never in a state of the protocol, of rollback or of recovery that may
  rename it over a live file.

When processes take turns (`TakeTurns`: one `ontixa` process at a time, one journal directory for
the transactions that write a common file, no editor, and an `exists` that sees what is there):

* `PersistTxAtomic!NothingLost` — `[]NoBytesLost`;
* `PersistTxAtomic!Atomicity` — `ResolvedAtomically`: a transaction is over with all its files
  replaced or none;
* `PersistTxAtomic!ReturnsTruth`, `RecoveryTellsTruth` — what `persist_tx` returns, and what
  `recover` answers, is the state of the files;
* `PersistTxRefines!Refinement` — `ImplementsAtomicUpdate`.

The hypothesis is what the code is designed for: the pending check refuses a transaction
while an earlier one has left a journal in its directory (persist.rs 294), and a user runs one
command at a time. Any number of directories may have journals left, of any mixture of deaths
and failures, as long as transactions with a common file look in the same one (`SharedRoot`; the directory is
the common ancestor of a plan's files, persist.rs 75-80, so separate projects meet it and
plans over parts of one project need not). Without each of its parts the properties are false, and section 5 has the
behaviour: two processes that both pass the check, a journal about the same file in another directory, an
`exists` that fails during rollback. Editors have theorems of their own below.

The inductive invariant has five parts. `TypeInv` and `WholeInv` are those of the two theorems
above. `ExclInv`: one process runs, per directory at most one transaction is past its pending check or has
left a journal, and a journal exists from the staging loop until the end; it is what makes
the rest true: two unresolved transactions have no file in common, and a step moves only files of
its own plan (`TxStepFiles`, `RecoverStepFiles`), so what another has left stays as it is (`LeftAlone`). `ContentInv`: a
transaction's bytes are nowhere before it starts and nobody else's are in its staged files.
`ShapeInv`: for each control point of `persist_tx`, of rollback and of `recover_one`, what
the live file and the backup of each file of the plan hold: as it was, replaced
with the old bytes in the backup, or moved aside between two renames, and the last only for
the file the loop is at. A process that dies in any of these shapes leaves the files
either restorable (`Kept`: the old bytes are live or in the backup) or all replaced, which is
all recovery needs, and its own shapes lead from there to one of the two ends.

The refinement maps the transactions past the journal's first write and not resolved
(`Opened`) to the pending ones, and what a reader who respects journals sees to the abstract
files. The initial states agree; a step that makes a transaction live is `Begin`, and nothing else of
its directory is live then; one that ends it is `Commit` when its files are all new and `Abort`
when they are all old, which `Atomicity` provides; of a file of a live transaction the
reader sees that one's snapshot whatever is on disk (`OneOwner`), so every other step is a stutter.

With editors saving files at any time except between the check of a file and its swap (`NoRaces`:
`~Overlap /\ ~RacingEdits`, the window persist.rs 27-31 documents; saves after the swap and
during a rollback are allowed), any journal directories and any failing lookups:

* `PersistTxEdits!BackupsAreSnapshots` — `[]BackupIsSnapshot`: a backup that is put back or
  deleted holds the bytes its plan was made from, never an editor's later ones;
* `PersistTxEdits!SavesSurvive` — `EditsSurvive`: an editor's bytes leave a live file only
  through a transaction that was planned from them, or when the rollback of a commit that had
  moved the file aside gives it the planned bytes back. The second is an overwritten save: the
  theorem says that it is the only one, not that there is none.

`ExclInv` does not hold there (several transactions may have left journals), nor
do the shapes; the invariant `EditInv` keeps what a check has established until the swap that
relies on it: the checked files not yet swapped are as the plan saw them, those
recovery has classified as pending still hold the snapshot, and a rollback restores only files
that were swapped. Of a file already swapped it says nothing but that its backup is the snapshot.

### Contract inference

For any functions, bodies, numberings and histories of edits and runs:

* `OwnershipOracleProofs!ReachesFixpoint` — `[]FixpointReached`. Every memo entry whose stamp is
  the body's has the facts a walk under its recorded contracts collects (stamps are
  never ahead of the revision, and a body that changed has a new stamp), every
  definition that left the worklist has such an entry and the contract it classifies to,
  and `Finish` happens only when all recorded contracts are the final ones.
* `Typing` — `[]TypeOK`: distinct definitions, stamps never ahead, a contract for each definition
  of a running round. Being proved, it takes no room in a run.
* `NoWeakerContract` — `[]NeverWeaker`: no completed run reports a contract weaker than the least
  fixpoint, with recursion too. One step of inference is monotone in the contracts of the callees
  (`ClassifyAscends`: `classify` itself is not monotone in the flags, at no flag at all, but a walk sets
  its own flags under every view), so the meet of all fixpoints is one (`LeastExists`,
  the argument of Knaster and Tarski), and a fixpoint is never below it.
* `NoHistoryWithoutRecursion` — `[]ExactWithoutRecursion`: without recursion the fixpoint is
  unique (`OneFixpoint`: a definition of least height where two fixpoints differ has callees
  where they agree), so what was inferred before leaves no trace.
* `RoundsAscend` — `ContractsAscend`: no visit takes a contract back, because a contract is always
  at most what a walk under the present view would give (`RisingInv`), reused facts included.
* `CleanBuild` — `[]CleanBuildExact`: a run without previous contracts stays below every fixpoint
  (`LowInv`) and ends in one, so it ends in the least, with recursion too.
* `CleanBuildConfirmed` — `CleanBuildOneRound`: its first round is never refuted. A definition is in
  the queue whenever its facts were collected under a contract that has risen since (`FreshInv`).

`v_rounds` and section 5 show what is not so: with recursion the rounds may not end, and an
incremental run may end above the least fixpoint.

### Query engine

For any evaluators that are `Proper` (section 2), in a workspace whose files are
registered before the first demand (`~LateFiles`; section 5 says what happens otherwise), any
edits and demands, and in the middle of a demand too. The theorems about clean builds also
ask `CollectorsObserve`: a collector (`Diagnostics`), whose value holds the diagnostics found below it,
asks for enough (eval.rs 355-359): it returns the same in two builds in which all it asked for has the
same values. The last one asks `UncomparedDiffer`: a value that `same_value` never compares (a parse) is equal in two
builds only when all that was asked for it is.

* `QueryEngineProofs!QueriesTyping` — `[]TypeOK`: no demand waits for a key already in flight.
* `IncrementalIsEvaluation` — `[]FreshReplays`.
* `CleanBuilds` — there is one build of the present texts, and every fresh entry has its
  value and its diagnostics. A build is any solution of the evaluators' equations; a
  fresh entry of least rank that differs from it would have dependencies that agree, and the
  two evaluations would be asked and answered the same (`OneRun`). It asks that no evaluator demands a
  collector; `Compile`, which demands `Diagnostics`, is not a key of the model.
* `EvaluatesWhatDrifted` — as long as an evaluation is under way, there was no entry or a
  dependency changed after the entry was last found fresh.
* `QueryEngineBuilds!IncrementalIsClean` — `[]Sound`: a fresh entry has the clean build's value,
  collectors included.
* `DiagnosticsAreCurrent` — `[]DiagnosticsCurrent`: what is collected below a fresh entry is what the
  clean build emits there.
* `EvaluatedForAChange` — `[]EvaluatedForAReason`: an entry is evaluated again only when a
  dependency had another value in a clean build since the entry was last found fresh.

`FreshReplays` is not inductive: whether a stale entry may be called fresh again depends on what is
known of stale ones. The invariant `MemoInv` says it: an entry of any age whose
dependencies have not changed since it was verified is what its evaluator would make
of their present values. Early cutoff keeps it, because an equal value keeps its stamp and a
value that differs gets the present revision, which is later than the verification of everything that is
not fresh. `StackInv` says what the calls in flight have established: a verification has only the
listed dependencies left to look at, an evaluation was told the fresh values of what it asked
for, and keys rise in rank down the stack.

The three theorems of `QueryEngineBuilds` relate entries of any age to builds. `HistInv`: an
entry is the clean build's of the revision it was verified at (`IsOf`: its value, its
dependencies in order, its diagnostics), and a dependency that has not changed since has the value it
had then (`Keeps`). A verification that ends clean therefore finds the two builds asking the same and
being told the same, so the entry is the present build's too; an installed entry is, because
its dependencies are fresh. The diagnostics below an entry are a finite union along the dependencies the
build has as well. `DriftInv`: a dependency stamped after an entry's verification
had, between the two, another value in some build (`DiffersIn`), since an equal value keeps its stamp
unless it is one that is never compared.

### Sessions

For any paths, texts, names, disks, requests, saves and panics:

* `SessionProofs!SessionTyping` — `[]TypeOK`: a bound path leads to a slot of that path, a scope
  reads slots there are, every reset follows a panic.
* `NothingHalf` — `[]NothingHalfServed`: until a request writes, and after the reset, the slots are what the
  last completed request left, and answers are computed only then (`HalfInv`).
* `ClientWins` — `[]ClientTextsWin`: a path that was neither closed nor created or removed has one slot,
  the bound one (`UniqueNow`), and that slot has what the client wrote last, or is about to be
  written (`WrittenNow`).
* `PreviewApplies` — `[]PreviewIsWhatApplies`: while the revision is the preview's, the scope of its path is
  the one it was planned for (`PreviewNow`: what binds a sibling raises the revision, and what
  does not leaves what that scope reads alone).

### Model-checked only

* What needs fairness: `EventuallyAnswered`, `RecoveryCompletes`, `EndsWithoutRecursion`; liveness is
  out of this prover's reach.
* The language: lexer, parser, formatter, the stages from AST to value, rename and
  patch. Their operators are recursive, and induction over data cannot be stated to the prover.

## 5. Where the code and its documents disagree

Shown by a run:

* `v_loop` (analyze.rs 1238): the body of a `for` is enforced once, from the state before
  the loop. `for i in 0..2 { w.n = lib::eat(a); }` is accepted, and its second iteration
  traps on the moved `a`.
* `v_builtin` (rename.rs 775): the comparison of bindings has no type positions, so a `data`
  can be renamed to `i32`, and what named it in signatures is now the built-in type.
* `v_rounds` (analyze.rs 232): two functions that become mutually recursive exchange their
  previous contracts in every round; `infer_ownership` does not return.

Met while modelling, not kept as runs. Of the persistence:

* a death between the two renames of a swap (481-483) leaves the live file missing, and
  `recover` reports a conflict although nobody else wrote it (against 161-163);
* two processes that both pass the pending check (294): the second one's commit moves
  the first one's bytes to a backup that it deletes;
* a failing commit gives each file it had moved aside its backup back without looking at what is there
  now (508-509, 518-519): a save made since the swap, or between the two renames and the rollback, is
  overwritten. That is outside the window of 27-31, between a check and a swap, which is the only one
  the module's documentation excepts from "never a silent overwrite" (8-11). The run
  `edits` contains it, and `EditsSurvive` fails without `GivesBack`;
* `recover` (610) resolves the journal of a running transaction and removes the only
  copies of a file that is between its two renames;
* a death inside `write_journal` after a swap leaves an unreadable journal (194-201,
  against 18-20); recovery moves a live file aside before it reports a conflict (681-686,
  against 605-608); a backup that cannot be removed after a full commit is reported as
  `Phase::Commit` with no rollback errors (553-563, against 102-122); the pending check sees
  only journals in the transaction's own root (75-80, 294, against ADR-0015 62-64); a
  `read_dir` that fails means no journal is pending (205-207); a failing `exists` during
  rollback skips the backup of the file that was being promoted (518).

Of the query engine and inference:

* a recursive function keeps the contract its body had before an edit, because its own
  previous contract justifies it (analyze.rs 369, against ontixa-db lib.rs 443-445);
* the module table is read without a dependency: a file registered after the scope was
  resolved stays unresolved (eval.rs 188); in the daemon, so does a module whose file
  is set or saved after a first `check`.

Of the language:

* the variable of a `for` over an array shares the element's cells: a write through a copy
  of it changes the array (analyze.rs 1239-1240 calls it a fresh copy);
* operands are read when the whole expression is computed, not where they are written:
  `p.x + eat(p)` is accepted and traps, `x + { x = 5; 1 }` uses the new `x`;
* copies of aggregates are shallow, so a value and its copy share cells, and a write to one
  while the other is lent traps on the contract;
* an argument of a `borrow_mut` parameter that is no place gets neither a mutability check nor
  a loan; `for mut i in 0..3 { i = 0; }` does not end; integers are not kept to their width at run
  time; `Enforcer` and `Checker` disagree on whether a non-exhaustive match can complete;
* an unresolved match subject can add a missing-return error, and an overflowing literal
  one about its poisoned peer (the cases `NoCascade` leaves out);
* after the block of an `if` or a `for` that stands as a statement, `(`, `[` or `-` on
  the next line continues the expression (parser.rs 486 says no semicolon is needed).

Of rename and patch:

* an insertion by a later operation at the place where an earlier one's replacement starts
  is overwritten (patch.rs 456-460; 1575-1578 call this fine);
* `add_use` inserts after the next line end of the last `use`, wherever that is; comments
  inside a type that is set are dropped; a `replace_body` text `{ } fn q() { }` adds an item.

Of the daemon:

* `close` leaves the slot in the database: a path opened again gets a second slot, and
  scopes keep reading the first;
* `path_key` (workspace.rs 61-68) is the path as given while the file does not exist and the canonical one
  afterwards: a path that a client has set under another spelling is bound again from the
  disk once its file is saved (against ontixad.rs 95-97);
* the revision does not say which slot a path resolves to: of a path set before its file
  exists, previewed while it exists and applied after it was removed, the other
  slot is renamed under the same revision (workspace.rs 61, the guard of ontixad.rs 251; against
  ADR-0014 81, plan, inspect, apply if still valid);
* revisions start again after a reset, so an apply can name a revision shown before it
  (docs/agent-interface.md 115-116); `PreviewIsWhatApplies` is about one session.

The front half and the interpreter were also compared with the repository's own tests:
about 300 programs of them give the codes or the values the tests expect in the models
(programs with numbers beyond 32 bits left out).

## 6. Not modelled

* Canonical AST: `rebase.rs`, since values of the models have no absolute offsets.
* Query engine: `MirBody`, `Graph` and `Compile`, which are values like the others; the routing
  of a file that belongs to several roots.
* Source files, spans and interning; rendering of diagnostics; the graph: projections and
  output without steps. `main.rs` outside `run` and the loading of a workspace, `explain`
  and the semantic diff: arguments and output.
* The CLI's use of a plan together with persistence: each half has its module, and the
  texts a plan hands over are the ones `PersistTx` calls a transaction's new bytes.

## 7. Plan

1. Done: persistence, contract inference, the query engine, the language from text to
   value, formatting, renames and patches, sessions; theorems for persistence, inference, the query
   engine and sessions as in section 4.
2. Proofs left: what remains true of an editor's bytes when it may also save between a check
   and its swap (`RacingEdits`).
3. A second root for the routing of files; line index and item-relative spans as pure
   operators against reference definitions.
