-------------------------- MODULE OwnershipOracle --------------------------
(***************************************************************************)
(* Contract inference of ontixa-memory (analyze.rs, phase A) across the    *)
(* edits of a session: infer_ownership runs hypothesis-verified rounds of  *)
(* a reverse-dependency worklist and keeps, in OwnershipOracle, the        *)
(* contracts of the last run and the facts it collected per body.          *)
(*                                                                         *)
(* A module is a sequence `order` of function definitions (a DefId is a    *)
(* position, so adding or removing a definition renumbers the later ones)  *)
(* and the `code` of each.  Every function has one parameter of a type     *)
(* that is not Copy.  A body is what the taint walk tells apart: the facts *)
(* it sets directly, and the calls it passes the parameter to, with        *)
(* whether the call's value reaches the return value.                      *)
(***************************************************************************)
EXTENDS Naturals, Sequences, FiniteSets

CONSTANTS
    Fns,        \* names of functions (DefKey without root and file)
    Bodies,     \* the bodies an edit may give to a function
    MaxEdits    \* bound on the number of edits

Flags     == {"read", "mutated", "moved", "escaped"}       \* ParamFacts
Contracts == {"borrow", "borrow_mut", "move", "escape"}    \* ParamBehavior

ASSUME BodiesAssumption ==
    /\ Bodies \subseteq [direct : SUBSET Flags,
                         passes : SUBSET [callee : Fns, returned : BOOLEAN]]
    /\ MaxEdits \in Nat

None == [none |-> TRUE]        \* no FactsEntry

VARIABLES
    order,      \* ModuleScope.defs: the definitions, by DefId
    code,       \* the body of each of them
    revision,   \* Db::revision
    seen,       \* per function, the resolved body last evaluated and its stamp
    prev,       \* OwnershipOracle.prev_contracts of the root
    facts,      \* OwnershipOracle.facts: FactsEntry per function
    pc,         \* "idle", or "work" inside infer_ownership
    hypothesis, \* the contracts the view reads first
    contracts,  \* the in-flight contracts of the round
    work,       \* the worklist
    ranAt       \* the revision of the last completed run, 0 for none

program == <<order, code, revision>>
vars == <<order, code, revision, seen, prev, facts, pc, hypothesis, contracts,
          work, ranAt>>

-----------------------------------------------------------------------------
(* Bodies and contracts *)

Present == {order[i] : i \in DOMAIN order}
DefId(f) == CHOOSE i \in DOMAIN order : order[i] = f

\* hir_body: calls are resolved to DefIds; a call that does not resolve is
\* lowered to Poison, which the walk does not enter.
Resolved(f) ==
    [direct |-> code[f].direct,
     passes |-> {[callee |-> DefId(p.callee), returned |-> p.returned] :
                 p \in {q \in code[f].passes : q.callee \in Present}}]

Callees(body) == {p.callee : p \in body.passes}

\* The flags of a parameter passed under contract c; "none" stands for a
\* callee without a contract, whose arguments are taken as moved.
FlagsOf(c, returned) ==
    CASE c = "borrow"     -> {"read"}
      [] c = "borrow_mut" -> {"read", "mutated"}
      [] c = "escape"     -> IF returned THEN {"moved", "escaped"} ELSE {"moved"}
      [] OTHER            -> {"moved"}

\* collect_facts: the walk over one body under the contracts `view`.
Collect(body, view) ==
    body.direct \cup UNION {FlagsOf(view[p.callee], p.returned) : p \in body.passes}

\* An unused parameter is consumed: the last branch.
Classify(fs) ==
    CASE "escaped" \in fs -> "escape"
      [] "escaped" \notin fs /\ "moved" \in fs -> "move"
      [] "escaped" \notin fs /\ "moved" \notin fs /\ "mutated" \in fs -> "borrow_mut"
      [] fs = {"read"} -> "borrow"
      [] OTHER -> "move"

Weaker(c, d) ==
    LET rank == [borrow |-> 1, borrow_mut |-> 2, move |-> 3, escape |-> 4]
    IN  rank[c] <= rank[d]

-----------------------------------------------------------------------------
(* The run *)

\* A fault: contracts start at "move", what an unused parameter gets.
SeedMove == [i \in DOMAIN order |-> "move"]

\* Every contract starts at the bottom of the lattice.
Seed == [i \in DOMAIN order |-> "borrow"]

AllDefs == [i \in DOMAIN order |-> i]

View(i) ==
    IF i \in DOMAIN hypothesis THEN hypothesis[i]
    ELSE IF i \in DOMAIN contracts THEN contracts[i]
    ELSE "none"

\* The contracts a walk over `body` consumes, recorded with its facts.
Consumed(body) == [c \in Callees(body) |-> View(c)]

Holds(entry, table(_)) ==
    \A c \in DOMAIN entry.consumed : table(c) = entry.consumed[c]

\* A fault: facts are reused without comparing stamps.
MemoHitUnstamped(f) == facts[f] # None /\ Holds(facts[f], View)

\* memo_take
MemoHit(f) ==
    /\ facts[f] # None
    /\ facts[f].stamp = seen[f].at
    /\ Holds(facts[f], View)

Walked(f) ==
    [stamp    |-> seen[f].at,
     facts    |-> Collect(seen[f].body, Consumed(seen[f].body)),
     consumed |-> Consumed(seen[f].body)]

EntryFor(f) == IF MemoHit(f) THEN facts[f] ELSE Walked(f)

Callers(i) == {j \in DOMAIN order : i \in Callees(seen[order[j]].body)}

InSeq(s) == {s[k] : k \in DOMAIN s}

\* A fault: a changed contract does not queue its callers again.
RequeuedNone(i, next) == {}

\* The callers to queue when the contract of i becomes `next`.
Requeued(i, next) ==
    {j \in Callers(i) : contracts[i] # next /\ j \notin InSeq(Tail(work))}

\* The one sequence of the members of S by DefId, as a set.
Ascending(S) ==
    {s \in [1 .. Cardinality(S) -> S] :
        \A k, l \in DOMAIN s : k < l => s[k] < s[l]}

Final(c) == IF c \in DOMAIN contracts THEN contracts[c] ELSE "none"

\* A fault: only the entries reused from an earlier run are verified.
DriftedReused ==
    {f \in Fns : /\ facts[f] # None /\ f \in Present
                 /\ facts[f].stamp < revision /\ ~Holds(facts[f], Final)}

\* Entries that consumed a contract other than the round's final one, those
\* of definitions that are gone included.
Drifted == {f \in Fns : facts[f] # None /\ ~Holds(facts[f], Final)}

-----------------------------------------------------------------------------
Modules ==
    {s \in UNION {[1 .. n -> Fns] : n \in 0 .. Cardinality(Fns)} :
        \A i, j \in DOMAIN s : s[i] = s[j] => i = j}

Init ==
    /\ order \in Modules
    /\ code \in [Present -> Bodies]
    /\ revision = 1
    /\ seen = [f \in Fns |-> [body |-> [direct |-> {}, passes |-> {}], at |-> 0]]
    /\ prev = << >>
    /\ facts = [f \in Fns |-> None]
    /\ pc = "idle"
    /\ hypothesis = << >>
    /\ contracts = << >>
    /\ work = << >>
    /\ ranAt = 0

oracle == <<seen, prev, facts, pc, hypothesis, contracts, work, ranAt>>

\* set_source with another body for f.
EditBody(f, body) ==
    /\ pc = "idle" /\ revision <= MaxEdits
    /\ f \in Present /\ body # code[f]
    /\ code' = [code EXCEPT ![f] = body]
    /\ revision' = revision + 1
    /\ UNCHANGED <<order, oracle>>

\* set_source that adds a definition of f before position i.
AddFn(f, i, body) ==
    /\ pc = "idle" /\ revision <= MaxEdits
    /\ f \notin Present
    /\ order' = SubSeq(order, 1, i - 1) \o <<f>> \o SubSeq(order, i, Len(order))
    /\ code' = [g \in Present \cup {f} |-> IF g = f THEN body ELSE code[g]]
    /\ revision' = revision + 1
    /\ UNCHANGED oracle

\* set_source that deletes the definition at position i.
RemoveFn(i) ==
    /\ pc = "idle" /\ revision <= MaxEdits
    /\ order' = SubSeq(order, 1, i - 1) \o SubSeq(order, i + 1, Len(order))
    /\ code' = [g \in Present \ {order[i]} |-> code[g]]
    /\ revision' = revision + 1
    /\ UNCHANGED oracle

\* A fault: a body keeps the stamp of the first time it was evaluated.
StampedOnce ==
    [f \in Fns |->
        IF f \in Present
        THEN [body |-> Resolved(f),
              at   |-> IF seen[f].at = 0 THEN revision ELSE seen[f].at]
        ELSE seen[f]]

\* Bodies are demanded first: a stamp moves only when the value does.
Stamped ==
    [f \in Fns |->
        IF f \in Present /\ seen[f].body # Resolved(f)
        THEN [body |-> Resolved(f), at |-> revision]
        ELSE seen[f]]

\* infer_ownership takes the previous contracts out of the oracle.
Infer ==
    /\ pc = "idle" /\ ranAt # revision
    /\ seen' = Stamped
    /\ hypothesis' = prev
    /\ prev' = << >>
    /\ contracts' = Seed
    /\ work' = AllDefs
    /\ pc' = "work"
    /\ UNCHANGED <<program, facts, ranAt>>

\* One definition of the worklist: facts from the memo or a walk, the new
\* contract, and its callers when the contract changed.
Visit ==
    /\ pc = "work" /\ work # << >>
    /\ LET i     == Head(work)
           entry == EntryFor(order[i])
           next  == Classify(entry.facts)
       IN  /\ facts' = [facts EXCEPT ![order[i]] = entry]
           /\ contracts' = [contracts EXCEPT ![i] = next]
           /\ work' \in {Tail(work) \o queue : queue \in Ascending(Requeued(i, next))}
    /\ UNCHANGED <<program, seen, prev, pc, hypothesis, ranAt>>

\* A fault: the next round keeps the refuted hypothesis.
NextRoundSameHypothesis ==
    /\ pc = "work" /\ work = << >> /\ Drifted # {}
    /\ facts' = [f \in Fns |-> IF f \in Drifted THEN None ELSE facts[f]]
    /\ contracts' = Seed
    /\ work' = AllDefs
    /\ UNCHANGED <<program, seen, prev, pc, hypothesis, ranAt>>

\* Verification found drift: another round under this round's contracts.
NextRound ==
    /\ pc = "work" /\ work = << >> /\ Drifted # {}
    /\ facts' = [f \in Fns |-> IF f \in Drifted THEN None ELSE facts[f]]
    /\ hypothesis' = contracts
    /\ contracts' = Seed
    /\ work' = AllDefs
    /\ UNCHANGED <<program, seen, prev, pc, ranAt>>

\* No drift: keep the contracts, forget the memos of deleted functions.
Finish ==
    /\ pc = "work" /\ work = << >> /\ Drifted = {}
    /\ prev' = contracts
    /\ facts' = [f \in Fns |-> IF f \in Present THEN facts[f] ELSE None]
    /\ ranAt' = revision
    /\ pc' = "idle"
    /\ UNCHANGED <<program, seen, hypothesis, contracts, work>>

Edit ==
    \/ \E f \in Fns, body \in Bodies : EditBody(f, body)
    \/ \E f \in Fns, i \in 1 .. Len(order) + 1, body \in Bodies : AddFn(f, i, body)
    \/ \E i \in DOMAIN order : RemoveFn(i)

Run == Infer \/ Visit \/ NextRound \/ Finish

Next == Edit \/ Run

Spec == Init /\ [][Next]_vars

\* infer_ownership is one call: once begun it keeps running.  Edits and the
\* demand for contracts come from outside and need not happen.
FairSpec == Spec /\ WF_vars(Visit \/ NextRound \/ Finish)

-----------------------------------------------------------------------------
(* Properties *)

\* Shape of the state; the hypothesis may come from a module with more
\* definitions than the present one.
TypeOK ==
    /\ order \in Seq(Fns)
    /\ \A i, j \in DOMAIN order : order[i] = order[j] => i = j
    /\ code \in [Present -> Bodies]
    /\ revision \in 1 .. MaxEdits + 1
    /\ ranAt \in 0 .. revision
    /\ pc \in {"idle", "work"}
    /\ \A f \in Fns : seen[f].at \in 0 .. revision
    /\ \A f \in Fns : facts[f] # None => facts[f].stamp \in 0 .. seen[f].at
    /\ \A i \in DOMAIN contracts : contracts[i] \in Contracts
    /\ pc = "work" => DOMAIN contracts = DOMAIN order /\ InSeq(work) \subseteq DOMAIN order

\* A completed run has answered for the program as it stands.
Settled == pc = "idle" /\ ranAt = revision

Body(i) == Resolved(order[i])

\* The tables of contracts that classify what a walk over the present bodies
\* collects under themselves.
Fixpoints ==
    {v \in [DOMAIN order -> Contracts] :
        \A i \in DOMAIN order : v[i] = Classify(Collect(Body(i), v))}

\* The contracts the code promises: the least fixpoint, none of whose contracts
\* is stronger than that of another one.
Least ==
    CHOOSE v \in Fixpoints :
        \A w \in Fixpoints, i \in DOMAIN order : Weaker(v[i], w[i])

\* No definition reaches itself through calls.
NotRecursive ==
    \E rank \in [DOMAIN order -> DOMAIN order] :
        \A i \in DOMAIN order : \A c \in Callees(Body(i)) : rank[c] < rank[i]

\* Whatever was reused, edited, renumbered or deleted before, the contracts of
\* a completed run classify what a walk over the present bodies collects under
\* those contracts (infer_ownership, "the result is the true fixpoint").
FixpointReached ==
    Settled => \A i \in DOMAIN order : prev[i] = Classify(Collect(Body(i), prev))

\* No edit history makes a contract weaker than that of a clean build: a
\* function that consumes its argument is never reported as borrowing it.
NeverWeaker ==
    Settled => \A i \in DOMAIN order : Weaker(Least[i], prev[i])

\* Without recursion the incremental contracts are those of a clean build.
ExactWithoutRecursion ==
    Settled /\ NotRecursive => prev = Least

\* A run that starts with no previous contracts finds the least fixpoint, with
\* recursion too.
CleanBuildExact ==
    Settled /\ hypothesis = << >> => prev = Least

\* ... and its first round is confirmed: the callers that consumed an earlier
\* value of a contract were queued again.
CleanBuildOneRound ==
    [][~(NextRound /\ hypothesis = << >>)]_vars

\* Within a round contracts only ascend, reused facts included.
ContractsAscend ==
    [][Visit => \A i \in DOMAIN order : Weaker(contracts[i], contracts'[i])]_vars

\* Without recursion a run ends, whatever the previous contracts were.
EndsWithoutRecursion ==
    (pc = "work" /\ NotRecursive) ~> (pc = "idle")

\* analyze.rs 153-156: "Contracts only ascend, so the rounds terminate".
RoundsTerminate == (pc = "work") ~> (pc = "idle")

=============================================================================
