------------------------- MODULE QueryEngineProofs -------------------------
(***************************************************************************)
(* Proofs about QueryEngine, for any evaluators that ask each other        *)
(* without a cycle and keep to the files their key names (Proper), when    *)
(* files are registered before the first demand.  MCQueryEngine checks     *)
(* that the evaluators of Pipeline are such (PipelineIsProper).            *)
(***************************************************************************)
EXTENDS QueryEngine, FiniteSetTheorems, SequenceTheorems, WellFoundedInduction, TLAPS

CONSTANTS
    rank,       \* queries only ask queries of a lower rank
    legal       \* per key and set of registered files, what it may say

-----------------------------------------------------------------------------
(* Evaluators *)

\* deps are the questions k asks when it is given these answers.
Script(k, deps, answers, table) ==
  \A i \in DOMAIN deps : Ask(k, SubSeq(answers, 1, i - 1), table) = deps[i]

\* An evaluator that was given legal answers asks a query of a lower rank about
\* registered files, or says something legal itself.
ProperEvaluator(k, deps, answers, table) ==
  (/\ needs[k] \subseteq table /\ DOMAIN answers = DOMAIN deps /\ Script(k, deps, answers, table)
   /\ \A i \in DOMAIN deps : Says(deps[i], answers[i]) \in legal[<<deps[i], table>>])
  => LET next == Ask(k, answers, table)
     IN  IF next = Done
         THEN Result(k, answers, table) \in legal[<<k, table>>]
         ELSE next \in Key /\ rank[next] < rank[k] /\ needs[next] \subseteq table

Proper ==
  /\ rank \in [Key -> Nat]
  /\ \A k \in Key : Home[k] \in needs[k]
  /\ \A k \in Input \cup Top : needs[k] = {Home[k]}
  /\ \A k \in Input, table \in SUBSET Input : Texts[k] \subseteq legal[<<k, table>>]
  /\ \A k \in Key \ Input, table \in SUBSET Input, deps \in Seq(Key) :
       \A answers : ProperEvaluator(k, deps, answers, table)

-----------------------------------------------------------------------------
(* The inductive invariant *)

EntryFields == {"value", "deps", "diags", "table", "computed_at", "verified_at"}
CallFields  == {"key", "mode", "since", "deps", "answers"}

\* What is known of an entry, however old it is.
EntryOK(k) ==
  /\ DOMAIN memo[k] = EntryFields
  /\ memo[k].deps \in Seq(Key)
  /\ \A i \in DOMAIN memo[k].deps :
       memo[memo[k].deps[i]] # None /\ rank[memo[k].deps[i]] < rank[k]
  /\ memo[k].computed_at \in Nat /\ memo[k].verified_at \in Nat
  /\ 1 <= memo[k].computed_at /\ memo[k].computed_at <= memo[k].verified_at
  /\ memo[k].verified_at <= revision
  /\ k \in Input => memo[k].deps = << >> /\ memo[k].value \in Texts[k]
  /\ k \notin Input =>
       needs[k] \subseteq Registered /\ Says(k, memo[k].value) \in legal[<<k, Registered>>]

\* The evaluator would make this entry again.
Remakes(k) ==
  /\ Script(k, memo[k].deps, Given(k), Registered)
  /\ Ask(k, Given(k), Registered) = Done
  /\ Says(k, memo[k].value) = Result(k, Given(k), Registered)
  /\ memo[k].diags = Emits(k, Given(k), Registered)

\* Nothing the entry depends on has changed since it was verified.
Unchanged(k) ==
  \A i \in DOMAIN memo[k].deps : memo[memo[k].deps[i]].computed_at <= memo[k].verified_at

FreshDeps(k) == \A i \in DOMAIN memo[k].deps : Fresh(memo[k].deps[i])

\* Early cutoff loses nothing: an entry that is stale, but whose dependencies have
\* not changed since it was verified, is still what its evaluator would make.
MemoInv ==
  /\ DOMAIN memo = Key
  /\ \A k \in Key : memo[k] # None => EntryOK(k)
  /\ \A k \in Key : Fresh(k) => FreshDeps(k)
  /\ \A k \in Key \ Input : memo[k] # None /\ Unchanged(k) => Remakes(k)

\* The values of some keys, as answers.
Answered(deps) == [i \in DOMAIN deps |-> memo[deps[i]].value]

\* A dependency that was verified: fresh, and no newer than the verification.
Checked(d, since) == Fresh(d) /\ memo[d].computed_at <= since

\* A loop of ensure_fresh has only to look at the dependencies that are left.
VerifyOK(call) ==
  /\ memo[call.key] # None /\ call.since = memo[call.key].verified_at
  /\ call.deps \in Seq(Key)
  /\ \A i \in DOMAIN call.deps : \E j \in DOMAIN memo[call.key].deps :
       call.deps[i] = memo[call.key].deps[j]
  /\ \A j \in DOMAIN memo[call.key].deps :
       \/ \E i \in DOMAIN call.deps : call.deps[i] = memo[call.key].deps[j]
       \/ Checked(memo[call.key].deps[j], call.since)

\* Some dependency has changed since the entry was verified.
Drifts(k) ==
  \E i \in DOMAIN memo[k].deps : memo[memo[k].deps[i]].computed_at > memo[k].verified_at

\* The frame of an evaluation has the fresh values of what was asked.
EvalOK(call) ==
  /\ call.key \notin Input /\ needs[call.key] \subseteq Registered
  /\ call.deps \in Seq(Key) /\ call.answers = Answered(call.deps)
  /\ \A i \in DOMAIN call.deps : Fresh(call.deps[i]) /\ rank[call.deps[i]] < rank[call.key]
  /\ Script(call.key, call.deps, call.answers, Registered)
  /\ memo[call.key] # None => Drifts(call.key)

CallOK(call) ==
  /\ DOMAIN call = CallFields
  /\ call.key \in Key /\ ~Fresh(call.key)
  /\ \/ call.mode = "verify" /\ VerifyOK(call)
     \/ call.mode = "eval" /\ EvalOK(call)

StackInv ==
  /\ \E S : stack \in Seq(S)
  /\ \A i \in DOMAIN stack : CallOK(stack[i])
  /\ \A i, j \in DOMAIN stack : i < j => rank[stack[i].key] < rank[stack[j].key]

CountInv ==
  /\ revision \in Nat /\ revision <= MaxRevision
  /\ stack # << >> => revision >= 1
  /\ (\E S : past \in Seq(S)) /\ Len(past) = revision

IInv == MemoInv /\ StackInv /\ CountInv

-----------------------------------------------------------------------------
(* Calls *)

\* What does not depend on the calls.
LEMMA SameMemo ==
  ASSUME UNCHANGED <<memo, revision>>
  PROVE  /\ Registered' = Registered
         /\ \A k : Fresh(k)' = Fresh(k)
         /\ MemoInv => MemoInv'
         /\ \A call : CallOK(call) => CallOK(call)'
<1>1. Registered' = Registered /\ \A k : Fresh(k)' <=> Fresh(k)
  BY DEF Registered, Fresh
<1>2. MemoInv => MemoInv'
  BY <1>1 DEF MemoInv, EntryOK, FreshDeps, Unchanged, Remakes, Given
<1>3. ASSUME NEW call, CallOK(call) PROVE CallOK(call)'
  BY <1>1, <1>3 DEF CallOK, VerifyOK, EvalOK, Checked, Drifts, Answered
<1> QED BY <1>1, <1>2, <1>3 DEF Fresh

\* The stack without the newest call, or with another one.
LEMMA PopStack ==
  ASSUME StackInv, stack # << >>
  PROVE  /\ \E S : Tail(stack) \in Seq(S)
         /\ \A i \in DOMAIN Tail(stack) :
              /\ i + 1 \in DOMAIN stack /\ Tail(stack)[i] = stack[i + 1]
              /\ rank[Call.key] < rank[Tail(stack)[i].key]
         /\ \A i, j \in DOMAIN Tail(stack) :
              i < j => rank[Tail(stack)[i].key] < rank[Tail(stack)[j].key]
         /\ CallOK(Call)
<1>1. PICK S : stack \in Seq(S)
  BY DEF StackInv
<1>2. /\ Tail(stack) \in Seq(S)
      /\ \A i \in DOMAIN Tail(stack) : i \in Nat /\ i + 1 \in DOMAIN stack
                                       /\ Tail(stack)[i] = stack[i + 1] /\ 1 < i + 1
      /\ 1 \in DOMAIN stack /\ Call = stack[1]
  BY <1>1 DEF Call
<1>3. \A i \in DOMAIN Tail(stack) : rank[Call.key] < rank[Tail(stack)[i].key]
  BY <1>2 DEF StackInv
<1>4. ASSUME NEW i \in DOMAIN Tail(stack), NEW j \in DOMAIN Tail(stack), i < j
      PROVE  rank[Tail(stack)[i].key] < rank[Tail(stack)[j].key]
  <2>1. i + 1 < j + 1
    BY <1>2, <1>4
  <2> QED BY <1>2, <2>1 DEF StackInv
<1> QED BY <1>2, <1>3, <1>4 DEF StackInv

\* A call on top of a stack of higher ranks.
LEMMA PutOnTop ==
  ASSUME NEW call, NEW rest, \E S : rest \in Seq(S), stack' = <<call>> \o rest,
         CallOK(call)', \A i \in DOMAIN rest : CallOK(rest[i])',
         \A i \in DOMAIN rest : rank[call.key] < rank[rest[i].key],
         \A i, j \in DOMAIN rest : i < j => rank[rest[i].key] < rank[rest[j].key]
  PROVE  StackInv'
<1>1. PICK S : rest \in Seq(S)
  OBVIOUS
<1>2. PICK T : T = S \cup {call}
  OBVIOUS
<1>3. rest \in Seq(T) /\ <<call>> \in Seq(T)
  BY <1>1, <1>2
<1>4. PICK top : top = <<call>> \o rest
  OBVIOUS
<1>5. /\ top \in Seq(T) /\ Len(top) = Len(rest) + 1
      /\ \A i \in 1 .. Len(rest) + 1 : top[i] = IF i = 1 THEN call ELSE rest[i - 1]
  <2>1. Len(<<call>>) = 1 /\ <<call>>[1] = call
    OBVIOUS
  <2> QED BY <1>3, <1>4, <2>1, ConcatProperties
<1>6. Len(rest) \in Nat /\ DOMAIN rest = 1 .. Len(rest) /\ DOMAIN top = 1 .. Len(rest) + 1
  BY <1>3, <1>5
<1>7. \A i \in DOMAIN top : top[i] = call \/ \E j \in DOMAIN rest : top[i] = rest[j]
  BY <1>5, <1>6
<1>8. ASSUME NEW i \in DOMAIN top, NEW j \in DOMAIN top, i < j
      PROVE  rank[top[i].key] < rank[top[j].key]
  <2>1. j - 1 \in DOMAIN rest /\ top[j] = rest[j - 1]
    BY <1>5, <1>6, <1>8
  <2>2. CASE i = 1
    BY <1>5, <1>6, <2>1, <2>2
  <2>3. CASE i # 1
    <3>1. i - 1 \in DOMAIN rest /\ top[i] = rest[i - 1] /\ i - 1 < j - 1
      BY <1>5, <1>6, <1>8, <2>3
    <3> QED BY <2>1, <3>1
  <2> QED BY <2>2, <2>3
<1>9. stack' = top
  BY <1>4
<1> QED BY <1>5, <1>7, <1>8, <1>9 DEF StackInv

\* A new call for a key whose file is registered.
LEMMA CallForOK ==
  ASSUME MemoInv, Proper, NEW k \in Key, ~Fresh(k), needs[k] \subseteq Registered
  PROVE  CallOK(CallFor(k))
<1>1. CASE memo[k] = None
  <2>1. k \notin Input
    BY <1>1, KeyAssumption DEF Registered, Proper
  <2>2. PICK call : call = Evaluation(k)
    OBVIOUS
  <2>3. /\ DOMAIN call = CallFields /\ call.key = k /\ call.mode = "eval"
        /\ call.deps = << >> /\ call.answers = << >>
    BY <2>2 DEF Evaluation, CallFields
  <2>4. << >> \in Seq(Key) /\ DOMAIN << >> = {}
    OBVIOUS
  <2>5. call.answers = Answered(call.deps)
    <3>1. Answered(call.deps) = [i \in {} |-> memo[call.deps[i]].value]
      BY <2>3, <2>4 DEF Answered
    <3> QED BY <2>3, <3>1
  <2>6. EvalOK(call)
    BY <1>1, <2>1, <2>3, <2>4, <2>5 DEF EvalOK, Script
  <2>7. CallOK(call)
    BY <2>3, <2>6 DEF CallOK
  <2> QED BY <1>1, <2>2, <2>7 DEF CallFor
<1>2. CASE memo[k] # None
  <2>1. PICK call : call = Verification(k)
    OBVIOUS
  <2>2. /\ DOMAIN call = CallFields /\ call.key = k /\ call.mode = "verify"
        /\ call.deps = memo[k].deps /\ call.since = memo[k].verified_at
    BY <2>1 DEF Verification, CallFields
  <2>3. memo[k].deps \in Seq(Key)
    BY <1>2 DEF MemoInv, EntryOK
  <2>4. VerifyOK(call)
    BY <1>2, <2>2, <2>3 DEF VerifyOK
  <2>5. CallOK(call)
    BY <2>2, <2>4 DEF CallOK
  <2> QED BY <1>2, <2>1, <2>5 DEF CallFor
<1> QED BY <1>1, <1>2

\* A file is registered in some revision.
LEMMA SomeRevision ==
  ASSUME MemoInv, CountInv, NEW k \in Registered
  PROVE  revision >= 1
<1>1. k \in Key /\ memo[k] # None
  BY KeyAssumption DEF Registered
<1>2. /\ memo[k].computed_at \in Nat /\ memo[k].verified_at \in Nat /\ revision \in Nat
      /\ 1 <= memo[k].computed_at /\ memo[k].computed_at <= memo[k].verified_at
      /\ memo[k].verified_at <= revision
  BY <1>1 DEF MemoInv, EntryOK, CountInv
<1> QED BY <1>2

\* Asking for a key below all calls in flight.
LEMMA Calls ==
  ASSUME IInv, Proper, NEW k \in Key, ~Fresh(k), needs[k] \subseteq Registered,
         stack # << >> => rank[k] < rank[Call.key],
         Push(k), UNCHANGED <<revision, memo, past>>
  PROVE  IInv'
<1>1. MemoInv' /\ \A call : CallOK(call) => CallOK(call)'
  BY SameMemo DEF IInv
<1>2. PICK call : call = CallFor(k)
  OBVIOUS
<1>3. CallOK(call) /\ call.key = k
  <2>1. CallOK(call)
    BY <1>2, CallForOK DEF IInv
  <2> QED BY <1>2, <2>1 DEF CallFor, Evaluation, Verification
<1>4. \A i \in DOMAIN stack : rank[call.key] < rank[stack[i].key]
  <2>1. PICK S : stack \in Seq(S)
    BY DEF IInv, StackInv
  <2>2. ASSUME NEW i \in DOMAIN stack PROVE rank[call.key] < rank[stack[i].key]
    <3>1. stack # << >> /\ 1 \in DOMAIN stack /\ Call = stack[1] /\ (i = 1 \/ 1 < i)
      BY <2>1 DEF Call
    <3>2. stack[1].key \in Key /\ stack[i].key \in Key
      BY <3>1 DEF IInv, StackInv, CallOK
    <3>3. rank[k] \in Nat /\ rank[stack[1].key] \in Nat /\ rank[stack[i].key] \in Nat
      BY <3>2 DEF Proper
    <3>4. i # 1 => rank[stack[1].key] < rank[stack[i].key]
      BY <3>1 DEF IInv, StackInv
    <3> QED BY <1>3, <3>1, <3>3, <3>4
  <2> QED BY <2>2
<1>5. StackInv'
  <2>1. PICK rest : rest = stack
    OBVIOUS
  <2>2. stack' = <<call>> \o rest
    BY <1>2, <2>1 DEF Push
  <2>3. \A i \in DOMAIN rest : CallOK(rest[i])
    BY <2>1 DEF IInv, StackInv
  <2>4. /\ \E S : rest \in Seq(S)
        /\ \A i, j \in DOMAIN rest : i < j => rank[rest[i].key] < rank[rest[j].key]
    BY <2>1 DEF IInv, StackInv
  <2> QED BY <1>1, <1>3, <1>4, <2>1, <2>2, <2>3, <2>4, PutOnTop
<1>6. CountInv'
  <2>1. Home[k] \in Registered
    BY DEF Proper
  <2> QED BY <2>1, SomeRevision DEF IInv, CountInv
<1> QED BY <1>1, <1>5, <1>6 DEF IInv

\* Another call of the same key in place of the newest one.
LEMMA Replaces ==
  ASSUME IInv, NEW call, stack # << >>, call.key = Call.key, CallOK(call),
         Replace(call), UNCHANGED <<revision, memo, past>>
  PROVE  IInv'
<1>1. MemoInv' /\ \A c : CallOK(c) => CallOK(c)'
  BY SameMemo DEF IInv
<1>2. \A i \in DOMAIN Tail(stack) : CallOK(Tail(stack)[i])
  BY PopStack DEF IInv, StackInv
<1>3. stack' = <<call>> \o Tail(stack)
  BY DEF Replace
<1>4. StackInv'
  BY <1>1, <1>2, <1>3, PopStack, PutOnTop DEF IInv
<1>5. CountInv'
  BY DEF IInv, CountInv
<1> QED BY <1>1, <1>4, <1>5 DEF IInv

-----------------------------------------------------------------------------
(* The steps of a verification *)

\* The newest call.
LEMMA Newest ==
  ASSUME StackInv, stack # << >>
  PROVE  CallOK(Call) /\ Call.key \in Key
BY PopStack DEF CallOK

LEMMA DemandKeeps ==
  ASSUME IInv, Proper, NEW k \in Top, Demand(k)
  PROVE  IInv'
<1>1. k \in Key
  BY KeyAssumption
<1>2. CASE Fresh(k)
  <2>1. UNCHANGED <<revision, memo, stack, past>>
    BY <1>2 DEF Demand
  <2>2. MemoInv' /\ \A call : CallOK(call) => CallOK(call)'
    BY <2>1, SameMemo DEF IInv
  <2>3. PICK calls : calls = stack
    OBVIOUS
  <2>4. \A i \in DOMAIN calls : CallOK(calls[i])'
    BY <2>2, <2>3 DEF IInv, StackInv
  <2>5. StackInv'
    BY <2>1, <2>3, <2>4 DEF IInv, StackInv
  <2>6. CountInv'
    BY <2>1 DEF IInv, CountInv
  <2> QED BY <2>2, <2>5, <2>6 DEF IInv
<1>3. CASE ~Fresh(k)
  <2>1. Home[k] \in Registered /\ Push(k) /\ UNCHANGED <<revision, memo, past>> /\ stack = << >>
    BY <1>3 DEF Demand
  <2>2. needs[k] \subseteq Registered
    BY <2>1 DEF Proper
  <2> QED BY <1>1, <1>3, <2>1, <2>2, Calls
<1> QED BY <1>2, <1>3

LEMMA VerifyCallKeeps ==
  ASSUME IInv, Proper, VerifyCall
  PROVE  IInv'
<1>1. stack # << >> /\ Call.mode = "verify" /\ Call.deps # << >> /\ CallOK(Call) /\ VerifyOK(Call)
  BY Newest DEF IInv, VerifyCall, In, CallOK
<1>2. PICK d : d = Head(Call.deps)
  OBVIOUS
<1>3. \E j \in DOMAIN memo[Call.key].deps : d = memo[Call.key].deps[j]
  <2>1. 1 \in DOMAIN Call.deps /\ Head(Call.deps) = Call.deps[1]
    BY <1>1 DEF VerifyOK
  <2> QED BY <1>1, <1>2, <2>1 DEF VerifyOK
<1>4. d \in Key /\ memo[d] # None /\ rank[d] < rank[Call.key]
  <2>1. EntryOK(Call.key)
    BY <1>1 DEF IInv, MemoInv, VerifyOK, CallOK
  <2> QED BY <1>3, <2>1, ElementOfSeq DEF EntryOK
<1>5. needs[d] \subseteq Registered
  <2>1. CASE d \in Input
    <3>1. needs[d] = {d} /\ d \in Registered
      BY <1>4, <2>1, KeyAssumption DEF Registered, Proper
    <3> QED BY <3>1
  <2>2. CASE d \notin Input
    BY <1>4, <2>2 DEF IInv, MemoInv, EntryOK
  <2> QED BY <2>1, <2>2
<1>6. ~Fresh(d) /\ Push(d) /\ UNCHANGED <<revision, memo, past>>
  BY <1>2 DEF VerifyCall
<1> QED BY <1>4, <1>5, <1>6, Calls

LEMMA VerifySameKeeps ==
  ASSUME IInv, Proper, VerifySame
  PROVE  IInv'
<1>1. stack # << >> /\ Call.mode = "verify" /\ Call.deps # << >> /\ CallOK(Call) /\ VerifyOK(Call)
  BY Newest DEF IInv, VerifySame, In, CallOK
<1>2. PICK call : call = [Call EXCEPT !.deps = Tail(Call.deps)]
  OBVIOUS
<1>3. /\ DOMAIN call = CallFields /\ call.key = Call.key /\ call.mode = "verify"
      /\ call.since = Call.since /\ call.deps = Tail(Call.deps)
  BY <1>1, <1>2 DEF CallOK, CallFields
<1>4. PICK deps : deps = Call.deps
  OBVIOUS
<1>5. /\ deps \in Seq(Key) /\ Tail(deps) \in Seq(Key) /\ 1 \in DOMAIN deps /\ Head(deps) = deps[1]
      /\ \A i \in DOMAIN Tail(deps) : i + 1 \in DOMAIN deps /\ Tail(deps)[i] = deps[i + 1]
      /\ \A i \in DOMAIN deps : i = 1 \/ (i - 1 \in DOMAIN Tail(deps) /\ Tail(deps)[i - 1] = deps[i])
  <2>1. deps \in Seq(Key) /\ deps # << >>
    BY <1>1, <1>4 DEF VerifyOK
  <2> QED BY <2>1
<1>6. Checked(deps[1], Call.since)
  <2>1. PICK d : d = deps[1]
    OBVIOUS
  <2>2. Fresh(d) /\ ~(memo[d].computed_at > Call.since)
    BY <1>4, <1>5, <2>1 DEF VerifySame, Changed
  <2>3. d \in Key /\ memo[d] # None /\ Call.key \in Key /\ memo[Call.key] # None
    BY <1>1, <1>5, <2>1, <2>2, ElementOfSeq DEF Fresh, CallOK, VerifyOK
  <2>4. memo[d].computed_at \in Nat /\ Call.since \in Nat
    BY <1>1, <2>3 DEF IInv, MemoInv, EntryOK, VerifyOK
  <2> QED BY <2>1, <2>2, <2>4 DEF Checked
<1>7. VerifyOK(call)
  <2>1. \A i \in DOMAIN call.deps : \E j \in DOMAIN memo[call.key].deps :
          call.deps[i] = memo[call.key].deps[j]
    BY <1>1, <1>3, <1>4, <1>5 DEF VerifyOK
  <2>2. ASSUME NEW j \in DOMAIN memo[call.key].deps
        PROVE  \/ \E i \in DOMAIN call.deps : call.deps[i] = memo[call.key].deps[j]
               \/ Checked(memo[call.key].deps[j], call.since)
    <3>1. CASE Checked(memo[Call.key].deps[j], Call.since)
      BY <1>3, <3>1
    <3>2. CASE \E i \in DOMAIN deps : deps[i] = memo[Call.key].deps[j]
      <4>1. PICK i \in DOMAIN deps : deps[i] = memo[Call.key].deps[j]
        BY <3>2
      <4>2. CASE i = 1
        BY <1>3, <1>6, <4>1, <4>2
      <4>3. CASE i # 1
        <5>1. i - 1 \in DOMAIN call.deps /\ call.deps[i - 1] = deps[i]
          BY <1>3, <1>4, <1>5, <4>3
        <5> QED BY <1>3, <4>1, <5>1
      <4> QED BY <4>2, <4>3
    <3> QED BY <1>1, <1>3, <1>4, <3>1, <3>2 DEF VerifyOK
  <2> QED BY <1>1, <1>3, <1>4, <1>5, <2>1, <2>2 DEF VerifyOK
<1>8. CallOK(call)
  BY <1>1, <1>3, <1>7 DEF CallOK
<1>9. Replace(call) /\ UNCHANGED <<revision, memo, past>>
  BY <1>2 DEF VerifySame
<1> QED BY <1>1, <1>3, <1>8, <1>9, Replaces

LEMMA VerifyDirtyKeeps ==
  ASSUME IInv, Proper, VerifyDirty
  PROVE  IInv'
<1>1. stack # << >> /\ Call.mode = "verify" /\ Call.deps # << >> /\ CallOK(Call) /\ VerifyOK(Call)
  BY Newest DEF IInv, VerifyDirty, In, CallOK
<1>2. PICK k : k = Call.key
  OBVIOUS
<1>3. k \in Key /\ ~Fresh(k) /\ memo[k] # None /\ EntryOK(k) /\ Call.since = memo[k].verified_at
  BY <1>1, <1>2 DEF IInv, MemoInv, VerifyOK, CallOK
<1>4. PICK j \in DOMAIN memo[k].deps : memo[k].deps[j] = Head(Call.deps)
  <2>1. 1 \in DOMAIN Call.deps /\ Head(Call.deps) = Call.deps[1]
    BY <1>1 DEF VerifyOK
  <2> QED BY <1>1, <1>2, <2>1 DEF VerifyOK
<1>5. k \notin Input /\ needs[k] \subseteq Registered
  BY <1>3, <1>4 DEF EntryOK
<1>6. Drifts(k)
  <2>1. memo[memo[k].deps[j]].computed_at > memo[k].verified_at
    BY <1>3, <1>4 DEF VerifyDirty, Changed
  <2> QED BY <2>1 DEF Drifts
<1>7. PICK call : call = Evaluation(k)
  OBVIOUS
<1>8. /\ DOMAIN call = CallFields /\ call.key = k /\ call.mode = "eval"
      /\ call.deps = << >> /\ call.answers = << >>
  BY <1>7 DEF Evaluation, CallFields
<1>9. << >> \in Seq(Key) /\ DOMAIN << >> = {}
  OBVIOUS
<1>10. call.answers = Answered(call.deps)
  <2>1. Answered(call.deps) = [i \in {} |-> memo[call.deps[i]].value]
    BY <1>8, <1>9 DEF Answered
  <2> QED BY <1>8, <2>1
<1>11. EvalOK(call)
  BY <1>5, <1>6, <1>8, <1>9, <1>10 DEF EvalOK, Script
<1>12. CallOK(call)
  BY <1>3, <1>8, <1>11 DEF CallOK
<1>13. Replace(call) /\ UNCHANGED <<revision, memo, past>>
  BY <1>2, <1>7 DEF VerifyDirty
<1> QED BY <1>1, <1>2, <1>8, <1>12, <1>13, Replaces

-----------------------------------------------------------------------------
(* The steps of an evaluation *)

\* What an entry says is legal.
LEMMA SaysLegal ==
  ASSUME MemoInv, Proper, NEW k \in Key, memo[k] # None
  PROVE  Says(k, memo[k].value) \in legal[<<k, Registered>>]
<1>1. CASE k \in Input
  <2>1. memo[k].value \in Texts[k]
    BY <1>1 DEF MemoInv, EntryOK
  <2>2. Says(k, memo[k].value) = memo[k].value
    BY <1>1, KeyAssumption DEF Says
  <2>3. Registered \in SUBSET Input
    BY DEF Registered
  <2> QED BY <1>1, <2>1, <2>2, <2>3 DEF Proper
<1>2. CASE k \notin Input
  BY <1>2 DEF MemoInv, EntryOK
<1> QED BY <1>1, <1>2

\* An evaluation asks below its own key, or has a legal result.
LEMMA NextQuestion ==
  ASSUME IInv, Proper, In("eval")
  PROVE  /\ stack # << >> /\ Call.key \in Key /\ ~Fresh(Call.key) /\ EvalOK(Call)
         /\ DOMAIN Call = CallFields /\ Call.mode = "eval"
         /\ Question # Done =>
              Question \in Key /\ rank[Question] < rank[Call.key] /\ needs[Question] \subseteq Registered
         /\ Question = Done =>
              Result(Call.key, Call.answers, Registered) \in legal[<<Call.key, Registered>>]
<1>1. stack # << >> /\ Call.mode = "eval" /\ CallOK(Call)
  BY Newest DEF In, IInv
<1>2. EvalOK(Call) /\ DOMAIN Call = CallFields /\ Call.key \in Key /\ ~Fresh(Call.key)
  BY <1>1 DEF CallOK
<1>3. PICK k, deps, answers : k = Call.key /\ deps = Call.deps /\ answers = Call.answers
  OBVIOUS
<1>4. PICK table : table = Registered
  OBVIOUS
<1>5. /\ k \in Key \ Input /\ needs[k] \subseteq table /\ deps \in Seq(Key) /\ DOMAIN answers = DOMAIN deps
      /\ \A i \in DOMAIN deps : answers[i] = memo[deps[i]].value
      /\ Script(k, deps, answers, table)
  BY <1>2, <1>3, <1>4 DEF EvalOK, Answered
<1>6. table \in SUBSET Input
  BY <1>4 DEF Registered
<1>7. ASSUME NEW i \in DOMAIN deps
      PROVE  Says(deps[i], answers[i]) \in legal[<<deps[i], table>>]
  <2>1. PICK d : d = deps[i]
    OBVIOUS
  <2>2. d \in Key /\ memo[d] # None /\ answers[i] = memo[d].value
    BY <1>2, <1>3, <1>5, <2>1, ElementOfSeq DEF EvalOK, Fresh
  <2>3. Says(d, memo[d].value) \in legal[<<d, table>>]
    BY <1>4, <2>2, SaysLegal DEF IInv
  <2> QED BY <2>1, <2>2, <2>3
<1>8. ProperEvaluator(k, deps, answers, table)
  BY <1>5, <1>6 DEF Proper
<1>9. LET next == Ask(k, answers, table)
      IN  IF next = Done
          THEN Result(k, answers, table) \in legal[<<k, table>>]
          ELSE next \in Key /\ rank[next] < rank[k] /\ needs[next] \subseteq table
  BY <1>5, <1>7, <1>8 DEF ProperEvaluator
<1>10. Question = Ask(k, answers, table)
  BY <1>3, <1>4 DEF Question
<1> QED BY <1>1, <1>2, <1>3, <1>4, <1>9, <1>10

LEMMA EvalCallKeeps ==
  ASSUME IInv, Proper, EvalCall
  PROVE  IInv'
<1>1. PICK d : d = Question
  OBVIOUS
<1>2. In("eval") /\ d # Done /\ ~Fresh(d) /\ Push(d) /\ UNCHANGED <<revision, memo, past>>
  BY <1>1 DEF EvalCall
<1>3. d \in Key /\ rank[d] < rank[Call.key] /\ needs[d] \subseteq Registered
  BY <1>1, <1>2, NextQuestion
<1> QED BY <1>2, <1>3, Calls

\* The answers so far do not change when one more is appended.
LEMMA SameAnswers ==
  ASSUME NEW S, NEW s \in Seq(S), NEW x \in S
  PROVE  /\ Append(s, x) \in Seq(S) /\ Len(Append(s, x)) = Len(s) + 1
         /\ \A i \in DOMAIN s : Append(s, x)[i] = s[i]
         /\ Append(s, x)[Len(s) + 1] = x
         /\ \A i \in 1 .. Len(s) + 1 : SubSeq(Append(s, x), 1, i - 1) = SubSeq(s, 1, i - 1)
         /\ SubSeq(s, 1, Len(s)) = s
<1>1. PICK t : t = Append(s, x)
  OBVIOUS
<1>2. /\ t \in Seq(S) /\ Len(t) = Len(s) + 1 /\ Len(s) \in Nat
      /\ \A i \in 1 .. Len(s) : t[i] = s[i]
      /\ t[Len(s) + 1] = x /\ DOMAIN s = 1 .. Len(s)
  BY <1>1, AppendProperties
<1>3. ASSUME NEW i \in 1 .. Len(s) + 1 PROVE SubSeq(t, 1, i - 1) = SubSeq(s, 1, i - 1)
  <2>1. /\ SubSeq(t, 1, i - 1) = [j \in 1 .. i - 1 |-> t[j]]
        /\ SubSeq(s, 1, i - 1) = [j \in 1 .. i - 1 |-> s[j]]
    BY <1>2, <1>3
  <2>2. \A j \in 1 .. i - 1 : t[j] = s[j]
    BY <1>2, <1>3
  <2> QED BY <2>1, <2>2
<1>4. SubSeq(s, 1, Len(s)) = s
  BY <1>2
<1> QED BY <1>1, <1>2, <1>3, <1>4

LEMMA EvalReadKeeps ==
  ASSUME IInv, Proper, EvalRead
  PROVE  IInv'
<1>1. PICK d : d = Question
  OBVIOUS
<1>2. PICK k, deps, answers : k = Call.key /\ deps = Call.deps /\ answers = Call.answers
  OBVIOUS
<1>3. /\ stack # << >> /\ k \in Key /\ ~Fresh(k) /\ EvalOK(Call)
      /\ DOMAIN Call = CallFields /\ Call.mode = "eval"
      /\ d # Done /\ Fresh(d) /\ d \in Key /\ rank[d] < rank[k]
  <2>1. In("eval") /\ d # Done /\ Fresh(d)
    BY <1>1 DEF EvalRead
  <2> QED BY <1>1, <1>2, <2>1, NextQuestion
<1>4. PICK more, told : more = Append(deps, d) /\ told = Append(answers, memo[d].value)
  OBVIOUS
<1>5. PICK call : call = [Call EXCEPT !.deps = more, !.answers = told]
  OBVIOUS
<1>6. /\ DOMAIN call = CallFields /\ call.key = k /\ call.mode = "eval"
      /\ call.deps = more /\ call.answers = told
  BY <1>2, <1>3, <1>5 DEF CallFields
<1>7. /\ deps \in Seq(Key) /\ answers = Answered(deps)
      /\ \A i \in DOMAIN deps : Fresh(deps[i]) /\ rank[deps[i]] < rank[k]
      /\ Script(k, deps, answers, Registered)
      /\ k \notin Input /\ needs[k] \subseteq Registered /\ (memo[k] # None => Drifts(k))
  BY <1>2, <1>3 DEF EvalOK
<1>8. /\ more \in Seq(Key) /\ Len(more) = Len(deps) + 1 /\ more[Len(deps) + 1] = d
      /\ \A i \in DOMAIN deps : more[i] = deps[i]
      /\ Len(deps) \in Nat /\ DOMAIN deps = 1 .. Len(deps) /\ DOMAIN more = 1 .. Len(deps) + 1
  BY <1>3, <1>4, <1>7, SameAnswers, LenProperties
<1>9. PICK V : V = {memo[more[i]].value : i \in DOMAIN more}
  OBVIOUS
<1>10. answers \in Seq(V) /\ memo[d].value \in V /\ Len(answers) = Len(deps)
  <2>1. answers = [i \in 1 .. Len(deps) |-> memo[deps[i]].value]
    BY <1>7, <1>8 DEF Answered
  <2>2. \A i \in 1 .. Len(deps) : memo[deps[i]].value \in V
    BY <1>8, <1>9
  <2>3. memo[d].value \in V
    BY <1>8, <1>9
  <2> QED BY <1>8, <2>1, <2>2, <2>3
<1>11. /\ told \in Seq(V) /\ Len(told) = Len(deps) + 1 /\ told[Len(deps) + 1] = memo[d].value
       /\ \A i \in DOMAIN deps : told[i] = answers[i]
       /\ \A i \in 1 .. Len(deps) + 1 : SubSeq(told, 1, i - 1) = SubSeq(answers, 1, i - 1)
       /\ SubSeq(answers, 1, Len(deps)) = answers
  <2>1. DOMAIN answers = DOMAIN deps
    BY <1>8, <1>10, LenProperties
  <2> QED BY <1>4, <1>10, <2>1, SameAnswers
<1>12. told = Answered(more)
  <2>1. PICK a : a = Answered(more)
    OBVIOUS
  <2>2. a = [i \in 1 .. Len(deps) + 1 |-> memo[more[i]].value]
    BY <1>8, <2>1 DEF Answered
  <2>3. \A i \in 1 .. Len(deps) + 1 : told[i] = memo[more[i]].value
    <3>1. \A i \in DOMAIN deps : answers[i] = memo[deps[i]].value
      BY <1>7 DEF Answered
    <3>2. \A i \in DOMAIN deps : told[i] = memo[more[i]].value
      BY <1>8, <1>11, <3>1
    <3>3. told[Len(deps) + 1] = memo[more[Len(deps) + 1]].value
      BY <1>8, <1>11
    <3> QED BY <1>8, <3>2, <3>3
  <2>4. told = [i \in 1 .. Len(deps) + 1 |-> told[i]]
    BY <1>11
  <2> QED BY <2>1, <2>2, <2>3, <2>4
<1>13. Script(k, more, told, Registered)
  <2>1. ASSUME NEW i \in DOMAIN more
        PROVE  Ask(k, SubSeq(told, 1, i - 1), Registered) = more[i]
    <3>1. SubSeq(told, 1, i - 1) = SubSeq(answers, 1, i - 1)
      BY <1>8, <1>11
    <3>2. CASE i \in DOMAIN deps
      BY <1>7, <1>8, <3>1, <3>2 DEF Script
    <3>3. CASE i = Len(deps) + 1
      <4>1. SubSeq(answers, 1, i - 1) = answers
        BY <1>8, <1>11, <3>3
      <4>2. Ask(k, answers, Registered) = d
        BY <1>1, <1>2 DEF Question
      <4> QED BY <1>8, <3>1, <3>3, <4>1, <4>2
    <3> QED BY <1>8, <3>2, <3>3
  <2> QED BY <2>1 DEF Script
<1>14. \A i \in DOMAIN more : Fresh(more[i]) /\ rank[more[i]] < rank[k]
  BY <1>3, <1>7, <1>8
<1>15. EvalOK(call)
  BY <1>6, <1>7, <1>8, <1>12, <1>13, <1>14 DEF EvalOK
<1>16. CallOK(call)
  BY <1>3, <1>6, <1>15 DEF CallOK
<1>17. Replace(call) /\ UNCHANGED <<revision, memo, past>>
  <2>1. call = [Call EXCEPT !.deps = Append(@, Question),
                            !.answers = Append(@, memo[Question].value)]
    BY <1>1, <1>2, <1>3, <1>4, <1>5 DEF CallFields
  <2> QED BY <2>1 DEF EvalRead
<1> QED BY <1>2, <1>3, <1>6, <1>16, <1>17, Replaces

-----------------------------------------------------------------------------
(* The end of a call *)

\* The evaluator of h would make this entry.
Makes(h, entry) ==
  /\ Script(h, entry.deps, Answered(entry.deps), Registered)
  /\ Ask(h, Answered(entry.deps), Registered) = Done
  /\ Says(h, entry.value) = Result(h, Answered(entry.deps), Registered)
  /\ entry.diags = Emits(h, Answered(entry.deps), Registered)

\* An entry that may be written for h, which is not fresh: what changes is
\* stamped with this revision.
Writable(h, entry) ==
  /\ h \in Key /\ ~Fresh(h) /\ (h \in Input => memo[h] # None)
  /\ DOMAIN entry = EntryFields /\ entry.deps \in Seq(Key)
  /\ \A i \in DOMAIN entry.deps : Fresh(entry.deps[i]) /\ rank[entry.deps[i]] < rank[h]
  /\ entry.computed_at \in Nat /\ 1 <= entry.computed_at /\ entry.computed_at <= revision
  /\ entry.verified_at = revision
  /\ h \in Input => entry.deps = << >> /\ entry.value \in Texts[h]
  /\ h \notin Input =>
       /\ needs[h] \subseteq Registered /\ Says(h, entry.value) \in legal[<<h, Registered>>]
       /\ Makes(h, entry)
  /\ \/ entry.computed_at = revision
     \/ /\ memo[h] # None /\ entry.value = memo[h].value
        /\ entry.computed_at = memo[h].computed_at

Writes(h, entry) ==
  /\ memo' = [memo EXCEPT ![h] = entry]
  /\ stack' = Tail(stack)
  /\ UNCHANGED <<revision, past>>

LEMMA WrittenShape ==
  ASSUME MemoInv, NEW h, NEW entry, Writable(h, entry), Writes(h, entry)
  PROVE  /\ DOMAIN memo' = Key /\ revision' = revision /\ memo'[h] = entry /\ entry # None
         /\ \A k \in Key : k # h => memo'[k] = memo[k]
         /\ Registered' = Registered
         /\ \A k \in Key : Fresh(k)' <=> (Fresh(k) \/ k = h)
<1>1. DOMAIN memo' = Key /\ revision' = revision /\ memo'[h] = entry
      /\ \A k \in Key : k # h => memo'[k] = memo[k]
  BY DEF MemoInv, Writable, Writes
<1>2. entry # None
  <2>1. DOMAIN entry = EntryFields
    BY DEF Writable
  <2>2. "value" \in EntryFields /\ "value" \notin DOMAIN None
    BY DEF EntryFields, None
  <2> QED BY <2>1, <2>2
<1>3. Registered' = Registered
  <2>1. \A k \in Input : memo'[k] # None <=> memo[k] # None
    <3>1. Input \subseteq Key
      BY KeyAssumption
    <3> QED BY <1>1, <1>2, <3>1 DEF Writable
  <2> QED BY <2>1 DEF Registered
<1>4. \A k \in Key : Fresh(k)' <=> (Fresh(k) \/ k = h)
  <2>1. Fresh(h)'
    BY <1>1, <1>2 DEF Fresh, Writable
  <2>2. \A k \in Key : k # h => (Fresh(k)' <=> Fresh(k))
    BY <1>1 DEF Fresh
  <2> QED BY <2>1, <2>2
<1> QED BY <1>1, <1>2, <1>3, <1>4

LEMMA WrittenEntries ==
  ASSUME MemoInv, CountInv, NEW h, NEW entry, Writable(h, entry), Writes(h, entry)
  PROVE  MemoInv'
<1>1. /\ DOMAIN memo' = Key /\ revision' = revision /\ memo'[h] = entry /\ entry # None
      /\ \A k \in Key : k # h => memo'[k] = memo[k]
      /\ Registered' = Registered
      /\ \A k \in Key : Fresh(k)' <=> (Fresh(k) \/ k = h)
      /\ h \in Key /\ ~Fresh(h)
  BY WrittenShape DEF Writable
<1>2. \A d \in Key : memo[d] # None => memo'[d] # None
  BY <1>1
<1>3. \A d \in Key : Fresh(d) => memo'[d] = memo[d] /\ memo[d] # None /\ d # h
  BY <1>1 DEF Fresh
<1>4. \A i \in DOMAIN entry.deps :
        entry.deps[i] \in Key /\ Fresh(entry.deps[i]) /\ rank[entry.deps[i]] < rank[h]
  BY ElementOfSeq DEF Writable
<1>5. ASSUME NEW k \in Key, memo'[k] # None PROVE EntryOK(k)'
  <2>1. CASE k = h
    <3>1. \A i \in DOMAIN entry.deps : memo'[entry.deps[i]] # None
      BY <1>2, <1>3, <1>4
    <3> QED BY <1>1, <1>4, <2>1, <3>1 DEF EntryOK, Writable, CountInv
  <2>2. CASE k # h
    <3>1. EntryOK(k) /\ memo'[k] = memo[k]
      BY <1>1, <1>5, <2>2 DEF MemoInv
    <3>2. \A i \in DOMAIN memo[k].deps : memo[k].deps[i] \in Key
      BY <3>1, ElementOfSeq DEF EntryOK
    <3> QED BY <1>1, <1>2, <3>1, <3>2 DEF EntryOK
  <2> QED BY <2>1, <2>2
<1>6. ASSUME NEW k \in Key, Fresh(k)' PROVE FreshDeps(k)'
  <2>1. CASE k = h
    BY <1>1, <1>4, <2>1 DEF FreshDeps
  <2>2. CASE k # h
    <3>1. Fresh(k) /\ FreshDeps(k) /\ EntryOK(k) /\ memo'[k] = memo[k]
      BY <1>1, <1>6, <2>2 DEF MemoInv, Fresh
    <3>2. \A i \in DOMAIN memo[k].deps : memo[k].deps[i] \in Key
      BY <3>1, ElementOfSeq DEF EntryOK
    <3> QED BY <1>1, <3>1, <3>2 DEF FreshDeps
  <2> QED BY <2>1, <2>2
<1>7. ASSUME NEW k \in Key \ Input, memo'[k] # None, Unchanged(k)' PROVE Remakes(k)'
  <2>1. CASE k = h
    <3>1. PICK a : a = Answered(entry.deps)
      OBVIOUS
    <3>2. Given(k)' = a
      <4>1. Given(k)' = [i \in DOMAIN entry.deps |-> memo'[entry.deps[i]].value]
        BY <1>1, <2>1 DEF Given
      <4>2. \A i \in DOMAIN entry.deps : memo'[entry.deps[i]].value = memo[entry.deps[i]].value
        BY <1>3, <1>4
      <4>3. a = [i \in DOMAIN entry.deps |-> memo[entry.deps[i]].value]
        BY <3>1 DEF Answered
      <4> QED BY <4>1, <4>2, <4>3
    <3>3. Makes(h, entry)
      BY <1>7, <2>1 DEF Writable
    <3> QED BY <1>1, <2>1, <3>1, <3>2, <3>3 DEF Remakes, Makes
  <2>2. CASE k # h
    <3>1. EntryOK(k) /\ memo[k] # None /\ memo'[k] = memo[k]
      BY <1>1, <1>7, <2>2 DEF MemoInv
    <3>2. PICK deps : deps = memo[k].deps
      OBVIOUS
    <3>3. \A i \in DOMAIN deps : deps[i] \in Key /\ memo[deps[i]] # None
      BY <3>1, <3>2, ElementOfSeq DEF EntryOK
    <3>4. \A i \in DOMAIN deps : memo'[deps[i]].computed_at <= memo[k].verified_at
      BY <1>7, <3>1, <3>2 DEF Unchanged
    <3>5. ASSUME NEW i \in DOMAIN deps
          PROVE  /\ memo'[deps[i]].value = memo[deps[i]].value
                 /\ memo'[deps[i]].computed_at = memo[deps[i]].computed_at
      <4>1. CASE deps[i] # h
        BY <1>1, <3>3, <4>1
      <4>2. CASE deps[i] = h
        <5>1. ~Fresh(k)
          <6>1. Fresh(k) => FreshDeps(k)
            BY <1>7 DEF MemoInv
          <6> QED BY <1>1, <3>2, <4>2, <6>1 DEF FreshDeps
        <5>2. memo[k].verified_at # revision
          BY <3>1, <5>1 DEF Fresh
        <5>3. memo[k].verified_at \in Nat /\ revision \in Nat /\ memo[k].verified_at <= revision
          BY <3>1 DEF EntryOK, CountInv
        <5>4. entry.computed_at <= memo[k].verified_at
          BY <1>1, <3>4, <4>2
        <5>5. entry.computed_at \in Nat /\ entry.computed_at # revision
          BY <5>2, <5>3, <5>4 DEF Writable
        <5> QED BY <1>1, <4>2, <5>5 DEF Writable
      <4> QED BY <4>1, <4>2
    <3>6. Unchanged(k)
      BY <3>2, <3>4, <3>5 DEF Unchanged
    <3>7. Remakes(k)
      BY <1>7, <3>1, <3>6 DEF MemoInv
    <3>8. PICK a : a = Given(k)
      OBVIOUS
    <3>9. Given(k)' = a
      <4>1. Given(k)' = [i \in DOMAIN deps |-> memo'[deps[i]].value]
        BY <3>1, <3>2 DEF Given
      <4>2. a = [i \in DOMAIN deps |-> memo[deps[i]].value]
        BY <3>2, <3>8 DEF Given
      <4> QED BY <3>5, <4>1, <4>2
    <3> QED BY <1>1, <3>1, <3>7, <3>8, <3>9 DEF Remakes
  <2> QED BY <2>1, <2>2
<1> QED BY <1>1, <1>5, <1>6, <1>7 DEF MemoInv

\* A call of another key does not notice, or notices a drift.
LEMMA WrittenCall ==
  ASSUME MemoInv, CountInv, NEW h, NEW entry, Writable(h, entry), Writes(h, entry),
         NEW call, CallOK(call), call.key # h
  PROVE  CallOK(call)'
<1>1. /\ DOMAIN memo' = Key /\ revision' = revision /\ memo'[h] = entry /\ entry # None
      /\ \A k \in Key : k # h => memo'[k] = memo[k]
      /\ Registered' = Registered
      /\ \A k \in Key : Fresh(k)' <=> (Fresh(k) \/ k = h)
      /\ h \in Key /\ ~Fresh(h)
  BY WrittenShape DEF Writable
<1>2. PICK k : k = call.key
  OBVIOUS
<1>3. k \in Key /\ k # h /\ ~Fresh(k) /\ ~Fresh(k)' /\ memo'[k] = memo[k] /\ DOMAIN call = CallFields
  BY <1>1, <1>2 DEF CallOK
<1>4. \A d \in Key : Fresh(d) => Fresh(d)' /\ memo'[d] = memo[d]
  BY <1>1
<1>5. CASE call.mode = "verify" /\ VerifyOK(call)
  <2>1. EntryOK(k)
    BY <1>2, <1>3, <1>5 DEF MemoInv, VerifyOK
  <2>2. \A j \in DOMAIN memo[k].deps : memo[k].deps[j] \in Key
    BY <2>1, ElementOfSeq DEF EntryOK
  <2>3. \A d \in Key : Checked(d, call.since) => Checked(d, call.since)'
    BY <1>4 DEF Checked
  <2>4. VerifyOK(call)'
    BY <1>2, <1>3, <1>5, <2>2, <2>3 DEF VerifyOK
  <2> QED BY <1>2, <1>3, <1>5, <2>4 DEF CallOK
<1>6. CASE call.mode = "eval" /\ EvalOK(call)
  <2>1. \A i \in DOMAIN call.deps : call.deps[i] \in Key /\ Fresh(call.deps[i])
    BY <1>6, ElementOfSeq DEF EvalOK
  <2>2. PICK deps, answers : deps = call.deps /\ answers = call.answers
    OBVIOUS
  <2>3. Answered(deps)' = answers
    <3>1. answers = [i \in DOMAIN deps |-> memo[deps[i]].value]
      BY <1>6, <2>2 DEF EvalOK, Answered
    <3>2. \A i \in DOMAIN deps : memo'[deps[i]].value = memo[deps[i]].value
      BY <1>4, <2>1, <2>2
    <3> QED BY <3>1, <3>2 DEF Answered
  <2>4. memo[k] # None => Drifts(k)'
    <3> SUFFICES ASSUME memo[k] # None PROVE Drifts(k)'
      OBVIOUS
    <3>1. EntryOK(k)
      BY <1>3 DEF MemoInv
    <3>2. PICK j \in DOMAIN memo[k].deps :
            memo[memo[k].deps[j]].computed_at > memo[k].verified_at
      BY <1>2, <1>6 DEF EvalOK, Drifts
    <3>3. PICK d : d = memo[k].deps[j]
      OBVIOUS
    <3>4. d \in Key /\ memo[d].computed_at > memo[k].verified_at
      BY <3>1, <3>2, <3>3, ElementOfSeq DEF EntryOK
    <3>5. memo[k].verified_at < revision
      BY <1>3, <3>1 DEF EntryOK, Fresh, CountInv
    <3>6. memo'[d].computed_at > memo[k].verified_at
      <4>1. CASE d # h
        BY <1>1, <3>4, <4>1
      <4>2. CASE d = h /\ entry.computed_at = revision
        BY <1>1, <3>1, <3>5, <4>2 DEF EntryOK, CountInv
      <4>3. CASE d = h /\ entry.computed_at = memo[h].computed_at
        BY <1>1, <3>4, <4>3
      <4> QED BY <4>1, <4>2, <4>3 DEF Writable
    <3> QED BY <1>3, <3>3, <3>6 DEF Drifts
  <2>5. \A i \in DOMAIN deps : Fresh(deps[i])'
    BY <1>4, <2>1, <2>2
  <2>6. EvalOK(call)'
    BY <1>1, <1>2, <1>3, <1>6, <2>2, <2>3, <2>4, <2>5 DEF EvalOK
  <2> QED BY <1>2, <1>3, <1>6, <2>6 DEF CallOK
<1> QED BY <1>5, <1>6 DEF CallOK

LEMMA WrittenKeeps ==
  ASSUME IInv, Proper, stack # << >>, NEW entry, Writable(Call.key, entry), Writes(Call.key, entry)
  PROVE  IInv'
<1>1. PICK h : h = Call.key
  OBVIOUS
<1>2. Writable(h, entry) /\ Writes(h, entry) /\ MemoInv /\ CountInv
  BY <1>1 DEF IInv
<1>3. MemoInv'
  BY <1>2, WrittenEntries
<1>4. PICK rest : rest = Tail(stack)
  OBVIOUS
<1>5. /\ \E S : rest \in Seq(S)
      /\ \A i \in DOMAIN rest : CallOK(rest[i]) /\ rank[h] < rank[rest[i].key]
      /\ \A i, j \in DOMAIN rest : i < j => rank[rest[i].key] < rank[rest[j].key]
  BY <1>1, <1>4, PopStack DEF IInv, StackInv
<1>6. \A i \in DOMAIN rest : CallOK(rest[i])'
  <2>1. ASSUME NEW i \in DOMAIN rest PROVE CallOK(rest[i])'
    <3>1. PICK call : call = rest[i]
      OBVIOUS
    <3>2. rank[h] < rank[call.key] /\ CallOK(call) /\ rank[h] \in Nat
      BY <1>2, <1>5, <3>1 DEF Writable, Proper
    <3>3. call.key # h
      BY <3>2
    <3>4. CallOK(call)'
      BY <1>2, <3>2, <3>3, WrittenCall
    <3> QED BY <3>1, <3>4
  <2> QED BY <2>1
<1>7. StackInv'
  BY <1>2, <1>4, <1>5, <1>6 DEF StackInv, Writes
<1>8. CountInv'
  BY <1>2 DEF CountInv, Writes
<1> QED BY <1>3, <1>7, <1>8 DEF IInv

\* k asks deps when it is given these answers, and nothing more.
Ends(k, deps, answers) ==
  Script(k, deps, answers, Registered) /\ Ask(k, answers, Registered) = Done

\* The entry that VerifyClean writes: all of its dependencies were checked.
Verifies(h, entry) ==
  /\ h \in Key /\ memo[h] # None
  /\ entry = [memo[h] EXCEPT !.verified_at = revision] /\ DOMAIN memo[h] = EntryFields
  /\ \A j \in DOMAIN memo[h].deps : Checked(memo[h].deps[j], memo[h].verified_at)

LEMMA VerifyCleanWrites ==
  ASSUME IInv, Proper, VerifyClean
  PROVE  stack # << >> /\ \E entry : /\ Writable(Call.key, entry) /\ Writes(Call.key, entry)
                                    /\ Verifies(Call.key, entry)
<1>1. stack # << >> /\ Call.mode = "verify" /\ Call.deps = << >> /\ CallOK(Call) /\ VerifyOK(Call)
  BY Newest DEF IInv, VerifyClean, In, CallOK
<1>2. PICK h : h = Call.key
  OBVIOUS
<1>3. h \in Key /\ ~Fresh(h) /\ memo[h] # None /\ EntryOK(h)
  BY <1>1, <1>2 DEF IInv, MemoInv, CallOK, VerifyOK
<1>4. PICK entry : entry = [memo[h] EXCEPT !.verified_at = revision]
  OBVIOUS
<1>5. /\ DOMAIN entry = EntryFields /\ entry.value = memo[h].value /\ entry.deps = memo[h].deps
      /\ entry.diags = memo[h].diags /\ entry.computed_at = memo[h].computed_at
      /\ entry.verified_at = revision
  BY <1>3, <1>4 DEF EntryOK, EntryFields
<1>6. \A j \in DOMAIN memo[h].deps : Checked(memo[h].deps[j], memo[h].verified_at)
  BY <1>1, <1>2 DEF VerifyOK
<1>7. ASSUME h \notin Input PROVE Makes(h, entry)
  <2>1. Remakes(h)
    BY <1>3, <1>6, <1>7 DEF IInv, MemoInv, Unchanged, Checked
  <2>2. PICK a : a = Given(h)
    OBVIOUS
  <2>3. Answered(entry.deps) = a
    BY <1>5, <2>2 DEF Answered, Given
  <2> QED BY <1>5, <2>1, <2>2, <2>3 DEF Makes, Remakes
<1>8. /\ entry.computed_at \in Nat /\ 1 <= entry.computed_at /\ entry.computed_at <= revision
  <2>1. /\ memo[h].computed_at \in Nat /\ memo[h].verified_at \in Nat /\ revision \in Nat
        /\ 1 <= memo[h].computed_at /\ memo[h].computed_at <= memo[h].verified_at
        /\ memo[h].verified_at <= revision
    BY <1>3 DEF EntryOK, IInv, CountInv
  <2> QED BY <1>5, <2>1
<1>9. \A i \in DOMAIN entry.deps : Fresh(entry.deps[i]) /\ rank[entry.deps[i]] < rank[h]
  BY <1>3, <1>5, <1>6 DEF EntryOK, Checked
<1>10. Writable(h, entry)
  BY <1>3, <1>5, <1>7, <1>8, <1>9 DEF Writable, EntryOK
<1>11. Writes(h, entry)
  <2>1. memo' = [memo EXCEPT ![h] = entry]
    BY <1>2, <1>4 DEF VerifyClean
  <2> QED BY <2>1 DEF VerifyClean, Writes
<1>12. Verifies(h, entry)
  BY <1>3, <1>4, <1>6 DEF Verifies, EntryOK
<1> QED BY <1>1, <1>2, <1>10, <1>11, <1>12

LEMMA VerifyCleanKeeps ==
  ASSUME IInv, Proper, VerifyClean
  PROVE  IInv'
BY VerifyCleanWrites, WrittenKeeps

\* The entry that Install writes: what the evaluation asked and was told.
Installs(h, entry) ==
  /\ h \in Key \ Input /\ needs[h] \subseteq Registered
  /\ entry.deps \in Seq(Key) /\ \A i \in DOMAIN entry.deps : Fresh(entry.deps[i])
  /\ Ends(h, entry.deps, Answered(entry.deps))
  /\ entry.value = ValueOf(h, entry.deps, Answered(entry.deps))
  /\ entry.diags = Emits(h, Answered(entry.deps), Registered)
  /\ memo[h] # None =>
       /\ Drifts(h)
       /\ h \in Compared /\ entry.value = memo[h].value => entry.computed_at = memo[h].computed_at

LEMMA InstallWrites ==
  ASSUME IInv, Proper, Install
  PROVE  stack # << >> /\ \E entry : /\ Writable(Call.key, entry) /\ Writes(Call.key, entry)
                                    /\ Installs(Call.key, entry)
<1>1. In("eval") /\ Question = Done
  BY DEF Install
<1>2. PICK h, deps, answers : h = Call.key /\ deps = Call.deps /\ answers = Call.answers
  OBVIOUS
<1>3. /\ stack # << >> /\ h \in Key /\ ~Fresh(h) /\ EvalOK(Call)
      /\ Result(h, answers, Registered) \in legal[<<h, Registered>>]
  BY <1>1, <1>2, NextQuestion
<1>4. /\ h \notin Input /\ needs[h] \subseteq Registered /\ deps \in Seq(Key)
      /\ answers = Answered(deps) /\ Script(h, deps, answers, Registered)
      /\ \A i \in DOMAIN deps : Fresh(deps[i]) /\ rank[deps[i]] < rank[h]
  BY <1>2, <1>3 DEF EvalOK
<1>5. PICK value : value = ValueOf(h, deps, answers)
  OBVIOUS
<1>6. Says(h, value) = Result(h, answers, Registered)
  BY <1>5 DEF ValueOf, Says
<1>7. PICK stamp : stamp = ChangedAt(h, value)
  OBVIOUS
<1>8. /\ stamp \in Nat /\ 1 <= stamp /\ stamp <= revision
      /\ stamp = revision \/ (memo[h] # None /\ value = memo[h].value
                              /\ stamp = memo[h].computed_at)
  <2>1. revision \in Nat /\ 1 <= revision
    BY <1>3 DEF IInv, CountInv
  <2>2. CASE memo[h] # None /\ memo[h].value = value /\ stamp = memo[h].computed_at
    <3>1. /\ memo[h].computed_at \in Nat /\ memo[h].verified_at \in Nat
          /\ 1 <= memo[h].computed_at /\ memo[h].computed_at <= memo[h].verified_at
          /\ memo[h].verified_at <= revision
      BY <1>3, <2>2 DEF IInv, MemoInv, EntryOK
    <3> QED BY <2>1, <2>2, <3>1
  <2>3. CASE stamp = revision
    BY <2>1, <2>3
  <2> QED BY <1>7, <2>2, <2>3 DEF ChangedAt
<1>9. PICK entry : entry = NewEntry
  OBVIOUS
<1>10. /\ DOMAIN entry = EntryFields /\ entry.value = value /\ entry.deps = deps
       /\ entry.diags = Emits(h, answers, Registered) /\ entry.computed_at = stamp
       /\ entry.verified_at = revision
  BY <1>2, <1>5, <1>7, <1>9 DEF NewEntry, EntryFields
<1>11. Makes(h, entry)
  <2>1. Ask(h, answers, Registered) = Done
    BY <1>1, <1>2 DEF Question
  <2> QED BY <1>4, <1>6, <1>10, <2>1 DEF Makes
<1>12. Writable(h, entry)
  BY <1>3, <1>4, <1>6, <1>8, <1>10, <1>11 DEF Writable
<1>13. Writes(h, entry)
  BY <1>2, <1>9 DEF Install, Writes
<1>14. Installs(h, entry)
  <2>1. Ask(h, answers, Registered) = Done
    BY <1>1, <1>2 DEF Question
  <2>2. Ends(h, entry.deps, Answered(entry.deps))
    BY <1>4, <1>10, <2>1 DEF Ends
  <2>3. memo[h] # None => Drifts(h)
    BY <1>2, <1>3 DEF EvalOK
  <2>4. memo[h] # None /\ h \in Compared /\ value = memo[h].value => stamp = memo[h].computed_at
    BY <1>7 DEF ChangedAt
  <2> QED BY <1>3, <1>4, <1>5, <1>10, <2>2, <2>3, <2>4 DEF Installs
<1> QED BY <1>2, <1>3, <1>12, <1>13, <1>14

LEMMA InstallKeeps ==
  ASSUME IInv, Proper, Install
  PROVE  IInv'
BY InstallWrites, WrittenKeeps

-----------------------------------------------------------------------------
(* Input changes *)

LEMMA InitIInv == ASSUME Proper, Init PROVE IInv
<1>1. DOMAIN memo = Key /\ \A k \in Key : memo[k] = None
  BY DEF Init
<1>2. MemoInv
  BY <1>1 DEF MemoInv, Fresh
<1>3. stack = << >> /\ past = << >> /\ revision = 0
  BY DEF Init
<1>4. << >> \in Seq({}) /\ DOMAIN << >> = {} /\ Len(<< >>) = 0
  OBVIOUS
<1>5. StackInv
  BY <1>3, <1>4 DEF StackInv
<1>6. CountInv
  BY <1>3, <1>4, KeyAssumption DEF CountInv
<1> QED BY <1>2, <1>5, <1>6 DEF IInv

\* One revision more of the history.
LEMMA OneMore ==
  ASSUME CountInv, revision < MaxRevision, revision' = revision + 1, UNCHANGED stack,
         NEW w, past' = Append(past, w)
  PROVE  CountInv'
<1>1. PICK S : past \in Seq(S)
  BY DEF CountInv
<1>2. past \in Seq(S \cup {w})
  BY <1>1
<1>3. past' \in Seq(S \cup {w}) /\ Len(past') = Len(past) + 1
  BY <1>2, AppendProperties
<1>4. revision' \in Nat /\ revision' <= MaxRevision /\ revision' >= 1
  BY KeyAssumption DEF CountInv
<1> QED BY <1>3, <1>4 DEF CountInv

\* What a Source entry of the next revision looks like.
LEMMA SourceEntryShape ==
  ASSUME NEW text, NEW computed
  PROVE  /\ DOMAIN SourceEntry(text, computed) = EntryFields
         /\ SourceEntry(text, computed).value = text
         /\ SourceEntry(text, computed).deps = << >>
         /\ SourceEntry(text, computed).computed_at = computed
         /\ SourceEntry(text, computed).verified_at = revision + 1
         /\ SourceEntry(text, computed) # None
<1>1. PICK entry : entry = SourceEntry(text, computed)
  OBVIOUS
<1>2. /\ DOMAIN entry = EntryFields /\ entry.value = text /\ entry.deps = << >>
      /\ entry.computed_at = computed /\ entry.verified_at = revision + 1
  BY <1>1 DEF SourceEntry, EntryFields
<1>3. entry # None
  <2>1. "value" \in EntryFields /\ "value" \notin DOMAIN None
    BY DEF EntryFields, None
  <2> QED BY <1>2, <2>1
<1> QED BY <1>1, <1>2, <1>3

\* The engine before the first demand: nothing is derived yet.
LEMMA AddSourceKeeps ==
  ASSUME IInv, Proper, ~LateFiles, NEW k \in Input, NEW text \in Opened[k], AddSource(k, text)
  PROVE  IInv'
<1>1. /\ stack = << >> /\ revision < MaxRevision /\ memo[k] = None /\ revision' = revision + 1
      /\ UNCHANGED stack /\ revision \in Nat /\ k \in Key /\ text \in Texts[k]
      /\ \A j \in Key \ Input : memo[j] = None
  BY KeyAssumption DEF AddSource, IInv, CountInv
<1>2. PICK entry : entry = SourceEntry(text, revision + 1)
  OBVIOUS
<1>3. /\ DOMAIN entry = EntryFields /\ entry.value = text /\ entry.deps = << >>
      /\ entry.computed_at = revision + 1 /\ entry.verified_at = revision + 1 /\ entry # None
  BY <1>2, SourceEntryShape
<1>4. DOMAIN memo' = Key /\ memo'[k] = entry /\ \A j \in Key : j # k => memo'[j] = memo[j]
  BY <1>1, <1>2 DEF AddSource, IInv, MemoInv
<1>5. DOMAIN << >> = {} /\ << >> \in Seq(Key)
  OBVIOUS
<1>6. ASSUME NEW j \in Key, memo'[j] # None
      PROVE  EntryOK(j)' /\ j \in Input /\ DOMAIN memo'[j].deps = {}
  <2>1. CASE j = k
    <3>1. /\ revision + 1 \in Nat /\ 1 <= revision + 1 /\ revision + 1 <= revision'
          /\ revision + 1 <= revision + 1
      BY <1>1
    <3>2. DOMAIN entry.deps = {} /\ entry.deps \in Seq(Key)
      BY <1>3, <1>5
    <3>3. EntryOK(k)'
      BY <1>1, <1>3, <1>4, <3>1, <3>2 DEF EntryOK
    <3> QED BY <1>4, <2>1, <3>2, <3>3
  <2>2. CASE j # k
    <3>1. memo'[j] = memo[j] /\ j \in Input /\ EntryOK(j)
      BY <1>1, <1>4, <1>6, <2>2 DEF IInv, MemoInv
    <3>2. memo[j].deps = << >>
      BY <3>1 DEF EntryOK
    <3>3. /\ memo[j].computed_at \in Nat /\ memo[j].verified_at \in Nat
          /\ 1 <= memo[j].computed_at /\ memo[j].computed_at <= memo[j].verified_at
          /\ memo[j].verified_at <= revision + 1
      BY <1>1, <3>1 DEF EntryOK
    <3>4. DOMAIN memo[j] = EntryFields /\ memo[j].value \in Texts[j]
      BY <3>1 DEF EntryOK
    <3> QED BY <1>1, <1>5, <3>1, <3>2, <3>3, <3>4 DEF EntryOK
  <2> QED BY <2>1, <2>2
<1>7. MemoInv'
  <2>1. \A j \in Key : Fresh(j)' => FreshDeps(j)'
    BY <1>6 DEF Fresh, FreshDeps
  <2> QED BY <1>4, <1>6, <2>1 DEF MemoInv
<1>8. StackInv'
  <2>1. << >> \in Seq({}) /\ DOMAIN << >> = {}
    OBVIOUS
  <2> QED BY <1>1, <2>1 DEF StackInv
<1>9. CountInv'
  <2>1. PICK w : past' = Append(past, w)
    BY DEF AddSource
  <2> QED BY <1>1, <2>1, OneMore DEF IInv
<1> QED BY <1>7, <1>8, <1>9 DEF IInv

\* What an edit changes is newer than everything that was verified.
LEMMA SetSourcesKeeps ==
  ASSUME IInv, Proper, NEW edit \in Edits, SetSources(edit)
  PROVE  IInv'
<1>1. /\ stack = << >> /\ revision' = revision + 1 /\ UNCHANGED stack /\ revision \in Nat
      /\ DOMAIN edit \subseteq Registered /\ DOMAIN edit \subseteq Input /\ Input \subseteq Key
      /\ \A k \in DOMAIN edit : edit[k] \in Texts[k] /\ memo[k] # None
  BY KeyAssumption DEF SetSources, IInv, CountInv, Edits, Registered
<1>2. PICK stamp : stamp = [k \in DOMAIN edit |-> IF memo[k].value = edit[k]
                                                THEN memo[k].computed_at ELSE revision + 1]
  OBVIOUS
<1>3. /\ DOMAIN memo' = Key
      /\ \A k \in Key : k \notin DOMAIN edit => memo'[k] = memo[k]
      /\ \A k \in DOMAIN edit : memo'[k] = SourceEntry(edit[k], stamp[k])
  BY <1>1, <1>2 DEF SetSources
<1>4. \A k \in DOMAIN edit :
        /\ DOMAIN memo'[k] = EntryFields /\ memo'[k].value = edit[k] /\ memo'[k].deps = << >>
        /\ memo'[k].computed_at = stamp[k] /\ memo'[k].verified_at = revision + 1
        /\ memo'[k] # None
  BY <1>3, SourceEntryShape
<1>5. \A k \in Key : memo[k] # None <=> memo'[k] # None
  BY <1>1, <1>3, <1>4
<1>6. Registered' = Registered
  BY <1>1, <1>5 DEF Registered
<1>7. DOMAIN << >> = {} /\ << >> \in Seq(Key)
  OBVIOUS
<1>8. ASSUME NEW k \in Key, memo[k] # None
      PROVE  /\ EntryOK(k) /\ memo[k].computed_at \in Nat /\ memo[k].verified_at \in Nat
             /\ 1 <= memo[k].computed_at /\ memo[k].computed_at <= memo[k].verified_at
             /\ memo[k].verified_at <= revision /\ memo[k].deps \in Seq(Key)
             /\ \A i \in DOMAIN memo[k].deps :
                  memo[k].deps[i] \in Key /\ memo[memo[k].deps[i]] # None
  <2>1. EntryOK(k)
    BY <1>8 DEF IInv, MemoInv
  <2> QED BY <2>1, ElementOfSeq DEF EntryOK
<1>9. \A k \in DOMAIN edit : stamp[k] \in Nat /\ 1 <= stamp[k] /\ stamp[k] <= revision + 1
  <2> SUFFICES ASSUME NEW k \in DOMAIN edit
               PROVE  stamp[k] \in Nat /\ 1 <= stamp[k] /\ stamp[k] <= revision + 1
    OBVIOUS
  <2>1. /\ memo[k].computed_at \in Nat /\ memo[k].verified_at \in Nat
        /\ 1 <= memo[k].computed_at /\ memo[k].computed_at <= memo[k].verified_at
        /\ memo[k].verified_at <= revision
    BY <1>1, <1>8
  <2>2. stamp[k] = memo[k].computed_at \/ stamp[k] = revision + 1
    BY <1>2
  <2> QED BY <1>1, <2>1, <2>2
<1>10. ASSUME NEW k \in Key, memo'[k] # None PROVE EntryOK(k)'
  <2>1. CASE k \in DOMAIN edit
    <3>1. PICK entry : entry = memo'[k]
      OBVIOUS
    <3>2. /\ DOMAIN entry = EntryFields /\ entry.value \in Texts[k] /\ entry.deps = << >>
          /\ entry.computed_at = stamp[k] /\ entry.verified_at = revision + 1
      BY <1>1, <1>4, <2>1, <3>1
    <3>3. /\ entry.computed_at \in Nat /\ entry.verified_at \in Nat /\ 1 <= entry.computed_at
          /\ entry.computed_at <= entry.verified_at /\ entry.verified_at <= revision'
      BY <1>1, <1>9, <2>1, <3>2
    <3>4. DOMAIN entry.deps = {} /\ entry.deps \in Seq(Key) /\ k \in Input
      BY <1>1, <1>7, <2>1, <3>2
    <3> QED BY <3>1, <3>2, <3>3, <3>4 DEF EntryOK
  <2>2. CASE k \notin DOMAIN edit
    <3>1. memo'[k] = memo[k] /\ memo[k] # None
      BY <1>3, <1>10, <2>2
    <3>2. \A i \in DOMAIN memo[k].deps : memo'[memo[k].deps[i]] # None
      BY <1>5, <1>8, <3>1
    <3>3. memo[k].verified_at <= revision'
      BY <1>1, <1>8, <3>1
    <3> QED BY <1>6, <1>8, <3>1, <3>2, <3>3 DEF EntryOK
  <2> QED BY <2>1, <2>2
<1>11. ASSUME NEW k \in Key, Fresh(k)' PROVE FreshDeps(k)'
  <2>1. k \in DOMAIN edit
    <3> SUFFICES ASSUME k \notin DOMAIN edit PROVE FALSE
      OBVIOUS
    <3>1. memo'[k] = memo[k] /\ memo[k] # None /\ memo[k].verified_at = revision + 1
      BY <1>1, <1>3, <1>11 DEF Fresh
    <3>2. memo[k].verified_at \in Nat /\ memo[k].verified_at <= revision
      BY <1>8, <3>1
    <3> QED BY <1>1, <3>1, <3>2
  <2> QED BY <1>4, <1>7, <2>1 DEF FreshDeps
<1>12. ASSUME NEW k \in Key \ Input, memo'[k] # None, Unchanged(k)' PROVE Remakes(k)'
  <2>1. memo'[k] = memo[k] /\ memo[k] # None
    BY <1>1, <1>3, <1>12
  <2>2. PICK deps : deps = memo[k].deps
    OBVIOUS
  <2>3. \A i \in DOMAIN deps : memo'[deps[i]].computed_at <= memo[k].verified_at
    BY <1>12, <2>1, <2>2 DEF Unchanged
  <2>4. ASSUME NEW i \in DOMAIN deps
        PROVE  /\ memo'[deps[i]].value = memo[deps[i]].value
               /\ memo'[deps[i]].computed_at = memo[deps[i]].computed_at
    <3>1. deps[i] \in Key /\ memo[k].verified_at \in Nat /\ memo[k].verified_at <= revision
      BY <1>8, <2>1, <2>2
    <3>2. CASE deps[i] \notin DOMAIN edit
      BY <1>3, <3>1, <3>2
    <3>3. CASE deps[i] \in DOMAIN edit
      <4>1. stamp[deps[i]] <= memo[k].verified_at
        BY <1>4, <2>3, <3>3
      <4>2. stamp[deps[i]] # revision + 1
        BY <1>1, <3>1, <4>1
      <4>3. memo[deps[i]].value = edit[deps[i]] /\ stamp[deps[i]] = memo[deps[i]].computed_at
        BY <1>2, <3>3, <4>2
      <4> QED BY <1>4, <3>3, <4>3
    <3> QED BY <3>2, <3>3
  <2>5. Unchanged(k)
    BY <2>2, <2>3, <2>4 DEF Unchanged
  <2>6. Remakes(k)
    BY <1>12, <2>1, <2>5 DEF IInv, MemoInv
  <2>7. PICK a : a = Given(k)
    OBVIOUS
  <2>8. Given(k)' = a
    <3>1. Given(k)' = [i \in DOMAIN deps |-> memo'[deps[i]].value]
      BY <2>1, <2>2 DEF Given
    <3>2. a = [i \in DOMAIN deps |-> memo[deps[i]].value]
      BY <2>2, <2>7 DEF Given
    <3> QED BY <2>4, <3>1, <3>2
  <2> QED BY <1>6, <2>1, <2>6, <2>7, <2>8 DEF Remakes
<1>13. MemoInv'
  BY <1>3, <1>10, <1>11, <1>12 DEF MemoInv
<1>14. StackInv'
  <2>1. << >> \in Seq({}) /\ DOMAIN << >> = {}
    OBVIOUS
  <2> QED BY <1>1, <2>1 DEF StackInv
<1>15. CountInv'
  <2>1. Cardinality(Input \ Registered) \in Nat
    BY KeyAssumption, FS_CardinalityType, FS_Difference
  <2>2. revision < MaxRevision
    BY <1>1, <2>1, KeyAssumption DEF SetSources
  <2>3. PICK w : past' = Append(past, w)
    BY DEF SetSources
  <2> QED BY <1>1, <2>2, <2>3, OneMore DEF IInv
<1> QED BY <1>13, <1>14, <1>15 DEF IInv

-----------------------------------------------------------------------------
(* The theorems *)

LEMMA NextKeeps ==
  ASSUME Proper, ~LateFiles, IInv, [Next]_vars
  PROVE  IInv'
<1>1. CASE \E k \in Input : \E text \in Opened[k] : AddSource(k, text)
  BY <1>1, AddSourceKeeps
<1>2. CASE \E edit \in Edits : SetSources(edit)
  BY <1>2, SetSourcesKeeps
<1>3. CASE \E k \in Top : Demand(k)
  BY <1>3, DemandKeeps
<1>4. CASE Engine
  BY <1>4, VerifyCallKeeps, VerifySameKeeps, VerifyDirtyKeeps, VerifyCleanKeeps,
     EvalCallKeeps, EvalReadKeeps, InstallKeeps DEF Engine
<1>5. CASE UNCHANGED vars
  <2>1. UNCHANGED <<revision, memo, stack, past>>
    BY <1>5 DEF vars
  <2>2. MemoInv' /\ \A call : CallOK(call) => CallOK(call)'
    BY <2>1, SameMemo DEF IInv
  <2>3. PICK calls : calls = stack
    OBVIOUS
  <2>4. \A i \in DOMAIN calls : CallOK(calls[i])'
    BY <2>2, <2>3 DEF IInv, StackInv
  <2>5. StackInv'
    BY <2>1, <2>3, <2>4 DEF IInv, StackInv
  <2>6. CountInv'
    BY <2>1 DEF IInv, CountInv
  <2> QED BY <2>2, <2>5, <2>6 DEF IInv
<1> QED BY <1>1, <1>2, <1>3, <1>4, <1>5 DEF Next

LEMMA Invariance == ASSUME Proper, ~LateFiles PROVE Spec => []IInv
<1>1. Init => IInv
  BY InitIInv
<1>2. IInv /\ [Next]_vars => IInv'
  BY NextKeeps
<1> QED BY <1>1, <1>2, PTL DEF Spec

LEMMA TypingStep == ASSUME Proper, IInv PROVE TypeOK
<1>1. revision \in 0 .. MaxRevision /\ Len(past) = revision
  BY KeyAssumption DEF IInv, CountInv
<1>2. ASSUME NEW k \in Key, memo[k] # None
      PROVE  /\ memo[k].computed_at \in 1 .. memo[k].verified_at
             /\ memo[k].verified_at \in 1 .. revision
             /\ \A i \in DOMAIN memo[k].deps : memo[memo[k].deps[i]] # None
  <2>1. /\ memo[k].computed_at \in Nat /\ memo[k].verified_at \in Nat /\ revision \in Nat
        /\ 1 <= memo[k].computed_at /\ memo[k].computed_at <= memo[k].verified_at
        /\ memo[k].verified_at <= revision
        /\ \A i \in DOMAIN memo[k].deps : memo[memo[k].deps[i]] # None
    BY <1>2 DEF IInv, MemoInv, EntryOK, CountInv
  <2> QED BY <2>1
<1>3. \A i \in DOMAIN stack : stack[i].mode \in {"verify", "eval"} /\ rank[stack[i].key] \in Nat
  BY DEF IInv, StackInv, CallOK, Proper
<1>4. ASSUME NEW i \in DOMAIN stack, NEW j \in DOMAIN stack, stack[i].key = stack[j].key
      PROVE  i = j
  <2>1. i \in Int /\ j \in Int
    BY DEF IInv, StackInv
  <2>2. ~(i < j) /\ ~(j < i)
    BY <1>3, <1>4 DEF IInv, StackInv
  <2> QED BY <2>1, <2>2
<1> QED BY <1>1, <1>2, <1>3, <1>4 DEF TypeOK

\* Entries, revisions and calls are well formed, and a demand never waits for a
\* key that is already in flight: the recursion of demand, ensure_fresh and
\* run_eval (db.rs 464-544) has no cycle.
THEOREM QueriesTyping == ASSUME Proper, ~LateFiles PROVE Spec => []TypeOK
BY Invariance, TypingStep, PTL

LEMMA ReplaysStep == ASSUME Proper, IInv PROVE FreshReplays
<1> SUFFICES ASSUME NEW k \in Key \ Input, Fresh(k) PROVE Replays(k)
  BY DEF FreshReplays
<1>1. EntryOK(k) /\ FreshDeps(k)
  BY DEF IInv, MemoInv, Fresh
<1>2. Unchanged(k)
  <2>1. ASSUME NEW i \in DOMAIN memo[k].deps
        PROVE  memo[memo[k].deps[i]].computed_at <= memo[k].verified_at
    <3>1. PICK d : d = memo[k].deps[i]
      OBVIOUS
    <3>2. d \in Key /\ Fresh(d)
      BY <1>1, <3>1, ElementOfSeq DEF EntryOK, FreshDeps
    <3>3. memo[d].computed_at <= memo[d].verified_at /\ memo[d].verified_at = memo[k].verified_at
      BY <3>2 DEF IInv, MemoInv, EntryOK, Fresh
    <3> QED BY <3>1, <3>3
  <2> QED BY <2>1 DEF Unchanged
<1>3. Remakes(k)
  BY <1>2 DEF IInv, MemoInv, Fresh
<1> QED BY <1>1, <1>3 DEF Replays, Remakes, Script, FreshDeps

\* Incremental evaluation is evaluation: whatever the evaluators are, an entry
\* that is fresh, computed now or only verified, is what its evaluator makes of
\* the present values of its dependencies (ensure_fresh and run_eval of db.rs).
THEOREM IncrementalIsEvaluation == ASSUME Proper, ~LateFiles PROVE Spec => []FreshReplays
BY Invariance, ReplaysStep, PTL

-----------------------------------------------------------------------------
(* One clean build *)

\* A set of natural numbers has a least one.
LEMMA LeastNumber ==
  ASSUME NEW T \in SUBSET Nat, T # {}
  PROVE  \E m \in T : \A n \in T : m <= n
<1>1. PICK U : U = {0 .. x : x \in T}
  OBVIOUS
<1>2. U # {} /\ U \subseteq FiniteSubsetsOf(Nat)
  <2>1. \A x \in T : 0 .. x \in SUBSET Nat /\ IsFiniteSet(0 .. x)
    BY FS_Interval
  <2> QED BY <1>1, <2>1 DEF FiniteSubsetsOf
<1>3. \E u \in U : \A y \in U : ~ (<<y, u>> \in StrictSubsetOrdering(Nat))
  <2>1. IsWellFoundedOn(StrictSubsetOrdering(Nat), FiniteSubsetsOf(Nat))
    BY FS_StrictSubsetOrderingWellFounded
  <2> QED BY <1>2, <2>1, WFMin
<1>4. PICK m \in T : \A n \in T : <<0 .. n, 0 .. m>> \notin StrictSubsetOrdering(Nat)
  BY <1>1, <1>3
<1>5. ASSUME NEW n \in T, n < m PROVE FALSE
  <2>1. 0 .. n \subseteq Nat /\ 0 .. m \subseteq Nat /\ 0 .. n \subseteq 0 .. m /\ 0 .. n # 0 .. m
    <3>1. n \in Nat /\ m \in Nat /\ m \in 0 .. m /\ m \notin 0 .. n
      BY <1>5
    <3> QED BY <1>5, <3>1
  <2> QED BY <1>4, <2>1 DEF StrictSubsetOrdering
<1> QED BY <1>4, <1>5

\* The answers of an evaluation by a build.
ToldBy(deps, value) == [i \in DOMAIN deps |-> value[deps[i]]]

\* value and diags are what a build of every query from the present texts alone
\* would hold: each follows from an evaluation that is answered by the others.
BuiltBy(k, deps, value, diags) ==
  /\ Ends(k, deps, ToldBy(deps, value))
  /\ Says(k, value[k]) = Result(k, ToldBy(deps, value), Registered)
  /\ diags[k] = Emits(k, ToldBy(deps, value), Registered)

IsBuild(value, diags) ==
  /\ \A k \in Registered : value[k] = memo[k].value
  /\ \A k \in Key \ Input :
       needs[k] \subseteq Registered => \E deps \in Seq(Key) : BuiltBy(k, deps, value, diags)

\* Only the public accessors demand a collector (Compile, which also does, is
\* not a key of the model).
NobodyAsksCollectors ==
  \A k \in Key \ Input, table \in SUBSET Input, n \in Nat : \A answers :
    DOMAIN answers = 1 .. n => Ask(k, answers, table) \notin Collectors

\* Two runs of an evaluator that get the same answers to the same questions are
\* the same run.
LEMMA OneRun ==
  ASSUME NEW h \in Key, NEW deps \in Seq(Key), NEW more \in Seq(Key), NEW held, NEW value,
         Ends(h, deps, ToldBy(deps, held)), Ends(h, more, ToldBy(more, value)),
         \A i \in DOMAIN deps : held[deps[i]] = value[deps[i]]
  PROVE  deps = more /\ ToldBy(deps, held) = ToldBy(more, value)
<1>1. PICK a : a = ToldBy(deps, held)
  OBVIOUS
<1>2. PICK b : b = ToldBy(more, value)
  OBVIOUS
<1>3. /\ \A i \in DOMAIN deps : Ask(h, SubSeq(a, 1, i - 1), Registered) = deps[i]
      /\ \A i \in DOMAIN more : Ask(h, SubSeq(b, 1, i - 1), Registered) = more[i]
      /\ Ask(h, a, Registered) = Done /\ Ask(h, b, Registered) = Done
  BY <1>1, <1>2 DEF Script, Ends
<1>4. PICK V : V = {value[deps[i]] : i \in DOMAIN deps} \cup {value[more[i]] : i \in DOMAIN more}
  OBVIOUS
<1>5. /\ Len(deps) \in Nat /\ DOMAIN deps = 1 .. Len(deps)
      /\ Len(more) \in Nat /\ DOMAIN more = 1 .. Len(more)
  BY LenProperties
<1>6. /\ a \in Seq(V) /\ Len(a) = Len(deps) /\ \A i \in 1 .. Len(deps) : a[i] = value[deps[i]]
  <2>1. a = [i \in 1 .. Len(deps) |-> value[deps[i]]]
    BY <1>1, <1>5 DEF ToldBy
  <2>2. \A i \in 1 .. Len(deps) : value[deps[i]] \in V
    BY <1>4, <1>5
  <2> QED BY <1>5, <2>1, <2>2
<1>7. /\ b \in Seq(V) /\ Len(b) = Len(more) /\ \A i \in 1 .. Len(more) : b[i] = value[more[i]]
  <2>1. b = [i \in 1 .. Len(more) |-> value[more[i]]]
    BY <1>2, <1>5 DEF ToldBy
  <2>2. \A i \in 1 .. Len(more) : value[more[i]] \in V
    BY <1>4, <1>5
  <2> QED BY <1>5, <2>1, <2>2
<1>8. /\ SubSeq(a, 1, Len(deps)) = a /\ SubSeq(b, 1, Len(more)) = b
  BY <1>6, <1>7
<1>9. ASSUME NEW n \in Nat, n <= Len(deps), n <= Len(more),
             \A i \in 1 .. n : deps[i] = more[i]
      PROVE  SubSeq(a, 1, n) = SubSeq(b, 1, n)
  <2>1. SubSeq(a, 1, n) = [i \in 1 .. n |-> a[i]] /\ SubSeq(b, 1, n) = [i \in 1 .. n |-> b[i]]
    BY <1>6, <1>7, <1>9
  <2>2. \A i \in 1 .. n : a[i] = b[i]
    BY <1>5, <1>6, <1>7, <1>9
  <2> QED BY <2>1, <2>2
<1>10. \A i \in 1 .. Len(deps) : i <= Len(more) => deps[i] = more[i]
  <2> SUFFICES ASSUME ~(\A i \in 1 .. Len(deps) : i <= Len(more) => deps[i] = more[i])
               PROVE  FALSE
    OBVIOUS
  <2>1. PICK T : T = {i \in 1 .. Len(deps) : i <= Len(more) /\ deps[i] # more[i]}
    OBVIOUS
  <2>2. T # {} /\ T \in SUBSET Nat
    BY <1>5, <2>1
  <2>3. PICK m \in T : \A n \in T : m <= n
    BY <2>2, LeastNumber
  <2>4. /\ m \in 1 .. Len(deps) /\ m <= Len(more) /\ deps[m] # more[m]
        /\ m - 1 \in Nat /\ m \in DOMAIN deps /\ m \in DOMAIN more
    BY <1>5, <2>1
  <2>5. \A i \in 1 .. m - 1 : deps[i] = more[i]
    BY <1>5, <2>1, <2>3, <2>4
  <2>6. SubSeq(a, 1, m - 1) = SubSeq(b, 1, m - 1)
    <3>1. m - 1 <= Len(deps) /\ m - 1 <= Len(more)
      BY <1>5, <2>4
    <3> QED BY <1>9, <2>4, <2>5, <3>1
  <2> QED BY <1>3, <2>4, <2>6
<1>11. Len(deps) = Len(more)
  <2>1. CASE Len(deps) < Len(more)
    <3>1. Len(deps) + 1 \in DOMAIN more /\ (Len(deps) + 1) - 1 = Len(deps)
      BY <1>5, <2>1
    <3>2. SubSeq(b, 1, Len(deps)) = a
      <4>1. \A i \in 1 .. Len(deps) : deps[i] = more[i]
        BY <1>5, <1>10, <2>1
      <4>2. Len(deps) <= Len(deps) /\ Len(deps) <= Len(more)
        BY <1>5, <2>1
      <4> QED BY <1>5, <1>8, <1>9, <4>1, <4>2
    <3>3. more[Len(deps) + 1] = Done
      BY <1>3, <3>1, <3>2
    <3>4. more[Len(deps) + 1] \in Key
      BY <1>5, <3>1, ElementOfSeq
    <3> QED BY <3>3, <3>4, KeyAssumption
  <2>2. CASE Len(more) < Len(deps)
    <3>1. Len(more) + 1 \in DOMAIN deps /\ (Len(more) + 1) - 1 = Len(more)
      BY <1>5, <2>2
    <3>2. SubSeq(a, 1, Len(more)) = b
      <4>1. \A i \in 1 .. Len(more) : deps[i] = more[i]
        BY <1>5, <1>10, <2>2
      <4>2. Len(more) <= Len(deps) /\ Len(more) <= Len(more)
        BY <1>5, <2>2
      <4> QED BY <1>5, <1>8, <1>9, <4>1, <4>2
    <3>3. deps[Len(more) + 1] = Done
      BY <1>3, <3>1, <3>2
    <3>4. deps[Len(more) + 1] \in Key
      BY <1>5, <3>1, ElementOfSeq
    <3> QED BY <3>3, <3>4, KeyAssumption
  <2>3. Len(deps) < Len(more) \/ Len(more) < Len(deps) \/ Len(deps) = Len(more)
    <3>1. Len(deps) \in Nat /\ Len(more) \in Nat
      BY <1>5
    <3> QED BY <3>1
  <2> QED BY <2>1, <2>2, <2>3
<1>12. a = b
  <2>1. Len(deps) <= Len(deps) /\ Len(deps) <= Len(more)
    BY <1>5, <1>11
  <2>2. \A i \in 1 .. Len(deps) : deps[i] = more[i]
    BY <1>5, <1>10, <1>11
  <2>3. SubSeq(a, 1, Len(deps)) = SubSeq(b, 1, Len(deps))
    BY <1>5, <1>9, <2>1, <2>2
  <2> QED BY <1>8, <1>11, <2>3
<1>13. deps = more
  BY <1>5, <1>10, <1>11
<1> QED BY <1>1, <1>2, <1>12, <1>13

\* Where a fresh entry and the build agree.
Agrees(k, value, diags) ==
  Says(k, memo[k].value) = Says(k, value[k]) /\ (k \notin Input => memo[k].diags = diags[k])

LEMMA BuildStep ==
  ASSUME Proper, NobodyAsksCollectors, IInv, NEW value, NEW diags, IsBuild(value, diags)
  PROVE  \A k \in Key : Fresh(k) => Agrees(k, value, diags)
<1> SUFFICES ASSUME ~(\A k \in Key : Fresh(k) => Agrees(k, value, diags)) PROVE FALSE
  OBVIOUS
<1>1. PICK B : B = {k \in Key : Fresh(k) /\ ~Agrees(k, value, diags)}
  OBVIOUS
<1>2. PICK T : T = {rank[k] : k \in B}
  OBVIOUS
<1>3. B # {} /\ B \subseteq Key /\ T # {} /\ T \in SUBSET Nat
  BY <1>1, <1>2 DEF Proper
<1>4. PICK h \in B : \A k \in B : rank[h] <= rank[k]
  <2>1. PICK m \in T : \A n \in T : m <= n
    BY <1>3, LeastNumber
  <2> QED BY <1>2, <2>1
<1>5. h \in Key /\ Fresh(h) /\ memo[h] # None /\ EntryOK(h) /\ ~Agrees(h, value, diags)
  BY <1>1, <1>4 DEF IInv, MemoInv, Fresh
<1>6. h \notin Input
  <2> SUFFICES ASSUME h \in Input PROVE FALSE
    OBVIOUS
  <2>1. h \in Registered
    BY <1>5 DEF Registered
  <2> QED BY <1>5, <2>1 DEF Agrees, IsBuild
<1>7. Replays(h)
  BY <1>5, <1>6, ReplaysStep DEF FreshReplays
<1>8. PICK deps : deps = memo[h].deps
  OBVIOUS
<1>9. PICK held : held = [k \in Key |-> memo[k].value]
  OBVIOUS
<1>10. PICK a : a = Given(h)
  OBVIOUS
<1>11. deps \in Seq(Key) /\ a = ToldBy(deps, held)
  <2>1. deps \in Seq(Key)
    BY <1>5, <1>8 DEF EntryOK
  <2>2. \A i \in DOMAIN deps : held[deps[i]] = memo[deps[i]].value
    BY <1>9, <2>1, ElementOfSeq
  <2> QED BY <1>8, <1>10, <2>1, <2>2 DEF Given, ToldBy
<1>12. /\ Script(h, deps, a, Registered) /\ Ask(h, a, Registered) = Done
       /\ Says(h, memo[h].value) = Result(h, a, Registered)
       /\ memo[h].diags = Emits(h, a, Registered)
       /\ \A i \in DOMAIN deps : Fresh(deps[i]) /\ rank[deps[i]] < rank[h]
  BY <1>5, <1>7, <1>8, <1>10 DEF Replays, Script, EntryOK
<1>13. PICK more \in Seq(Key) : BuiltBy(h, more, value, diags)
  BY <1>5, <1>6 DEF IsBuild, EntryOK
<1>14. PICK b : b = ToldBy(more, value)
  OBVIOUS
<1>15. /\ Ends(h, more, b)
       /\ Says(h, value[h]) = Result(h, b, Registered) /\ diags[h] = Emits(h, b, Registered)
  BY <1>13, <1>14 DEF BuiltBy
<1>16. ASSUME NEW i \in DOMAIN deps PROVE held[deps[i]] = value[deps[i]]
  <2>1. PICK d : d = deps[i]
    OBVIOUS
  <2>2. d \in Key /\ Fresh(d) /\ rank[d] < rank[h]
    BY <1>11, <1>12, <2>1, ElementOfSeq
  <2>3. d \notin B
    <3>1. rank[d] \in Nat /\ rank[h] \in Nat
      BY <1>5, <2>2 DEF Proper
    <3> QED BY <1>4, <2>2, <3>1
  <2>4. Says(d, memo[d].value) = Says(d, value[d])
    BY <1>1, <2>2, <2>3 DEF Agrees
  <2>5. d \notin Collectors
    <3>1. Len(deps) \in Nat /\ DOMAIN deps = 1 .. Len(deps) /\ i \in 1 .. Len(deps)
      BY <1>11, LenProperties
    <3>2. SubSeq(a, 1, i - 1) = [j \in 1 .. i - 1 |-> a[j]] /\ i - 1 \in Nat
      BY <3>1
    <3>3. PICK told : told = SubSeq(a, 1, i - 1)
      OBVIOUS
    <3>4. DOMAIN told = 1 .. i - 1
      BY <3>2, <3>3
    <3>5. Ask(h, told, Registered) = d
      BY <1>12, <2>1, <3>3 DEF Script
    <3>6. Registered \in SUBSET Input
      BY DEF Registered
    <3> QED BY <1>5, <1>6, <3>2, <3>4, <3>5, <3>6 DEF NobodyAsksCollectors
  <2> QED BY <1>9, <2>1, <2>2, <2>4, <2>5 DEF Says
<1>17. a = b
  <2>1. Ends(h, deps, ToldBy(deps, held)) /\ Ends(h, more, ToldBy(more, value))
    BY <1>11, <1>12, <1>14, <1>15 DEF Ends
  <2>2. ToldBy(deps, held) = ToldBy(more, value)
    BY <1>5, <1>11, <1>13, <1>16, <2>1, OneRun
  <2> QED BY <1>11, <1>14, <2>2
<1> QED BY <1>5, <1>12, <1>15, <1>17 DEF Agrees

\* A demand computes the clean build: there is only one way to build the present
\* texts, and every entry that is fresh has its value and its diagnostics, in
\* whatever order files were edited and queries demanded (lib.rs 443-445).
THEOREM CleanBuilds ==
  ASSUME Proper, ~LateFiles, NobodyAsksCollectors
  PROVE  Spec => [](\A value, diags :
                      IsBuild(value, diags) => \A k \in Key : Fresh(k) => Agrees(k, value, diags))
<1>1. IInv => \A value, diags :
                IsBuild(value, diags) => \A k \in Key : Fresh(k) => Agrees(k, value, diags)
  BY BuildStep
<1> QED BY <1>1, Invariance, PTL

\* An evaluation in flight has a reason: there is no entry, or one of its
\* dependencies changed after the entry was last found fresh.
Reasoned ==
  \A i \in DOMAIN stack :
    stack[i].mode = "eval" /\ memo[stack[i].key] # None => Drifts(stack[i].key)

\* Only what drifted is evaluated again, from the start of the evaluation until it
\* is installed (db.rs 473-475).
THEOREM EvaluatesWhatDrifted == ASSUME Proper, ~LateFiles PROVE Spec => []Reasoned
<1>1. IInv => Reasoned
  BY DEF IInv, StackInv, CallOK, EvalOK, Reasoned
<1> QED BY <1>1, Invariance, PTL
=============================================================================
