----------------------- MODULE OwnershipOracleProofs -----------------------
(* Proofs about OwnershipOracle, for any functions, bodies and edits. *)
EXTENDS OwnershipOracle, FiniteSetTheorems, SequenceTheorems, WellFoundedInduction, TLAPS

-----------------------------------------------------------------------------
(* The walk reads nothing of the contracts but those of the callees. *)

\* collect_facts under two tables that agree on the callees of the body.
LEMMA CollectReadsCallees ==
  ASSUME NEW body, NEW v, NEW w,
         \A c \in Callees(body) : v[c] = w[c]
  PROVE  Collect(body, v) = Collect(body, w)
<1>1. \A p \in body.passes : p.callee \in Callees(body)
  BY DEF Callees
<1>2. \A p \in body.passes :
        FlagsOf(v[p.callee], p.returned) = FlagsOf(w[p.callee], p.returned)
  BY <1>1
<1>3. {FlagsOf(v[p.callee], p.returned) : p \in body.passes}
        = {FlagsOf(w[p.callee], p.returned) : p \in body.passes}
  BY <1>2
<1> QED BY <1>3 DEF Collect

\* Calls of a lowered body name definitions of the module.
LEMMA CalleesPresent ==
  ASSUME NEW f PROVE Callees(Resolved(f)) \subseteq DOMAIN order
<1>1. \A g \in Present : DefId(g) \in DOMAIN order
  BY DEF Present, DefId
<1> QED BY <1>1 DEF Callees, Resolved

\* What is queued is a sequence of callers.
LEMMA AscendingSeq ==
  ASSUME NEW S, IsFiniteSet(S), NEW s \in Ascending(S) PROVE s \in Seq(S)
  BY FS_CardinalityType DEF Ascending

-----------------------------------------------------------------------------
(* The inductive invariant *)

\* The definitions are distinct.
OrderInv ==
  /\ order \in Seq(Fns)
  /\ \A i, j \in DOMAIN order : order[i] = order[j] => i = j

\* Every definition has a body.
CodeInv == code \in [Present -> Bodies]

\* A stamp tells bodies apart: a body stamped with the present revision is the
\* present one, so a later change gets a later stamp.
StampInv ==
  /\ revision \in Nat /\ ranAt \in Nat /\ ranAt <= revision
  /\ \A f \in Fns : seen[f].at \in Nat /\ seen[f].at <= revision
  /\ \A f \in Present : seen[f].at = revision => seen[f].body = Resolved(f)

\* An entry with the stamp of the body holds what a walk over that body finds
\* under the contracts it recorded.
Collected(f) ==
  /\ facts[f].facts = Collect(seen[f].body, facts[f].consumed)
  /\ DOMAIN facts[f].consumed = Callees(seen[f].body)

FactsInv ==
  /\ DOMAIN facts = Fns /\ DOMAIN seen = Fns
  /\ \A f \in Fns : facts[f] # None =>
        /\ facts[f].stamp \in Nat /\ facts[f].stamp <= seen[f].at
        /\ facts[f].stamp = seen[f].at => Collected(f)

\* Definition i was visited in this round, and its contract is that of its entry.
Visited(i) ==
  /\ facts[order[i]] # None
  /\ facts[order[i]].stamp = seen[order[i]].at
  /\ contracts[i] = Classify(facts[order[i]].facts)

\* Inside a run every definition is queued or visited.
RunInv ==
  pc = "work" =>
    /\ \A f \in Present : seen[f].body = Resolved(f)
    /\ DOMAIN contracts = DOMAIN order
    /\ work \in Seq(DOMAIN order)
    /\ \A i \in DOMAIN order : i \in InSeq(work) \/ Visited(i)

IInv == OrderInv /\ CodeInv /\ StampInv /\ FactsInv /\ RunInv /\ FixpointReached

\* The full worklist.
LEMMA AllDefsSeq ==
  ASSUME OrderInv
  PROVE  AllDefs \in Seq(DOMAIN order) /\ InSeq(AllDefs) = DOMAIN order
<1>1. PICK n \in Nat : DOMAIN order = 1 .. n
  BY DEF OrderInv
<1>2. AllDefs \in [1 .. n -> DOMAIN order] /\ \A k \in 1 .. n : AllDefs[k] = k
  BY <1>1 DEF AllDefs
<1>3. AllDefs \in Seq(DOMAIN order)
  BY <1>1, <1>2
<1>4. DOMAIN AllDefs = DOMAIN order
  BY <1>1, <1>2
<1> QED BY <1>1, <1>2, <1>3, <1>4 DEF InSeq

-----------------------------------------------------------------------------
(* Edits *)

\* Whatever an edit does to the module, memos and contracts keep their meaning:
\* the new revision is later than every stamp and than the last run.
LEMMA EditKeepsMemo ==
  ASSUME IInv, pc = "idle", revision' = revision + 1, UNCHANGED oracle, OrderInv', CodeInv'
  PROVE  IInv'
<1> USE DEF IInv, oracle
<1>1. \A f \in Present' : f \in Fns
  BY DEF OrderInv, Present
<1>2. StampInv'
  BY <1>1 DEF StampInv
<1>3. FactsInv'
  BY DEF FactsInv, Collected
<1>4. RunInv'
  BY DEF RunInv
<1>5. FixpointReached'
  BY DEF FixpointReached, Settled, StampInv
<1> QED BY <1>2, <1>3, <1>4, <1>5

\* A definition that is inserted or deleted leaves the others distinct.
LEMMA Inserted ==
  ASSUME OrderInv, NEW f \in Fns, NEW i \in 1 .. Len(order) + 1, NEW body,
         AddFn(f, i, body)
  PROVE  OrderInv' /\ Present' = Present \cup {f}
<1> DEFINE n == Len(order)
           front == SubSeq(order, 1, i - 1)
           back  == SubSeq(order, i, n)
<1>0. n \in Nat /\ DOMAIN order = 1 .. n /\ \A k \in 1 .. n : order[k] \in Fns
  BY DEF OrderInv
<1> HIDE DEF n
<1>1. /\ front \in Seq(Fns) /\ Len(front) = i - 1
      /\ \A k \in 1 .. i - 1 : front[k] = order[k]
  BY <1>0, SubSeqProperties, SMTT(40) DEF OrderInv, n
<1>2. /\ back \in Seq(Fns) /\ Len(back) = n - i + 1
      /\ \A k \in 1 .. n - i + 1 : back[k] = order[i + k - 1]
  BY <1>0, SubSeqProperties, SMTT(40) DEF OrderInv, n
<1>3. order' = front \o <<f>> \o back
  BY DEF AddFn, n
<1> HIDE DEF front, back
<1>4. /\ front \o <<f>> \in Seq(Fns) /\ Len(front \o <<f>>) = i
      /\ \A k \in 1 .. i : (front \o <<f>>)[k] = IF k < i THEN order[k] ELSE f
  <2>1. <<f>> \in Seq(Fns) /\ Len(<<f>>) = 1 /\ <<f>>[1] = f
    OBVIOUS
  <2> QED BY <1>0, <1>1, <2>1, ConcatProperties
<1>5. /\ order' \in Seq(Fns) /\ Len(order') = n + 1
      /\ \A k \in 1 .. n + 1 :
            order'[k] = IF k <= i THEN (front \o <<f>>)[k] ELSE back[k - i]
  <2> DEFINE head == front \o <<f>>
  <2>1. i + (n - i + 1) = n + 1
    BY <1>0
  <2>2. head \in Seq(Fns) /\ Len(head) = i
    BY <1>4
  <2> HIDE DEF head
  <2>3. /\ head \o back \in Seq(Fns)
        /\ Len(head \o back) = Len(head) + Len(back)
        /\ \A k \in 1 .. Len(head) + Len(back) :
              (head \o back)[k] = IF k <= Len(head) THEN head[k] ELSE back[k - Len(head)]
    BY <1>2, <2>2, ConcatProperties
  <2>4. Len(head) = i /\ Len(head) + Len(back) = n + 1
    BY <1>2, <2>1, <2>2
  <2>5. order' = head \o back
    BY <1>3 DEF head
  <2> QED BY <2>3, <2>4, <2>5 DEF head
<1>6. ASSUME NEW k \in 1 .. n + 1
      PROVE  /\ k < i => k \in 1 .. n /\ order'[k] = order[k]
             /\ k = i => order'[k] = f
             /\ k > i => k - 1 \in 1 .. n /\ order'[k] = order[k - 1]
  <2>1. k > i => back[k - i] = order[i + (k - i) - 1]
    BY <1>0, <1>2
  <2>2. k > i => i + (k - i) - 1 = k - 1
    BY <1>0
  <2> QED BY <1>0, <1>4, <1>5, <2>1, <2>2, SMTT(40)
<1>7. \A k \in 1 .. n : order[k] # f
  BY <1>0 DEF AddFn, Present
<1>8. ASSUME NEW j \in 1 .. n + 1, NEW k \in 1 .. n + 1, order'[j] = order'[k]
      PROVE  j = k
  <2>1. \A l, m \in 1 .. n : order[l] = order[m] => l = m
    BY <1>0 DEF OrderInv
  <2> QED BY <1>0, <1>6, <1>7, <1>8, <2>1
<1>9. DOMAIN order' = 1 .. n + 1 /\ i \in 1 .. n + 1
  BY <1>0, <1>5 DEF n
<1>10. Present' = Present \cup {f}
  <2>1. ASSUME NEW k \in 1 .. n
        PROVE  \E j \in 1 .. n + 1 : order'[j] = order[k]
    <3>1. CASE k < i
      <4>1. k \in 1 .. n + 1
        BY <1>0
      <4> QED BY <1>6, <3>1, <4>1
    <3>2. CASE k >= i
      <4>1. k + 1 \in 1 .. n + 1 /\ k + 1 > i /\ (k + 1) - 1 = k
        BY <1>0, <3>2
      <4> QED BY <1>6, <4>1
    <3> QED BY <1>0, <3>1, <3>2
  <2>2. \A k \in 1 .. n + 1 : k < i \/ k = i \/ k > i
    BY <1>0
  <2>3. \A k \in 1 .. n + 1 : order'[k] = f \/ \E j \in 1 .. n : order'[k] = order[j]
    BY <1>6, <2>2
  <2>4. order'[i] = f
    BY <1>6, <1>9
  <2>5. \A g : g \in Present <=> \E j \in 1 .. n : g = order[j]
    BY <1>0 DEF Present
  <2>6. \A g : g \in Present' <=> \E j \in 1 .. n + 1 : g = order'[j]
    BY <1>9 DEF Present
  <2>7. \A g : g \in Present' <=> g \in Present \/ g = f
    BY <1>9, <2>1, <2>3, <2>4, <2>5, <2>6
  <2> QED BY <2>7
<1> QED BY <1>5, <1>8, <1>9, <1>10 DEF OrderInv

LEMMA Deleted ==
  ASSUME OrderInv, NEW i \in DOMAIN order, RemoveFn(i)
  PROVE  OrderInv' /\ Present' = Present \ {order[i]}
<1> DEFINE n == Len(order)
           front == SubSeq(order, 1, i - 1)
           back  == SubSeq(order, i + 1, n)
<1>0. n \in Nat /\ DOMAIN order = 1 .. n /\ \A k \in 1 .. n : order[k] \in Fns
  BY DEF OrderInv
<1> HIDE DEF n
<1>1. /\ front \in Seq(Fns) /\ Len(front) = i - 1
      /\ \A k \in 1 .. i - 1 : front[k] = order[k]
  BY <1>0, SubSeqProperties, SMTT(40) DEF OrderInv, n
<1>2. /\ back \in Seq(Fns) /\ Len(back) = n - i
      /\ \A k \in 1 .. n - i : back[k] = order[i + k]
  BY <1>0, SubSeqProperties, SMTT(40) DEF OrderInv, n
<1>3. order' = front \o back
  BY DEF RemoveFn, n
<1> HIDE DEF front, back
<1>4. /\ order' \in Seq(Fns) /\ Len(order') = n - 1
      /\ \A k \in 1 .. n - 1 :
            order'[k] = IF k <= i - 1 THEN front[k] ELSE back[k - (i - 1)]
  BY <1>0, <1>1, <1>2, <1>3, ConcatProperties, SMTT(40)
<1>5. ASSUME NEW k \in 1 .. n - 1
      PROVE  /\ k < i => k \in 1 .. n /\ order'[k] = order[k]
             /\ k >= i => k + 1 \in 1 .. n /\ order'[k] = order[k + 1]
  <2>1. k >= i => back[k - (i - 1)] = order[i + (k - (i - 1))]
    BY <1>0, <1>2
  <2>2. k >= i => i + (k - (i - 1)) = k + 1
    BY <1>0
  <2> QED BY <1>0, <1>1, <1>4, <2>1, <2>2, SMTT(40)
<1>6. \A l, m \in 1 .. n : order[l] = order[m] => l = m
  BY <1>0 DEF OrderInv
<1>7. ASSUME NEW j \in 1 .. n - 1, NEW k \in 1 .. n - 1, order'[j] = order'[k]
      PROVE  j = k
  BY <1>0, <1>5, <1>6, <1>7
<1>8. DOMAIN order' = 1 .. n - 1
  BY <1>0, <1>4
<1>9. Present' = Present \ {order[i]}
  <2>1. ASSUME NEW k \in 1 .. n, k # i
        PROVE  \E j \in 1 .. n - 1 : order'[j] = order[k]
    <3>1. CASE k < i
      <4>1. k \in 1 .. n - 1
        BY <1>0, <3>1
      <4> QED BY <1>5, <3>1, <4>1
    <3>2. CASE k > i
      <4>1. k - 1 \in 1 .. n - 1 /\ k - 1 >= i /\ (k - 1) + 1 = k
        BY <1>0, <3>2
      <4> QED BY <1>5, <4>1
    <3> QED BY <1>0, <2>1, <3>1, <3>2
  <2>2. ASSUME NEW k \in 1 .. n - 1
        PROVE  \E j \in 1 .. n : j # i /\ order'[k] = order[j]
    <3>1. CASE k < i
      BY <1>0, <1>5, <3>1
    <3>2. CASE k >= i
      <4>1. k + 1 # i
        BY <1>0, <3>2
      <4> QED BY <1>5, <3>2, <4>1
    <3> QED BY <1>0, <3>1, <3>2
  <2>3. \A g : g \in Present <=> \E j \in 1 .. n : g = order[j]
    BY <1>0 DEF Present
  <2>4. \A g : g \in Present' <=> \E j \in 1 .. n - 1 : g = order'[j]
    BY <1>8 DEF Present
  <2>5. \A j \in 1 .. n : order[j] = order[i] => j = i
    BY <1>0, <1>6
  <2>6. \A g : g \in Present' <=> g \in Present /\ g # order[i]
    <3>1. ASSUME NEW g \in Present' PROVE g \in Present /\ g # order[i]
      <4>1. PICK k \in 1 .. n - 1 : g = order'[k]
        BY <2>4, <3>1
      <4>2. PICK j \in 1 .. n : j # i /\ order'[k] = order[j]
        BY <2>2
      <4> QED BY <2>3, <2>5, <4>1, <4>2
    <3>2. ASSUME NEW g \in Present, g # order[i] PROVE g \in Present'
      <4>1. PICK k \in 1 .. n : g = order[k]
        BY <2>3, <3>2
      <4> QED BY <2>1, <2>4, <3>2, <4>1
    <3> QED BY <3>1, <3>2
  <2> QED BY <2>6
<1> QED BY <1>4, <1>7, <1>8, <1>9 DEF OrderInv

\* The module stays one of distinct definitions, each with a body.
LEMMA EditKeepsModule ==
  ASSUME OrderInv, CodeInv, Edit
  PROVE  OrderInv' /\ CodeInv'
<1>1. CASE \E f \in Fns, body \in Bodies : EditBody(f, body)
  <2>1. OrderInv' /\ Present' = Present
    BY <1>1 DEF EditBody, oracle, OrderInv, Present
  <2>2. code' \in [Present -> Bodies]
    BY <1>1 DEF EditBody, CodeInv
  <2> QED BY <2>1, <2>2 DEF CodeInv
<1>2. ASSUME NEW f \in Fns, NEW i \in 1 .. Len(order) + 1, NEW body \in Bodies,
             AddFn(f, i, body)
      PROVE  OrderInv' /\ CodeInv'
  <2>1. OrderInv' /\ Present' = Present \cup {f}
    BY <1>2, Inserted
  <2>2. code' \in [Present \cup {f} -> Bodies]
    BY <1>2 DEF AddFn, CodeInv
  <2> QED BY <2>1, <2>2 DEF CodeInv
<1>3. ASSUME NEW i \in DOMAIN order, RemoveFn(i)
      PROVE  OrderInv' /\ CodeInv'
  <2>1. OrderInv' /\ Present' = Present \ {order[i]}
    BY <1>3, Deleted
  <2>2. code' \in [Present \ {order[i]} -> Bodies]
    BY <1>3 DEF RemoveFn, CodeInv
  <2> QED BY <2>1, <2>2 DEF CodeInv
<1> QED BY <1>1, <1>2, <1>3 DEF Edit

-----------------------------------------------------------------------------
(* The run *)

\* Demanding the bodies gives every changed one a new stamp.
LEMMA InferStep ==
  ASSUME IInv, Infer
  PROVE  IInv'
<1> USE DEF IInv
<1>1. OrderInv' /\ CodeInv' /\ Present' = Present /\ \A f : Resolved(f)' = Resolved(f)
  BY DEF Infer, program, OrderInv, CodeInv, Present, Resolved, DefId
<1>2. \A f \in Fns :
        \/ seen'[f] = seen[f] /\ (f \in Present => seen[f].body = Resolved(f))
        \/ /\ seen'[f].body = Resolved(f) /\ seen'[f].at = revision
           /\ seen[f].at < revision
  BY DEF Infer, Stamped, StampInv
<1>3. \A f \in Present : f \in Fns
  BY DEF OrderInv, Present
<1>4. StampInv'
  BY <1>1, <1>2, <1>3 DEF Infer, program, StampInv
<1>5. FactsInv'
  <2>1. facts' = facts /\ DOMAIN seen' = Fns
    BY DEF Infer, Stamped
  <2>2. ASSUME NEW f \in Fns, facts[f] # None
        PROVE  /\ facts[f].stamp \in Nat /\ facts[f].stamp <= seen'[f].at
               /\ facts[f].stamp = seen'[f].at => Collected(f)'
    <3>1. CASE seen'[f] = seen[f]
      BY <2>1, <2>2, <3>1 DEF FactsInv, Collected
    <3>2. CASE seen'[f].at = revision /\ seen[f].at < revision
      BY <2>2, <3>2 DEF FactsInv, StampInv
    <3> QED BY <1>2, <3>1, <3>2
  <2> QED BY <2>1, <2>2 DEF FactsInv
<1>6. RunInv'
  <2>1. \A f \in Present' : seen'[f].body = Resolved(f)'
    BY <1>1, <1>2, <1>3
  <2>2. DOMAIN contracts' = DOMAIN order'
    BY <1>1 DEF Infer, Seed, program
  <2>3. work' \in Seq(DOMAIN order') /\ InSeq(work') = DOMAIN order'
    BY <1>1, AllDefsSeq DEF Infer, program
  <2> QED BY <2>1, <2>2, <2>3 DEF RunInv
<1>7. FixpointReached'
  BY DEF Infer, FixpointReached, Settled
<1> QED BY <1>1, <1>4, <1>5, <1>6, <1>7

\* A visit leaves a definition with the facts of its present body.
LEMMA EntryFits ==
  ASSUME IInv, pc = "work", NEW f \in Fns
  PROVE  /\ EntryFor(f) # None
         /\ EntryFor(f).stamp = seen[f].at
         /\ EntryFor(f).facts = Collect(seen[f].body, EntryFor(f).consumed)
         /\ DOMAIN EntryFor(f).consumed = Callees(seen[f].body)
<1>1. CASE MemoHit(f)
  BY <1>1 DEF IInv, FactsInv, Collected, EntryFor, MemoHit
<1>2. CASE ~MemoHit(f)
  <2>1. EntryFor(f) = Walked(f)
    BY <1>2 DEF EntryFor
  <2>2. Walked(f) # None
    <3>1. "consumed" \in DOMAIN Walked(f) /\ "consumed" \notin DOMAIN None
      BY DEF Walked, None
    <3> QED BY <3>1
  <2>3. DOMAIN Consumed(seen[f].body) = Callees(seen[f].body)
    BY DEF Consumed
  <2> QED BY <2>1, <2>2, <2>3 DEF Walked
<1> QED BY <1>1, <1>2

LEMMA VisitStep ==
  ASSUME IInv, Visit
  PROVE  IInv'
<1> DEFINE i == Head(work)
           f == order[i]
           next == Classify(EntryFor(f).facts)
<1> USE DEF IInv
<1>1. work \in Seq(DOMAIN order) /\ work # << >> /\ pc = "work"
  BY DEF Visit, RunInv
<1>2. /\ i \in DOMAIN order /\ f \in Fns
      /\ Tail(work) \in Seq(DOMAIN order)
      /\ \A j \in InSeq(work) : j = i \/ j \in InSeq(Tail(work))
  <2>1. i \in DOMAIN order /\ Tail(work) \in Seq(DOMAIN order)
    BY <1>1
  <2>2. ASSUME NEW k \in DOMAIN work, k # 1
        PROVE  k - 1 \in DOMAIN Tail(work) /\ work[k] = Tail(work)[k - 1]
    BY <1>1, <2>2
  <2>3. ASSUME NEW j \in InSeq(work), j # i
        PROVE  j \in InSeq(Tail(work))
    <3>1. PICK k \in DOMAIN work : j = work[k]
      BY DEF InSeq
    <3>2. k # 1
      BY <1>1, <2>3, <3>1
    <3> QED BY <2>2, <3>1, <3>2 DEF InSeq
  <2> QED BY <2>1, <2>3 DEF OrderInv
<1>3. /\ facts' = [facts EXCEPT ![f] = EntryFor(f)]
      /\ contracts' = [contracts EXCEPT ![i] = next]
      /\ UNCHANGED <<program, seen, prev, pc, hypothesis, ranAt>>
  BY DEF Visit
<1>4. PICK queue \in Ascending(Requeued(i, next)) : work' = Tail(work) \o queue
  BY DEF Visit
<1> HIDE DEF next
<1>5. queue \in Seq(DOMAIN order)
  <2>1. Requeued(i, next) \subseteq DOMAIN order
    BY DEF Requeued, Callers
  <2>2. IsFiniteSet(DOMAIN order)
    BY FS_Interval DEF OrderInv
  <2>3. IsFiniteSet(Requeued(i, next))
    BY <2>1, <2>2, FS_Subset
  <2>4. queue \in Seq(Requeued(i, next))
    BY <1>4, <2>3, AscendingSeq
  <2> QED BY <2>1, <2>4
<1>6. work' \in Seq(DOMAIN order) /\ InSeq(Tail(work)) \subseteq InSeq(work')
  BY <1>2, <1>4, <1>5 DEF InSeq
<1>7. OrderInv' /\ CodeInv' /\ Present' = Present /\ order' = order /\ \A g : Resolved(g)' = Resolved(g)
  BY <1>3 DEF program, OrderInv, CodeInv, Present, Resolved, DefId
<1>8. StampInv'
  BY <1>3, <1>7 DEF program, StampInv
<1>9. FactsInv'
  BY <1>1, <1>2, <1>3, EntryFits DEF FactsInv, Collected, StampInv
<1>10. RunInv'
  <2>1. ASSUME NEW j \in DOMAIN order, j \notin InSeq(work')
        PROVE  Visited(j)'
    <3>1. CASE j = i
      BY <1>1, <1>2, <1>3, <1>7, <3>1, EntryFits DEF Visited, next, FactsInv, RunInv
    <3>2. CASE j # i
      <4>1. Visited(j)
        BY <1>1, <1>2, <1>6, <2>1, <3>2 DEF RunInv
      <4>2. facts'[order[j]] = facts[order[j]] /\ contracts'[j] = contracts[j]
        BY <1>1, <1>2, <1>3, <3>2 DEF OrderInv, FactsInv, RunInv
      <4> QED BY <1>3, <1>7, <4>1, <4>2 DEF Visited
    <3> QED BY <3>1, <3>2
  <2>2. DOMAIN contracts' = DOMAIN order
    BY <1>1, <1>3 DEF RunInv
  <2> QED BY <1>1, <1>3, <1>6, <1>7, <2>1, <2>2 DEF RunInv
<1>11. FixpointReached'
  BY <1>1, <1>3 DEF FixpointReached, Settled
<1> QED BY <1>7, <1>8, <1>9, <1>10, <1>11

LEMMA NextRoundStep ==
  ASSUME IInv, NextRound
  PROVE  IInv'
<1> USE DEF IInv
<1>1. OrderInv' /\ CodeInv' /\ Present' = Present /\ order' = order /\ \A g : Resolved(g)' = Resolved(g)
  BY DEF NextRound, program, OrderInv, CodeInv, Present, Resolved, DefId
<1>2. StampInv'
  BY <1>1 DEF NextRound, program, StampInv
<1>3. FactsInv'
  BY DEF NextRound, FactsInv, Collected
<1>4. RunInv'
  <2>1. work' \in Seq(DOMAIN order) /\ InSeq(work') = DOMAIN order
    BY AllDefsSeq DEF NextRound
  <2>2. DOMAIN contracts' = DOMAIN order
    BY DEF NextRound, Seed
  <2> QED BY <1>1, <2>1, <2>2 DEF NextRound, RunInv
<1>5. FixpointReached'
  BY DEF NextRound, FixpointReached, Settled
<1> QED BY <1>1, <1>2, <1>3, <1>4, <1>5

\* Without drift the records of all entries agree with the contracts, so these
\* classify what the present bodies give under themselves.
LEMMA FinishStep ==
  ASSUME IInv, Finish
  PROVE  IInv'
<1> USE DEF IInv
<1>1. OrderInv' /\ CodeInv' /\ Present' = Present /\ order' = order /\ \A g : Resolved(g)' = Resolved(g)
  BY DEF Finish, program, OrderInv, CodeInv, Present, Resolved, DefId
<1>2. StampInv'
  BY <1>1 DEF Finish, program, StampInv
<1>3. FactsInv'
  BY DEF Finish, FactsInv, Collected
<1>4. ASSUME NEW i \in DOMAIN order
      PROVE  contracts[i] = Classify(Collect(Body(i), contracts))
  <2> DEFINE f == order[i]
  <2>1. f \in Fns /\ f \in Present
    BY DEF OrderInv, Present
  <2>2. Visited(i) /\ seen[f].body = Body(i) /\ DOMAIN contracts = DOMAIN order
    BY <2>1 DEF Finish, RunInv, InSeq, Body
  <2>3. Collected(f)
    BY <2>1, <2>2 DEF Visited, FactsInv
  <2>4. Holds(facts[f], Final)
    BY <2>1, <2>2 DEF Finish, Drifted, Visited
  <2>5. \A c \in Callees(Body(i)) : contracts[c] = facts[f].consumed[c]
    BY <2>2, <2>3, <2>4, CalleesPresent DEF Holds, Final, Collected, Body
  <2>6. Collect(Body(i), contracts) = Collect(Body(i), facts[f].consumed)
    BY <2>5, CollectReadsCallees
  <2> QED BY <2>2, <2>3, <2>6 DEF Visited, Collected
<1>5. FixpointReached'
  BY <1>1, <1>4 DEF Finish, FixpointReached, Body
<1>6. RunInv'
  BY DEF Finish, RunInv
<1> QED BY <1>1, <1>2, <1>3, <1>5, <1>6

-----------------------------------------------------------------------------
LEMMA Invariance == Spec => []IInv
<1>1. Init => IInv
  <2> SUFFICES ASSUME Init PROVE IInv
    OBVIOUS
  <2>1. OrderInv
    BY DEF Init, Modules, OrderInv
  <2>2. \A f \in Present : f \in Fns
    BY <2>1 DEF OrderInv, Present
  <2> QED BY <2>1, <2>2 DEF Init, IInv, CodeInv, StampInv, FactsInv, RunInv, FixpointReached, Settled
<1>2. IInv /\ [Next]_vars => IInv'
  <2> SUFFICES ASSUME IInv, [Next]_vars PROVE IInv'
    OBVIOUS
  <2>1. CASE Edit
    <3>1. pc = "idle" /\ revision' = revision + 1 /\ UNCHANGED oracle
      BY <2>1 DEF Edit, EditBody, AddFn, RemoveFn
    <3>2. OrderInv' /\ CodeInv'
      BY <2>1, EditKeepsModule DEF IInv
    <3> QED BY <3>1, <3>2, EditKeepsMemo
  <2>2. CASE Run
    BY <2>2, InferStep, VisitStep, NextRoundStep, FinishStep DEF Run
  <2>3. CASE UNCHANGED vars
    <3> USE <2>3 DEF vars
    <3>1. OrderInv' /\ CodeInv' /\ Present' = Present /\ \A f : Resolved(f)' = Resolved(f)
      BY DEF IInv, OrderInv, CodeInv, Present, Resolved, DefId
    <3>2. StampInv'
      BY <3>1 DEF IInv, StampInv
    <3>3. FactsInv'
      BY DEF IInv, FactsInv, Collected
    <3>4. RunInv'
      BY <3>1 DEF IInv, RunInv, Visited
    <3>5. FixpointReached'
      BY <3>1 DEF IInv, FixpointReached, Settled, Body
    <3> QED BY <3>1, <3>2, <3>3, <3>4, <3>5 DEF IInv
  <2> QED BY <2>1, <2>2, <2>3 DEF Next
<1> QED BY <1>1, <1>2, PTL DEF Spec

\* Whatever is reused from earlier runs, the contracts of a completed run are a
\* fixpoint over the present bodies: for all bodies and modules, any number of
\* edits, and recursion, renumbering and deletion included.
THEOREM ReachesFixpoint == Spec => []FixpointReached
<1>1. IInv => FixpointReached
  BY DEF IInv
<1> QED BY <1>1, Invariance, PTL

-----------------------------------------------------------------------------
(* The order of contracts, and the least fixpoint *)

\* Contracts are totally ordered, from "borrow" to "escape".
LEMMA ContractOrder ==
  /\ \A c \in Contracts : Weaker(c, c) /\ Weaker("borrow", c) /\ Weaker(c, "escape")
  /\ \A c, d \in Contracts : Weaker(c, d) \/ Weaker(d, c)
  /\ \A c, d \in Contracts : Weaker(c, d) /\ Weaker(d, c) => c = d
  /\ \A c, d, e \in Contracts : Weaker(c, d) /\ Weaker(d, e) => Weaker(c, e)
BY DEF Weaker, Contracts

LEMMA ClassifyContract ==
  ASSUME NEW fs PROVE Classify(fs) \in Contracts
BY DEF Classify, Contracts

\* A set of contracts has a weakest member.
LEMMA WeakestContract ==
  ASSUME NEW S \in SUBSET Contracts, S # {}
  PROVE  \E c \in S : \A d \in S : Weaker(c, d)
<1>1. CASE "borrow" \in S
  BY <1>1, ContractOrder
<1>2. CASE "borrow" \notin S /\ "borrow_mut" \in S
  BY <1>2 DEF Weaker, Contracts
<1>3. CASE "borrow" \notin S /\ "borrow_mut" \notin S /\ "move" \in S
  BY <1>3 DEF Weaker, Contracts
<1>4. CASE S = {"escape"}
  BY <1>4 DEF Weaker, Contracts
<1> QED BY <1>1, <1>2, <1>3, <1>4 DEF Contracts

\* A weaker contract sets no flag that a stronger one does not outdo.
LEMMA FlagsAscend ==
  ASSUME NEW c \in Contracts, NEW d \in Contracts, Weaker(c, d), NEW r
  PROVE  /\ FlagsOf(c, r) # {} /\ FlagsOf(c, r) \subseteq Flags
         /\ "escaped" \in FlagsOf(c, r) => "escaped" \in FlagsOf(d, r)
         /\ "moved" \in FlagsOf(c, r) => "moved" \in FlagsOf(d, r)
         /\ "mutated" \in FlagsOf(c, r) => FlagsOf(d, r) \cap {"mutated", "moved"} # {}
BY DEF Weaker, Contracts, FlagsOf, Flags

\* What a walk collects is of the body or of a call.
LEMMA CollectMember ==
  ASSUME NEW body, NEW v, NEW g
  PROVE  g \in Collect(body, v) <=>
           \/ g \in body.direct
           \/ \E p \in body.passes : g \in FlagsOf(v[p.callee], p.returned)
BY DEF Collect

\* Stronger contracts of the callees never make the caller's weaker.
LEMMA ClassifyAscends ==
  ASSUME NEW body, body.direct \subseteq Flags, NEW v, NEW w,
         \A c \in Callees(body) :
            v[c] \in Contracts /\ w[c] \in Contracts /\ Weaker(v[c], w[c])
  PROVE  Weaker(Classify(Collect(body, v)), Classify(Collect(body, w)))
<1> DEFINE F == Collect(body, v)
           G == Collect(body, w)
<1>1. \A p \in body.passes :
        LET x == FlagsOf(v[p.callee], p.returned)
            y == FlagsOf(w[p.callee], p.returned)
        IN  /\ x # {} /\ x \subseteq Flags
            /\ "escaped" \in x => "escaped" \in y
            /\ "moved" \in x => "moved" \in y
            /\ "mutated" \in x => y \cap {"mutated", "moved"} # {}
  BY FlagsAscend DEF Callees
<1>2. \A g : /\ g \in F <=> \/ g \in body.direct
                            \/ \E p \in body.passes : g \in FlagsOf(v[p.callee], p.returned)
             /\ g \in G <=> \/ g \in body.direct
                            \/ \E p \in body.passes : g \in FlagsOf(w[p.callee], p.returned)
  BY CollectMember
<1> HIDE DEF F, G
<1>3. "escaped" \in F => "escaped" \in G
  BY <1>1, <1>2
<1>4. "moved" \in F => "moved" \in G
  BY <1>1, <1>2
<1>5. "mutated" \in F => "mutated" \in G \/ "moved" \in G
  BY <1>1, <1>2
<1>6. F \subseteq Flags
  BY <1>1, <1>2
<1>7. F = {} => G = {}
  BY <1>1, <1>2
<1>8. Weaker(Classify(F), Classify(G))
  <2>1. CASE F = {}
    BY <1>7, <2>1, ClassifyContract, ContractOrder
  <2>2. CASE "escaped" \in F
    BY <1>3, <2>2 DEF Classify, Weaker
  <2>3. CASE "moved" \in F /\ "escaped" \notin F
    BY <1>4, <2>3 DEF Classify, Weaker
  <2>4. CASE "mutated" \in F /\ "moved" \notin F /\ "escaped" \notin F
    BY <1>5, <2>4 DEF Classify, Weaker
  <2>5. CASE F = {"read"}
    <3>1. Classify(F) = "borrow"
      BY <2>5 DEF Classify
    <3> QED BY <3>1, ClassifyContract, ContractOrder
  <2> QED BY <1>6, <2>1, <2>2, <2>3, <2>4, <2>5 DEF Flags
<1> QED BY <1>8 DEF F, G

LEMMA DirectFlags ==
  ASSUME CodeInv, NEW i \in DOMAIN order
  PROVE  Body(i).direct \subseteq Flags
<1>1. order[i] \in Present
  BY DEF Present
<1> QED BY <1>1, BodiesAssumption DEF CodeInv, Body, Resolved

Tables == [DOMAIN order -> Contracts]

Below(v, w) == \A i \in DOMAIN order : Weaker(v[i], w[i])

\* One round of the contracts the present bodies give under a table.
Step(v) == [i \in DOMAIN order |-> Classify(Collect(Body(i), v))]

LEMMA StepAscends ==
  ASSUME CodeInv, NEW v \in Tables, NEW w \in Tables, Below(v, w)
  PROVE  Step(v) \in Tables /\ Below(Step(v), Step(w))
<1>1. Step(v) \in Tables
  BY ClassifyContract DEF Step, Tables
<1>2. ASSUME NEW i \in DOMAIN order
      PROVE  Weaker(Step(v)[i], Step(w)[i])
  <2>1. Callees(Body(i)) \subseteq DOMAIN order
    BY CalleesPresent DEF Body
  <2>2. Body(i).direct \subseteq Flags
    BY DirectFlags
  <2>3. Weaker(Classify(Collect(Body(i), v)), Classify(Collect(Body(i), w)))
    BY <2>1, <2>2, ClassifyAscends DEF Tables, Below
  <2> QED BY <2>3 DEF Step
<1> QED BY <1>1, <1>2 DEF Below

LEMMA FixpointStep ==
  ASSUME NEW v PROVE v \in Fixpoints <=> v \in Tables /\ Step(v) = v
<1>1. ASSUME v \in Tables PROVE (Step(v) = v) <=> \A i \in DOMAIN order : v[i] = Step(v)[i]
  BY <1>1 DEF Tables, Step
<1> QED BY <1>1 DEF Fixpoints, Tables, Step

LEMMA BelowAntisymmetric ==
  ASSUME NEW v \in Tables, NEW w \in Tables, Below(v, w), Below(w, v)
  PROVE  v = w
<1>1. \A i \in DOMAIN order : v[i] = w[i]
  BY ContractOrder DEF Below, Tables
<1> QED BY <1>1 DEF Tables

\* The least fixpoint exists: it is the pointwise weakest of the tables that a
\* round does not raise.
LEMMA LeastExists ==
  ASSUME CodeInv
  PROVE  Least \in Fixpoints /\ \A w \in Fixpoints : Below(Least, w)
<1> DEFINE Pre == {v \in Tables : Below(Step(v), v)}
           At(i) == {v[i] : v \in Pre}
           least == [i \in DOMAIN order |->
                       CHOOSE e \in At(i) : \A d \in At(i) : Weaker(e, d)]
<1>1. [i \in DOMAIN order |-> "escape"] \in Pre
  <2>1. PICK top : top = [i \in DOMAIN order |-> "escape"]
    OBVIOUS
  <2>2. top \in Tables
    BY <2>1 DEF Tables, Contracts
  <2>3. Below(Step(top), top)
    BY <2>1, ClassifyContract, ContractOrder DEF Below, Step
  <2> QED BY <2>1, <2>2, <2>3
<1>2. ASSUME NEW i \in DOMAIN order
      PROVE  least[i] \in At(i) /\ \A v \in Pre : Weaker(least[i], v[i])
  <2>1. At(i) \subseteq Contracts /\ At(i) # {}
    BY <1>1 DEF Tables
  <2>2. PICK c \in At(i) : \A d \in At(i) : Weaker(c, d)
    BY <2>1, WeakestContract
  <2>3. least[i] = CHOOSE e \in At(i) : \A d \in At(i) : Weaker(e, d)
    OBVIOUS
  <2>4. least[i] \in At(i) /\ \A d \in At(i) : Weaker(least[i], d)
    <3> HIDE DEF At, least
    <3> QED BY <2>2, <2>3
  <2> QED BY <2>4
<1>3. least \in Tables
  <2>1. \A i \in DOMAIN order : At(i) \subseteq Contracts
    BY DEF Tables
  <2>2. \A i \in DOMAIN order : least[i] \in Contracts
    BY <1>2, <2>1
  <2> QED BY <2>2 DEF Tables
<1>4. \A v \in Pre : Below(least, v)
  BY <1>2 DEF Below
<1> HIDE DEF least
<1>5. least \in Pre
  <2>1. ASSUME NEW i \in DOMAIN order
        PROVE  Weaker(Step(least)[i], least[i])
    <3>1. PICK v \in Pre : least[i] = v[i]
      BY <1>2
    <3>2. Below(Step(least), Step(v)) /\ Below(Step(v), v)
      BY <1>3, <1>4, StepAscends
    <3>3. /\ Step(least)[i] \in Contracts /\ Step(v)[i] \in Contracts
          /\ v[i] \in Contracts
      BY ClassifyContract DEF Step, Tables
    <3> QED BY <3>1, <3>2, <3>3, ContractOrder DEF Below
  <2> QED BY <1>3, <2>1 DEF Below
<1>6. Step(least) \in Pre
  <2>1. Below(Step(least), least)
    BY <1>5
  <2>2. Step(least) \in Tables
    BY <1>3, <2>1, ClassifyContract DEF Tables, Step
  <2>3. Below(Step(Step(least)), Step(least))
    BY <1>3, <2>1, <2>2, StepAscends
  <2> QED BY <2>2, <2>3
<1>7. Step(least) = least
  BY <1>3, <1>4, <1>5, <1>6, BelowAntisymmetric
<1>8. \A w \in Fixpoints : w \in Pre
  <2>1. ASSUME NEW w \in Tables PROVE Below(w, w)
    BY ContractOrder DEF Below, Tables
  <2> QED BY <2>1, FixpointStep
<1>9. least \in Fixpoints /\ \A w \in Fixpoints : Below(least, w)
  BY <1>3, <1>4, <1>7, <1>8, FixpointStep
<1> QED BY <1>9 DEF Least, Below

\* ... and is the only one below all the others.
LEMMA LeastIs ==
  ASSUME CodeInv, NEW v \in Fixpoints, \A w \in Fixpoints : Below(v, w)
  PROVE  v = Least
BY LeastExists, BelowAntisymmetric, FixpointStep

\* Without recursion there is one fixpoint: two of them would differ at a
\* definition whose callees they agree on.
LEMMA OneFixpoint ==
  ASSUME OrderInv, NotRecursive, NEW v \in Fixpoints, NEW w \in Fixpoints
  PROVE  v = w
<1> SUFFICES ASSUME v # w PROVE FALSE
  OBVIOUS
<1>0. \A i \in DOMAIN order : i \in Nat
  BY DEF OrderInv
<1>1. PICK rank \in [DOMAIN order -> DOMAIN order] :
        \A i \in DOMAIN order : \A c \in Callees(Body(i)) : rank[c] < rank[i]
  BY DEF NotRecursive
<1> DEFINE Differ == {i \in DOMAIN order : v[i] # w[i]}
           Height(i) == 1 .. rank[i]
<1>2. Differ # {}
  BY DEF Fixpoints
<1>3. {Height(i) : i \in Differ} \subseteq FiniteSubsetsOf(Nat)
  <2>1. ASSUME NEW i \in Differ
        PROVE  Height(i) \in SUBSET Nat /\ IsFiniteSet(Height(i))
    <3>1. rank[i] \in Nat
      BY <1>0, <1>1
    <3> QED BY <3>1, FS_Interval
  <2> QED BY <2>1 DEF FiniteSubsetsOf
<1>4. PICK i \in Differ :
        \A j \in Differ : <<Height(j), Height(i)>> \notin StrictSubsetOrdering(Nat)
  <2>1. PICK T : T = {Height(i) : i \in Differ}
    OBVIOUS
  <2>2. \E x \in T : \A y \in T : ~ (<<y, x>> \in StrictSubsetOrdering(Nat))
    <3>1. T # {} /\ T \subseteq FiniteSubsetsOf(Nat)
      BY <1>2, <1>3, <2>1
    <3>2. IsWellFoundedOn(StrictSubsetOrdering(Nat), FiniteSubsetsOf(Nat))
      BY FS_StrictSubsetOrderingWellFounded
    <3> QED BY <3>1, <3>2, WFMin
  <2> HIDE DEF Differ, Height
  <2> QED BY <2>1, <2>2
<1>5. ASSUME NEW c \in Callees(Body(i))
      PROVE  v[c] = w[c]
  <2>1. c \in DOMAIN order
    BY CalleesPresent DEF Body
  <2>2. rank[c] \in Nat /\ rank[i] \in Nat /\ rank[c] < rank[i]
    BY <1>0, <1>1, <2>1
  <2>3. Height(c) \in SUBSET Nat /\ Height(i) \in SUBSET Nat
    BY <2>2
  <2>4. Height(c) \subseteq Height(i) /\ rank[i] \in Height(i) /\ rank[i] \notin Height(c)
    BY <2>2
  <2>5. <<Height(c), Height(i)>> \in StrictSubsetOrdering(Nat)
    <3> HIDE DEF Height
    <3> QED BY <2>3, <2>4 DEF StrictSubsetOrdering
  <2> QED BY <1>4, <2>1, <2>5
<1>6. Collect(Body(i), v) = Collect(Body(i), w)
  BY <1>5, CollectReadsCallees
<1> QED BY <1>6 DEF Fixpoints

-----------------------------------------------------------------------------
(* The tables of the oracle *)

\* What the definitions mean does not depend on the oracle.
LEMMA SameProgram ==
  ASSUME UNCHANGED program
  PROVE  /\ order' = order /\ Present' = Present
         /\ \A i : Body(i)' = Body(i)
         /\ Tables' = Tables /\ Fixpoints' = Fixpoints /\ Least' = Least
         /\ \A v : Step(v)' = Step(v)
<1>1. order' = order /\ code' = code
  BY DEF program
<1>2. Present' = Present /\ \A f : Resolved(f)' = Resolved(f)
  BY <1>1 DEF Present, Resolved, DefId
<1>3. \A i : Body(i)' = Body(i)
  BY <1>1, <1>2 DEF Body
<1>4. Tables' = Tables /\ Fixpoints' = Fixpoints
  BY <1>1, <1>3 DEF Tables, Fixpoints
<1>5. Least' = Least
  BY <1>1, <1>4 DEF Least
<1>6. \A v : Step(v)' = Step(v)
  BY <1>1, <1>3 DEF Step
<1> QED BY <1>1, <1>2, <1>3, <1>4, <1>5, <1>6

\* Every table holds contracts, and that of a completed run one for each
\* definition.
TableInv ==
  /\ \A i \in DOMAIN prev : prev[i] \in Contracts
  /\ \A i \in DOMAIN hypothesis : hypothesis[i] \in Contracts
  /\ \A i \in DOMAIN contracts : contracts[i] \in Contracts
  /\ pc = "work" => contracts \in Tables
  /\ Settled => prev \in Tables

\* Revisions are bounded by the edits.
RangeInv == revision \in 1 .. MaxEdits + 1 /\ pc \in {"idle", "work"}

LEMMA RangeStep ==
  ASSUME RangeInv, [Next]_vars
  PROVE  RangeInv'
<1> USE BodiesAssumption DEF RangeInv
<1>1. CASE Edit
  <2>1. revision <= MaxEdits /\ revision' = revision + 1 /\ pc' = pc
    BY <1>1 DEF Edit, EditBody, AddFn, RemoveFn, oracle
  <2> QED BY <2>1
<1>2. CASE Run
  BY <1>2 DEF Run, Infer, Visit, NextRound, Finish, program
<1>3. CASE UNCHANGED vars
  BY <1>3 DEF vars
<1> QED BY <1>1, <1>2, <1>3 DEF Next

LEMMA TableStep ==
  ASSUME IInv, TableInv, [Next]_vars
  PROVE  TableInv'
<1> USE DEF TableInv
<1>1. CASE Edit
  <2>1. revision' = revision + 1 /\ UNCHANGED oracle
    BY <1>1 DEF Edit, EditBody, AddFn, RemoveFn
  <2>2. pc = "idle"
    BY <1>1 DEF Edit, EditBody, AddFn, RemoveFn
  <2>3. ~Settled'
    BY <2>1 DEF IInv, StampInv, Settled, oracle
  <2> QED BY <2>1, <2>2, <2>3 DEF oracle
<1>2. CASE Infer
  <2>1. UNCHANGED program /\ pc' = "work"
    BY <1>2 DEF Infer
  <2>2. contracts' \in Tables'
    BY <1>2, <2>1, SameProgram DEF Infer, Seed, Tables, Contracts
  <2> QED BY <1>2, <2>1, <2>2 DEF Infer, Tables, Settled
<1>3. CASE Visit
  <2>1. UNCHANGED program /\ pc' = "work" /\ pc = "work"
    BY <1>3 DEF Visit
  <2>2. contracts' = [contracts EXCEPT ![Head(work)] = Classify(EntryFor(order[Head(work)]).facts)]
    BY <1>3 DEF Visit
  <2>3. contracts' \in Tables
    BY <2>1, <2>2, ClassifyContract DEF Tables
  <2>4. Tables' = Tables
    BY <2>1, SameProgram
  <2> QED BY <1>3, <2>1, <2>3, <2>4 DEF Visit, Tables, Settled
<1>4. CASE NextRound
  <2>1. UNCHANGED program /\ pc' = "work"
    BY <1>4 DEF NextRound
  <2>2. contracts' \in Tables'
    BY <1>4, <2>1, SameProgram DEF NextRound, Seed, Tables, Contracts
  <2> QED BY <1>4, <2>1, <2>2 DEF NextRound, Tables, Settled
<1>5. CASE Finish
  <2>1. UNCHANGED program /\ pc = "work"
    BY <1>5 DEF Finish
  <2>2. prev' \in Tables'
    BY <1>5, <2>1, SameProgram DEF Finish
  <2> QED BY <1>5, <2>1, <2>2 DEF Finish
<1>6. CASE UNCHANGED vars
  <2>1. Tables' = Tables
    BY <1>6, SameProgram DEF vars, program
  <2> QED BY <1>6, <2>1 DEF vars, Settled
<1> QED BY <1>1, <1>2, <1>3, <1>4, <1>5, <1>6 DEF Next, Run

LEMMA Tabled == Spec => [](TableInv /\ RangeInv)
<1>1. Init => TableInv /\ RangeInv
  BY BodiesAssumption DEF Init, TableInv, RangeInv, Settled
<1>2. IInv /\ (TableInv /\ RangeInv) /\ [Next]_vars => (TableInv /\ RangeInv)'
  BY TableStep, RangeStep
<1> QED BY <1>1, <1>2, Invariance, PTL DEF Spec

\* The state of the oracle has its shape, whatever the edits.
THEOREM Typing == Spec => []TypeOK
<1>1. IInv /\ TableInv /\ RangeInv => TypeOK
  <2> SUFFICES ASSUME IInv, TableInv, RangeInv PROVE TypeOK
    OBVIOUS
  <2>1. /\ order \in Seq(Fns)
        /\ \A i, j \in DOMAIN order : order[i] = order[j] => i = j
        /\ code \in [Present -> Bodies]
    BY DEF IInv, OrderInv, CodeInv
  <2>2. revision \in 1 .. MaxEdits + 1 /\ pc \in {"idle", "work"} /\ ranAt \in 0 .. revision
    BY DEF IInv, RangeInv, StampInv
  <2>3. \A f \in Fns : seen[f].at \in 0 .. revision
    BY DEF IInv, StampInv
  <2>4. \A f \in Fns : facts[f] # None => facts[f].stamp \in 0 .. seen[f].at
    BY DEF IInv, FactsInv, StampInv
  <2>5. \A i \in DOMAIN contracts : contracts[i] \in Contracts
    BY DEF TableInv
  <2>6. pc = "work" => DOMAIN contracts = DOMAIN order /\ InSeq(work) \subseteq DOMAIN order
    BY DEF IInv, RunInv, InSeq
  <2> QED BY <2>1, <2>2, <2>3, <2>4, <2>5, <2>6 DEF TypeOK
<1> QED BY <1>1, Invariance, Tabled, PTL

\* No history of edits leaves a contract weaker than a clean build gives.
THEOREM NoWeakerContract == Spec => []NeverWeaker
<1>1. IInv /\ TableInv => NeverWeaker
  <2> SUFFICES ASSUME IInv, TableInv, Settled
               PROVE  \A i \in DOMAIN order : Weaker(Least[i], prev[i])
    BY DEF NeverWeaker
  <2>1. prev \in Fixpoints
    BY DEF IInv, TableInv, FixpointReached, Fixpoints, Tables
  <2> QED BY <2>1, LeastExists DEF IInv, Below
<1> QED BY <1>1, Invariance, Tabled, PTL

\* Without recursion, the contracts are those of a clean build, whatever came
\* before.
THEOREM NoHistoryWithoutRecursion == Spec => []ExactWithoutRecursion
<1>1. IInv /\ TableInv => ExactWithoutRecursion
  <2> SUFFICES ASSUME IInv, TableInv, Settled, NotRecursive
               PROVE  prev = Least
    BY DEF ExactWithoutRecursion
  <2>1. prev \in Fixpoints
    BY DEF IInv, TableInv, FixpointReached, Fixpoints, Tables
  <2> QED BY <2>1, LeastExists, OneFixpoint DEF IInv
<1> QED BY <1>1, Invariance, Tabled, PTL

-----------------------------------------------------------------------------
(* The rounds of a run *)

\* The contracts a walk sees during a run.
ViewTable == [i \in DOMAIN order |-> View(i)]

LEMMA ViewTableType ==
  ASSUME IInv, TableInv, pc = "work"
  PROVE  ViewTable \in Tables
<1>1. DOMAIN contracts = DOMAIN order
  BY DEF IInv, RunInv
<1>2. \A i \in DOMAIN order : View(i) \in Contracts
  BY <1>1 DEF TableInv, View
<1> QED BY <1>2 DEF ViewTable, Tables

\* Taken from the memo or walked, the facts of a visited definition are those
\* of its present body under the view.
LEMMA VisitReads ==
  ASSUME IInv, pc = "work", NEW i \in DOMAIN order
  PROVE  /\ Classify(EntryFor(order[i]).facts) = Step(ViewTable)[i]
         /\ DOMAIN EntryFor(order[i]).consumed = Callees(Body(i))
         /\ \A c \in Callees(Body(i)) : EntryFor(order[i]).consumed[c] = View(c)
<1> DEFINE f == order[i]
<1>1. f \in Fns /\ f \in Present
  BY DEF IInv, OrderInv, Present
<1>2. seen[f].body = Body(i)
  BY <1>1 DEF IInv, RunInv, Body
<1>3. PICK entry : entry = EntryFor(f)
  OBVIOUS
<1>4. /\ entry.facts = Collect(Body(i), entry.consumed)
      /\ DOMAIN entry.consumed = Callees(Body(i))
  BY <1>1, <1>2, <1>3, EntryFits
<1>5. \A c \in Callees(Body(i)) : entry.consumed[c] = View(c)
  <2>1. CASE MemoHit(f)
    BY <1>3, <1>4, <2>1 DEF EntryFor, MemoHit, Holds
  <2>2. CASE ~MemoHit(f)
    BY <1>2, <1>3, <2>2 DEF EntryFor, Walked, Consumed
  <2> QED BY <2>1, <2>2
<1>6. \A c \in Callees(Body(i)) : entry.consumed[c] = ViewTable[c]
  BY <1>5, CalleesPresent DEF Body, ViewTable
<1>7. entry.facts = Collect(Body(i), ViewTable)
  BY <1>4, <1>6, CollectReadsCallees
<1> QED BY <1>3, <1>4, <1>5, <1>7 DEF Step

\* In a round every contract is at most what a walk would find now.
RisingInv == pc = "work" => Below(contracts, Step(ViewTable))

\* The change a visit makes to the contracts.
LEMMA VisitRaises ==
  ASSUME IInv, TableInv, RisingInv, Visit
  PROVE  /\ Below(contracts, contracts')
         /\ RisingInv'
<1> DEFINE i == Head(work)
           next == Step(ViewTable)[i]
<1>1. pc = "work" /\ i \in DOMAIN order /\ DOMAIN contracts = DOMAIN order
  BY DEF IInv, RunInv, Visit
<1>2. contracts' = [contracts EXCEPT ![i] = next]
  BY <1>1, VisitReads DEF Visit
<1>3. /\ UNCHANGED program /\ hypothesis' = hypothesis
  BY DEF Visit
<1>4. /\ contracts \in Tables /\ ViewTable \in Tables
      /\ Step(ViewTable) \in Tables
  BY <1>1, ViewTableType, ClassifyContract DEF TableInv, Tables, Step
<1>5. IInv' /\ TableInv' /\ pc' = "work"
  BY VisitStep, TableStep DEF Next, Run, Visit
<1>6. contracts' \in Tables /\ ViewTable' \in Tables
  <2>1. contracts' \in Tables
    BY <1>3, <1>5, SameProgram DEF TableInv
  <2>2. ASSUME NEW j \in DOMAIN order PROVE View(j)' \in Contracts
    BY <1>3, <1>5, <2>1 DEF View, TableInv, Tables
  <2>3. ViewTable' = [j \in DOMAIN order |-> View(j)']
    BY <1>3, SameProgram DEF ViewTable
  <2> QED BY <2>1, <2>2, <2>3 DEF Tables
<1> HIDE DEF i, next
<1>7. \A j \in DOMAIN order : Weaker(contracts[j], contracts'[j])
  <2>1. \A j \in DOMAIN order : Weaker(contracts[j], contracts[j])
    BY <1>4, ContractOrder DEF Tables
  <2>2. Weaker(contracts[i], next)
    BY <1>1 DEF RisingInv, Below, next
  <2> QED BY <1>1, <1>2, <2>1, <2>2
<1>8. Below(ViewTable, ViewTable')
  <2>1. ASSUME NEW j \in DOMAIN order
        PROVE  Weaker(ViewTable[j], ViewTable'[j])
    <3>1. ViewTable[j] = View(j) /\ ViewTable'[j] = View(j)'
      BY <1>3, SameProgram DEF ViewTable
    <3>2. View(j)' = IF j \in DOMAIN hypothesis THEN hypothesis[j] ELSE contracts'[j]
      BY <1>1, <1>2, <1>3 DEF View
    <3>3. View(j) = IF j \in DOMAIN hypothesis THEN hypothesis[j] ELSE contracts[j]
      BY <1>1 DEF View
    <3>4. Weaker(ViewTable[j], ViewTable[j])
      BY <1>4, ContractOrder DEF Tables
    <3> QED BY <1>7, <3>1, <3>2, <3>3, <3>4
  <2> QED BY <2>1 DEF Below
<1>9. Below(Step(ViewTable), Step(ViewTable'))
  BY <1>4, <1>6, <1>8, StepAscends DEF IInv
<1>10. Below(contracts', Step(ViewTable'))
  <2>1. ASSUME NEW j \in DOMAIN order
        PROVE  Weaker(contracts'[j], Step(ViewTable')[j])
    <3>1. Weaker(contracts'[j], Step(ViewTable)[j])
      <4>1. CASE j = i
        BY <1>1, <1>2, <1>4, <4>1, ContractOrder DEF Tables, next
      <4>2. CASE j # i
        BY <1>1, <1>2, <4>2 DEF RisingInv, Below
      <4> QED BY <4>1, <4>2
    <3>2. Weaker(Step(ViewTable)[j], Step(ViewTable')[j])
      BY <1>9 DEF Below
    <3>3. /\ contracts'[j] \in Contracts /\ Step(ViewTable)[j] \in Contracts
          /\ Step(ViewTable')[j] \in Contracts
      BY <1>4, <1>6, ClassifyContract DEF Tables, Step
    <3> QED BY <3>1, <3>2, <3>3, ContractOrder
  <2> QED BY <2>1 DEF Below
<1>11. Step(ViewTable)' = Step(ViewTable')
  BY <1>3, SameProgram DEF Step
<1>12. RisingInv'
  BY <1>3, <1>10, <1>11, SameProgram DEF RisingInv, Below
<1> QED BY <1>7, <1>12 DEF Below

\* A seeded round is below everything.
LEMMA SeedBelow ==
  ASSUME NEW v \in Tables PROVE Below(Seed, v)
BY ContractOrder DEF Below, Seed, Tables

LEMMA RisingStep ==
  ASSUME IInv, TableInv, RisingInv, [Next]_vars
  PROVE  RisingInv'
<1>1. CASE Edit
  BY <1>1 DEF Edit, EditBody, AddFn, RemoveFn, oracle, RisingInv
<1>2. CASE Infer \/ NextRound
  <2>1. UNCHANGED program /\ contracts' = Seed
    BY <1>2 DEF Infer, NextRound
  <2>2. IInv' /\ TableInv'
    BY <1>2, InferStep, NextRoundStep, TableStep DEF Next, Run
  <2>3. Step(ViewTable)' \in Tables
    BY <2>1, SameProgram, ClassifyContract DEF Step, Tables
  <2>4. Below(Seed, Step(ViewTable)')
    BY <2>3, SeedBelow
  <2> QED BY <2>1, <2>4, SameProgram DEF RisingInv, Below
<1>3. CASE Visit
  BY <1>3, VisitRaises
<1>4. CASE Finish
  BY <1>4 DEF Finish, RisingInv
<1>5. CASE UNCHANGED vars
  <2>1. UNCHANGED program /\ contracts' = contracts /\ hypothesis' = hypothesis /\ pc' = pc
    BY <1>5 DEF vars, program
  <2>2. ViewTable' = ViewTable
    BY <2>1, SameProgram DEF ViewTable, View
  <2>3. Step(ViewTable)' = Step(ViewTable)
    BY <2>1, <2>2, SameProgram DEF Step
  <2> QED BY <2>1, <2>3, SameProgram DEF RisingInv, Below
<1> QED BY <1>1, <1>2, <1>3, <1>4, <1>5 DEF Next, Run

\* In a round no contract is ever taken back, whether its facts are reused or
\* collected again.
THEOREM RoundsAscend == Spec => ContractsAscend
<1>1. Init => RisingInv
  BY DEF Init, RisingInv
<1>2. IInv /\ TableInv /\ RisingInv /\ [Next]_vars => RisingInv'
  BY RisingStep
<1>3. IInv /\ TableInv /\ RisingInv /\ [Next]_vars
        => [Visit => \A i \in DOMAIN order : Weaker(contracts[i], contracts'[i])]_vars
  BY VisitRaises DEF Below
<1> QED BY <1>1, <1>2, <1>3, Invariance, Tabled, PTL DEF Spec, ContractsAscend

-----------------------------------------------------------------------------
(* Runs without previous contracts *)

\* Such a run never rises above a fixpoint.
LowInv ==
  hypothesis = << >> =>
    /\ pc = "work" => \A w \in Fixpoints : Below(contracts, w)
    /\ Settled => \A w \in Fixpoints : Below(prev, w)

LEMMA LowVisit ==
  ASSUME IInv, TableInv, Visit, hypothesis = << >>,
         NEW w \in Fixpoints, Below(contracts, w)
  PROVE  Below(contracts', w)
<1> DEFINE i == Head(work)
<1>1. pc = "work" /\ i \in DOMAIN order /\ DOMAIN contracts = DOMAIN order
  BY DEF IInv, RunInv, Visit
<1>2. contracts' = [contracts EXCEPT ![i] = Step(ViewTable)[i]]
  BY <1>1, VisitReads DEF Visit
<1>3. contracts \in Tables
  BY <1>1 DEF TableInv
<1>4. ViewTable = contracts
  <2>1. \A j \in DOMAIN order : View(j) = contracts[j]
    BY <1>1 DEF View
  <2> QED BY <1>3, <2>1 DEF ViewTable, Tables
<1>5. w \in Tables /\ Step(w) = w
  BY FixpointStep
<1>6. Weaker(Step(contracts)[i], w[i])
  BY <1>1, <1>3, <1>5, StepAscends DEF IInv, Below
<1> HIDE DEF i
<1> QED BY <1>1, <1>2, <1>4, <1>6 DEF Below

LEMMA LowStep ==
  ASSUME IInv, TableInv, LowInv, [Next]_vars
  PROVE  LowInv'
<1>1. CASE Edit
  <2>1. revision' = revision + 1 /\ UNCHANGED oracle /\ pc = "idle"
    BY <1>1 DEF Edit, EditBody, AddFn, RemoveFn
  <2>2. ~Settled'
    BY <2>1 DEF IInv, StampInv, Settled, oracle
  <2> QED BY <2>1, <2>2 DEF oracle, LowInv
<1>2. CASE Infer \/ NextRound
  <2>1. UNCHANGED program /\ contracts' = Seed /\ pc' = "work"
    BY <1>2 DEF Infer, NextRound
  <2>2. \A w \in Fixpoints : Below(Seed, w)
    BY SeedBelow, FixpointStep
  <2> QED BY <2>1, <2>2, SameProgram DEF LowInv, Below, Settled
<1>3. CASE Visit
  <2>1. UNCHANGED program /\ hypothesis' = hypothesis /\ pc = "work" /\ pc' = "work"
    BY <1>3 DEF Visit
  <2>2. ASSUME hypothesis = << >>, NEW w \in Fixpoints
        PROVE  Below(contracts', w)
    BY <1>3, <2>1, <2>2, LowVisit DEF LowInv
  <2> QED BY <2>1, <2>2, SameProgram DEF LowInv, Below, Settled
<1>4. CASE Finish
  <2>1. /\ UNCHANGED program /\ hypothesis' = hypothesis /\ pc = "work" /\ pc' = "idle"
        /\ prev' = contracts
    BY <1>4 DEF Finish
  <2> QED BY <2>1, SameProgram DEF LowInv, Below
<1>5. CASE UNCHANGED vars
  <2>1. /\ UNCHANGED program /\ hypothesis' = hypothesis /\ pc' = pc
        /\ prev' = prev /\ contracts' = contracts /\ Settled' = Settled
    BY <1>5 DEF vars, program, Settled
  <2> QED BY <2>1, SameProgram DEF LowInv, Below
<1> QED BY <1>1, <1>2, <1>3, <1>4, <1>5 DEF Next, Run

\* A clean build finds the least fixpoint, with recursion too.
THEOREM CleanBuild == Spec => []CleanBuildExact
<1>1. Init => LowInv
  BY DEF Init, LowInv, Settled
<1>2. IInv /\ TableInv /\ LowInv /\ [Next]_vars => LowInv'
  BY LowStep
<1>3. IInv /\ TableInv /\ LowInv => CleanBuildExact
  <2> SUFFICES ASSUME IInv, TableInv, LowInv, Settled, hypothesis = << >>
               PROVE  prev = Least
    BY DEF CleanBuildExact
  <2>1. prev \in Fixpoints
    BY DEF IInv, TableInv, FixpointReached, Fixpoints, Tables
  <2> QED BY <2>1, LeastIs DEF IInv, LowInv
<1> QED BY <1>1, <1>2, <1>3, Invariance, Tabled, PTL DEF Spec

\* Until contracts are kept there are no facts; in a run without previous
\* contracts the facts agree with the contracts of the round, except those of
\* the definitions that are queued again.
Agrees(f) == Holds(facts[f], Final) \/ \E j \in InSeq(work) : order[j] = f

Fresh(f) == f \in Present /\ facts[f].stamp = seen[f].at

FreshInv ==
  /\ pc = "idle" /\ prev = << >> => \A f \in Fns : facts[f] = None
  /\ pc = "work" /\ hypothesis = << >> =>
       \A f \in Fns : facts[f] # None => Agrees(f) /\ (order # << >> => Fresh(f))

\* All the callers to queue are in the queue.
LEMMA AscendingAll ==
  ASSUME NEW S, IsFiniteSet(S), S \subseteq Nat, NEW s \in Ascending(S)
  PROVE  InSeq(s) = S
<1> DEFINE n == Cardinality(S)
<1>1. n \in Nat
  BY FS_CardinalityType
<1>2. s \in [1 .. n -> S] /\ \A k, l \in 1 .. n : k < l => s[k] < s[l]
  BY DEF Ascending
<1>3. IsFiniteSet(1 .. n) /\ Cardinality(1 .. n) = n
  BY <1>1, FS_Interval
<1>4. \A k, l \in 1 .. n : s[k] = s[l] => k = l
  <2>1. ASSUME NEW k \in 1 .. n, NEW l \in 1 .. n, k < l PROVE s[k] # s[l]
    <3>1. s[k] \in Nat /\ s[l] \in Nat /\ s[k] < s[l]
      BY <1>2, <2>1
    <3> QED BY <3>1
  <2>2. \A k, l \in 1 .. n : k < l \/ k = l \/ l < k
    BY <1>1
  <2> QED BY <2>1, <2>2
<1> HIDE DEF n
<1>5. s \in Injection(1 .. n, S)
  BY <1>2, <1>4 DEF Injection, IsInjective
<1>6. s \in Surjection(1 .. n, S)
  BY <1>3, <1>5, FS_Injection DEF n
<1> QED BY <1>2, <1>6 DEF Surjection, InSeq

\* A visit leaves in the queue what it does not take or adds to it.
LEMMA VisitQueue ==
  ASSUME IInv, Visit, NEW next, next = Classify(EntryFor(order[Head(work)]).facts)
  PROVE  InSeq(work') = InSeq(Tail(work)) \cup Requeued(Head(work), next)
<1> DEFINE i == Head(work)
<1>1. work \in Seq(DOMAIN order) /\ work # << >> /\ pc = "work"
  BY DEF IInv, RunInv, Visit
<1>2. PICK queue \in Ascending(Requeued(i, next)) : work' = Tail(work) \o queue
  BY DEF Visit
<1>3. PICK n \in Nat : DOMAIN order = 1 .. n
  BY DEF IInv, OrderInv
<1>4. /\ Requeued(i, next) \subseteq DOMAIN order /\ Requeued(i, next) \subseteq Nat
      /\ IsFiniteSet(Requeued(i, next))
  <2>1. Requeued(i, next) \subseteq DOMAIN order
    BY DEF Requeued, Callers
  <2>2. IsFiniteSet(DOMAIN order)
    BY <1>3, FS_Interval
  <2> QED BY <1>3, <2>1, <2>2, FS_Subset
<1>5. queue \in Seq(DOMAIN order) /\ InSeq(queue) = Requeued(i, next)
  <2>1. queue \in Seq(Requeued(i, next))
    BY <1>2, <1>4, AscendingSeq
  <2> QED BY <1>2, <1>4, <2>1, AscendingAll
<1>6. PICK rest \in Seq(DOMAIN order) : rest = Tail(work)
  <2>1. Tail(work) \in Seq(DOMAIN order)
    BY <1>1
  <2> QED BY <2>1
<1>7. InSeq(rest \o queue) = InSeq(rest) \cup InSeq(queue)
  <2>1. /\ rest \o queue \in Seq(DOMAIN order)
        /\ Len(rest \o queue) = Len(rest) + Len(queue)
        /\ \A k \in 1 .. Len(rest) + Len(queue) :
              (rest \o queue)[k] = IF k <= Len(rest) THEN rest[k] ELSE queue[k - Len(rest)]
    BY <1>5, ConcatProperties
  <2>2. \A k \in 1 .. Len(rest) : (rest \o queue)[k] = rest[k] /\ k \in DOMAIN (rest \o queue)
    BY <1>5, <2>1
  <2>3. \A k \in 1 .. Len(queue) :
          /\ (rest \o queue)[k + Len(rest)] = queue[k]
          /\ k + Len(rest) \in DOMAIN (rest \o queue)
    BY <1>5, <2>1
  <2>4. \A k \in DOMAIN (rest \o queue) :
          (rest \o queue)[k] \in InSeq(rest) \/ (rest \o queue)[k] \in InSeq(queue)
    BY <1>5, <2>1 DEF InSeq
  <2>5. DOMAIN rest = 1 .. Len(rest) /\ DOMAIN queue = 1 .. Len(queue)
    BY <1>5
  <2>6. InSeq(rest) \subseteq InSeq(rest \o queue)
    BY <2>2, <2>5 DEF InSeq
  <2>7. InSeq(queue) \subseteq InSeq(rest \o queue)
    <3>1. ASSUME NEW x \in InSeq(queue) PROVE x \in InSeq(rest \o queue)
      <4>1. PICK k \in 1 .. Len(queue) : x = queue[k]
        BY <2>5 DEF InSeq
      <4> QED BY <2>3, <4>1 DEF InSeq
    <3> QED BY <3>1
  <2>8. InSeq(rest \o queue) \subseteq InSeq(rest) \cup InSeq(queue)
    <3>1. ASSUME NEW x \in InSeq(rest \o queue) PROVE x \in InSeq(rest) \cup InSeq(queue)
      <4>1. PICK k \in DOMAIN (rest \o queue) : x = (rest \o queue)[k]
        BY DEF InSeq
      <4> QED BY <2>4, <4>1
    <3> QED BY <3>1
  <2> QED BY <2>6, <2>7, <2>8
<1> QED BY <1>2, <1>5, <1>6, <1>7

\* A changed contract either was not consumed or queues the caller.
LEMMA ChangeQueues ==
  ASSUME IInv, TableInv, Visit, hypothesis = << >>, NEW j \in DOMAIN order, NEW entry,
         DOMAIN entry.consumed = Callees(seen[order[j]].body),
         \A c \in DOMAIN entry.consumed : Final(c) = entry.consumed[c]
  PROVE  \/ \A c \in DOMAIN entry.consumed : Final(c)' = entry.consumed[c]
         \/ j \in InSeq(work')
<1> DEFINE i == Head(work)
<1>1. PICK next : next = Classify(EntryFor(order[i]).facts)
  OBVIOUS
<1>2. InSeq(work') = InSeq(Tail(work)) \cup Requeued(i, next)
  BY <1>1, VisitQueue
<1>3. contracts' = [contracts EXCEPT ![i] = next] /\ i \in DOMAIN contracts
  BY <1>1 DEF Visit, IInv, RunInv
<1>4. CASE i \in Callees(seen[order[j]].body) /\ contracts[i] # next
  BY <1>2, <1>4 DEF Requeued, Callers
<1>5. CASE i \notin Callees(seen[order[j]].body) \/ contracts[i] = next
  <2>1. ASSUME NEW c \in DOMAIN entry.consumed
        PROVE  Final(c)' = Final(c)
    BY <1>3, <1>5 DEF Final
  <2> QED BY <2>1
<1> QED BY <1>4, <1>5

LEMMA FreshVisit ==
  ASSUME IInv, TableInv, FreshInv, Visit
  PROVE  FreshInv'
<1> DEFINE i == Head(work)
<1>1. pc = "work" /\ pc' = "work" /\ i \in DOMAIN order /\ work \in Seq(DOMAIN order) /\ work # << >>
  BY DEF IInv, RunInv, Visit
<1>2. UNCHANGED program /\ seen' = seen /\ hypothesis' = hypothesis
  BY DEF Visit
<1>3. facts' = [facts EXCEPT ![order[i]] = EntryFor(order[i])]
  BY DEF Visit
<1>4. DOMAIN facts = Fns /\ order[i] \in Fns
  BY <1>1 DEF IInv, FactsInv, OrderInv
<1>5. order # << >>
  BY <1>1
<1>6. \A j \in InSeq(work) : j = i \/ j \in InSeq(Tail(work))
  <2>1. ASSUME NEW k \in DOMAIN work, k # 1
        PROVE  k - 1 \in DOMAIN Tail(work) /\ work[k] = Tail(work)[k - 1]
    BY <1>1, <2>1
  <2>2. ASSUME NEW j \in InSeq(work), j # i
        PROVE  j \in InSeq(Tail(work))
    <3>1. PICK k \in DOMAIN work : j = work[k]
      BY DEF InSeq
    <3>2. k # 1
      BY <1>1, <2>2, <3>1
    <3> QED BY <2>1, <3>1, <3>2 DEF InSeq
  <2> QED BY <2>2
<1>7. InSeq(Tail(work)) \subseteq InSeq(work')
  BY VisitQueue
<1> HIDE DEF i
<1>8. ASSUME hypothesis = << >>, NEW g \in Fns, facts'[g] # None
      PROVE  Agrees(g)' /\ Fresh(g)'
  <2>1. CASE g = order[i]
    <3>1. PICK entry : entry = EntryFor(g)
      OBVIOUS
    <3>2. facts'[g] = entry
      BY <1>3, <1>4, <2>1, <3>1
    <3>3. entry.stamp = seen[g].at /\ g \in Present
      BY <1>1, <2>1, <3>1, EntryFits DEF Present
    <3>4. seen[g].body = Body(i)
      BY <1>1, <2>1, <3>3 DEF IInv, RunInv, Body
    <3>5. /\ DOMAIN entry.consumed = Callees(seen[g].body)
          /\ \A c \in DOMAIN entry.consumed : entry.consumed[c] = View(c)
      BY <1>1, <2>1, <3>1, <3>4, VisitReads
    <3>6. \A c \in DOMAIN entry.consumed : Final(c) = entry.consumed[c]
      BY <1>8, <3>5 DEF View, Final
    <3>7. \/ \A c \in DOMAIN entry.consumed : Final(c)' = entry.consumed[c]
          \/ i \in InSeq(work')
      BY <1>1, <1>8, <2>1, <3>5, <3>6, ChangeQueues
    <3>8. Agrees(g)'
      BY <1>2, <2>1, <3>2, <3>7, SameProgram DEF Agrees, Holds
    <3> QED BY <1>2, <3>2, <3>3, <3>8, SameProgram DEF Fresh
  <2>2. CASE g # order[i]
    <3>1. facts'[g] = facts[g] /\ facts[g] # None
      BY <1>3, <1>4, <1>8, <2>2
    <3>2. Agrees(g) /\ Fresh(g)
      BY <1>1, <1>5, <1>8, <3>1 DEF FreshInv
    <3>3. PICK j \in DOMAIN order : g = order[j]
      BY <3>2 DEF Fresh, Present
    <3>4. Fresh(g)'
      BY <1>2, <3>1, <3>2, SameProgram DEF Fresh
    <3>5. CASE j \in InSeq(work)
      <4>1. j \in InSeq(work')
        BY <1>6, <1>7, <2>2, <3>3, <3>5
      <4> QED BY <1>2, <3>3, <3>4, <4>1, SameProgram DEF Agrees
    <3>6. CASE j \notin InSeq(work)
      <4>1. PICK entry : entry = facts[g]
        OBVIOUS
      <4>2. \A c \in DOMAIN entry.consumed : Final(c) = entry.consumed[c]
        <5>1. \A k \in InSeq(work) : k \in DOMAIN order
          BY <1>1 DEF InSeq
        <5>2. \A k \in InSeq(work) : order[k] # g
          BY <3>3, <3>6, <5>1 DEF IInv, OrderInv
        <5> QED BY <3>2, <4>1, <5>2 DEF Agrees, Holds
      <4>3. DOMAIN entry.consumed = Callees(seen[order[j]].body)
        BY <3>1, <3>2, <3>3, <4>1 DEF IInv, FactsInv, Collected, Fresh
      <4>4. \/ \A c \in DOMAIN entry.consumed : Final(c)' = entry.consumed[c]
            \/ j \in InSeq(work')
        BY <1>8, <4>2, <4>3, ChangeQueues
      <4>5. Agrees(g)'
        BY <1>2, <3>1, <3>3, <4>1, <4>4, SameProgram DEF Agrees, Holds
      <4> QED BY <3>4, <4>5
    <3> QED BY <3>5, <3>6
  <2> QED BY <2>1, <2>2
<1> QED BY <1>1, <1>2, <1>8 DEF FreshInv

\* Only an empty module has an empty table.
LEMMA EmptyTable ==
  ASSUME IInv, pc = "work", contracts = << >>
  PROVE  order = << >> /\ Present = {}
<1>1. DOMAIN order = {}
  BY DEF IInv, RunInv
<1>2. order = << >>
  BY <1>1 DEF IInv, OrderInv
<1> QED BY <1>1, <1>2 DEF Present

LEMMA FreshStep ==
  ASSUME IInv, TableInv, FreshInv, [Next]_vars
  PROVE  FreshInv'
<1>1. CASE Edit
  <2>1. UNCHANGED oracle /\ pc = "idle"
    BY <1>1 DEF Edit, EditBody, AddFn, RemoveFn
  <2> QED BY <2>1 DEF oracle, FreshInv
<1>2. CASE Infer
  BY <1>2 DEF Infer, FreshInv
<1>3. CASE Visit
  BY <1>3, FreshVisit
<1>4. CASE NextRound
  <2>1. UNCHANGED program /\ hypothesis' = contracts /\ contracts' = Seed /\ pc = "work" /\ pc' = "work"
    BY <1>4 DEF NextRound
  <2>2. ASSUME contracts = << >>, NEW f \in Fns, facts'[f] # None
        PROVE  Agrees(f)' /\ order' = << >>
    <3>1. order = << >> /\ contracts' = << >>
      BY <2>1, <2>2, EmptyTable DEF Seed
    <3>2. facts'[f] = facts[f] /\ Holds(facts[f], Final)
      BY <1>4, <2>2 DEF NextRound, Drifted
    <3>3. \A c : Final(c)' = Final(c)
      BY <2>2, <3>1 DEF Final
    <3> QED BY <2>1, <3>1, <3>2, <3>3, SameProgram DEF Agrees, Holds
  <2> QED BY <2>1, <2>2 DEF FreshInv
<1>5. CASE Finish
  <2>1. prev' = contracts /\ pc = "work" /\ pc' = "idle"
    BY <1>5 DEF Finish
  <2>2. ASSUME contracts = << >>, NEW f \in Fns
        PROVE  facts'[f] = None
    <3>1. Present = {}
      BY <2>1, <2>2, EmptyTable
    <3> QED BY <1>5, <3>1 DEF Finish
  <2> QED BY <2>1, <2>2 DEF FreshInv
<1>6. CASE UNCHANGED vars
  <2>1. Present' = Present
    BY <1>6, SameProgram DEF vars, program
  <2> QED BY <1>6, <2>1 DEF vars, FreshInv, Agrees, Fresh, Holds, Final
<1> QED BY <1>1, <1>2, <1>3, <1>4, <1>5, <1>6 DEF Next, Run

\* The first round of a clean build is never refuted: whoever consumed an
\* earlier value of a contract was queued again.
THEOREM CleanBuildConfirmed == Spec => CleanBuildOneRound
<1>1. Init => FreshInv
  BY DEF Init, FreshInv
<1>2. IInv /\ TableInv /\ FreshInv /\ [Next]_vars => FreshInv'
  BY FreshStep
<1>3. IInv /\ FreshInv => [~(NextRound /\ hypothesis = << >>)]_vars
  <2> SUFFICES ASSUME IInv, FreshInv, NextRound, hypothesis = << >> PROVE FALSE
    OBVIOUS
  <2>1. pc = "work" /\ InSeq(work) = {}
    BY DEF NextRound, InSeq
  <2>2. \A f \in Fns : facts[f] # None => Holds(facts[f], Final)
    BY <2>1 DEF FreshInv, Agrees
  <2> QED BY <2>2 DEF NextRound, Drifted
<1> QED BY <1>1, <1>2, <1>3, Invariance, Tabled, PTL DEF Spec, CleanBuildOneRound
=============================================================================
