------------------------- MODULE QueryEngineBuilds -------------------------
(***************************************************************************)
(* Proofs about QueryEngine, continued: an incremental build is a clean    *)
(* build.  Every entry, however old, is related to the clean build of the  *)
(* texts of the revision it was last found fresh at.                       *)
(***************************************************************************)
EXTENDS QueryEngineProofs

\* The clean build of the texts of revision r.
Build(r) == CleanBuild[past[r]]

-----------------------------------------------------------------------------
(* The inductive invariant *)

\* The history is one of workspaces, up to the present one.
PastInv ==
  /\ \A r \in 1 .. revision : past[r] \in Workspaces
  /\ 1 <= revision => past[revision] = Sources

\* A file has had its text since computed_at, and had another one before.
SourceInv ==
  /\ \A s \in Registered : memo[s].diags = {}
  /\ \A s \in Registered, r \in 1 .. revision :
       /\ memo[s].computed_at <= r => s \in DOMAIN past[r] /\ past[r][s] = memo[s].value
       /\ memo[s].computed_at = r + 1 /\ s \in DOMAIN past[r] => past[r][s] # memo[s].value

\* No file was registered since the entry of a query was found fresh.
SameFiles(k) == \A r \in memo[k].verified_at .. revision : DOMAIN past[r] = Registered

\* The entry is the clean build's of the revision it was found fresh at.
IsOf(k, r) ==
  /\ memo[k].value = Build(r)[k].value /\ memo[k].deps = Build(r)[k].asks
  /\ memo[k].diags = Emits(k, Told(Build(r)[k].asks, Build(r)), Registered)

\* A dependency that did not change since has the value it had then.
Keeps(k, d) ==
  /\ memo[k].verified_at <= memo[d].verified_at
  /\ memo[d].computed_at <= memo[k].verified_at =>
       Build(memo[k].verified_at)[d].value = memo[d].value

EntryInv ==
  \A k \in Key \ Input : memo[k] # None =>
    /\ SameFiles(k) /\ IsOf(k, memo[k].verified_at)
    /\ \A i \in DOMAIN memo[k].deps : Keeps(k, memo[k].deps[i])

HistInv == PastInv /\ SourceInv /\ EntryInv

\* Between two revisions k had another value in a clean build.
DiffersIn(k, from, to) == \E r \in from + 1 .. to : Differs(k, r)

\* A dependency that changed since had another value in some build since.
DriftInv ==
  \A k \in Key \ Input : memo[k] # None =>
    \A i \in DOMAIN memo[k].deps :
      memo[memo[k].deps[i]].computed_at > memo[k].verified_at =>
        DiffersIn(memo[k].deps[i], memo[k].verified_at, memo[memo[k].deps[i]].verified_at)

-----------------------------------------------------------------------------
(* Builds *)

\* What an entry depends on is a key with an entry of its own.
LEMMA DepOK ==
  ASSUME MemoInv, NEW k \in Key, EntryOK(k), NEW i \in DOMAIN memo[k].deps, NEW e,
         e = memo[k].deps[i]
  PROVE  e \in Key /\ memo[e] # None /\ EntryOK(e)
<1>1. memo[k].deps \in Seq(Key) /\ memo[e] # None
  BY DEF EntryOK
<1>2. e \in Key
  <2>1. i \in 1 .. Len(memo[k].deps)
    BY <1>1
  <2> QED BY <1>1, <2>1, ElementOfSeq
<1>3. EntryOK(e)
  BY <1>1, <1>2 DEF MemoInv
<1> QED BY <1>1, <1>2, <1>3

LEMMA IsWorkspace ==
  ASSUME NEW F \in SUBSET Input, NEW w, w = [k \in F |-> w[k]], \A k \in F : w[k] \in Texts[k]
  PROVE  w \in Workspaces /\ DOMAIN w = F
<1>1. PICK all : all = UNION {Texts[k] : k \in F}
  OBVIOUS
<1>2. w \in [F -> all] /\ DOMAIN w = F
  BY <1>1
<1>3. w \in UNION {[G -> UNION {Texts[k] : k \in G}] : G \in SUBSET Input}
  BY <1>1, <1>2
<1> QED BY <1>2, <1>3 DEF Workspaces

\* A query of the build asks these keys, is done, and is what its evaluator says.
Runs(k, b) ==
  /\ k \in DOMAIN b /\ b[k].asks \in Seq(Key)
  /\ \A i \in DOMAIN b[k].asks : b[k].asks[i] \in DOMAIN b
  /\ Ends(k, b[k].asks, Told(b[k].asks, b))
  /\ b[k].value = IF k \in Collectors
                  THEN [own |-> Result(k, Told(b[k].asks, b), Registered),
                        collected |-> Under(b[k].asks, b)]
                  ELSE Result(k, Told(b[k].asks, b), Registered)
  /\ b[k].below = Emits(k, Told(b[k].asks, b), Registered) \cup Under(b[k].asks, b)

LEMMA BuildRuns ==
  ASSUME PastInv, NEW r \in 1 .. revision, DOMAIN past[r] = Registered,
         NEW k \in Key \ Input, needs[k] \subseteq Registered
  PROVE  Runs(k, Build(r))
<1>1. PICK w : w = past[r]
  OBVIOUS
<1>2. PICK b : b = CleanBuild[w]
  OBVIOUS
<1>3. w \in Workspaces /\ DOMAIN w = Registered /\ IsCleanBuild(w, b)
  BY <1>1, <1>2, CleanBuildAssumption DEF PastInv
<1>4. k \in DOMAIN b /\ DOMAIN b \subseteq Key
  BY <1>3 DEF IsCleanBuild
<1>5. PICK asks : asks = b[k].asks
  OBVIOUS
<1>6. PICK told : told = Told(asks, b)
  OBVIOUS
<1>7. /\ asks \in Seq(DOMAIN b)
      /\ \A i \in DOMAIN asks : Ask(k, SubSeq(told, 1, i - 1), Registered) = asks[i]
      /\ Ask(k, told, Registered) = Done
      /\ b[k].value = IF k \in Collectors
                      THEN [own |-> Result(k, told, Registered), collected |-> Under(asks, b)]
                      ELSE Result(k, told, Registered)
      /\ b[k].below = Emits(k, told, Registered) \cup Under(asks, b)
  <2>1. k \in DOMAIN b \ Input
    BY <1>4
  <2>2. /\ b[k].asks \in Seq(DOMAIN b)
        /\ \A i \in DOMAIN b[k].asks :
             Ask(k, SubSeq(Told(b[k].asks, b), 1, i - 1), DOMAIN w) = b[k].asks[i]
        /\ Ask(k, Told(b[k].asks, b), DOMAIN w) = Done
        /\ b[k].value = IF k \in Collectors
                        THEN [own |-> Result(k, Told(b[k].asks, b), DOMAIN w),
                              collected |-> Under(b[k].asks, b)]
                        ELSE Result(k, Told(b[k].asks, b), DOMAIN w)
        /\ b[k].below = Emits(k, Told(b[k].asks, b), DOMAIN w) \cup Under(b[k].asks, b)
    BY <1>3, <2>1, Zenon DEF IsCleanBuild
  <2> QED BY <1>3, <1>5, <1>6, <2>2, Zenon
<1>8. asks \in Seq(Key) /\ \A i \in DOMAIN asks : asks[i] \in DOMAIN b
  BY <1>4, <1>7, ElementOfSeq
<1>9. Ends(k, asks, told)
  BY <1>7 DEF Ends, Script
<1>10. Runs(k, b)
  BY <1>4, <1>5, <1>6, <1>7, <1>8, <1>9 DEF Runs
<1> QED BY <1>1, <1>2, <1>10 DEF Build

\* A file of the build says its text.
LEMMA BuildTexts ==
  ASSUME PastInv, Proper, NEW r \in 1 .. revision, NEW s \in Input, s \in DOMAIN past[r]
  PROVE  Build(r)[s].value = past[r][s] /\ Build(r)[s].below = {}
<1>1. PICK w : w = past[r]
  OBVIOUS
<1>2. PICK b : b = CleanBuild[w]
  OBVIOUS
<1>3. w \in Workspaces /\ IsCleanBuild(w, b)
  BY <1>1, <1>2, CleanBuildAssumption DEF PastInv
<1>4. s \in Key /\ needs[s] = {s}
  BY KeyAssumption DEF Proper
<1>5. s \in DOMAIN b
  BY <1>1, <1>3, <1>4 DEF IsCleanBuild
<1>6. b[s].value = w[s] /\ b[s].below = {}
  BY <1>3, <1>5 DEF IsCleanBuild
<1> QED BY <1>1, <1>2, <1>6 DEF Build

\* An evaluation that is told what the build tells asks what the build asks.
LEMMA SameRun ==
  ASSUME NEW h \in Key, NEW b, Runs(h, b), NEW deps \in Seq(Key), Ends(h, deps, Told(deps, b))
  PROVE  deps = b[h].asks
<1>1. PICK value : value = [k \in Key |-> b[k].value]
  OBVIOUS
<1>2. PICK asks : asks = b[h].asks
  OBVIOUS
<1>3. asks \in Seq(Key) /\ Ends(h, asks, Told(asks, b))
  BY <1>2 DEF Runs
<1>4. Told(deps, b) = ToldBy(deps, value)
  <2>1. \A i \in DOMAIN deps : value[deps[i]] = b[deps[i]].value
    BY <1>1, ElementOfSeq
  <2> QED BY <2>1 DEF Told, ToldBy
<1>5. Told(asks, b) = ToldBy(asks, value)
  <2>1. \A i \in DOMAIN asks : value[asks[i]] = b[asks[i]].value
    BY <1>1, <1>3, ElementOfSeq
  <2> QED BY <2>1 DEF Told, ToldBy
<1>6. Ends(h, deps, ToldBy(deps, value)) /\ Ends(h, asks, ToldBy(asks, value))
  BY <1>3, <1>4, <1>5
<1>7. deps = asks
  BY <1>3, <1>6, OneRun
<1> QED BY <1>2, <1>7

\* What is known of a key that is fresh.
LEMMA FreshIsBuilt ==
  ASSUME IInv, Proper, HistInv, NEW k \in Key, Fresh(k)
  PROVE  /\ 1 <= revision /\ revision \in Nat /\ memo[k].value = Build(revision)[k].value
         /\ k \notin Input => DOMAIN past[revision] = Registered /\ IsOf(k, revision)
<1>1. /\ memo[k] # None /\ memo[k].verified_at = revision /\ revision \in Nat
      /\ 1 <= memo[k].computed_at /\ memo[k].computed_at <= revision
      /\ memo[k].computed_at \in Nat
  BY DEF Fresh, IInv, MemoInv, EntryOK, CountInv
<1>2. 1 <= revision /\ revision \in 1 .. revision
  BY <1>1
<1>3. CASE k \in Input
  <2>1. k \in Registered
    BY <1>1, <1>3 DEF Registered
  <2>2. k \in DOMAIN past[revision] /\ past[revision][k] = memo[k].value
    BY <1>1, <1>2, <2>1 DEF HistInv, SourceInv
  <2> QED BY <1>1, <1>2, <1>3, <2>2, BuildTexts DEF HistInv
<1>4. CASE k \notin Input
  <2>1. SameFiles(k) /\ IsOf(k, revision)
    BY <1>1, <1>4 DEF HistInv, EntryInv
  <2>2. DOMAIN past[revision] = Registered
    BY <1>1, <2>1 DEF SameFiles
  <2>3. memo[k].value = Build(revision)[k].value
    BY <2>1 DEF IsOf
  <2> QED BY <1>1, <1>2, <2>1, <2>2, <2>3
<1> QED BY <1>3, <1>4

-----------------------------------------------------------------------------
(* Diagnostics below an entry: following dependencies is well founded *)

\* The dependencies of each key of P are in P, of a lower level.
Descends(P, level, deps) ==
  /\ level \in [P -> Nat]
  /\ \A k \in P : \A i \in DOMAIN deps[k] : deps[k][i] \in P /\ level[deps[k][i]] < level[k]

ClosedIn(S, P, deps) == S \subseteq P /\ \A k \in S : \A i \in DOMAIN deps[k] : deps[k][i] \in S

\* f gathers, for each key of S, its own and what its dependencies gather.
Gathers(f, S, own, deps) ==
  f = [k \in S |-> own[k] \cup UNION {f[deps[k][i]] : i \in DOMAIN deps[k]}]

LEMMA OneGathering ==
  ASSUME NEW P, NEW level, NEW own, NEW deps, Descends(P, level, deps),
         NEW S, ClosedIn(S, P, deps), NEW f, Gathers(f, S, own, deps),
         NEW T, ClosedIn(T, P, deps), NEW g, Gathers(g, T, own, deps)
  PROVE  \A k \in S \cap T : f[k] = g[k]
<1> SUFFICES ASSUME ~(\A k \in S \cap T : f[k] = g[k]) PROVE FALSE
  OBVIOUS
<1>1. PICK B : B = {k \in S \cap T : f[k] # g[k]}
  OBVIOUS
<1>2. PICK N : N = {level[k] : k \in B}
  OBVIOUS
<1>3. N # {} /\ N \in SUBSET Nat /\ B \subseteq P
  BY <1>1, <1>2 DEF Descends, ClosedIn
<1>4. PICK h \in B : \A k \in B : level[h] <= level[k]
  <2>1. PICK m \in N : \A n \in N : m <= n
    BY <1>3, LeastNumber
  <2> QED BY <1>2, <2>1
<1>5. h \in S /\ h \in T /\ h \in P /\ f[h] # g[h]
  BY <1>1, <1>3
<1>6. ASSUME NEW i \in DOMAIN deps[h] PROVE f[deps[h][i]] = g[deps[h][i]]
  <2>1. PICK d : d = deps[h][i]
    OBVIOUS
  <2>2. d \in S /\ d \in T /\ d \in P /\ level[d] < level[h]
    BY <1>5, <2>1 DEF ClosedIn, Descends
  <2>3. level[d] \in Nat /\ level[h] \in Nat
    BY <1>5, <2>2 DEF Descends
  <2>4. d \notin B
    BY <1>4, <2>2, <2>3
  <2> QED BY <1>1, <2>1, <2>2, <2>4
<1>7. f[h] = own[h] \cup UNION {f[deps[h][i]] : i \in DOMAIN deps[h]}
  BY <1>5 DEF Gathers
<1>8. g[h] = own[h] \cup UNION {g[deps[h][i]] : i \in DOMAIN deps[h]}
  BY <1>5 DEF Gathers
<1>9. {f[deps[h][i]] : i \in DOMAIN deps[h]} = {g[deps[h][i]] : i \in DOMAIN deps[h]}
  BY <1>6
<1> QED BY <1>5, <1>7, <1>8, <1>9

\* The keys of P below level n.
Below(n, P, level) == {k \in P : level[k] < n}

LEMMA BelowClosed ==
  ASSUME NEW P, NEW level, NEW deps, Descends(P, level, deps), NEW n \in Nat
  PROVE  ClosedIn(Below(n, P, level), P, deps)
<1>1. ASSUME NEW k \in Below(n, P, level), NEW i \in DOMAIN deps[k]
      PROVE  deps[k][i] \in Below(n, P, level)
  <2>1. /\ deps[k][i] \in P /\ level[deps[k][i]] < level[k] /\ level[k] < n
        /\ level[k] \in Nat /\ level[deps[k][i]] \in Nat
    BY <1>1 DEF Below, Descends
  <2> QED BY <2>1 DEF Below
<1> QED BY <1>1 DEF ClosedIn, Below

\* Level by level, ...
LEMMA GatheringBelow ==
  ASSUME NEW P, NEW level, NEW own, NEW deps, Descends(P, level, deps), NEW n \in Nat
  PROVE  \E f : Gathers(f, Below(n, P, level), own, deps)
<1> SUFFICES ASSUME ~ \E f : Gathers(f, Below(n, P, level), own, deps) PROVE FALSE
  OBVIOUS
<1>1. PICK N : N = {m \in Nat : ~ \E f : Gathers(f, Below(m, P, level), own, deps)}
  OBVIOUS
<1>2. PICK m \in N : \A x \in N : m <= x
  BY <1>1, LeastNumber
<1>3. CASE m = 0
  <2>1. Below(0, P, level) = {}
    BY DEF Below, Descends
  <2>2. PICK f : f = [k \in {} |-> 0]
    OBVIOUS
  <2>3. Gathers(f, {}, own, deps)
    BY <2>2 DEF Gathers
  <2> QED BY <1>1, <1>3, <2>1, <2>3
<1>4. CASE m # 0
  <2>1. m \in Nat /\ m - 1 \in Nat /\ m - 1 < m
    BY <1>1, <1>4
  <2>2. PICK f : Gathers(f, Below(m - 1, P, level), own, deps)
    BY <1>1, <1>2, <2>1
  <2>3. PICK S : S = Below(m, P, level)
    OBVIOUS
  <2>4. PICK L : L = Below(m - 1, P, level)
    OBVIOUS
  <2>5. PICK g : g = [k \in S |-> own[k] \cup UNION {f[deps[k][i]] : i \in DOMAIN deps[k]}]
    OBVIOUS
  <2>6. ASSUME NEW k \in S, NEW i \in DOMAIN deps[k]
        PROVE  deps[k][i] \in L /\ deps[k][i] \in S
    <3>1. /\ deps[k][i] \in P /\ level[deps[k][i]] < level[k] /\ level[k] < m
          /\ level[k] \in Nat /\ level[deps[k][i]] \in Nat
      BY <2>3, <2>6 DEF Below, Descends
    <3>2. level[deps[k][i]] < m - 1 /\ level[deps[k][i]] < m
      BY <2>1, <3>1
    <3> QED BY <2>3, <2>4, <3>1, <3>2 DEF Below
  <2>7. ASSUME NEW k \in L PROVE g[k] = f[k]
    <3>1. k \in S
      <4>1. k \in P /\ level[k] < m - 1 /\ level[k] \in Nat
        BY <2>4, <2>7 DEF Below, Descends
      <4>2. level[k] < m
        BY <2>1, <4>1
      <4> QED BY <2>3, <4>1, <4>2 DEF Below
    <3>2. f[k] = own[k] \cup UNION {f[deps[k][i]] : i \in DOMAIN deps[k]}
      BY <2>2, <2>4, <2>7 DEF Gathers
    <3> QED BY <2>5, <3>1, <3>2
  <2>8. ASSUME NEW k \in S
        PROVE  g[k] = own[k] \cup UNION {g[deps[k][i]] : i \in DOMAIN deps[k]}
    <3>1. \A i \in DOMAIN deps[k] : g[deps[k][i]] = f[deps[k][i]]
      BY <2>6, <2>7, <2>8
    <3>2. {g[deps[k][i]] : i \in DOMAIN deps[k]} = {f[deps[k][i]] : i \in DOMAIN deps[k]}
      BY <3>1
    <3> QED BY <2>5, <2>8, <3>2
  <2>9. Gathers(g, S, own, deps)
    <3>1. g = [k \in S |-> g[k]]
      BY <2>5
    <3> QED BY <2>8, <3>1 DEF Gathers
  <2> QED BY <1>1, <2>3, <2>9
<1> QED BY <1>3, <1>4

\* ... there is a way to gather from all of P.
LEMMA GatheringExists ==
  ASSUME NEW P, NEW level, NEW own, NEW deps, Descends(P, level, deps)
  PROVE  \E f : Gathers(f, P, own, deps)
<1>1. PICK at : at = [n \in Nat |-> CHOOSE f : Gathers(f, Below(n, P, level), own, deps)]
  OBVIOUS
<1>2. \A n \in Nat : Gathers(at[n], Below(n, P, level), own, deps)
  <2>1. ASSUME NEW n \in Nat PROVE Gathers(at[n], Below(n, P, level), own, deps)
    <3>1. \E f : Gathers(f, Below(n, P, level), own, deps)
      BY GatheringBelow
    <3>2. Gathers(CHOOSE f : Gathers(f, Below(n, P, level), own, deps),
                  Below(n, P, level), own, deps)
      BY <3>1
    <3> QED BY <1>1, <3>2
  <2> QED BY <2>1
<1>3. PICK f : f = [k \in P |-> at[level[k] + 1][k]]
  OBVIOUS
<1>4. ASSUME NEW k \in P
      PROVE  f[k] = own[k] \cup UNION {f[deps[k][i]] : i \in DOMAIN deps[k]}
  <2>1. level[k] \in Nat /\ level[k] + 1 \in Nat /\ level[k] < level[k] + 1
    BY DEF Descends
  <2>2. PICK n \in Nat : n = level[k] + 1
    BY <2>1
  <2>3. k \in Below(n, P, level)
    BY <2>1, <2>2 DEF Below
  <2>4. at[n][k] = own[k] \cup UNION {at[n][deps[k][i]] : i \in DOMAIN deps[k]}
    BY <1>2, <2>3 DEF Gathers
  <2>5. ASSUME NEW i \in DOMAIN deps[k] PROVE f[deps[k][i]] = at[n][deps[k][i]]
    <3>1. PICK d : d = deps[k][i]
      OBVIOUS
    <3>2. d \in P /\ level[d] < level[k] /\ level[d] \in Nat
      BY <3>1 DEF Descends
    <3>3. PICK m \in Nat : m = level[d] + 1
      BY <3>2
    <3>4. d \in Below(n, P, level) /\ d \in Below(m, P, level)
      BY <2>1, <2>2, <3>2, <3>3 DEF Below
    <3>5. at[m][d] = at[n][d]
      <4>1. ClosedIn(Below(n, P, level), P, deps) /\ ClosedIn(Below(m, P, level), P, deps)
        BY BelowClosed
      <4>2. \A x \in Below(m, P, level) \cap Below(n, P, level) : at[m][x] = at[n][x]
        BY <1>2, <4>1, OneGathering
      <4> QED BY <3>4, <4>2
    <3> QED BY <1>3, <3>1, <3>2, <3>3, <3>5
  <2>6. {f[deps[k][i]] : i \in DOMAIN deps[k]} = {at[n][deps[k][i]] : i \in DOMAIN deps[k]}
    BY <2>5
  <2> QED BY <1>3, <2>2, <2>4, <2>6
<1>5. f = [k \in P |-> f[k]]
  BY <1>3
<1> QED BY <1>4, <1>5 DEF Gathers

\* The keys with an entry, what they depend on and what they emit.
Present == {k \in Key : memo[k] # None}
DepsOf  == [k \in Present |-> memo[k].deps]
OwnOf   == [k \in Present |-> memo[k].diags]

LEMMA PresentDescends ==
  ASSUME IInv, Proper, NEW level, level = [k \in Present |-> rank[k]]
  PROVE  Descends(Present, level, DepsOf)
<1>1. level \in [Present -> Nat]
  BY DEF Proper, Present
<1>2. ASSUME NEW k \in Present, NEW i \in DOMAIN DepsOf[k]
      PROVE  DepsOf[k][i] \in Present /\ level[DepsOf[k][i]] < level[k]
  <2>1. DepsOf[k] = memo[k].deps /\ EntryOK(k)
    BY DEF DepsOf, Present, IInv, MemoInv
  <2>2. PICK d : d = memo[k].deps[i]
    OBVIOUS
  <2>3. d \in Key /\ memo[d] # None /\ rank[d] < rank[k]
    BY <1>2, <2>1, <2>2, ElementOfSeq DEF EntryOK
  <2> QED BY <2>1, <2>2, <2>3 DEF Present
<1> QED BY <1>1, <1>2 DEF Descends

LEMMA CollectedGathers ==
  ASSUME IInv, Proper
  PROVE  \E f : /\ Gathers(f, Present, OwnOf, DepsOf)
                /\ \A asks : Collected(asks) = UNION {f[asks[i]] : i \in DOMAIN asks}
<1>1. PICK level : level = [k \in Present |-> rank[k]]
  OBVIOUS
<1>2. Descends(Present, level, DepsOf)
  BY <1>1, PresentDescends
<1>3. PICK f : Gathers(f, Present, OwnOf, DepsOf)
  BY <1>2, GatheringExists
<1>4. \A g : Gathers(g, Present, OwnOf, DepsOf) <=>
        g = [k \in {j \in Key : memo[j] # None} |->
               memo[k].diags \cup UNION {g[memo[k].deps[i]] : i \in DOMAIN memo[k].deps}]
  <2>1. \A k \in Present : OwnOf[k] = memo[k].diags /\ DepsOf[k] = memo[k].deps
    BY DEF OwnOf, DepsOf
  <2>2. ASSUME NEW g
        PROVE  Gathers(g, Present, OwnOf, DepsOf) <=>
               g = [k \in {j \in Key : memo[j] # None} |->
                      memo[k].diags \cup UNION {g[memo[k].deps[i]] : i \in DOMAIN memo[k].deps}]
    <3>1. PICK there : there =
            [k \in Present |-> OwnOf[k] \cup UNION {g[DepsOf[k][i]] : i \in DOMAIN DepsOf[k]}]
      OBVIOUS
    <3>2. there = [k \in {j \in Key : memo[j] # None} |->
                     memo[k].diags \cup UNION {g[memo[k].deps[i]] : i \in DOMAIN memo[k].deps}]
      BY <2>1, <3>1 DEF Present
    <3>3. Gathers(g, Present, OwnOf, DepsOf) <=> g = there
      BY <3>1, Zenon DEF Gathers
    <3> QED BY <3>2, <3>3, Zenon
  <2> QED BY <2>2, Zenon
<1>5. PICK below : below = CHOOSE g :
        g = [k \in {j \in Key : memo[j] # None} |->
               memo[k].diags \cup UNION {g[memo[k].deps[i]] : i \in DOMAIN memo[k].deps}]
  OBVIOUS
<1>6. Gathers(below, Present, OwnOf, DepsOf)
  BY <1>3, <1>4, <1>5
<1>7. \A asks : Collected(asks) = UNION {below[asks[i]] : i \in DOMAIN asks}
  BY <1>5 DEF Collected
<1> QED BY <1>6, <1>7

\* What a collector gathers from fresh entries is what the build gathers.
LEMMA CollectedIsBuilt ==
  ASSUME IInv, Proper, HistInv, NEW asks \in Seq(Key), \A i \in DOMAIN asks : Fresh(asks[i])
  PROVE  Collected(asks) = Under(asks, Build(revision))
<1>1. PICK b : b = Build(revision)
  OBVIOUS
<1>2. PICK T : T = {k \in Key : Fresh(k)}
  OBVIOUS
<1>3. PICK g : g = [k \in T |-> b[k].below]
  OBVIOUS
<1>4. PICK f : /\ Gathers(f, Present, OwnOf, DepsOf)
               /\ Collected(asks) = UNION {f[asks[i]] : i \in DOMAIN asks}
  BY CollectedGathers
<1>5. T \subseteq Present /\ \A k \in T : OwnOf[k] = memo[k].diags /\ DepsOf[k] = memo[k].deps
  BY <1>2 DEF Fresh, Present, OwnOf, DepsOf
<1>6. ASSUME NEW k \in T
      PROVE  /\ \A i \in DOMAIN DepsOf[k] : DepsOf[k][i] \in T
             /\ b[k].below = OwnOf[k] \cup UNION {b[DepsOf[k][i]].below : i \in DOMAIN DepsOf[k]}
  <2>1. k \in Key /\ Fresh(k) /\ memo[k] # None /\ EntryOK(k) /\ FreshDeps(k)
    BY <1>2 DEF Fresh, IInv, MemoInv
  <2>2. \A i \in DOMAIN DepsOf[k] : DepsOf[k][i] \in T
    BY <1>2, <1>5, <2>1, ElementOfSeq DEF EntryOK, FreshDeps
  <2>3. 1 <= revision /\ revision \in Nat
    BY <2>1, FreshIsBuilt
  <2>4. CASE k \in Input
    <3>1. k \in Registered
      BY <2>1, <2>4 DEF Registered
    <3>2. memo[k].diags = {} /\ memo[k].deps = << >> /\ memo[k].computed_at <= revision
      <4>1. /\ memo[k].computed_at \in Nat /\ memo[k].verified_at \in Nat
            /\ memo[k].computed_at <= memo[k].verified_at /\ memo[k].verified_at <= revision
        BY <2>1 DEF EntryOK
      <4> QED BY <2>1, <2>3, <2>4, <3>1, <4>1 DEF HistInv, SourceInv, EntryOK
    <3>3. revision \in 1 .. revision
      BY <2>3
    <3>4. k \in DOMAIN past[revision]
      BY <3>1, <3>2, <3>3 DEF HistInv, SourceInv
    <3>5. b[k].below = {}
      BY <1>1, <2>4, <3>3, <3>4, BuildTexts DEF HistInv
    <3>6. DOMAIN << >> = {}
      OBVIOUS
    <3> QED BY <1>5, <2>2, <3>2, <3>5, <3>6
  <2>5. CASE k \notin Input
    <3>1. DOMAIN past[revision] = Registered /\ IsOf(k, revision) /\ revision \in 1 .. revision
      BY <2>1, <2>3, <2>5, FreshIsBuilt
    <3>2. needs[k] \subseteq Registered
      BY <2>1, <2>5 DEF EntryOK
    <3>3. Runs(k, b)
      BY <1>1, <2>1, <2>5, <3>1, <3>2, BuildRuns DEF HistInv
    <3>4. /\ memo[k].deps = b[k].asks
          /\ memo[k].diags = Emits(k, Told(b[k].asks, b), Registered)
      BY <1>1, <3>1 DEF IsOf
    <3>5. b[k].below = memo[k].diags \cup Under(memo[k].deps, b)
      BY <3>3, <3>4 DEF Runs
    <3> QED BY <1>5, <2>2, <3>5 DEF Under
  <2> QED BY <2>4, <2>5
<1>7. Gathers(g, T, OwnOf, DepsOf)
  <2>1. ASSUME NEW k \in T
        PROVE  g[k] = OwnOf[k] \cup UNION {g[DepsOf[k][i]] : i \in DOMAIN DepsOf[k]}
    <3>1. \A i \in DOMAIN DepsOf[k] : g[DepsOf[k][i]] = b[DepsOf[k][i]].below
      BY <1>3, <1>6
    <3>2. {g[DepsOf[k][i]] : i \in DOMAIN DepsOf[k]}
          = {b[DepsOf[k][i]].below : i \in DOMAIN DepsOf[k]}
      BY <3>1
    <3> QED BY <1>3, <1>6, <3>2
  <2>2. g = [k \in T |-> g[k]]
    BY <1>3
  <2> QED BY <2>1, <2>2 DEF Gathers
<1>8. PICK level : level = [k \in Present |-> rank[k]]
  OBVIOUS
<1>9. Descends(Present, level, DepsOf)
  BY <1>8, PresentDescends
<1>10. ClosedIn(T, Present, DepsOf) /\ ClosedIn(Present, Present, DepsOf)
  BY <1>5, <1>6, <1>9 DEF ClosedIn, Descends
<1>11. \A k \in T \cap Present : g[k] = f[k]
  BY <1>4, <1>7, <1>9, <1>10, OneGathering
<1>12. \A i \in DOMAIN asks : f[asks[i]] = b[asks[i]].below
  <2>1. \A i \in DOMAIN asks : asks[i] \in T
    BY <1>2, ElementOfSeq
  <2> QED BY <1>3, <1>5, <1>11, <2>1
<1>13. {f[asks[i]] : i \in DOMAIN asks} = {b[asks[i]].below : i \in DOMAIN asks}
  BY <1>12
<1> QED BY <1>1, <1>4, <1>13 DEF Under

-----------------------------------------------------------------------------
(* Steps *)

\* An entry that says what the build of the present texts says.
BuiltEntry(h, entry) ==
  /\ h \in Input => /\ entry.value = memo[h].value /\ entry.diags = memo[h].diags
                    /\ entry.computed_at = memo[h].computed_at
  /\ h \notin Input =>
       /\ DOMAIN past[revision] = Registered
       /\ entry.value = Build(revision)[h].value /\ entry.deps = Build(revision)[h].asks
       /\ entry.diags = Emits(h, Told(Build(revision)[h].asks, Build(revision)), Registered)

\* Other entries keep their history when one is written.
LEMMA WrittenElsewhere ==
  ASSUME MemoInv, CountInv, EntryInv, NEW h, NEW entry, Writable(h, entry), Writes(h, entry),
         NEW k \in Key \ Input, k # h, memo[k] # None
  PROVE  /\ SameFiles(k)' /\ IsOf(k, memo[k].verified_at)'
         /\ \A i \in DOMAIN memo[k].deps : Keeps(k, memo[k].deps[i])'
<1>1. /\ revision' = revision /\ past' = past /\ memo'[h] = entry /\ h \in Key /\ ~Fresh(h)
      /\ \A d \in Key : d # h => memo'[d] = memo[d]
      /\ Registered' = Registered
  BY WrittenShape DEF Writable, Writes
<1>2. /\ memo'[k] = memo[k] /\ EntryOK(k) /\ SameFiles(k) /\ IsOf(k, memo[k].verified_at)
      /\ \A i \in DOMAIN memo[k].deps : Keeps(k, memo[k].deps[i])
  BY <1>1 DEF MemoInv, EntryInv
<1>3. SameFiles(k)' /\ IsOf(k, memo[k].verified_at)'
  BY <1>1, <1>2 DEF SameFiles, IsOf, Build
<1>4. ASSUME NEW d \in Key, memo[d] # None, Keeps(k, d) PROVE Keeps(k, d)'
  <2>1. CASE d # h
    BY <1>1, <1>2, <1>4, <2>1 DEF Keeps, Build
  <2>2. CASE d = h
    <3>1. EntryOK(h)
      BY <1>4, <2>2 DEF MemoInv
    <3>2. /\ memo[h].verified_at \in Nat /\ memo[h].verified_at < revision /\ revision \in Nat
          /\ memo[k].verified_at <= memo[h].verified_at /\ memo[k].verified_at \in Nat
      <4>1. memo[h].verified_at # revision
        BY <1>1, <1>4, <2>2 DEF Fresh
      <4>2. memo[k].verified_at <= memo[h].verified_at
        BY <1>4, <2>2 DEF Keeps
      <4>3. /\ memo[h].verified_at \in Nat /\ memo[h].verified_at <= revision
            /\ memo[k].verified_at \in Nat
        BY <1>2, <3>1 DEF EntryOK
      <4>4. revision \in Nat
        BY DEF CountInv
      <4> QED BY <4>1, <4>2, <4>3, <4>4
    <3>3. memo[k].verified_at < revision
      BY <3>2
    <3>4. entry.verified_at = revision
      BY DEF Writable
    <3>5. CASE entry.computed_at = revision
      <4>1. ~(entry.computed_at <= memo[k].verified_at)
        BY <3>2, <3>3, <3>5
      <4>2. memo[k].verified_at <= revision
        BY <3>2, <3>3
      <4> QED BY <1>1, <1>2, <2>2, <3>4, <4>1, <4>2 DEF Keeps
    <3>6. CASE entry.value = memo[h].value /\ entry.computed_at = memo[h].computed_at
      <4>1. memo[k].verified_at <= revision
        BY <3>2, <3>3
      <4> QED BY <1>1, <1>2, <1>4, <2>2, <3>4, <3>6, <4>1 DEF Keeps, Build
    <3> QED BY <3>5, <3>6 DEF Writable
  <2> QED BY <2>1, <2>2
<1>5. \A i \in DOMAIN memo[k].deps : memo[k].deps[i] \in Key /\ memo[memo[k].deps[i]] # None
  BY <1>2, ElementOfSeq DEF EntryOK
<1>6. PICK deps : deps = memo[k].deps
  OBVIOUS
<1>7. \A i \in DOMAIN deps : Keeps(k, deps[i])'
  BY <1>2, <1>4, <1>5, <1>6
<1> QED BY <1>2, <1>3, <1>6, <1>7

LEMMA WriteKeepsHistory ==
  ASSUME IInv, Proper, HistInv, NEW h, NEW entry,
         Writable(h, entry), Writes(h, entry), BuiltEntry(h, entry), 1 <= revision
  PROVE  HistInv'
<1>1. /\ revision' = revision /\ past' = past /\ memo'[h] = entry /\ entry # None
      /\ h \in Key /\ ~Fresh(h)
      /\ \A d \in Key : d # h => memo'[d] = memo[d]
      /\ Registered' = Registered /\ revision \in Nat
      /\ entry.verified_at = revision
  BY WrittenShape DEF Writable, Writes, IInv, CountInv
<1>2. \A s \in Registered : /\ memo'[s].value = memo[s].value /\ memo'[s].diags = memo[s].diags
                            /\ memo'[s].computed_at = memo[s].computed_at
  <2>1. \A s \in Registered : s \in Input /\ s \in Key
    BY KeyAssumption DEF Registered
  <2> QED BY <1>1, <2>1 DEF BuiltEntry
<1>3. Sources' = Sources
  BY <1>1, <1>2 DEF Sources
<1>4. PastInv'
  BY <1>1, <1>3 DEF HistInv, PastInv
<1>5. SourceInv'
  BY <1>1, <1>2 DEF HistInv, SourceInv
<1>6. ASSUME NEW k \in Key \ Input, memo'[k] # None
      PROVE  /\ SameFiles(k)' /\ IsOf(k, memo[k].verified_at)'
             /\ \A i \in DOMAIN memo'[k].deps : Keeps(k, memo[k].deps[i])'
  <2>1. CASE k # h
    <3>1. memo'[k] = memo[k] /\ memo[k] # None
      BY <1>1, <1>6, <2>1
    <3> QED BY <2>1, <3>1, WrittenElsewhere DEF HistInv, IInv
  <2>2. CASE k = h
    <3>1. /\ DOMAIN past[revision] = Registered
          /\ entry.value = Build(revision)[h].value /\ entry.deps = Build(revision)[h].asks
          /\ entry.diags = Emits(h, Told(Build(revision)[h].asks, Build(revision)), Registered)
      BY <2>2 DEF BuiltEntry
    <3>2. SameFiles(h)'
      <4>1. \A r \in revision .. revision : r = revision
        BY <1>1
      <4> QED BY <1>1, <3>1, <4>1 DEF SameFiles
    <3>3. IsOf(h, memo[h].verified_at)'
      BY <1>1, <3>1 DEF IsOf, Build
    <3>4. ASSUME NEW i \in DOMAIN entry.deps PROVE Keeps(h, entry.deps[i])'
      <4>1. PICK d : d = entry.deps[i]
        OBVIOUS
      <4>2. d \in Key /\ Fresh(d)
        BY <4>1, ElementOfSeq DEF Writable
      <4>3. memo[d].verified_at = revision /\ memo'[d] = memo[d]
        BY <1>1, <4>2 DEF Fresh
      <4>4. memo[d].value = Build(revision)[d].value
        BY <4>2, FreshIsBuilt
      <4>5. Keeps(h, d)'
        BY <1>1, <4>3, <4>4 DEF Keeps, Build
      <4> QED BY <4>1, <4>5
    <3>5. PICK deps : deps = entry.deps
      OBVIOUS
    <3>6. \A i \in DOMAIN deps : Keeps(h, deps[i])'
      BY <3>4, <3>5
    <3> QED BY <1>1, <2>2, <3>2, <3>3, <3>5, <3>6
  <2> QED BY <2>1, <2>2
<1>7. EntryInv'
  BY <1>6 DEF EntryInv
<1> QED BY <1>4, <1>5, <1>7 DEF HistInv

\* A query that is verified still says what the build says: it would be asked and
\* told the same, and a collector gathers the same.
LEMMA VerifiedIsBuilt ==
  ASSUME IInv, Proper, HistInv, CollectorsObserve, 1 <= revision,
         NEW h, NEW entry, Writable(h, entry), Verifies(h, entry)
  PROVE  BuiltEntry(h, entry)
<1>1. /\ h \in Key /\ memo[h] # None /\ EntryOK(h) /\ revision \in Nat
      /\ entry.value = memo[h].value /\ entry.deps = memo[h].deps
      /\ entry.diags = memo[h].diags /\ entry.computed_at = memo[h].computed_at
      /\ \A j \in DOMAIN memo[h].deps : Checked(memo[h].deps[j], memo[h].verified_at)
  BY DEF Verifies, IInv, MemoInv, EntryFields, CountInv
<1>2. CASE h \in Input
  BY <1>1, <1>2 DEF BuiltEntry
<1>3. CASE h \notin Input
  <2>1. PICK v : v = memo[h].verified_at
    OBVIOUS
  <2>2. v \in 1 .. revision /\ revision \in 1 .. revision /\ v \in v .. revision
        /\ revision \in v .. revision
    BY <1>1, <2>1 DEF EntryOK
  <2>3. /\ DOMAIN past[v] = Registered /\ DOMAIN past[revision] = Registered
        /\ IsOf(h, v) /\ \A j \in DOMAIN memo[h].deps : Keeps(h, memo[h].deps[j])
    BY <1>1, <1>3, <2>1, <2>2 DEF HistInv, EntryInv, SameFiles
  <2>4. PICK b, now : b = Build(v) /\ now = Build(revision)
    OBVIOUS
  <2>5. Runs(h, b) /\ Runs(h, now)
    BY <1>1, <1>3, <2>2, <2>3, <2>4, BuildRuns DEF HistInv, EntryOK
  <2>6. PICK deps : deps = memo[h].deps
    OBVIOUS
  <2>7. /\ deps \in Seq(Key) /\ deps = b[h].asks /\ memo[h].value = b[h].value
        /\ memo[h].diags = Emits(h, Told(deps, b), Registered)
    BY <1>1, <2>3, <2>4, <2>6 DEF IsOf, EntryOK
  <2>8. ASSUME NEW j \in DOMAIN deps PROVE b[deps[j]].value = now[deps[j]].value
    <3>1. PICK d : d = deps[j]
      OBVIOUS
    <3>2. d \in Key /\ Fresh(d) /\ memo[d].computed_at <= v /\ Keeps(h, d)
      BY <1>1, <2>1, <2>3, <2>6, <2>7, <3>1, ElementOfSeq DEF Checked
    <3>3. b[d].value = memo[d].value
      BY <2>1, <2>4, <3>2 DEF Keeps
    <3>4. now[d].value = memo[d].value
      BY <2>4, <3>2, FreshIsBuilt
    <3> QED BY <3>1, <3>3, <3>4
  <2>9. Told(deps, b) = Told(deps, now)
    BY <2>8 DEF Told
  <2>10. Ends(h, deps, Told(deps, now))
    BY <2>5, <2>7, <2>9 DEF Runs
  <2>11. deps = now[h].asks
    BY <1>1, <2>5, <2>7, <2>10, SameRun
  <2>12. memo[h].value = now[h].value
    <3>1. CASE h \notin Collectors
      BY <2>5, <2>7, <2>9, <2>11, <3>1 DEF Runs
    <3>2. CASE h \in Collectors
      <4>1. past[v] \in Workspaces /\ past[revision] \in Workspaces
        BY <2>2 DEF HistInv, PastInv
      <4>2. h \in DOMAIN CleanBuild[past[v]]
        BY <2>4, <2>5 DEF Runs, Build
      <4>3. AsksTheSame(h, past[v], past[revision])
        BY <2>4, <2>7, <2>8 DEF AsksTheSame, Build
      <4> QED BY <2>3, <2>4, <2>7, <3>2, <4>1, <4>2, <4>3 DEF CollectorsObserve, Build
    <3> QED BY <3>1, <3>2
  <2> QED BY <1>1, <1>3, <2>3, <2>4, <2>6, <2>7, <2>9, <2>11, <2>12 DEF BuiltEntry
<1> QED BY <1>2, <1>3

\* An evaluation that was told fresh values says what the build says.
LEMMA InstalledIsBuilt ==
  ASSUME IInv, Proper, HistInv, 1 <= revision, NEW h, NEW entry, Installs(h, entry)
  PROVE  BuiltEntry(h, entry)
<1>1. PICK deps, now : deps = entry.deps /\ now = Build(revision)
  OBVIOUS
<1>2. /\ h \in Key \ Input /\ needs[h] \subseteq Registered /\ deps \in Seq(Key)
      /\ \A i \in DOMAIN deps : Fresh(deps[i])
      /\ Ends(h, deps, Answered(deps))
      /\ entry.value = ValueOf(h, deps, Answered(deps))
      /\ entry.diags = Emits(h, Answered(deps), Registered)
  BY <1>1 DEF Installs
<1>3. revision \in 1 .. revision /\ DOMAIN past[revision] = Registered
  BY DEF HistInv, PastInv, Sources, IInv, CountInv
<1>4. Runs(h, now)
  BY <1>1, <1>2, <1>3, BuildRuns DEF HistInv
<1>5. Answered(deps) = Told(deps, now)
  <2>1. \A i \in DOMAIN deps : memo[deps[i]].value = now[deps[i]].value
    BY <1>1, <1>2, FreshIsBuilt, ElementOfSeq
  <2> QED BY <2>1 DEF Answered, Told
<1>6. deps = now[h].asks
  BY <1>2, <1>4, <1>5, SameRun
<1>7. Collected(deps) = Under(deps, now)
  BY <1>1, <1>2, CollectedIsBuilt
<1>8. entry.value = now[h].value
  BY <1>2, <1>4, <1>5, <1>6, <1>7 DEF Runs, ValueOf
<1> QED BY <1>1, <1>2, <1>3, <1>5, <1>6, <1>8 DEF BuiltEntry

\* The history with one revision more.
LEMMA PastGrows ==
  ASSUME CountInv, NEW w, past' = Append(past, w)
  PROVE  past'[revision + 1] = w /\ \A r \in 1 .. revision : past'[r] = past[r]
<1>1. PICK S : past \in Seq(S)
  BY DEF CountInv
<1>2. past \in Seq(S \cup {w}) /\ Len(past) = revision /\ revision \in Nat
  BY <1>1 DEF CountInv
<1> QED BY <1>2, AppendProperties

LEMMA InitHistory == ASSUME Init PROVE HistInv
<1>1. revision = 0 /\ \A k \in Key : memo[k] = None
  BY DEF Init
<1>2. Registered = {} /\ 1 .. revision = {}
  BY <1>1, KeyAssumption DEF Registered
<1> QED BY <1>1, <1>2 DEF HistInv, PastInv, SourceInv, EntryInv

\* Before the first demand, the history is of files only.
LEMMA AddSourceHistory ==
  ASSUME IInv, HistInv, ~LateFiles, NEW k \in Input, NEW text \in Opened[k], AddSource(k, text)
  PROVE  HistInv'
<1>1. /\ memo[k] = None /\ revision' = revision + 1 /\ revision \in Nat
      /\ k \in Key /\ text \in Texts[k] /\ Input \subseteq Key
      /\ \A j \in Key \ Input : memo[j] = None
  BY KeyAssumption DEF AddSource, IInv, CountInv
<1>2. PICK w : w = [j \in Registered \cup {k} |-> IF j = k THEN text ELSE Sources[j]]
  OBVIOUS
<1>3. past'[revision + 1] = w /\ \A r \in 1 .. revision : past'[r] = past[r]
  BY <1>2, PastGrows DEF AddSource, IInv
<1>4. /\ memo'[k].value = text /\ memo'[k].computed_at = revision + 1 /\ memo'[k].diags = {}
      /\ memo'[k] # None /\ DOMAIN memo' = Key /\ \A j \in Key : j # k => memo'[j] = memo[j]
  <2>1. PICK entry : entry = SourceEntry(text, revision + 1)
    OBVIOUS
  <2>2. /\ entry.value = text /\ entry.computed_at = revision + 1 /\ entry # None
    BY <2>1, SourceEntryShape
  <2>3. entry.diags = {}
    BY <2>1 DEF SourceEntry
  <2>4. memo' = [memo EXCEPT ![k] = entry] /\ DOMAIN memo = Key
    BY <2>1 DEF AddSource, IInv, MemoInv
  <2> QED BY <1>1, <2>2, <2>3, <2>4
<1>5. Registered' = Registered \cup {k} /\ k \notin Registered /\ Registered \subseteq Input
  BY <1>1, <1>4 DEF Registered
<1>6. Sources' = w
  <2>1. Sources' = [j \in Registered \cup {k} |-> memo'[j].value]
    BY <1>5 DEF Sources
  <2>2. \A j \in Registered : Sources[j] = memo[j].value /\ memo'[j] = memo[j]
    BY <1>1, <1>4, <1>5 DEF Sources
  <2> QED BY <1>2, <1>4, <2>1, <2>2
<1>7. w \in Workspaces
  <2>1. \A j \in Registered : Sources[j] \in Texts[j]
    <3>1. \A j \in Registered : j \in Key /\ j \in Input /\ memo[j] # None
      BY KeyAssumption DEF Registered
    <3> QED BY <3>1 DEF Sources, IInv, MemoInv, EntryOK
  <2>2. PICK F : F = Registered \cup {k}
    OBVIOUS
  <2>3. F \in SUBSET Input /\ w = [j \in F |-> w[j]] /\ \A j \in F : w[j] \in Texts[j]
    BY <1>1, <1>2, <1>5, <2>1, <2>2
  <2> QED BY <2>3, IsWorkspace
<1>8. PastInv'
  <2>1. ASSUME NEW r \in 1 .. revision + 1 PROVE past'[r] \in Workspaces
    <3>1. r = revision + 1 \/ r \in 1 .. revision
      BY <1>1
    <3> QED BY <1>3, <1>7, <3>1 DEF HistInv, PastInv
  <2>2. past'[revision'] = Sources'
    BY <1>1, <1>3, <1>6
  <2> QED BY <1>1, <2>1, <2>2 DEF PastInv
<1>9. SourceInv'
  <2>1. ASSUME NEW s \in Registered'
        PROVE  /\ memo'[s].diags = {}
               /\ s = k \/ (s \in Registered /\ s # k /\ s \in Key /\ memo'[s] = memo[s])
    BY <1>1, <1>4, <1>5 DEF HistInv, SourceInv
  <2>2. ASSUME NEW s \in Registered', NEW r \in 1 .. revision + 1
        PROVE  /\ memo'[s].computed_at <= r => s \in DOMAIN past'[r] /\ past'[r][s] = memo'[s].value
               /\ memo'[s].computed_at = r + 1 /\ s \in DOMAIN past'[r] =>
                    past'[r][s] # memo'[s].value
    <3>1. CASE s = k /\ r = revision + 1
      <4>1. ~(memo'[s].computed_at = r + 1)
        BY <1>1, <1>4, <3>1
      <4> QED BY <1>2, <1>3, <1>4, <3>1, <4>1
    <3>2. CASE s = k /\ r # revision + 1
      <4>1. r \in 1 .. revision /\ r \in Nat /\ ~(memo'[s].computed_at <= r)
        BY <1>1, <1>4, <3>2
      <4>2. CASE r = revision
        <5>1. past[r] = Sources
          BY <4>1, <4>2 DEF HistInv, PastInv
        <5>2. s \notin DOMAIN past'[r]
          BY <1>3, <1>5, <3>2, <4>1, <5>1 DEF Sources
        <5> QED BY <4>1, <5>2
      <4>3. CASE r # revision
        <5>1. ~(memo'[s].computed_at = r + 1)
          BY <1>1, <1>4, <3>2, <4>1, <4>3
        <5> QED BY <4>1, <5>1
      <4> QED BY <4>2, <4>3
    <3>3. CASE s # k
      <4>1. s \in Registered /\ s \in Key /\ memo'[s] = memo[s]
        BY <2>1, <3>3
      <4>2. CASE r \in 1 .. revision
        BY <1>3, <4>1, <4>2 DEF HistInv, SourceInv
      <4>3. CASE r = revision + 1
        <5>1. w[s] = memo[s].value /\ s \in DOMAIN w
          BY <1>2, <3>3, <4>1 DEF Sources
        <5>2. /\ memo[s].computed_at \in Nat /\ memo[s].verified_at \in Nat
              /\ memo[s].computed_at <= memo[s].verified_at /\ memo[s].verified_at <= revision
          BY <4>1 DEF Registered, IInv, MemoInv, EntryOK
        <5>3. ~(memo'[s].computed_at = r + 1)
          BY <1>1, <4>1, <4>3, <5>2
        <5> QED BY <1>3, <4>1, <4>3, <5>1, <5>3
      <4>4. r \in 1 .. revision \/ r = revision + 1
        BY <1>1
      <4> QED BY <4>2, <4>3, <4>4
    <3> QED BY <3>1, <3>2, <3>3
  <2> QED BY <1>1, <2>1, <2>2 DEF SourceInv
<1>10. EntryInv'
  BY <1>1, <1>4 DEF EntryInv
<1> QED BY <1>8, <1>9, <1>10 DEF HistInv

\* What an edit does to the entries and to the history.
Edited(edit, w) ==
  /\ revision' = revision + 1 /\ Registered' = Registered /\ DOMAIN edit \subseteq Registered
  /\ w = [j \in Registered |-> IF j \in DOMAIN edit THEN edit[j] ELSE memo[j].value]
  /\ past'[revision + 1] = w /\ \A r \in 1 .. revision : past'[r] = past[r]
  /\ \A k \in Key : k \notin DOMAIN edit => memo'[k] = memo[k]
  /\ \A k \in DOMAIN edit :
       /\ memo'[k].value = edit[k] /\ memo'[k].diags = {} /\ memo'[k].verified_at = revision + 1
       /\ \/ memo[k].value = edit[k] /\ memo'[k].computed_at = memo[k].computed_at
          \/ memo[k].value # edit[k] /\ memo'[k].computed_at = revision + 1

LEMMA EditShape ==
  ASSUME IInv, NEW edit \in Edits, SetSources(edit)
  PROVE  \E w : Edited(edit, w) /\ w \in Workspaces
<1>1. /\ revision' = revision + 1 /\ DOMAIN edit \subseteq Registered /\ Registered \subseteq Input
      /\ Input \subseteq Key /\ \A k \in DOMAIN edit : edit[k] \in Texts[k] /\ memo[k] # None
  BY KeyAssumption DEF SetSources, Edits, Registered
<1>2. PICK w : w = [j \in Registered |-> IF j \in DOMAIN edit THEN edit[j] ELSE memo[j].value]
  OBVIOUS
<1>3. past' = Append(past, w)
  <2>1. w = [j \in Registered |-> IF j \in DOMAIN edit THEN edit[j] ELSE Sources[j]]
    BY <1>2 DEF Sources
  <2> QED BY <2>1 DEF SetSources
<1>4. past'[revision + 1] = w /\ \A r \in 1 .. revision : past'[r] = past[r]
  BY <1>3, PastGrows DEF IInv
<1>5. PICK stamp : stamp = [k \in DOMAIN edit |-> IF memo[k].value = edit[k]
                                                THEN memo[k].computed_at ELSE revision + 1]
  OBVIOUS
<1>6. /\ DOMAIN memo' = Key
      /\ \A k \in Key : k \notin DOMAIN edit => memo'[k] = memo[k]
      /\ \A k \in DOMAIN edit : memo'[k] = SourceEntry(edit[k], stamp[k])
  BY <1>1, <1>5 DEF SetSources
<1>7. \A k \in DOMAIN edit :
        /\ memo'[k].value = edit[k] /\ memo'[k].computed_at = stamp[k]
        /\ memo'[k].verified_at = revision + 1 /\ memo'[k] # None
  BY <1>6, SourceEntryShape
<1>8. \A k \in DOMAIN edit : memo'[k].diags = {}
  <2>1. ASSUME NEW k \in DOMAIN edit PROVE memo'[k].diags = {}
    <3>1. PICK entry : entry = SourceEntry(edit[k], stamp[k])
      OBVIOUS
    <3>2. entry.diags = {}
      BY <3>1 DEF SourceEntry
    <3> QED BY <1>6, <3>1, <3>2
  <2> QED BY <2>1
<1>9. \A k \in Key : memo[k] # None <=> memo'[k] # None
  BY <1>1, <1>6, <1>7
<1>10. Registered' = Registered
  BY <1>1, <1>9 DEF Registered
<1>11. w \in Workspaces
  <2>1. \A j \in Registered : memo[j].value \in Texts[j]
    BY <1>1 DEF Registered, IInv, MemoInv, EntryOK
  <2>2. w = [j \in Registered |-> w[j]] /\ \A j \in Registered : w[j] \in Texts[j]
    BY <1>1, <1>2, <2>1
  <2> QED BY <1>1, <2>2, IsWorkspace
<1>12. Edited(edit, w)
  <2>1. \A k \in DOMAIN edit :
          \/ memo[k].value = edit[k] /\ stamp[k] = memo[k].computed_at
          \/ memo[k].value # edit[k] /\ stamp[k] = revision + 1
    BY <1>5
  <2> QED BY <1>1, <1>2, <1>4, <1>6, <1>7, <1>8, <1>10, <2>1 DEF Edited
<1> QED BY <1>11, <1>12

\* What was found fresh at an earlier revision is as the build of that revision.
LEMMA EditElsewhere ==
  ASSUME IInv, HistInv, NEW edit, NEW w, Edited(edit, w),
         NEW k \in Key \ Input, memo[k] # None
  PROVE  /\ memo'[k] = memo[k] /\ SameFiles(k)' /\ IsOf(k, memo[k].verified_at)'
         /\ \A i \in DOMAIN memo[k].deps : Keeps(k, memo[k].deps[i])'
<1>1. /\ memo'[k] = memo[k] /\ EntryOK(k) /\ SameFiles(k) /\ IsOf(k, memo[k].verified_at)
      /\ \A i \in DOMAIN memo[k].deps : Keeps(k, memo[k].deps[i])
  BY DEF Edited, Registered, IInv, MemoInv, HistInv, EntryInv
<1>2. PICK v : v = memo[k].verified_at
  OBVIOUS
<1>3. v \in 1 .. revision /\ v \in Nat /\ revision \in Nat /\ v <= revision /\ 1 <= v
  BY <1>1, <1>2 DEF EntryOK, IInv, CountInv
<1>4. Build(v)' = Build(v) /\ Registered' = Registered
  BY <1>3 DEF Edited, Build
<1>5. SameFiles(k)'
  <2>1. ASSUME NEW r \in v .. revision + 1 PROVE DOMAIN past'[r] = Registered
    <3>1. CASE r = revision + 1
      BY <3>1 DEF Edited
    <3>2. CASE r # revision + 1
      <4>1. r \in 1 .. revision /\ r \in v .. revision
        BY <1>3, <3>2
      <4> QED BY <1>1, <1>2, <4>1 DEF Edited, SameFiles
    <3> QED BY <3>1, <3>2
  <2> QED BY <1>1, <1>2, <1>4, <2>1 DEF SameFiles, Edited
<1>6. IsOf(k, memo[k].verified_at)'
  <2>1. PICK b : b = Build(v)
    OBVIOUS
  <2>2. Build(v)' = b
    BY <1>4, <2>1
  <2>3. /\ memo[k].value = b[k].value /\ memo[k].deps = b[k].asks
        /\ memo[k].diags = Emits(k, Told(b[k].asks, b), Registered)
    BY <1>1, <1>2, <2>1 DEF IsOf
  <2>4. CleanBuild[past'[v]] = b
    BY <2>2 DEF Build
  <2> QED BY <1>1, <1>2, <1>4, <2>3, <2>4 DEF IsOf, Build
<1>7. ASSUME NEW d \in Key, memo[d] # None, Keeps(k, d) PROVE Keeps(k, d)'
  <2>1. CleanBuild[past'[v]] = Build(v)
    BY <1>4 DEF Build
  <2>2. CASE d \notin DOMAIN edit
    BY <1>1, <1>2, <1>7, <2>1, <2>2 DEF Keeps, Build, Edited
  <2>3. CASE d \in DOMAIN edit
    <3>1. memo'[d].verified_at = revision + 1 /\ v <= revision + 1
      BY <1>3, <2>3 DEF Edited
    <3>2. CASE memo'[d].value = memo[d].value /\ memo'[d].computed_at = memo[d].computed_at
      BY <1>1, <1>2, <1>7, <2>1, <3>1, <3>2 DEF Keeps, Build
    <3>3. CASE memo'[d].computed_at = revision + 1
      <4>1. ~(memo'[d].computed_at <= v)
        BY <1>3, <3>3
      <4> QED BY <1>1, <1>2, <3>1, <4>1 DEF Keeps
    <3> QED BY <2>3, <3>2, <3>3 DEF Edited
  <2> QED BY <2>2, <2>3
<1>8. \A i \in DOMAIN memo[k].deps : memo[k].deps[i] \in Key /\ memo[memo[k].deps[i]] # None
  BY <1>1, ElementOfSeq DEF EntryOK
<1>9. PICK deps : deps = memo[k].deps
  OBVIOUS
<1>10. \A i \in DOMAIN deps : Keeps(k, deps[i])'
  BY <1>1, <1>7, <1>8, <1>9
<1> QED BY <1>1, <1>5, <1>6, <1>9, <1>10

LEMMA SetSourcesHistory ==
  ASSUME IInv, HistInv, NEW edit \in Edits, SetSources(edit)
  PROVE  HistInv'
<1>1. PICK w : Edited(edit, w) /\ w \in Workspaces
  BY EditShape
<1>2. /\ revision' = revision + 1 /\ Registered' = Registered /\ DOMAIN edit \subseteq Registered
      /\ w = [j \in Registered |-> IF j \in DOMAIN edit THEN edit[j] ELSE memo[j].value]
      /\ past'[revision + 1] = w /\ \A r \in 1 .. revision : past'[r] = past[r]
      /\ revision \in Nat /\ \A s \in Registered : s \in Key /\ memo[s] # None /\ EntryOK(s)
  BY <1>1, KeyAssumption DEF Edited, IInv, CountInv, MemoInv, Registered
<1>3. \A s \in Registered : memo'[s].value = w[s]
  BY <1>1, <1>2 DEF Edited
<1>4. PastInv'
  <2>1. ASSUME NEW r \in 1 .. revision + 1 PROVE past'[r] \in Workspaces
    <3>1. r = revision + 1 \/ r \in 1 .. revision
      BY <1>2
    <3> QED BY <1>1, <1>2, <3>1 DEF HistInv, PastInv
  <2>2. Sources' = w
    <3>1. Sources' = [j \in Registered |-> memo'[j].value]
      BY <1>2 DEF Sources
    <3> QED BY <1>2, <1>3, <3>1
  <2> QED BY <1>2, <2>1, <2>2 DEF PastInv
<1>5. SourceInv'
  <2>1. ASSUME NEW s \in Registered
        PROVE  /\ memo'[s].diags = {}
               /\ \/ memo'[s].value = memo[s].value /\ memo'[s].computed_at = memo[s].computed_at
                  \/ memo'[s].value # memo[s].value /\ memo'[s].computed_at = revision + 1
    BY <1>1, <1>2 DEF Edited, HistInv, SourceInv
  <2>2. ASSUME NEW s \in Registered, NEW r \in 1 .. revision + 1
        PROVE  /\ memo'[s].computed_at <= r => s \in DOMAIN past'[r] /\ past'[r][s] = memo'[s].value
               /\ memo'[s].computed_at = r + 1 /\ s \in DOMAIN past'[r] =>
                    past'[r][s] # memo'[s].value
    <3>1. /\ memo[s].computed_at \in Nat /\ memo[s].verified_at \in Nat
          /\ memo[s].computed_at <= memo[s].verified_at /\ memo[s].verified_at <= revision
      BY <1>2 DEF EntryOK
    <3>2. CASE r = revision + 1
      <4>1. ~(memo'[s].computed_at = r + 1)
        BY <1>2, <2>1, <3>1, <3>2
      <4>2. s \in DOMAIN w
        BY <1>2
      <4> QED BY <1>2, <1>3, <3>2, <4>1, <4>2
    <3>3. CASE r \in 1 .. revision
      <4>1. CASE memo'[s].value = memo[s].value /\ memo'[s].computed_at = memo[s].computed_at
        BY <1>2, <3>3, <4>1 DEF HistInv, SourceInv
      <4>2. CASE memo'[s].value # memo[s].value /\ memo'[s].computed_at = revision + 1
        <5>1. ~(memo'[s].computed_at <= r)
          BY <1>2, <3>3, <4>2
        <5>2. CASE r = revision
          <6>1. past'[r] = Sources /\ Sources[s] = memo[s].value
            BY <1>2, <3>3, <5>2 DEF HistInv, PastInv, Sources
          <6> QED BY <4>2, <5>1, <6>1
        <5>3. CASE r # revision
          <6>1. ~(memo'[s].computed_at = r + 1)
            BY <1>2, <3>3, <4>2, <5>3
          <6> QED BY <5>1, <6>1
        <5> QED BY <5>2, <5>3
      <4> QED BY <2>1, <4>1, <4>2
    <3>4. r = revision + 1 \/ r \in 1 .. revision
      BY <1>2
    <3> QED BY <3>2, <3>3, <3>4
  <2> QED BY <1>2, <2>1, <2>2 DEF SourceInv
<1>6. EntryInv'
  <2>1. ASSUME NEW k \in Key \ Input, memo'[k] # None
        PROVE  /\ SameFiles(k)' /\ IsOf(k, memo[k].verified_at)'
               /\ \A i \in DOMAIN memo'[k].deps : Keeps(k, memo[k].deps[i])'
    <3>1. memo'[k] = memo[k]
      BY <1>1, <1>2 DEF Edited, Registered
    <3> QED BY <1>1, <2>1, <3>1, EditElsewhere
  <2> QED BY <2>1 DEF EntryInv
<1> QED BY <1>4, <1>5, <1>6 DEF HistInv

LEMMA NextHistory ==
  ASSUME Proper, ~LateFiles, CollectorsObserve, IInv, HistInv, [Next]_vars
  PROVE  HistInv'
<1>1. CASE \E k \in Input : \E text \in Opened[k] : AddSource(k, text)
  BY <1>1, AddSourceHistory
<1>2. CASE \E edit \in Edits : SetSources(edit)
  BY <1>2, SetSourcesHistory
<1>3. CASE UNCHANGED <<revision, memo, past>>
  <2>1. Registered' = Registered /\ Sources' = Sources
    BY <1>3 DEF Registered, Sources
  <2>2. PastInv'
    BY <1>3, <2>1 DEF HistInv, PastInv
  <2>3. SourceInv'
    BY <1>3, <2>1 DEF HistInv, SourceInv
  <2>4. EntryInv'
    <3>1. ASSUME NEW k \in Key \ Input, memo'[k] # None
          PROVE  /\ SameFiles(k)' /\ IsOf(k, memo[k].verified_at)'
                 /\ \A i \in DOMAIN memo'[k].deps : Keeps(k, memo[k].deps[i])'
      <4>1. memo' = memo /\ memo[k] # None
        BY <1>3, <3>1
      <4>2. /\ SameFiles(k) /\ IsOf(k, memo[k].verified_at)
            /\ \A i \in DOMAIN memo[k].deps : Keeps(k, memo[k].deps[i])
        BY <4>1 DEF HistInv, EntryInv
      <4>3. SameFiles(k)'
        BY <1>3, <2>1, <4>2 DEF SameFiles
      <4>4. IsOf(k, memo[k].verified_at)'
        BY <1>3, <2>1, <4>2 DEF IsOf, Build
      <4>5. \A i \in DOMAIN memo'[k].deps : Keeps(k, memo[k].deps[i])'
        BY <1>3, <4>1, <4>2 DEF Keeps, Build
      <4> QED BY <4>3, <4>4, <4>5
    <3> QED BY <3>1 DEF EntryInv
  <2> QED BY <2>2, <2>3, <2>4 DEF HistInv
<1>4. CASE VerifyClean
  <2>1. stack # << >> /\ \E entry : /\ Writable(Call.key, entry) /\ Writes(Call.key, entry)
                                    /\ Verifies(Call.key, entry)
    BY <1>4, VerifyCleanWrites
  <2>2. 1 <= revision
    BY <2>1 DEF IInv, CountInv
  <2> QED BY <2>1, <2>2, VerifiedIsBuilt, WriteKeepsHistory
<1>5. CASE Install
  <2>1. stack # << >> /\ \E entry : /\ Writable(Call.key, entry) /\ Writes(Call.key, entry)
                                    /\ Installs(Call.key, entry)
    BY <1>5, InstallWrites
  <2>2. 1 <= revision
    BY <2>1 DEF IInv, CountInv
  <2> QED BY <2>1, <2>2, InstalledIsBuilt, WriteKeepsHistory
<1> QED BY <1>1, <1>2, <1>3, <1>4, <1>5
     DEF Next, Engine, Demand, VerifyCall, VerifySame, VerifyDirty, EvalCall, EvalRead, vars

LEMMA History ==
  ASSUME Proper, ~LateFiles, CollectorsObserve
  PROVE  Spec => [](IInv /\ HistInv)
<1>1. Init => IInv /\ HistInv
  BY InitIInv, InitHistory
<1>2. IInv /\ HistInv /\ [Next]_vars => (IInv /\ HistInv)'
  BY NextKeeps, NextHistory
<1> QED BY <1>1, <1>2, PTL DEF Spec

-----------------------------------------------------------------------------
(* The theorems about fresh entries *)

LEMMA SoundStep == ASSUME IInv, Proper, HistInv PROVE Sound
<1>1. ASSUME NEW k \in Key \ Input, Fresh(k) PROVE memo[k].value = CleanBuild[Sources][k].value
  <2>1. 1 <= revision /\ memo[k].value = Build(revision)[k].value
    BY <1>1, FreshIsBuilt
  <2> QED BY <2>1 DEF HistInv, PastInv, Build
<1> QED BY <1>1 DEF Sound

\* Incremental recomputation never produces another artifact than a clean build
\* (lib.rs 443-445), for any evaluators, files and edits: whatever was demanded,
\* edited, verified and cut off before, an entry that is fresh is the clean build's.
THEOREM IncrementalIsClean ==
  ASSUME Proper, ~LateFiles, CollectorsObserve
  PROVE  Spec => []Sound
<1>1. IInv /\ HistInv => Sound
  BY SoundStep
<1> QED BY <1>1, History, PTL

LEMMA DiagnosticsStep == ASSUME IInv, Proper, HistInv PROVE DiagnosticsCurrent
<1>1. ASSUME NEW k \in Key \ Input, Fresh(k)
      PROVE  Collected(<<k>>) = CleanBuild[Sources][k].below
  <2>1. 1 <= revision
    BY <1>1, FreshIsBuilt
  <2>2. PICK asks : asks = <<k>>
    OBVIOUS
  <2>3. asks \in Seq(Key) /\ DOMAIN asks = {1} /\ asks[1] = k
    BY <1>1, <2>2
  <2>4. Collected(asks) = Under(asks, Build(revision))
    BY <1>1, <2>3, CollectedIsBuilt
  <2>5. Under(asks, Build(revision)) = Build(revision)[k].below
    BY <2>3 DEF Under
  <2> QED BY <2>1, <2>2, <2>4, <2>5 DEF HistInv, PastInv, Build
<1> QED BY <1>1 DEF DiagnosticsCurrent

\* Early cutoff never keeps the errors of an earlier text: what is collected below
\* a fresh entry (collect_diags) is what the clean build emits there.
THEOREM DiagnosticsAreCurrent ==
  ASSUME Proper, ~LateFiles, CollectorsObserve
  PROVE  Spec => []DiagnosticsCurrent
<1>1. IInv /\ HistInv => DiagnosticsCurrent
  BY DiagnosticsStep
<1> QED BY <1>1, History, PTL

-----------------------------------------------------------------------------
(* Evaluations have a reason *)

\* A value that is another one in a later build changed in some revision between.
LEMMA ChangesSomewhere ==
  ASSUME NEW k, NEW from \in Nat, NEW to \in Nat, from <= to,
         Build(to)[k].value # Build(from)[k].value
  PROVE  DiffersIn(k, from, to)
<1>1. PICK T : T = {r \in Nat : from <= r /\ Build(r)[k].value # Build(from)[k].value}
  OBVIOUS
<1>2. to \in T
  BY <1>1
<1>3. PICK m \in T : \A n \in T : m <= n
  <2>1. T \in SUBSET Nat /\ T # {}
    BY <1>1, <1>2
  <2> QED BY <2>1, LeastNumber
<1>4. m \in Nat /\ from <= m /\ m <= to /\ Build(m)[k].value # Build(from)[k].value
  BY <1>1, <1>2, <1>3
<1>5. m # from
  BY <1>4
<1>6. m - 1 \in Nat /\ from <= m - 1 /\ ~(m <= m - 1) /\ m \in from + 1 .. to
  BY <1>4, <1>5
<1>7. m - 1 \notin T
  BY <1>3, <1>6
<1>8. Build(m - 1)[k].value = Build(from)[k].value
  BY <1>1, <1>6, <1>7
<1>9. Differs(k, m)
  BY <1>4, <1>8 DEF Differs, Build
<1> QED BY <1>6, <1>9 DEF DiffersIn

LEMMA DiffersLater ==
  ASSUME NEW k, NEW from \in Nat, NEW to \in Nat, NEW n \in Nat,
         to <= n, DiffersIn(k, from, to)
  PROVE  DiffersIn(k, from, n)
<1>1. PICK r \in from + 1 .. to : Differs(k, r)
  BY DEF DiffersIn
<1>2. r \in from + 1 .. n
  OBVIOUS
<1> QED BY <1>1, <1>2 DEF DiffersIn

LEMMA DiffersEarlier ==
  ASSUME NEW k, NEW from \in Nat, NEW to \in Nat, NEW n \in Nat,
         n <= from, DiffersIn(k, from, to)
  PROVE  DiffersIn(k, n, to)
<1>1. PICK r \in from + 1 .. to : Differs(k, r)
  BY DEF DiffersIn
<1>2. r \in n + 1 .. to
  OBVIOUS
<1> QED BY <1>1, <1>2 DEF DiffersIn

\* What is not compared and was evaluated again, because a dependency drifted, has
\* another value itself in some build since.
LEMMA UncomparedChanges ==
  ASSUME IInv, Proper, HistInv, DriftInv, UncomparedDiffer,
         NEW h \in Key \ (Input \cup Compared), memo[h] # None, Drifts(h)
  PROVE  DiffersIn(h, memo[h].verified_at, revision)
<1>1. PICK v : v = memo[h].verified_at
  OBVIOUS
<1>2. EntryOK(h) /\ SameFiles(h) /\ IsOf(h, v)
  BY <1>1 DEF IInv, MemoInv, HistInv, EntryInv
<1>3. v \in Nat /\ 1 <= v /\ v <= revision /\ revision \in Nat
  BY <1>1, <1>2 DEF EntryOK, IInv, CountInv
<1> SUFFICES ASSUME ~DiffersIn(h, v, revision) PROVE FALSE
  BY <1>1
<1>4. PICK i \in DOMAIN memo[h].deps : memo[memo[h].deps[i]].computed_at > v
  BY <1>1 DEF Drifts
<1>5. PICK e : e = memo[h].deps[i]
  OBVIOUS
<1>6. e \in Key /\ memo[e] # None /\ EntryOK(e)
  BY <1>2, <1>5, DepOK DEF IInv
<1>7. DiffersIn(e, v, memo[e].verified_at)
  BY <1>1, <1>4, <1>5 DEF DriftInv
<1>8. PICK r \in v + 1 .. memo[e].verified_at : Differs(e, r)
  BY <1>7 DEF DiffersIn
<1>9. r \in Nat /\ v <= r /\ r <= revision /\ r - 1 \in Nat /\ v <= r - 1 /\ r - 1 <= revision
  BY <1>3, <1>6, <1>8 DEF EntryOK
<1>10. e = Build(v)[h].asks[i] /\ i \in DOMAIN Build(v)[h].asks
  BY <1>2, <1>4, <1>5 DEF IsOf
<1>11. ASSUME NEW n \in v .. revision PROVE Build(n)[e].value = Build(v)[e].value
  <2>1. n \in Nat /\ v <= n /\ n <= revision /\ n \in 1 .. revision /\ v \in 1 .. revision
        /\ v \in v .. revision
    BY <1>3, <1>11
  <2>2. Build(n)[h].value = Build(v)[h].value
    <3> SUFFICES ASSUME Build(n)[h].value # Build(v)[h].value PROVE FALSE
      OBVIOUS
    <3>1. DiffersIn(h, v, n)
      BY <1>3, <2>1, ChangesSomewhere
    <3> QED BY <1>3, <2>1, <3>1, DiffersLater
  <2>3. DOMAIN past[n] = Registered /\ DOMAIN past[v] = Registered
    BY <1>1, <1>2, <1>11, <2>1 DEF SameFiles
  <2>4. past[n] \in Workspaces /\ past[v] \in Workspaces
    BY <2>1 DEF HistInv, PastInv
  <2>5. Runs(h, Build(v))
    BY <1>2, <2>1, <2>3, BuildRuns DEF HistInv, EntryOK
  <2>6. h \in DOMAIN CleanBuild[past[v]] \ (Input \cup Compared)
    BY <2>5 DEF Runs, Build
  <2>7. AsksTheSame(h, past[v], past[n])
    BY <2>2, <2>3, <2>4, <2>6 DEF UncomparedDiffer, Build
  <2> QED BY <1>10, <2>7 DEF AsksTheSame, Build
<1>12. Build(r)[e].value = Build(v)[e].value /\ Build(r - 1)[e].value = Build(v)[e].value
  <2>1. r \in v .. revision /\ r - 1 \in v .. revision
    BY <1>3, <1>9
  <2> QED BY <1>11, <2>1
<1> QED BY <1>8, <1>12 DEF Differs, Build

\* A value that is stamped with this revision is another one than in some build
\* since the entry was last found fresh.
LEMMA StampedChanged ==
  ASSUME IInv, Proper, HistInv, DriftInv, UncomparedDiffer,
         NEW h \in Key, NEW entry, memo[h] # None, ~Fresh(h), BuiltEntry(h, entry),
         \/ Verifies(h, entry) \/ Installs(h, entry),
         entry.computed_at # memo[h].computed_at
  PROVE  DiffersIn(h, memo[h].verified_at, revision)
<1>1. Installs(h, entry)
  BY DEF Verifies, EntryFields
<1>2. h \notin Input /\ Drifts(h)
  BY <1>1 DEF Installs
<1>3. PICK v : v = memo[h].verified_at
  OBVIOUS
<1>4. v \in Nat /\ revision \in Nat /\ v <= revision
  BY <1>3 DEF IInv, MemoInv, EntryOK, CountInv
<1>5. memo[h].value = Build(v)[h].value /\ entry.value = Build(revision)[h].value
  BY <1>2, <1>3 DEF HistInv, EntryInv, IsOf, BuiltEntry
<1>6. CASE entry.value # memo[h].value
  <2>1. DiffersIn(h, v, revision)
    BY <1>4, <1>5, <1>6, ChangesSomewhere
  <2> QED BY <1>3, <2>1
<1>7. CASE entry.value = memo[h].value
  <2>1. h \notin Compared
    BY <1>1, <1>7 DEF Installs
  <2> QED BY <1>2, <2>1, UncomparedChanges
<1> QED BY <1>6, <1>7

LEMMA WriteDrifts ==
  ASSUME IInv, Proper, HistInv, DriftInv, UncomparedDiffer,
         NEW h, NEW entry, Writable(h, entry), Writes(h, entry), BuiltEntry(h, entry),
         \/ Verifies(h, entry) \/ Installs(h, entry)
  PROVE  DriftInv'
<1>1. /\ revision' = revision /\ past' = past /\ memo'[h] = entry /\ h \in Key /\ ~Fresh(h)
      /\ \A d \in Key : d # h => memo'[d] = memo[d]
      /\ entry.verified_at = revision /\ revision \in Nat /\ MemoInv /\ CountInv
  BY WrittenShape DEF Writable, Writes, IInv, CountInv
<1>2. \A d, from, to : DiffersIn(d, from, to)' <=> DiffersIn(d, from, to)
  BY <1>1 DEF DiffersIn, Differs
<1>3. ASSUME NEW k \in Key \ Input, memo'[k] # None, NEW i \in DOMAIN memo'[k].deps,
             memo'[memo'[k].deps[i]].computed_at > memo'[k].verified_at
      PROVE  DiffersIn(memo'[k].deps[i], memo'[k].verified_at,
                       memo'[memo'[k].deps[i]].verified_at)
  <2>1. CASE k = h
    <3>1. PICK e : e = entry.deps[i]
      OBVIOUS
    <3>2. e \in Key /\ Fresh(e) /\ e # h
      BY <1>1, <1>3, <2>1, <3>1, ElementOfSeq DEF Writable
    <3>3. memo'[e] = memo[e] /\ EntryOK(e)
      BY <1>1, <3>2 DEF MemoInv, Fresh
    <3>4. memo[e].computed_at \in Nat /\ memo[e].computed_at <= revision
      BY <3>2, <3>3 DEF EntryOK, Fresh
    <3>5. ~(memo[e].computed_at > revision)
      BY <1>1, <3>4
    <3> QED BY <1>1, <1>3, <2>1, <3>1, <3>3, <3>5
  <2>2. CASE k # h
    <3>1. memo'[k] = memo[k] /\ memo[k] # None /\ EntryOK(k) /\ i \in DOMAIN memo[k].deps
      BY <1>1, <1>3, <2>2 DEF MemoInv
    <3>2. PICK e, v : e = memo[k].deps[i] /\ v = memo[k].verified_at
      OBVIOUS
    <3>3. e \in Key /\ memo[e] # None /\ EntryOK(e) /\ v \in Nat
      <4>1. v \in Nat
        BY <3>1, <3>2 DEF EntryOK
      <4> QED BY <1>1, <3>1, <3>2, <4>1, DepOK
    <3>4. memo'[e].computed_at > v
      BY <1>3, <3>1, <3>2
    <3>5. memo[e].computed_at > v => DiffersIn(e, v, memo[e].verified_at)
      BY <3>1, <3>2 DEF DriftInv
    <3>6. DiffersIn(e, v, memo'[e].verified_at)
      <4>1. CASE e # h
        BY <1>1, <3>3, <3>4, <3>5, <4>1
      <4>2. CASE e = h
        <5>1. /\ memo[h].verified_at \in Nat /\ memo[h].verified_at <= revision
              /\ v <= memo[h].verified_at
          BY <3>1, <3>2, <3>3, <4>2 DEF EntryOK, HistInv, EntryInv, Keeps
        <5>2. CASE entry.computed_at = memo[h].computed_at
          <6>1. DiffersIn(h, v, memo[h].verified_at)
            BY <1>1, <3>4, <3>5, <4>2, <5>2
          <6>2. DiffersIn(h, v, revision)
            BY <1>1, <3>3, <5>1, <6>1, DiffersLater
          <6> QED BY <1>1, <4>2, <6>2
        <5>3. CASE entry.computed_at # memo[h].computed_at
          <6>1. DiffersIn(h, memo[h].verified_at, revision)
            BY <1>1, <3>3, <4>2, <5>3, StampedChanged
          <6>2. DiffersIn(h, v, revision)
            BY <1>1, <3>3, <5>1, <6>1, DiffersEarlier
          <6> QED BY <1>1, <4>2, <6>2
        <5> QED BY <5>2, <5>3
      <4> QED BY <4>1, <4>2
    <3> QED BY <3>1, <3>2, <3>6
  <2> QED BY <2>1, <2>2
<1> QED BY <1>2, <1>3 DEF DriftInv

LEMMA WorkspaceTexts ==
  ASSUME Proper, NEW w \in Workspaces, NEW s \in Input, s \in DOMAIN w
  PROVE  CleanBuild[w][s].value = w[s]
<1>1. PICK b : b = CleanBuild[w]
  OBVIOUS
<1>2. IsCleanBuild(w, b)
  BY <1>1, CleanBuildAssumption
<1>3. s \in Key /\ needs[s] = {s}
  BY KeyAssumption DEF Proper
<1>4. s \in DOMAIN b
  BY <1>2, <1>3 DEF IsCleanBuild
<1>5. b[s].value = w[s]
  BY <1>2, <1>4 DEF IsCleanBuild
<1> QED BY <1>1, <1>5

\* An edit that changes the text of a file is a change of the build.
LEMMA EditChanges ==
  ASSUME IInv, Proper, HistInv, NEW edit, NEW w, w \in Workspaces, Edited(edit, w),
         NEW s \in DOMAIN edit, memo[s].value # edit[s]
  PROVE  CleanBuild[past'[revision + 1]][s].value # CleanBuild[past'[revision]][s].value
<1>1. /\ s \in Registered /\ s \in Input /\ s \in Key /\ revision \in Nat
      /\ w = [j \in Registered |-> IF j \in DOMAIN edit THEN edit[j] ELSE memo[j].value]
  BY KeyAssumption DEF Edited, Registered, IInv, CountInv
<1>2. 1 <= revision /\ revision \in 1 .. revision
  BY <1>1, SomeRevision DEF IInv
<1>3. past'[revision + 1] = w /\ past'[revision] = Sources
  BY <1>2 DEF Edited, HistInv, PastInv
<1>4. w[s] = edit[s] /\ s \in DOMAIN w /\ Sources[s] = memo[s].value /\ s \in DOMAIN Sources
  BY <1>1 DEF Sources
<1>5. Sources \in Workspaces
  BY <1>2 DEF HistInv, PastInv
<1>6. CleanBuild[w][s].value = edit[s] /\ CleanBuild[Sources][s].value = memo[s].value
  BY <1>1, <1>4, <1>5, WorkspaceTexts
<1> QED BY <1>3, <1>6

\* DiffersIn, of any history.
Moves(history, k, from, to) ==
  \E r \in from + 1 .. to : CleanBuild[history[r]][k].value # CleanBuild[history[r - 1]][k].value

LEMMA SetSourcesDrifts ==
  ASSUME IInv, Proper, HistInv, DriftInv, NEW edit \in Edits, SetSources(edit)
  PROVE  DriftInv'
<1>1. PICK w : Edited(edit, w) /\ w \in Workspaces
  BY EditShape
<1>2. /\ revision' = revision + 1 /\ revision \in Nat /\ DOMAIN edit \subseteq Registered
      /\ \A r \in 1 .. revision : past'[r] = past[r]
      /\ \A k \in Key : k \notin DOMAIN edit => memo'[k] = memo[k]
      /\ \A s \in Registered : s \in Input
  BY <1>1 DEF Edited, IInv, CountInv, Registered
<1>3. ASSUME NEW d, NEW from \in Nat, NEW to \in Nat, 1 <= from, to <= revision,
             DiffersIn(d, from, to)
      PROVE  Moves(past', d, from, to)
  <2>1. PICK r \in from + 1 .. to : Differs(d, r)
    BY <1>3 DEF DiffersIn
  <2>2. r \in 1 .. revision /\ r - 1 \in 1 .. revision
    BY <1>2, <1>3
  <2>3. past'[r] = past[r] /\ past'[r - 1] = past[r - 1]
    BY <1>2, <2>2
  <2> QED BY <2>1, <2>3 DEF Differs, Moves
<1>4. ASSUME NEW k \in Key \ Input, memo'[k] # None, NEW i \in DOMAIN memo'[k].deps,
             memo'[memo'[k].deps[i]].computed_at > memo'[k].verified_at
      PROVE  Moves(past', memo'[k].deps[i], memo'[k].verified_at,
                   memo'[memo'[k].deps[i]].verified_at)
  <2>1. memo'[k] = memo[k]
    BY <1>2, <1>4
  <2>2. memo[k] # None /\ EntryOK(k) /\ i \in DOMAIN memo[k].deps
    BY <1>4, <2>1 DEF IInv, MemoInv
  <2>3. PICK e, v : e = memo[k].deps[i] /\ v = memo[k].verified_at
    OBVIOUS
  <2>4. e \in Key /\ memo[e] # None
    BY <2>2, <2>3, ElementOfSeq DEF EntryOK
  <2>5. /\ EntryOK(e) /\ v \in Nat /\ 1 <= v /\ v <= revision
        /\ memo[e].verified_at \in Nat /\ memo[e].verified_at <= revision
    <3>1. EntryOK(e)
      BY <2>4 DEF IInv, MemoInv
    <3>2. memo[k].verified_at \in Nat /\ 1 <= memo[k].verified_at /\ memo[k].verified_at <= revision
      BY <1>2, <2>2 DEF EntryOK
    <3> QED BY <2>3, <3>1, <3>2 DEF EntryOK
  <2>6. memo'[e].computed_at > v
    BY <1>4, <2>1, <2>3
  <2>7. memo[e].computed_at > v => Moves(past', e, v, memo[e].verified_at)
    BY <1>3, <2>2, <2>3, <2>5 DEF DriftInv
  <2>8. PICK to : to = memo'[e].verified_at
    OBVIOUS
  <2>9. Moves(past', e, v, to)
    <3>1. ASSUME memo'[e].computed_at = memo[e].computed_at, to \in Nat,
                 memo[e].verified_at <= to
          PROVE  Moves(past', e, v, to)
      <4>1. Moves(past', e, v, memo[e].verified_at)
        BY <2>6, <2>7, <3>1
      <4>2. v + 1 .. memo[e].verified_at \subseteq v + 1 .. to
        BY <2>5, <3>1
      <4> QED BY <4>1, <4>2 DEF Moves
    <3>2. CASE e \notin DOMAIN edit
      <4>1. memo'[e] = memo[e]
        BY <1>2, <2>4, <3>2
      <4> QED BY <2>5, <2>8, <3>1, <4>1
    <3>3. CASE e \in DOMAIN edit
      <4>1. to = revision + 1 /\ to \in Nat /\ memo[e].verified_at <= to
        BY <1>1, <1>2, <2>5, <2>8, <3>3 DEF Edited
      <4>2. CASE memo[e].value = edit[e] /\ memo'[e].computed_at = memo[e].computed_at
        BY <3>1, <4>1, <4>2
      <4>3. CASE memo[e].value # edit[e]
        <5>1. CleanBuild[past'[revision + 1]][e].value # CleanBuild[past'[revision]][e].value
          BY <1>1, <3>3, <4>3, EditChanges
        <5>2. revision + 1 \in v + 1 .. to /\ (revision + 1) - 1 = revision
          BY <1>2, <2>5, <4>1
        <5> QED BY <5>1, <5>2 DEF Moves
      <4> QED BY <1>1, <3>3, <4>2, <4>3 DEF Edited
    <3> QED BY <3>2, <3>3
  <2> QED BY <2>1, <2>3, <2>8, <2>9
<1> QED BY <1>4 DEF DriftInv, DiffersIn, Differs, Moves

LEMMA NextDrifts ==
  ASSUME Proper, ~LateFiles, CollectorsObserve, UncomparedDiffer, IInv, HistInv, DriftInv,
         [Next]_vars
  PROVE  DriftInv'
<1>1. CASE \E k \in Input : \E text \in Opened[k] : AddSource(k, text)
  <2>1. PICK k \in Input : \E text \in Opened[k] : AddSource(k, text)
    BY <1>1
  <2>2. \A j \in Key \ Input : memo'[j] = None
    BY <2>1 DEF AddSource
  <2> QED BY <2>2 DEF DriftInv
<1>2. CASE \E edit \in Edits : SetSources(edit)
  BY <1>2, SetSourcesDrifts
<1>3. CASE UNCHANGED <<revision, memo, past>>
  BY <1>3 DEF DriftInv, DiffersIn, Differs
<1>4. CASE VerifyClean
  <2>1. stack # << >> /\ \E entry : /\ Writable(Call.key, entry) /\ Writes(Call.key, entry)
                                    /\ Verifies(Call.key, entry)
    BY <1>4, VerifyCleanWrites
  <2>2. 1 <= revision
    BY <2>1 DEF IInv, CountInv
  <2> QED BY <2>1, <2>2, VerifiedIsBuilt, WriteDrifts
<1>5. CASE Install
  <2>1. stack # << >> /\ \E entry : /\ Writable(Call.key, entry) /\ Writes(Call.key, entry)
                                    /\ Installs(Call.key, entry)
    BY <1>5, InstallWrites
  <2>2. 1 <= revision
    BY <2>1 DEF IInv, CountInv
  <2> QED BY <2>1, <2>2, InstalledIsBuilt, WriteDrifts
<1> QED BY <1>1, <1>2, <1>3, <1>4, <1>5
     DEF Next, Engine, Demand, VerifyCall, VerifySame, VerifyDirty, EvalCall, EvalRead, vars

LEMMA ReasonStep == ASSUME IInv, Proper, DriftInv PROVE EvaluatedForAReason
<1>1. ASSUME NEW i \in DOMAIN stack, stack[i].mode = "eval", memo[stack[i].key] # None
      PROVE  \E j \in DOMAIN memo[stack[i].key].deps,
                r \in memo[stack[i].key].verified_at + 1 .. revision :
                Differs(memo[stack[i].key].deps[j], r)
  <2>1. PICK k : k = stack[i].key
    OBVIOUS
  <2>2. k \in Key \ Input /\ memo[k] # None /\ Drifts(k) /\ EntryOK(k)
    BY <1>1, <2>1 DEF IInv, StackInv, CallOK, EvalOK, MemoInv
  <2>3. PICK j \in DOMAIN memo[k].deps : memo[memo[k].deps[j]].computed_at > memo[k].verified_at
    BY <2>2 DEF Drifts
  <2>4. PICK e : e = memo[k].deps[j]
    OBVIOUS
  <2>5. PICK r \in memo[k].verified_at + 1 .. memo[e].verified_at : Differs(e, r)
    BY <2>2, <2>3, <2>4 DEF DriftInv, DiffersIn
  <2>6. EntryOK(e)
    BY <2>2, <2>4, DepOK DEF IInv
  <2>7. r \in memo[k].verified_at + 1 .. revision
    BY <2>2, <2>5, <2>6 DEF EntryOK, IInv, CountInv
  <2> QED BY <2>1, <2>3, <2>4, <2>5, <2>7
<1> QED BY <1>1 DEF EvaluatedForAReason

\* An entry is evaluated again only when one of its dependencies had another value
\* in some build since it was last found fresh (db.rs 8-13): no stamp of the engine
\* counts a change that was none.
THEOREM EvaluatedForAChange ==
  ASSUME Proper, ~LateFiles, CollectorsObserve, UncomparedDiffer
  PROVE  Spec => []EvaluatedForAReason
<1>1. Init => IInv /\ HistInv /\ DriftInv
  <2>1. ASSUME Init PROVE DriftInv
    BY <2>1 DEF Init, DriftInv
  <2> QED BY <2>1, InitIInv, InitHistory
<1>2. IInv /\ HistInv /\ DriftInv /\ [Next]_vars => (IInv /\ HistInv /\ DriftInv)'
  BY NextKeeps, NextHistory, NextDrifts
<1>3. IInv /\ HistInv /\ DriftInv => EvaluatedForAReason
  BY ReasonStep
<1> QED BY <1>1, <1>2, <1>3, PTL DEF Spec
=============================================================================
