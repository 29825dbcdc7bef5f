--------------------------- MODULE PersistTxRefines ----------------------------
(* persist_tx and recover implement AtomicUpdate when processes take turns: for *)
(* a reader who respects the journals a transaction begins, and later commits   *)
(* or aborts, in one step each; every other step is a stutter.                  *)
EXTENDS PersistTxAtomic

\* The transactions begun and not yet resolved.
Opened == {t \in Tx : Live(t)}

USE TxAssumption, FilesAssumption

\* What such a reader sees of a file of an unresolved transaction, and of another.
SeesSnapshots ==
  \A t \in Tx : \A f \in FilesOf[t] : Live(t) => View[f] = before[t][f]

SeesFiles ==
  \A f \in Files : (\A t \in Tx : Live(t) => f \notin FilesOf[t]) => View[f] = dest[f]

Sees == SeesSnapshots /\ SeesFiles /\ DOMAIN View = Files

\* Two live transactions have no file in common, so a file shows one snapshot.
LEMMA OneOwner ==
  ASSUME TakeTurns, ExclInv, NEW t \in Tx, NEW u \in Tx, Live(t), Live(u),
         NEW f \in FilesOf[t], f \in FilesOf[u]
  PROVE  t = u
  BY DEF ExclInv, TakeTurns, SharedRoot

LEMMA ViewSees == TakeTurns /\ ExclInv => Sees
<1> SUFFICES ASSUME TakeTurns, ExclInv PROVE Sees
  OBVIOUS
<1>1. ASSUME NEW t \in Tx, NEW f \in FilesOf[t], Live(t) PROVE View[f] = before[t][f]
  <2>1. PICK u : u = CHOOSE v \in Tx : Live(v) /\ f \in FilesOf[v]
    OBVIOUS
  <2>2. u \in Tx /\ Live(u) /\ f \in FilesOf[u]
    BY <1>1, <2>1
  <2>3. u = t
    BY <1>1, <2>2, OneOwner
  <2>4. f \in Files /\ View[f] = before[u][f]
    BY <1>1, <2>1 DEF View
  <2> QED BY <2>3, <2>4
<1>2. SeesFiles
  BY DEF SeesFiles, View
<1> QED BY <1>1, <1>2 DEF Sees, SeesSnapshots, View

\* Before and after a step.
LEMMA ViewAround ==
  ASSUME TakeTurns
  PROVE  TurnInv /\ TurnInv' => Sees /\ Sees'
<1>1. TurnInv => Sees
  BY ViewSees DEF TurnInv
<1> QED BY <1>1, PTL

\* A step moves no file but those of the transactions that are live.
LEMMA FilesOutside ==
  ASSUME TakeTurns, TurnInv, [Next]_vars, NEW f \in Files,
         \A t \in Tx : Live(t) => f \notin FilesOf[t]
  PROVE  dest'[f] = dest[f]
<1> USE DEF TurnInv, TypeInv, TypeOK, DiskOK
<1>1. ASSUME NEW t \in Tx, PersistStep(t) PROVE dest'[f] = dest[f]
  <2>1. pc[t] = "pendcheck" \/ Live(t)
    BY <1>1, TxStepControl DEF ControlStep, Live
  <2> QED BY <1>1, <2>1, TxStepFiles DEF ShapeInv
<1>2. CASE RecoverStep
  <2>1. Live(rtx) /\ rtx \in Tx
    BY <1>2, RecoverStepControl DEF RecoverControl, ExclInv, Live, RecoverOK
  <2> QED BY <1>2, <2>1, RecoverStepFiles DEF ShapeInv
<1>3. CASE \/ \E t \in Tx : Start(t) \/ RecoverStart(t) \/ Crash(t)
           \/ RecoverCrash \/ UNCHANGED vars
  BY <1>3 DEF Start, RecoverStart, Crash, RecoverCrash, vars, disk
<1>4. ASSUME NEW g \in Files PROVE ~Edit(g)
  BY DEF Edit, TakeTurns, EnvOK
<1> QED BY <1>1, <1>2, <1>3, <1>4 DEF Next

\* The snapshot of a live transaction is never taken again.
LEMMA SnapshotKept ==
  ASSUME TakeTurns, TurnInv, [Next]_vars, NEW t \in Tx, Live(t)
  PROVE  before'[t] = before[t]
<1> USE DEF TurnInv, TypeInv, TypeOK, ProcsOK
<1>1. ASSUME NEW u \in Tx, PersistStep(u) PROVE UNCHANGED before
  BY <1>1, TxStepFrame
<1>2. ASSUME NEW u \in Tx, Start(u) PROVE before'[t] = before[t]
  BY <1>2 DEF Start, ExclInv, Live, Running
<1>3. CASE RecoverStep
  BY <1>3, RecoverStepControl DEF RecoverControl, ExclInv, procs
<1>4. CASE \/ \E u \in Tx : RecoverStart(u) \/ Crash(u)
           \/ RecoverCrash \/ UNCHANGED vars \/ \E f \in Files : Edit(f)
  BY <1>4 DEF RecoverStart, Crash, RecoverCrash, Edit, vars, procs
<1> QED BY <1>1, <1>2, <1>3, <1>4 DEF Next

\* A step begins or resolves one transaction at most.
LEMMA OneChanges ==
  ASSUME TakeTurns, TurnInv, [Next]_vars, NEW t \in Tx, Live(t)' # Live(t),
         NEW u \in Tx, u # t
  PROVE  Live(u)' <=> Live(u)
<1> USE DEF TurnInv, TypeInv, TypeOK, ProcsOK
<1>1. ASSUME NEW v \in Tx, PersistStep(v) PROVE Live(u)' <=> Live(u)
  <2>1. OthersAlone(v)
    BY <1>1, TxStepFrame
  <2>2. v = t
    BY <2>1 DEF OthersAlone, Live, Running
  <2> QED BY <2>1, <2>2 DEF OthersAlone, Live, Running
<1>2. CASE RecoverStep
  <2>1. RecoverControl
    BY <1>2, RecoverStepControl DEF ExclInv
  <2>2. t = rtx
    BY <2>1 DEF RecoverControl, Live, Running, procs
  <2> QED BY <2>1, <2>2 DEF RecoverControl, Live, Running, procs
<1>3. ASSUME NEW v \in Tx, Start(v) \/ Crash(v) PROVE Live(u)' <=> Live(u)
  <2>1. UNCHANGED journal /\ \E p : Goto(v, p)
    BY <1>3 DEF Start, Crash, disk
  <2>2. v = t
    BY <2>1 DEF Goto, Live, Running
  <2> QED BY <2>1, <2>2 DEF Goto, Live, Running
<1>4. CASE \/ \E v \in Tx : RecoverStart(v)
           \/ RecoverCrash \/ UNCHANGED vars
  BY <1>4 DEF RecoverStart, RecoverCrash, vars, Live, Running, disk, procs
<1>5. ASSUME NEW f \in Files PROVE ~Edit(f)
  BY DEF Edit, TakeTurns, EnvOK
<1> QED BY <1>1, <1>2, <1>3, <1>4, <1>5 DEF Next

\* A transaction begins when it passes the pending check: nothing of its directory
\* is live, and its files are as the snapshot has them.
LEMMA StepBegins ==
  ASSUME TakeTurns, TurnInv, [Next]_vars, NEW t \in Tx, ~Live(t), Live(t)'
  PROVE  /\ \A u \in Tx : Live(u) => Root[u] # Root[t]
         /\ UNCHANGED <<dest, before>> /\ AllBefore(t)
<1> USE DEF TurnInv
<1>1. ASSUME NEW u \in Tx, PersistStep(u)
      PROVE  /\ \A v \in Tx : Live(v) => Root[v] # Root[t]
             /\ UNCHANGED <<dest, before>> /\ AllBefore(t)
  <2>1. OthersAlone(u) /\ UNCHANGED before /\ ControlStep(u)
    BY <1>1, TxStepFrame, TxStepControl
  <2>2. u = t
    BY <2>1 DEF OthersAlone, Live, Running
  <2>3. /\ pc[t] = "pendcheck" /\ pc'[t] = "verify"
        /\ \A v \in Tx : Root[v] = Root[t] => journal[v] = "none"
    BY <2>1, <2>2 DEF ControlStep, Live, Running
  <2>4. \A v \in Tx : Live(v) => Root[v] # Root[t]
    BY <2>1, <2>2, <2>3 DEF Live, ExclInv, ControlStep
  <2>5. AllBefore(t)
    BY <2>3 DEF ShapeInv, TxShape, AllBefore, UntouchedFile
  <2>6. UNCHANGED dest
    BY <1>1, <2>2, <2>3
    DEF PersistStep, CheckPending, VerifyFile, JournalCreate, JournalWrite, StageCreate,
        StageWrite, Unstage, DropStaging, Swap, Promote, Restore, UnstageRest, RestoreLast,
        DropRollback, RemoveBackup, DropDone, disk, ExclInv, JournalSites
  <2> QED BY <2>1, <2>4, <2>5, <2>6
<1>2. CASE RecoverStep
  BY <1>2, RecoverStepControl DEF RecoverControl, ExclInv, Live, Running, procs, TypeInv, TypeOK, RecoverOK
<1>3. CASE \/ \E u \in Tx : Start(u) \/ RecoverStart(u) \/ Crash(u)
           \/ RecoverCrash \/ UNCHANGED vars
  BY <1>3 DEF Start, RecoverStart, Crash, RecoverCrash, vars, Goto, Live, Running, disk,
              procs, TypeInv, TypeOK, ProcsOK
<1>4. ASSUME NEW f \in Files PROVE ~Edit(f)
  BY DEF Edit, TakeTurns, TypeInv, TypeOK, EnvOK
<1> QED BY <1>1, <1>2, <1>3, <1>4 DEF Next

-----------------------------------------------------------------------------
(* The step-by-step correspondence *)

\* Init maps to the initial state of AtomicUpdate.
LEMMA InitRefines == Init => Abstract!Init
<1> SUFFICES ASSUME Init PROVE Abstract!Init
  OBVIOUS
<1>1. \A t \in Tx : ~Live(t)
  BY DEF Init, Live, Running
<1>2. View = [f \in Files |-> "orig"]
  BY <1>1 DEF Init, View
<1> QED BY <1>1, <1>2 DEF Abstract!Init

\* Two views are the same when they show the same bytes of every file.
LEMMA SameView ==
  ASSUME DOMAIN View = Files, DOMAIN View' = Files, NEW v, v = [f \in Files |-> v[f]],
         \A f \in Files : View'[f] = v[f]
  PROVE  View' = v
<1>1. View' = [f \in Files |-> View'[f]]
  BY DEF View
<1> QED BY <1>1

\* No transaction begins or ends in the step: the reader sees no change.
LEMMA Stutters ==
  ASSUME TakeTurns, TurnInv, TurnInv', [Next]_vars, Opened' = Opened
  PROVE  View' = View
<1> USE DEF TurnInv
<1>1. Sees /\ Sees' /\ \A t \in Tx : Live(t)' <=> Live(t)
  BY ViewAround DEF Opened
<1>2. ASSUME NEW t \in Tx, NEW f \in FilesOf[t], Live(t) PROVE View'[f] = View[f]
  <2>1. View[f] = before[t][f] /\ View'[f] = before'[t][f]
    BY <1>1, <1>2 DEF Sees, SeesSnapshots
  <2>2. before'[t] = before[t]
    BY <1>2, SnapshotKept
  <2> QED BY <2>1, <2>2
<1>3. ASSUME NEW f \in Files, \A t \in Tx : Live(t) => f \notin FilesOf[t]
      PROVE  View'[f] = View[f]
  <2>1. View[f] = dest[f] /\ View'[f] = dest'[f]
    BY <1>1, <1>3 DEF Sees, SeesFiles
  <2>2. dest'[f] = dest[f]
    BY <1>3, FilesOutside
  <2> QED BY <2>1, <2>2
<1>4. \A f \in Files : View'[f] = View[f]
  BY <1>2, <1>3
<1>5. View = [f \in Files |-> View[f]]
  BY DEF View
<1> QED BY <1>1, <1>4, <1>5, SameView DEF Sees

\* Passing the pending check is Begin.
LEMMA Begins ==
  ASSUME TakeTurns, TurnInv, TurnInv', [Next]_vars, NEW t \in Tx, ~Live(t), Live(t)'
  PROVE  Abstract!Begin(t)
<1> USE DEF TurnInv
<1>1. /\ \A u \in Tx : Live(u) => Root[u] # Root[t]
      /\ UNCHANGED <<dest, before>> /\ AllBefore(t)
  BY StepBegins
<1>2. Sees /\ Sees' /\ \A u \in Tx : u # t => (Live(u)' <=> Live(u))
  BY ViewAround, OneChanges
<1>3. ASSUME NEW u \in Tx, NEW f \in FilesOf[u], Live(u) PROVE View'[f] = View[f]
  <2>1. Live(u)'
    BY <1>2, <1>3
  <2> QED BY <1>1, <1>2, <1>3, <2>1 DEF Sees, SeesSnapshots
<1>4. ASSUME NEW f \in FilesOf[t], \A u \in Tx : Live(u) => f \notin FilesOf[u]
      PROVE  View'[f] = View[f]
  <2>1. View[f] = dest[f] /\ View'[f] = before[t][f]
    BY <1>1, <1>2, <1>4 DEF Sees, SeesFiles, SeesSnapshots
  <2> QED BY <1>1, <2>1 DEF AllBefore
<1>5. ASSUME NEW f \in Files, f \notin FilesOf[t], \A u \in Tx : Live(u) => f \notin FilesOf[u]
      PROVE  View'[f] = View[f]
  <2>1. \A u \in Tx : Live(u)' => f \notin FilesOf[u]
    BY <1>2, <1>5
  <2> QED BY <1>1, <1>2, <1>5, <2>1 DEF Sees, SeesFiles
<1>6. \A f \in Files : View'[f] = View[f]
  BY <1>3, <1>4, <1>5
<1>7. View' = View
  <2>1. View = [f \in Files |-> View[f]]
    BY DEF View
  <2> QED BY <1>2, <1>6, <2>1, SameView DEF Sees
<1>8. {u \in Tx : Live(u)'} = {u \in Tx : Live(u)} \cup {t}
  BY <1>2
<1> QED BY <1>1, <1>7, <1>8 DEF Abstract!Begin

\* The step that resolves a transaction is Commit or Abort.
LEMMA Resolves ==
  ASSUME TakeTurns, TurnInv, TurnInv', [Next]_vars, NEW t \in Tx, Live(t), ~Live(t)'
  PROVE  Abstract!Abort(t) \/ Abstract!Commit(t)
<1> USE DEF TurnInv
<1>1. UNCHANGED <<dest, before>> /\ (AllBefore(t) \/ AllAfter(t))
  BY StepResolves
<1>2. Sees /\ Sees' /\ \A u \in Tx : u # t => (Live(u)' <=> Live(u))
  BY ViewAround, OneChanges
<1>3. ASSUME NEW f \in FilesOf[t] PROVE View[f] = before[t][f] /\ View'[f] = dest[f]
  <2>1. \A u \in Tx : Live(u)' => f \notin FilesOf[u]
    BY <1>2, <1>3, OneOwner
  <2> QED BY <1>1, <1>2, <1>3, <2>1 DEF Sees, SeesFiles, SeesSnapshots
<1>4. ASSUME NEW u \in Tx, NEW f \in FilesOf[u], f \notin FilesOf[t], Live(u)
      PROVE  View'[f] = View[f]
  <2>1. Live(u)'
    BY <1>2, <1>4
  <2> QED BY <1>1, <1>2, <1>4, <2>1 DEF Sees, SeesSnapshots
<1>5. ASSUME NEW f \in Files, \A u \in Tx : Live(u) => f \notin FilesOf[u]
      PROVE  View'[f] = View[f]
  <2>1. \A u \in Tx : Live(u)' => f \notin FilesOf[u]
    BY <1>2, <1>5
  <2> QED BY <1>1, <1>2, <1>5, <2>1 DEF Sees, SeesFiles
<1>6. \A f \in Files \ FilesOf[t] : View'[f] = View[f]
  BY <1>4, <1>5
<1>7. {u \in Tx : Live(u)'} = {u \in Tx : Live(u)} \ {t}
  BY <1>2
<1>8. CASE AllBefore(t)
  <2>1. \A f \in Files : View'[f] = View[f]
    BY <1>3, <1>6, <1>8 DEF AllBefore
  <2>2. View = [f \in Files |-> View[f]]
    BY DEF View
  <2>3. View' = View
    BY <1>2, <2>1, <2>2, SameView DEF Sees
  <2> QED BY <1>7, <2>3 DEF Abstract!Abort
<1>9. CASE AllAfter(t)
  <2>1. PICK v : v = [f \in Files |-> IF f \in FilesOf[t] THEN t ELSE View[f]]
    OBVIOUS
  <2>2. \A f \in Files : View'[f] = v[f]
    BY <1>3, <1>6, <1>9, <2>1 DEF AllAfter
  <2>3. View' = v
    BY <1>2, <2>1, <2>2, SameView DEF Sees
  <2> QED BY <1>7, <2>1, <2>3 DEF Abstract!Commit
<1> QED BY <1>1, <1>8, <1>9

\* Every step is a step of AtomicUpdate, or none of its variables change.
LEMMA StepRefines ==
  ASSUME TakeTurns, TurnInv, [Next]_vars
  PROVE  [Abstract!Next]_<<View, Opened>>
<1>0. TurnInv'
  BY StepTurnInv
<1>1. CASE Opened' = Opened
  BY <1>0, <1>1, Stutters
<1>2. CASE Opened' # Opened
  <2>1. PICK t \in Tx : (~Live(t) /\ Live(t)') \/ (Live(t) /\ ~Live(t)')
    BY <1>2 DEF Opened
  <2> QED BY <1>0, <2>1, Begins, Resolves DEF Abstract!Next
<1> QED BY <1>1, <1>2

\* For any number of files, transactions, failing calls and deaths, persist_tx and
\* recover behave as the atomic multi-file update.
THEOREM Refinement ==
  ASSUME TakeTurns
  PROVE  Spec => ImplementsAtomicUpdate
<1>1. Init => Abstract!Init
  BY InitRefines
<1>2. TurnInv /\ [Next]_vars => [Abstract!Next]_<<View, {t \in Tx : Live(t)}>>
  BY StepRefines DEF Opened
<1> QED BY <1>1, <1>2, TurnInvAlways, PTL DEF Spec, ImplementsAtomicUpdate, Abstract!Spec
=============================================================================
