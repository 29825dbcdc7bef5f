--------------------------- MODULE PersistTxProofs ---------------------------
(* Proofs about PersistTx, for any set of transactions and files. *)
EXTENDS PersistTx, TLAPS

\* The control points of a rollback that visit the files not swapped.
RollbackPcs == {"restore", "unstagerest", "restorelast"}

\* A rollback is under way only while some file of the plan is not swapped:
\* without this, the loop over the unswapped files could start empty.
RollbackHasWork ==
  \A t \in Tx : pc[t] \in RollbackPcs => Unswapped(t) # {}

TypeInv == TypeOK /\ RollbackHasWork

USE TxAssumption, FilesAssumption

-----------------------------------------------------------------------------
(* Typing of the helpers *)

\* The control points the steps of persist_tx name.
LEMMA TxPcsKnown ==
  /\ {"pendcheck", "verify", "stage", "stagewrite", "unstage", "dropstaging",
      "swap", "promote", "restore", "unstagerest"} \subseteq TxPcs
  /\ {"restorelast", "droprollback", "finalize", "dropdone", "returned", "dead",
      "jprepared", "jstaged", "jswapping", "jswapped", "jdone"} \subseteq TxPcs
  BY DEF TxPcs, JournalSites

\* The results and the contents the steps name.
LEMMA ValuesKnown ==
  /\ {"ok", "Prepare", "Staging", "Commit", "RecoveryRequired"} \subseteq Results
  /\ {"orig", "foreign", "partial", "missing"} \subseteq Content
  /\ Tx \subseteq Content
  BY DEF Results, Content

\* Storing a content keeps a per-transaction file map well typed.
LEMMA PutTyping ==
  ASSUME NEW fs \in [Tx -> [Files -> Content]], NEW t \in Tx, NEW f \in Files,
         NEW c \in Content
  PROVE  Put(fs, t, f, c) \in [Tx -> [Files -> Content]]
  BY DEF Put

\* Entering a loop keeps the control state well typed.
LEMMA LoopTyping ==
  ASSUME ProcsOK, NEW t \in Tx, NEW p \in TxPcs, NEW S \in SUBSET Files,
         Loop(t, p, S)
  PROVE  pc' \in [Tx -> TxPcs] /\ todo' \in [Tx -> SUBSET Files]
  BY DEF ProcsOK, Loop, Goto

\* So does going round a loop.
LEMMA AdvanceTyping ==
  ASSUME ProcsOK, NEW t \in Tx, NEW f \in Files, NEW p \in TxPcs,
         NEW S \in SUBSET Files, Advance(t, f, p, S)
  PROVE  pc' \in [Tx -> TxPcs] /\ todo' \in [Tx -> SUBSET Files]
<1>1. CASE todo[t] = {f} BY <1>1, LoopTyping DEF Advance
<1>2. CASE todo[t] # {f}
  <2>1. Loop(t, pc[t], todo[t] \ {f})  BY <1>2 DEF Advance
  <2> QED BY <2>1 DEF ProcsOK, Loop, Goto
<1> QED BY <1>1, <1>2

\* So does a jump, and so does returning.
LEMMA ReturnTyping ==
  ASSUME ProcsOK, NEW t \in Tx, NEW r \in Results, Return(t, r)
  PROVE  pc' \in [Tx -> TxPcs] /\ ret' \in [Tx -> Results]
  BY TxPcsKnown DEF ProcsOK, Return, Goto

\* A loop left by Advance still has work, or the next one has.
LEMMA AdvanceLoops ==
  ASSUME ProcsOK, LoopsOK, NEW t \in Tx, NEW f \in todo[t], NEW p \in TxPcs,
         NEW S \in SUBSET Files, Advance(t, f, p, S), p \in LoopPcs => S # {},
         UNCHANGED <<rpc, rtodo>>
  PROVE  LoopsOK'
<1>1. \A u \in Tx : u # t => pc'[u] = pc[u] /\ todo'[u] = todo[u]
  BY DEF ProcsOK, Advance, Loop, Goto
<1>2. pc'[t] \in LoopPcs => todo'[t] # {}
  <2>1. CASE todo[t] = {f} BY <2>1 DEF ProcsOK, Advance, Loop, Goto
  <2>2. CASE todo[t] # {f}
    <3>1. todo'[t] = todo[t] \ {f}  BY <2>2 DEF ProcsOK, Advance, Loop, Goto
    <3> QED BY <2>2, <3>1
  <2> QED BY <2>1, <2>2
<1> QED BY <1>1, <1>2 DEF LoopsOK

\* So does a jump.
LEMMA GotoTyping ==
  ASSUME ProcsOK, NEW t \in Tx, NEW p \in TxPcs, Goto(t, p)
  PROVE  pc' \in [Tx -> TxPcs]
  BY DEF ProcsOK, Goto

\* A jump to a control point that is no loop, or whose work is there already.
LEMMA JumpKeepsWork ==
  ASSUME ProcsOK, LoopsOK, RollbackHasWork, NEW t \in Tx, NEW p, Goto(t, p),
         UNCHANGED <<todo, swapped, rpc, rtodo>>,
         p \in LoopPcs => todo[t] # {}, p \in RollbackPcs => Unswapped(t) # {}
  PROVE  LoopsOK' /\ RollbackHasWork'
<1>1. pc' \in [Tx -> {pc[u] : u \in Tx} \cup {p}] /\ pc'[t] = p
  BY DEF ProcsOK, Goto
<1>2. \A u \in Tx \ {t} : pc'[u] = pc[u]
  BY DEF ProcsOK, Goto
<1>3. LoopsOK'          BY <1>1, <1>2 DEF LoopsOK
<1>4. RollbackHasWork'  BY <1>1, <1>2 DEF RollbackHasWork, RollbackPcs, Unswapped
<1> QED BY <1>3, <1>4

\* A loop is entered with files to visit.
LEMMA LoopHasWork ==
  ASSUME ProcsOK, LoopsOK, RollbackHasWork, NEW t \in Tx, NEW p, NEW S, Loop(t, p, S),
         UNCHANGED <<swapped, rpc, rtodo>>,
         p \in LoopPcs => S # {}, p \in RollbackPcs => Unswapped(t) # {}
  PROVE  LoopsOK' /\ RollbackHasWork'
<1>1. pc'[t] = p /\ todo'[t] = S
  BY DEF ProcsOK, Loop, Goto
<1>2. \A u \in Tx \ {t} : pc'[u] = pc[u] /\ todo'[u] = todo[u]
  BY DEF ProcsOK, Loop, Goto
<1>3. LoopsOK'          BY <1>1, <1>2 DEF LoopsOK
<1>4. RollbackHasWork'  BY <1>1, <1>2 DEF RollbackHasWork, RollbackPcs, Unswapped
<1> QED BY <1>3, <1>4

\* Where write_journal continues, there is work.
LEMMA AfterJournalHasWork ==
  ASSUME ProcsOK, LoopsOK, RollbackHasWork, NEW t \in Tx, NEW ok, AfterJournal(t, ok),
         UNCHANGED <<swapped, rpc, rtodo>>
  PROVE  LoopsOK' /\ RollbackHasWork'
<1>1. \/ Loop(t, "stage", FilesOf[t])
      \/ Loop(t, "unstage", FilesOf[t])
      \/ Loop(t, "finalize", FilesOf[t])
      \/ UNCHANGED todo /\ \E p \in {"returned", "jswapping", "swap", "dropdone"} : Goto(t, p)
  BY DEF AfterJournal, Return
<1>2. FilesOf[t] # {}
  OBVIOUS
<1>3. CASE Loop(t, "stage", FilesOf[t])
  BY <1>2, <1>3, LoopHasWork DEF RollbackPcs
<1>4. CASE Loop(t, "unstage", FilesOf[t])
  BY <1>2, <1>4, LoopHasWork DEF RollbackPcs
<1>5. CASE Loop(t, "finalize", FilesOf[t])
  BY <1>2, <1>5, LoopHasWork DEF RollbackPcs
<1>6. ASSUME UNCHANGED todo, NEW p \in {"returned", "jswapping", "swap", "dropdone"}, Goto(t, p)
      PROVE  LoopsOK' /\ RollbackHasWork'
  <2>1. p \notin LoopPcs /\ p \notin RollbackPcs
    BY DEF LoopPcs, RollbackPcs, JournalSites
  <2> QED BY <1>6, <2>1, JumpKeepsWork
<1> QED BY <1>1, <1>3, <1>4, <1>5, <1>6

-----------------------------------------------------------------------------
(* Type correctness *)

\* The initial state of the disk and of the processes has the right types.
LEMMA InitTypeInv == Init => TypeInv
<1> SUFFICES ASSUME Init PROVE TypeInv
  OBVIOUS
<1>1. DiskOK          BY DEF Init, DiskOK, Content
<1>2. ProcsOK         BY DEF Init, ProcsOK, Content, TxPcs, Results
<1>3. RecoverOK       BY DEF Init, RecoverOK, RecPcs, Outcomes
<1>4. EnvOK           BY BoundAssumption DEF Init, EnvOK
<1>5. LoopsOK         BY DEF Init, LoopsOK, LoopPcs
<1>6. RollbackHasWork BY DEF Init, RollbackHasWork, RollbackPcs
<1> QED BY <1>1, <1>2, <1>3, <1>4, <1>5, <1>6 DEF TypeInv, TypeOK

\* Every step of a transactor keeps the types.
LEMMA TxStepTyping ==
  ASSUME TypeInv, NEW t \in Tx, Start(t) \/ PersistStep(t)
  PROVE  TypeInv'
<1> USE DEF TypeInv, TypeOK
<1>1. CASE Start(t)
  <2>1. DiskOK'
    BY <1>1, ValuesKnown DEF Start, DiskOK, ProcsOK, disk
  <2>2. pc' \in [Tx -> TxPcs] /\ todo' \in [Tx -> SUBSET Files] /\ ret' \in [Tx -> Results]
    BY <1>1, TxPcsKnown, ValuesKnown, GotoTyping DEF Start, ProcsOK, Unswapped
  <2>3. ProcsOK'
    BY <1>1, <2>2 DEF Start, ProcsOK, DiskOK
  <2>4. RecoverOK' /\ EnvOK'
    BY <1>1, BoundAssumption DEF Start, RecoverOK, EnvOK, Call, txframe, recv, env
  <2>5. LoopsOK'
    BY <1>1 DEF Start, LoopsOK, LoopPcs, JournalSites, ProcsOK, RollbackHasWork, RollbackPcs,
              Goto, Loop, Advance, Return, Unswapped, txframe, recv
  <2>6. RollbackHasWork'
    BY <1>1 DEF Start, RollbackHasWork, RollbackPcs, ProcsOK, JournalSites, Goto, Loop, Advance,
              Return, Unswapped
  <2> QED BY <2>1, <2>3, <2>4, <2>5, <2>6
<1>2. CASE CheckPending(t)
  <2>1. DiskOK'
    BY <1>2, ValuesKnown DEF CheckPending, Lookup, DiskOK, ProcsOK, disk
  <2>2. pc' \in [Tx -> TxPcs] /\ todo' \in [Tx -> SUBSET Files] /\ ret' \in [Tx -> Results]
    BY <1>2, TxPcsKnown, ValuesKnown, LoopTyping, ReturnTyping DEF CheckPending, Lookup, ProcsOK, Unswapped
  <2>3. ProcsOK'
    BY <1>2, <2>2 DEF CheckPending, Lookup, ProcsOK, DiskOK
  <2>4. RecoverOK' /\ EnvOK'
    BY <1>2, BoundAssumption DEF CheckPending, Lookup, RecoverOK, EnvOK, Call, txframe, recv, env
  <2>5. \/ Goto(t, "returned") /\ UNCHANGED todo
        \/ Loop(t, "verify", FilesOf[t])
    BY <1>2 DEF CheckPending, Return
  <2>6. UNCHANGED <<swapped, rpc, rtodo>>
    BY <1>2 DEF CheckPending, txframe, recv
  <2>7. LoopsOK' /\ RollbackHasWork'
    BY <2>5, <2>6, JumpKeepsWork, LoopHasWork DEF LoopPcs, RollbackPcs, JournalSites
  <2> QED BY <2>1, <2>3, <2>4, <2>7
<1>3. CASE VerifyFile(t)
  <2>1. DiskOK'
    BY <1>3, ValuesKnown DEF VerifyFile, DiskOK, ProcsOK, disk
  <2>2. pc' \in [Tx -> TxPcs] /\ todo' \in [Tx -> SUBSET Files] /\ ret' \in [Tx -> Results]
    BY <1>3, TxPcsKnown, ValuesKnown, AdvanceTyping, ReturnTyping DEF VerifyFile, ProcsOK, Unswapped
  <2>3. ProcsOK'
    BY <1>3, <2>2 DEF VerifyFile, ProcsOK, DiskOK
  <2>4. RecoverOK' /\ EnvOK'
    BY <1>3, BoundAssumption DEF VerifyFile, RecoverOK, EnvOK, Call, txframe, recv, env
  <2>5. LoopsOK'
    <3>1. PICK f \in todo[t] :
            \/ Advance(t, f, "jprepared", {})
            \/ Return(t, "Prepare") /\ UNCHANGED todo
      BY <1>3 DEF VerifyFile
    <3>2. pc'[t] \in LoopPcs => todo'[t] # {}
      BY <1>3, <3>1 DEF VerifyFile, LoopPcs, ProcsOK, Goto, Loop, Advance, Return
    <3>3. \A u \in Tx \ {t} : pc'[u] = pc[u] /\ todo'[u] = todo[u]
      BY <3>1 DEF ProcsOK, Goto, Loop, Advance, Return
    <3>4. UNCHANGED recv
      BY <1>3 DEF VerifyFile, txframe
    <3> QED BY <3>2, <3>3, <3>4 DEF LoopsOK, recv
  <2>6. RollbackHasWork'
    BY <1>3 DEF VerifyFile, RollbackHasWork, RollbackPcs, ProcsOK, JournalSites, Goto, Loop, Advance,
              Return, Unswapped
  <2> QED BY <2>1, <2>3, <2>4, <2>5, <2>6
<1>4. CASE JournalCreate(t)
  <2>1. DiskOK'
    BY <1>4, ValuesKnown DEF JournalCreate, AfterJournal, DiskOK, ProcsOK, disk
  <2>2. pc' \in [Tx -> TxPcs] /\ todo' \in [Tx -> SUBSET Files] /\ ret' \in [Tx -> Results]
    BY <1>4, TxPcsKnown, ValuesKnown, LoopTyping, ReturnTyping, GotoTyping DEF JournalCreate, AfterJournal, ProcsOK, Unswapped
  <2>3. ProcsOK'
    BY <1>4, <2>2 DEF JournalCreate, ProcsOK, DiskOK
  <2>4. RecoverOK' /\ EnvOK'
    BY <1>4, BoundAssumption DEF JournalCreate, RecoverOK, EnvOK, Call, txframe, recv, env
  <2>5. UNCHANGED <<swapped, rpc, rtodo>>
    BY <1>4 DEF JournalCreate, txframe, recv
  <2>6. ASSUME UNCHANGED <<pc, todo>> PROVE LoopsOK' /\ RollbackHasWork'
    <3>1. LoopsOK'          BY <2>5, <2>6 DEF LoopsOK
    <3>2. RollbackHasWork'  BY <2>5, <2>6 DEF RollbackHasWork, Unswapped
    <3> QED BY <3>1, <3>2
  <2>7. ASSUME AfterJournal(t, FALSE) PROVE LoopsOK' /\ RollbackHasWork'
    BY <2>5, <2>7, AfterJournalHasWork
  <2>8. LoopsOK' /\ RollbackHasWork'
    BY <1>4, <2>6, <2>7 DEF JournalCreate
  <2> QED BY <2>1, <2>3, <2>4, <2>8
<1>5. CASE JournalWrite(t)
  <2>1. DiskOK'
    BY <1>5, ValuesKnown DEF JournalWrite, AfterJournal, DiskOK, ProcsOK, disk
  <2>2. pc' \in [Tx -> TxPcs] /\ todo' \in [Tx -> SUBSET Files] /\ ret' \in [Tx -> Results]
    BY <1>5, TxPcsKnown, ValuesKnown, LoopTyping, ReturnTyping, GotoTyping DEF JournalWrite, AfterJournal, ProcsOK, Unswapped
  <2>3. ProcsOK'
    BY <1>5, <2>2 DEF JournalWrite, ProcsOK, DiskOK
  <2>4. RecoverOK' /\ EnvOK'
    BY <1>5, BoundAssumption DEF JournalWrite, RecoverOK, EnvOK, Call, txframe, recv, env
  <2>5. UNCHANGED <<swapped, rpc, rtodo>>
    BY <1>5 DEF JournalWrite, txframe, recv
  <2>6. PICK ok \in BOOLEAN : AfterJournal(t, ok)
    BY <1>5 DEF JournalWrite
  <2>7. LoopsOK' /\ RollbackHasWork'
    BY <2>5, <2>6, AfterJournalHasWork
  <2> QED BY <2>1, <2>3, <2>4, <2>7
<1>6. CASE StageCreate(t)
  <2>a. PICK f \in todo[t] : stage' = Put(stage, t, f, "partial") \/ UNCHANGED stage
    BY <1>6 DEF StageCreate
  <2>b. f \in Files
    BY DEF ProcsOK, Unswapped
  <2>d. Put(stage, t, f, "partial") \in [Tx -> [Files -> Content]]
    BY <2>b, PutTyping, ValuesKnown DEF DiskOK
  <2>1. DiskOK'
    BY <1>6, <2>a, <2>d DEF StageCreate, DiskOK
  <2>2. pc' \in [Tx -> TxPcs] /\ todo' \in [Tx -> SUBSET Files] /\ ret' \in [Tx -> Results]
    BY <1>6, TxPcsKnown, ValuesKnown, LoopTyping, GotoTyping DEF StageCreate, ProcsOK, Unswapped
  <2>3. ProcsOK'
    BY <1>6, <2>2 DEF StageCreate, ProcsOK, DiskOK
  <2>4. RecoverOK' /\ EnvOK'
    BY <1>6, BoundAssumption DEF StageCreate, RecoverOK, EnvOK, Call, txframe, recv, env
  <2>5. \/ Goto(t, "stagewrite") /\ UNCHANGED todo
        \/ Loop(t, "unstage", FilesOf[t])
    BY <1>6 DEF StageCreate
  <2>6. UNCHANGED <<swapped, rpc, rtodo>> /\ todo[t] # {}
    BY <1>6 DEF StageCreate, txframe, recv
  <2>7. LoopsOK' /\ RollbackHasWork'
    BY <2>5, <2>6, JumpKeepsWork, LoopHasWork DEF RollbackPcs
  <2> QED BY <2>1, <2>3, <2>4, <2>7
<1>7. CASE StageWrite(t)
  <2>1. DiskOK'
    BY <1>7, ValuesKnown DEF StageWrite, DiskOK, ProcsOK, disk
  <2>2. pc' \in [Tx -> TxPcs] /\ todo' \in [Tx -> SUBSET Files] /\ ret' \in [Tx -> Results]
    BY <1>7, TxPcsKnown, ValuesKnown, LoopTyping DEF StageWrite, ProcsOK, Unswapped
  <2>3. ProcsOK'
    BY <1>7, <2>2 DEF StageWrite, ProcsOK, DiskOK
  <2>4. RecoverOK' /\ EnvOK'
    BY <1>7, BoundAssumption DEF StageWrite, RecoverOK, EnvOK, Call, txframe, recv, env
  <2>5. PICK f \in todo[t], ok \in BOOLEAN :
            IF ~ok THEN Loop(t, "unstage", FilesOf[t])
            ELSE IF todo[t] = {f} THEN Loop(t, "jstaged", {})
            ELSE Loop(t, "stage", todo[t] \ {f})
    BY <1>7, Zenon DEF StageWrite
  <2>6. FilesOf[t] # {} /\ (todo[t] # {f} => todo[t] \ {f} # {})
    BY <2>5
  <2>7. \/ Loop(t, "unstage", FilesOf[t])
        \/ Loop(t, "jstaged", {})
        \/ todo[t] \ {f} # {} /\ Loop(t, "stage", todo[t] \ {f})
    BY <2>5, <2>6
  <2>8. UNCHANGED <<swapped, rpc, rtodo>>
    BY <1>7 DEF StageWrite, txframe, recv
  <2>9. LoopsOK' /\ RollbackHasWork'
    BY <2>6, <2>7, <2>8, LoopHasWork DEF LoopPcs, RollbackPcs, JournalSites
  <2> QED BY <2>1, <2>3, <2>4, <2>9
<1>8. CASE Unstage(t)
  <2>a. PICK f \in todo[t] :
          /\ stage' = Put(stage, t, f, "missing") \/ UNCHANGED stage
          /\ Advance(t, f, "dropstaging", {})
    BY <1>8 DEF Unstage
  <2>b. f \in Files
    BY DEF ProcsOK, Unswapped
  <2>d. Put(stage, t, f, "missing") \in [Tx -> [Files -> Content]]
    BY <2>b, PutTyping, ValuesKnown DEF DiskOK
  <2>1. DiskOK'
    BY <1>8, <2>a, <2>d DEF Unstage, DiskOK
  <2>2. pc' \in [Tx -> TxPcs] /\ todo' \in [Tx -> SUBSET Files] /\ ret' \in [Tx -> Results]
    BY <1>8, <2>a, <2>b, TxPcsKnown, AdvanceTyping DEF Unstage, ProcsOK, Unswapped
  <2>3. ProcsOK'
    BY <1>8, <2>2 DEF Unstage, ProcsOK, DiskOK
  <2>4. RecoverOK' /\ EnvOK'
    BY <1>8, BoundAssumption DEF Unstage, RecoverOK, EnvOK, Call, txframe, recv, env
  <2>5. LoopsOK'
    BY <1>8, <2>a, TxPcsKnown, AdvanceLoops
    DEF Unstage, LoopPcs, ProcsOK, Unswapped, txframe, recv
  <2>6. RollbackHasWork'
    BY <1>8, SMTT(30) DEF Unstage, RollbackHasWork, RollbackPcs, ProcsOK, JournalSites, Goto, Loop, Advance,
              Return, Unswapped
  <2> QED BY <2>1, <2>3, <2>4, <2>5, <2>6
<1>9. CASE DropStaging(t)
  <2>1. DiskOK'
    BY <1>9, ValuesKnown DEF DropStaging, DiskOK, ProcsOK, disk
  <2>2. pc' \in [Tx -> TxPcs] /\ todo' \in [Tx -> SUBSET Files] /\ ret' \in [Tx -> Results]
    BY <1>9, TxPcsKnown, ValuesKnown, ReturnTyping DEF DropStaging, ProcsOK, Unswapped
  <2>3. ProcsOK'
    BY <1>9, <2>2 DEF DropStaging, ProcsOK, DiskOK
  <2>4. RecoverOK' /\ EnvOK'
    BY <1>9, BoundAssumption DEF DropStaging, RecoverOK, EnvOK, Call, txframe, recv, env
  <2>5. LoopsOK'
    BY <1>9 DEF DropStaging, LoopsOK, LoopPcs, JournalSites, ProcsOK, RollbackHasWork, RollbackPcs,
              Goto, Loop, Advance, Return, Unswapped, txframe, recv
  <2>6. RollbackHasWork'
    BY <1>9 DEF DropStaging, RollbackHasWork, RollbackPcs, ProcsOK, JournalSites, Goto, Loop, Advance,
              Return, Unswapped
  <2> QED BY <2>1, <2>3, <2>4, <2>5, <2>6
<1>10. CASE Swap(t)
  <2>a. PICK f \in Unswapped(t) : \/ UNCHANGED <<dest, bak>>
                       \/ /\ bak' = Put(bak, t, f, dest[f])
                          /\ dest' = [dest EXCEPT ![f] = "missing"]
    BY <1>10 DEF Swap
  <2>b. f \in Files
    BY DEF ProcsOK, Unswapped
  <2>c. dest[f] \in Content
    BY <2>b DEF DiskOK
  <2>d. Put(bak, t, f, dest[f]) \in [Tx -> [Files -> Content]]
    BY <2>b, <2>c, PutTyping, ValuesKnown DEF DiskOK
  <2>1. DiskOK'
    BY <1>10, <2>a, <2>b, <2>c, <2>d, ValuesKnown, SMTT(30) DEF Swap, DiskOK
  <2>2. pc' \in [Tx -> TxPcs] /\ todo' \in [Tx -> SUBSET Files] /\ ret' \in [Tx -> Results]
    BY <1>10, TxPcsKnown, ValuesKnown, LoopTyping, GotoTyping DEF Swap, Rollback, ProcsOK, Unswapped
  <2>3. ProcsOK'
    BY <1>10, <2>2 DEF Swap, ProcsOK, DiskOK
  <2>4. RecoverOK' /\ EnvOK'
    BY <1>10, BoundAssumption DEF Swap, RecoverOK, EnvOK, Call, txframe, recv, env
  <2>e. Unswapped(t) # {}
    BY <2>a
  <2>5. \/ Goto(t, "promote") /\ UNCHANGED todo
        \/ Loop(t, "unstagerest", Unswapped(t))
        \/ swapped[t] # {} /\ Loop(t, "restore", swapped[t])
    BY <1>10 DEF Swap, Rollback
  <2>6. UNCHANGED <<swapped, rpc, rtodo>>
    BY <1>10 DEF Swap, txframe, recv
  <2>7. LoopsOK' /\ RollbackHasWork'
    BY <2>e, <2>5, <2>6, JumpKeepsWork, LoopHasWork DEF LoopPcs, RollbackPcs, JournalSites
  <2> QED BY <2>1, <2>3, <2>4, <2>7
<1>11. CASE Promote(t)
  <2>a. PICK f \in Unswapped(t) :
          \/ /\ UNCHANGED <<dest, stage, swapped>>
             /\ Rollback(t)
          \/ /\ dest' = [dest EXCEPT ![f] = stage[t][f]]
             /\ stage' = Put(stage, t, f, "missing")
             /\ swapped' = [swapped EXCEPT ![t] = @ \cup {f}]
             /\ Goto(t, "jswapped") /\ UNCHANGED todo
    BY <1>11 DEF Promote
  <2>b. f \in Files
    BY DEF ProcsOK, Unswapped
  <2>c. stage[t][f] \in Content
    BY <2>b DEF DiskOK
  <2>d. Put(stage, t, f, "missing") \in [Tx -> [Files -> Content]]
    BY <2>b, <2>c, PutTyping, ValuesKnown DEF DiskOK
  <2>1. DiskOK'
    BY <1>11, <2>a, <2>b, <2>c, <2>d, ValuesKnown, SMTT(30) DEF Promote, DiskOK
  <2>2. pc' \in [Tx -> TxPcs] /\ todo' \in [Tx -> SUBSET Files] /\ ret' \in [Tx -> Results]
    BY <1>11, TxPcsKnown, ValuesKnown, LoopTyping, GotoTyping DEF Promote, Rollback, ProcsOK, Unswapped
  <2>e. swapped[t] \in SUBSET Files
    BY DEF ProcsOK
  <2>f. swapped[t] \cup {f} \in SUBSET Files
    BY <2>b, <2>e
  <2>g. swapped' \in [Tx -> SUBSET Files]
    <3>1. swapped \in [Tx -> SUBSET Files]
      BY DEF ProcsOK
    <3>2. CASE UNCHANGED swapped
      BY <3>1, <3>2
    <3>3. CASE swapped' = [swapped EXCEPT ![t] = swapped[t] \cup {f}]
      BY <2>f, <3>1, <3>3
    <3> QED BY <2>a, <3>2, <3>3
  <2>3. ProcsOK'
    BY <1>11, <2>2, <2>g DEF Promote, ProcsOK
  <2>4. RecoverOK' /\ EnvOK'
    BY <1>11, BoundAssumption DEF Promote, RecoverOK, EnvOK, Call, txframe, recv, env
  <2>h. Unswapped(t) # {}
    BY <2>a
  <2>i. UNCHANGED <<rpc, rtodo>>
    BY <1>11 DEF Promote, txframe, recv
  <2>5. ASSUME Rollback(t) /\ UNCHANGED swapped PROVE LoopsOK' /\ RollbackHasWork'
    <3>1. \/ Loop(t, "unstagerest", Unswapped(t))
          \/ swapped[t] # {} /\ Loop(t, "restore", swapped[t])
      BY <2>5 DEF Rollback
    <3> QED BY <2>h, <2>i, <2>5, <3>1, LoopHasWork DEF RollbackPcs
  <2>6. ASSUME /\ Goto(t, "jswapped") /\ UNCHANGED todo
               /\ swapped' = [swapped EXCEPT ![t] = @ \cup {f}]
        PROVE  LoopsOK' /\ RollbackHasWork'
    <3>1. pc'[t] = "jswapped" /\ \A u \in Tx \ {t} : pc'[u] = pc[u]
      BY <2>6 DEF ProcsOK, Goto
    <3>2. \A u \in Tx \ {t} : swapped'[u] = swapped[u]
      BY <2>6 DEF ProcsOK
    <3>3. LoopsOK'
      BY <2>i, <2>6, <3>1 DEF LoopsOK, LoopPcs, JournalSites
    <3>4. RollbackHasWork'
      BY <3>1, <3>2 DEF RollbackHasWork, RollbackPcs, Unswapped
    <3> QED BY <3>3, <3>4
  <2>7. LoopsOK' /\ RollbackHasWork'
    BY <2>a, <2>5, <2>6
  <2> QED BY <2>1, <2>3, <2>4, <2>7
<1>12. CASE Restore(t)
  <2>a. PICK f \in todo[t] :
          /\ \/ UNCHANGED <<dest, bak>>
             \/ /\ dest' = [dest EXCEPT ![f] = bak[t][f]]
                /\ bak' = Put(bak, t, f, "missing")
          /\ Advance(t, f, "unstagerest", Unswapped(t))
    BY <1>12 DEF Restore
  <2>b. f \in Files
    BY DEF ProcsOK, Unswapped
  <2>g. bak[t] \in [Files -> Content]
    BY DEF DiskOK
  <2>c. bak[t][f] \in Content
    BY <2>b, <2>g
  <2>d. Put(bak, t, f, "missing") \in [Tx -> [Files -> Content]]
    BY <2>b, <2>c, PutTyping, ValuesKnown DEF DiskOK
  <2>1. DiskOK'
    BY <1>12, <2>a, <2>b, <2>c, <2>d, ValuesKnown DEF Restore, DiskOK
  <2>2. pc' \in [Tx -> TxPcs] /\ todo' \in [Tx -> SUBSET Files] /\ ret' \in [Tx -> Results]
    BY <1>12, <2>a, <2>b, TxPcsKnown, AdvanceTyping DEF Restore, ProcsOK, Unswapped
  <2>3. ProcsOK'
    BY <1>12, <2>2 DEF Restore, ProcsOK, DiskOK
  <2>4. RecoverOK' /\ EnvOK'
    BY <1>12, BoundAssumption DEF Restore, RecoverOK, EnvOK, Call, txframe, recv, env
  <2>e. Unswapped(t) # {} /\ Unswapped(t) \in SUBSET Files
    BY <1>12, SMTT(30) DEF Restore, RollbackHasWork, RollbackPcs, ProcsOK, Unswapped
  <2>5. LoopsOK'
    BY <1>12, <2>a, <2>e, TxPcsKnown, AdvanceLoops
    DEF Restore, ProcsOK, txframe, recv
  <2>6. RollbackHasWork'
    BY <1>12, SMTT(30) DEF Restore, RollbackHasWork, RollbackPcs, ProcsOK, JournalSites, Goto, Loop, Advance,
              Return, Unswapped
  <2> QED BY <2>1, <2>3, <2>4, <2>5, <2>6
<1>13. CASE UnstageRest(t)
  <2>a. PICK f \in todo[t] :
          /\ stage' = Put(stage, t, f, "missing") \/ UNCHANGED stage
          /\ Advance(t, f, "restorelast", {})
    BY <1>13 DEF UnstageRest
  <2>b. f \in Files
    BY DEF ProcsOK, Unswapped
  <2>d. Put(stage, t, f, "missing") \in [Tx -> [Files -> Content]]
    BY <2>b, PutTyping, ValuesKnown DEF DiskOK
  <2>1. DiskOK'
    BY <1>13, <2>a, <2>d DEF UnstageRest, DiskOK
  <2>2. pc' \in [Tx -> TxPcs] /\ todo' \in [Tx -> SUBSET Files] /\ ret' \in [Tx -> Results]
    BY <1>13, <2>a, <2>b, TxPcsKnown, AdvanceTyping DEF UnstageRest, ProcsOK, Unswapped
  <2>3. ProcsOK'
    BY <1>13, <2>2 DEF UnstageRest, ProcsOK, DiskOK
  <2>4. RecoverOK' /\ EnvOK'
    BY <1>13, BoundAssumption DEF UnstageRest, RecoverOK, EnvOK, Call, txframe, recv, env
  <2>5. LoopsOK'
    BY <1>13, <2>a, TxPcsKnown, AdvanceLoops
    DEF UnstageRest, LoopPcs, ProcsOK, Unswapped, txframe, recv
  <2>6. RollbackHasWork'
    BY <1>13 DEF UnstageRest, RollbackHasWork, RollbackPcs, ProcsOK, JournalSites, Goto, Loop, Advance,
              Return, Unswapped
  <2> QED BY <2>1, <2>3, <2>4, <2>5, <2>6
<1>14. CASE RestoreLast(t)
  <2>a. PICK f \in Unswapped(t) : \/ UNCHANGED <<dest, bak>>
                       \/ /\ dest' = [dest EXCEPT ![f] = bak[t][f]]
                          /\ bak' = Put(bak, t, f, "missing")
    BY <1>14 DEF RestoreLast
  <2>b. f \in Files
    BY DEF ProcsOK, Unswapped
  <2>c. bak[t][f] \in Content
    BY <2>b DEF DiskOK
  <2>d. Put(bak, t, f, "missing") \in [Tx -> [Files -> Content]]
    BY <2>b, <2>c, PutTyping, ValuesKnown DEF DiskOK
  <2>1. DiskOK'
    BY <1>14, <2>a, <2>b, <2>c, <2>d, ValuesKnown DEF RestoreLast, Lookup, DiskOK
  <2>2. pc' \in [Tx -> TxPcs] /\ todo' \in [Tx -> SUBSET Files] /\ ret' \in [Tx -> Results]
    BY <1>14, TxPcsKnown, ValuesKnown, GotoTyping, ReturnTyping DEF RestoreLast, Lookup, ProcsOK, Unswapped
  <2>3. ProcsOK'
    BY <1>14, <2>2 DEF RestoreLast, Lookup, ProcsOK, DiskOK
  <2>4. RecoverOK' /\ EnvOK'
    BY <1>14, BoundAssumption DEF RestoreLast, Lookup, RecoverOK, EnvOK, Call, txframe, recv, env
  <2>5. Goto(t, "returned") \/ Goto(t, "droprollback")
    BY <1>14 DEF RestoreLast, Return
  <2>6. UNCHANGED <<todo, swapped, rpc, rtodo>>
    BY <1>14 DEF RestoreLast, txframe, recv
  <2>7. LoopsOK' /\ RollbackHasWork'
    BY <2>5, <2>6, JumpKeepsWork DEF LoopPcs, RollbackPcs, JournalSites
  <2> QED BY <2>1, <2>3, <2>4, <2>7
<1>15. CASE DropRollback(t)
  <2>1. DiskOK'
    BY <1>15, ValuesKnown DEF DropRollback, DiskOK, ProcsOK, disk
  <2>2. pc' \in [Tx -> TxPcs] /\ todo' \in [Tx -> SUBSET Files] /\ ret' \in [Tx -> Results]
    BY <1>15, TxPcsKnown, ValuesKnown, ReturnTyping DEF DropRollback, ProcsOK, Unswapped
  <2>3. ProcsOK'
    BY <1>15, <2>2 DEF DropRollback, ProcsOK, DiskOK
  <2>4. RecoverOK' /\ EnvOK'
    BY <1>15, BoundAssumption DEF DropRollback, RecoverOK, EnvOK, Call, txframe, recv, env
  <2>5. LoopsOK'
    BY <1>15 DEF DropRollback, LoopsOK, LoopPcs, JournalSites, ProcsOK, RollbackHasWork, RollbackPcs,
              Goto, Loop, Advance, Return, Unswapped, txframe, recv
  <2>6. RollbackHasWork'
    BY <1>15 DEF DropRollback, RollbackHasWork, RollbackPcs, ProcsOK, JournalSites, Goto, Loop, Advance,
              Return, Unswapped
  <2> QED BY <2>1, <2>3, <2>4, <2>5, <2>6
<1>16. CASE RemoveBackup(t)
  <2>a. PICK f \in todo[t] :
          /\ bak' = Put(bak, t, f, "missing") \/ UNCHANGED bak
          /\ Advance(t, f, "jdone", {})
    BY <1>16 DEF RemoveBackup
  <2>b. f \in Files
    BY DEF ProcsOK, Unswapped
  <2>d. Put(bak, t, f, "missing") \in [Tx -> [Files -> Content]]
    BY <2>b, PutTyping, ValuesKnown DEF DiskOK
  <2>1. DiskOK'
    BY <1>16, <2>a, <2>d DEF RemoveBackup, DiskOK
  <2>2. pc' \in [Tx -> TxPcs] /\ todo' \in [Tx -> SUBSET Files] /\ ret' \in [Tx -> Results]
    BY <1>16, <2>a, <2>b, TxPcsKnown, AdvanceTyping DEF RemoveBackup, ProcsOK, Unswapped
  <2>3. ProcsOK'
    BY <1>16, <2>2 DEF RemoveBackup, ProcsOK, DiskOK
  <2>4. RecoverOK' /\ EnvOK'
    BY <1>16, BoundAssumption DEF RemoveBackup, RecoverOK, EnvOK, Call, txframe, recv, env
  <2>5. LoopsOK'
    BY <1>16, <2>a, TxPcsKnown, AdvanceLoops
    DEF RemoveBackup, LoopPcs, ProcsOK, Unswapped, txframe, recv
  <2>6. RollbackHasWork'
    BY <1>16 DEF RemoveBackup, RollbackHasWork, RollbackPcs, ProcsOK, JournalSites, Goto, Loop, Advance,
              Return, Unswapped
  <2> QED BY <2>1, <2>3, <2>4, <2>5, <2>6
<1>17. CASE DropDone(t)
  <2>1. DiskOK'
    BY <1>17, ValuesKnown DEF DropDone, DiskOK, ProcsOK, disk
  <2>2. pc' \in [Tx -> TxPcs] /\ todo' \in [Tx -> SUBSET Files] /\ ret' \in [Tx -> Results]
    BY <1>17, TxPcsKnown, ValuesKnown, ReturnTyping DEF DropDone, ProcsOK, Unswapped
  <2>3. ProcsOK'
    BY <1>17, <2>2 DEF DropDone, ProcsOK, DiskOK
  <2>4. RecoverOK' /\ EnvOK'
    BY <1>17, BoundAssumption DEF DropDone, RecoverOK, EnvOK, Call, txframe, recv, env
  <2>5. LoopsOK'
    BY <1>17 DEF DropDone, LoopsOK, LoopPcs, JournalSites, ProcsOK, RollbackHasWork, RollbackPcs,
              Goto, Loop, Advance, Return, Unswapped, txframe, recv
  <2>6. RollbackHasWork'
    BY <1>17 DEF DropDone, RollbackHasWork, RollbackPcs, ProcsOK, JournalSites, Goto, Loop, Advance,
              Return, Unswapped
  <2> QED BY <2>1, <2>3, <2>4, <2>5, <2>6
<1> QED
  BY <1>1, <1>2, <1>3, <1>4, <1>5, <1>6, <1>7, <1>8, <1>9, <1>10, <1>11, <1>12, <1>13, <1>14, <1>15, <1>16, <1>17 DEF PersistStep

\* The control points and answers of recovery.
LEMMA RecPcsKnown ==
  /\ {"idle", "read", "classify", "cleanstage", "cleanbak", "cleanjournal",
      "checkstage"} \subseteq RecPcs
  /\ {"rswap", "rpromote", "jpromoted", "rmbaks", "jrdone", "rdrop"} \subseteq RecPcs
  /\ {"none", "Committed", "RolledBack", "ConflictJournal", "ConflictFile",
      "ConflictStage"} \subseteq Outcomes
  BY DEF RecPcs, Outcomes

\* Every step of recovery keeps the types.
LEMMA RecoverStepTyping ==
  ASSUME TypeInv, RecoverStep
  PROVE  TypeInv'
<1> USE DEF TypeInv, TypeOK
<1>t. FilesOf[rtx] \in SUBSET Files /\ FilesOf[rtx] # {}
  BY DEF RecoverOK
<1>1. CASE ReadJournal
  <2>1. DiskOK'
    BY <1>1 DEF ReadJournal, DiskOK, RecoverOK, disk
  <2>2. RecoverOK'
    BY <1>1, <1>t, RecPcsKnown DEF ReadJournal, RecoverOK, Answer, RGoto, RLoop
  <2>3. ProcsOK' /\ EnvOK' /\ RollbackHasWork'
    BY <1>1, BoundAssumption DEF ReadJournal, ProcsOK, EnvOK, Call, RollbackHasWork, RollbackPcs, Unswapped, recframe, procs
  <2>4. LoopsOK'
    BY <1>1, <1>t DEF ReadJournal, LoopsOK, Answer, RGoto, RLoop, recframe, procs
  <2> QED BY <2>1, <2>2, <2>3, <2>4
<1>2. CASE Classify
  <2>1. DiskOK'
    BY <1>2 DEF Classify, Decide, DiskOK, RecoverOK, disk
  <2>a. PICK f \in rtodo :
          \/ /\ rany' = (rany \/ dest[f] = rtx)
             /\ rpending' \in {rpending, rpending \cup {f}}
             /\ Decide(rpending', rany') \/ RLoop("classify", rtodo \ {f})
             /\ UNCHANGED outcome
          \/ Answer("ConflictFile") /\ UNCHANGED <<rtodo, rpending, rany>>
    BY <1>2 DEF Classify
  <2>b. rany' \in BOOLEAN /\ rpending' \in SUBSET Files
    BY <2>a DEF RecoverOK
  <2>c. /\ rpc' \in RecPcs /\ rtodo' \in SUBSET Files
        /\ outcome' \in [Tx -> Outcomes]
    BY <2>a, <1>t, RecPcsKnown DEF Decide, RecoverOK, Answer, RGoto, RLoop
  <2>2. RecoverOK'
    BY <1>2, <2>b, <2>c DEF Classify, RecoverOK
  <2>3. ProcsOK' /\ EnvOK' /\ RollbackHasWork'
    BY <1>2, BoundAssumption DEF Classify, ProcsOK, EnvOK, Call, RollbackHasWork, RollbackPcs, Unswapped, recframe, procs
  <2>4. LoopsOK'
    BY <1>2, <1>t DEF Classify, Decide, LoopsOK, Answer, RGoto, RLoop, recframe, procs
  <2> QED BY <2>1, <2>2, <2>3, <2>4
<1>3. CASE CleanStage
  <2>a. PICK f \in rtodo : stage' = Put(stage, rtx, f, "missing") \/ UNCHANGED stage
    BY <1>3 DEF CleanStage
  <2>b. f \in Files /\ rtx \in Tx
    BY DEF RecoverOK
  <2>d. Put(stage, rtx, f, "missing") \in [Tx -> [Files -> Content]]
    BY <2>b, PutTyping, ValuesKnown DEF DiskOK
  <2>1. DiskOK'
    BY <1>3, <2>a, <2>d DEF CleanStage, DiskOK
  <2>2. RecoverOK'
    BY <1>3, <1>t, RecPcsKnown DEF CleanStage, RecoverOK, Answer, RGoto, RLoop
  <2>3. ProcsOK' /\ EnvOK' /\ RollbackHasWork'
    BY <1>3, BoundAssumption DEF CleanStage, ProcsOK, EnvOK, Call, RollbackHasWork, RollbackPcs, Unswapped, recframe, procs
  <2>4. LoopsOK'
    BY <1>3, <1>t DEF CleanStage, LoopsOK, Answer, RGoto, RLoop, recframe, procs
  <2> QED BY <2>1, <2>2, <2>3, <2>4
<1>4. CASE CleanBak
  <2>a. PICK f \in rtodo : bak' = Put(bak, rtx, f, "missing") \/ UNCHANGED bak
    BY <1>4 DEF CleanBak
  <2>b. f \in Files /\ rtx \in Tx
    BY DEF RecoverOK
  <2>d. Put(bak, rtx, f, "missing") \in [Tx -> [Files -> Content]]
    BY <2>b, PutTyping, ValuesKnown DEF DiskOK
  <2>1. DiskOK'
    BY <1>4, <2>a, <2>d DEF CleanBak, DiskOK
  <2>2. RecoverOK'
    BY <1>4, <1>t, RecPcsKnown DEF CleanBak, RecoverOK, Answer, RGoto, RLoop
  <2>3. ProcsOK' /\ EnvOK' /\ RollbackHasWork'
    BY <1>4, BoundAssumption DEF CleanBak, ProcsOK, EnvOK, Call, RollbackHasWork, RollbackPcs, Unswapped, recframe, procs
  <2>4. LoopsOK'
    BY <1>4, <1>t DEF CleanBak, LoopsOK, Answer, RGoto, RLoop, recframe, procs
  <2> QED BY <2>1, <2>2, <2>3, <2>4
<1>5. CASE CleanJournal
  <2>1. DiskOK'
    BY <1>5 DEF CleanJournal, DiskOK, RecoverOK, disk
  <2>2. RecoverOK'
    BY <1>5, <1>t, RecPcsKnown DEF CleanJournal, RecoverOK, Answer, RGoto, RLoop
  <2>3. ProcsOK' /\ EnvOK' /\ RollbackHasWork'
    BY <1>5, BoundAssumption DEF CleanJournal, ProcsOK, EnvOK, Call, RollbackHasWork, RollbackPcs, Unswapped, recframe, procs
  <2>4. LoopsOK'
    BY <1>5, <1>t DEF CleanJournal, LoopsOK, Answer, RGoto, RLoop, recframe, procs
  <2> QED BY <2>1, <2>2, <2>3, <2>4
<1>6. CASE CheckStage
  <2>1. DiskOK'
    BY <1>6 DEF CheckStage, DiskOK, RecoverOK, disk
  <2>2. RecoverOK'
    BY <1>6, <1>t, RecPcsKnown DEF CheckStage, RecoverOK, Answer, RGoto, RLoop
  <2>3. ProcsOK' /\ EnvOK' /\ RollbackHasWork'
    BY <1>6, BoundAssumption DEF CheckStage, ProcsOK, EnvOK, Call, RollbackHasWork, RollbackPcs, Unswapped, recframe, procs
  <2>4. LoopsOK'
    BY <1>6, <1>t DEF CheckStage, LoopsOK, Answer, RGoto, RLoop, recframe, procs
  <2> QED BY <2>1, <2>2, <2>3, <2>4
<1>7. CASE RecoverSwap
  <2>a. PICK f \in rpending : \/ UNCHANGED <<dest, bak>>
                              \/ /\ bak' = Put(bak, rtx, f, dest[f])
                                 /\ dest' = [dest EXCEPT ![f] = "missing"]
    BY <1>7 DEF RecoverSwap
  <2>b. f \in Files /\ rtx \in Tx
    BY DEF RecoverOK
  <2>c. dest[f] \in Content
    BY <2>b DEF DiskOK
  <2>d. Put(bak, rtx, f, dest[f]) \in [Tx -> [Files -> Content]]
    BY <2>b, <2>c, PutTyping, ValuesKnown DEF DiskOK
  <2>1. DiskOK'
    BY <1>7, <2>a, <2>b, <2>c, <2>d, ValuesKnown, SMTT(30) DEF RecoverSwap, DiskOK
  <2>2. RecoverOK'
    BY <1>7, <1>t, RecPcsKnown DEF RecoverSwap, RecoverOK, Answer, RGoto, RLoop
  <2>3. ProcsOK' /\ EnvOK' /\ RollbackHasWork'
    BY <1>7, BoundAssumption DEF RecoverSwap, ProcsOK, EnvOK, Call, RollbackHasWork, RollbackPcs, Unswapped, recframe, procs
  <2>4. LoopsOK'
    BY <1>7, <1>t DEF RecoverSwap, LoopsOK, Answer, RGoto, RLoop, recframe, procs
  <2> QED BY <2>1, <2>2, <2>3, <2>4
<1>8. CASE RecoverPromote
  <2>a. PICK f \in rpending : \/ UNCHANGED <<dest, stage>>
                              \/ /\ dest' = [dest EXCEPT ![f] = stage[rtx][f]]
                                 /\ stage' = Put(stage, rtx, f, "missing")
    BY <1>8 DEF RecoverPromote
  <2>b. f \in Files /\ rtx \in Tx
    BY DEF RecoverOK
  <2>g. stage[rtx] \in [Files -> Content]
    BY <2>b DEF DiskOK
  <2>c. stage[rtx][f] \in Content
    BY <2>b, <2>g DEF DiskOK
  <2>d. Put(stage, rtx, f, "missing") \in [Tx -> [Files -> Content]]
    BY <2>b, <2>c, PutTyping, ValuesKnown DEF DiskOK
  <2>1. DiskOK'
    BY <1>8, <2>a, <2>b, <2>c, <2>d, ValuesKnown DEF RecoverPromote, DiskOK
  <2>2. RecoverOK'
    BY <1>8, <1>t, RecPcsKnown DEF RecoverPromote, RecoverOK, Answer, RGoto, RLoop
  <2>3. ProcsOK' /\ EnvOK' /\ RollbackHasWork'
    BY <1>8, BoundAssumption DEF RecoverPromote, ProcsOK, EnvOK, Call, RollbackHasWork, RollbackPcs, Unswapped, recframe, procs
  <2>4. LoopsOK'
    BY <1>8, <1>t DEF RecoverPromote, LoopsOK, Answer, RGoto, RLoop, recframe, procs
  <2> QED BY <2>1, <2>2, <2>3, <2>4
<1>9. CASE RecoverJournalCreate
  <2>1. DiskOK'
    BY <1>9 DEF RecoverJournalCreate, RecoverAfterJournal, DiskOK, RecoverOK, disk
  <2>2. RecoverOK'
    BY <1>9, <1>t, RecPcsKnown DEF RecoverJournalCreate, RecoverAfterJournal, RecoverOK, Answer, RGoto, RLoop
  <2>3. ProcsOK' /\ EnvOK' /\ RollbackHasWork'
    BY <1>9, BoundAssumption DEF RecoverJournalCreate, ProcsOK, EnvOK, Call, RollbackHasWork, RollbackPcs, Unswapped, recframe, procs
  <2>4. LoopsOK'
    BY <1>9, <1>t DEF RecoverJournalCreate, RecoverAfterJournal, LoopsOK, Answer, RGoto, RLoop, recframe, procs
  <2> QED BY <2>1, <2>2, <2>3, <2>4
<1>10. CASE RecoverJournalWrite
  <2>1. DiskOK'
    BY <1>10 DEF RecoverJournalWrite, RecoverAfterJournal, DiskOK, RecoverOK, disk
  <2>2. RecoverOK'
    BY <1>10, <1>t, RecPcsKnown DEF RecoverJournalWrite, RecoverAfterJournal, RecoverOK, Answer, RGoto, RLoop
  <2>3. ProcsOK' /\ EnvOK' /\ RollbackHasWork'
    BY <1>10, BoundAssumption DEF RecoverJournalWrite, ProcsOK, EnvOK, Call, RollbackHasWork, RollbackPcs, Unswapped, recframe, procs
  <2>4. LoopsOK'
    BY <1>10, <1>t DEF RecoverJournalWrite, RecoverAfterJournal, LoopsOK, Answer, RGoto, RLoop, recframe, procs
  <2> QED BY <2>1, <2>2, <2>3, <2>4
<1>11. CASE RecoverRemoveBackup
  <2>a. PICK f \in rtodo : bak' = Put(bak, rtx, f, "missing") \/ UNCHANGED bak
    BY <1>11 DEF RecoverRemoveBackup
  <2>b. f \in Files /\ rtx \in Tx
    BY DEF RecoverOK
  <2>d. Put(bak, rtx, f, "missing") \in [Tx -> [Files -> Content]]
    BY <2>b, PutTyping, ValuesKnown DEF DiskOK
  <2>1. DiskOK'
    BY <1>11, <2>a, <2>d DEF RecoverRemoveBackup, DiskOK
  <2>2. RecoverOK'
    BY <1>11, <1>t, RecPcsKnown DEF RecoverRemoveBackup, RecoverOK, Answer, RGoto, RLoop
  <2>3. ProcsOK' /\ EnvOK' /\ RollbackHasWork'
    BY <1>11, BoundAssumption DEF RecoverRemoveBackup, ProcsOK, EnvOK, Call, RollbackHasWork, RollbackPcs, Unswapped, recframe, procs
  <2>4. LoopsOK'
    BY <1>11, <1>t DEF RecoverRemoveBackup, LoopsOK, Answer, RGoto, RLoop, recframe, procs
  <2> QED BY <2>1, <2>2, <2>3, <2>4
<1>12. CASE RecoverDrop
  <2>1. DiskOK'
    BY <1>12 DEF RecoverDrop, DiskOK, RecoverOK, disk
  <2>2. RecoverOK'
    BY <1>12, <1>t, RecPcsKnown DEF RecoverDrop, RecoverOK, Answer, RGoto, RLoop
  <2>3. ProcsOK' /\ EnvOK' /\ RollbackHasWork'
    BY <1>12, BoundAssumption DEF RecoverDrop, ProcsOK, EnvOK, Call, RollbackHasWork, RollbackPcs, Unswapped, recframe, procs
  <2>4. LoopsOK'
    BY <1>12, <1>t DEF RecoverDrop, LoopsOK, Answer, RGoto, RLoop, recframe, procs
  <2> QED BY <2>1, <2>2, <2>3, <2>4
<1> QED
  BY <1>1, <1>2, <1>3, <1>4, <1>5, <1>6, <1>7, <1>8, <1>9, <1>10, <1>11, <1>12 DEF RecoverStep

\* So does everything else that can happen.
LEMMA OtherStepTyping ==
  ASSUME TypeInv,
         \/ \E t \in Tx : RecoverStart(t) \/ Crash(t)
         \/ RecoverCrash
         \/ \E f \in Files : Edit(f)
         \/ UNCHANGED vars
  PROVE  TypeInv'
<1> USE DEF TypeInv, TypeOK
<1>1. CASE \E t \in Tx : RecoverStart(t)
  <2> PICK t \in Tx : RecoverStart(t)  BY <1>1
  <2>1. DiskOK' /\ ProcsOK' /\ EnvOK' /\ RollbackHasWork'
    BY BoundAssumption DEF RecoverStart, disk, procs, env, DiskOK, ProcsOK, EnvOK, RollbackHasWork, RollbackPcs,
           Unswapped
  <2>2. RecoverOK'
    BY RecPcsKnown DEF RecoverStart, RecoverOK
  <2>3. LoopsOK'
    BY DEF RecoverStart, LoopsOK, procs
  <2> QED BY <2>1, <2>2, <2>3
<1>2. CASE \E t \in Tx : Crash(t)
  <2> PICK t \in Tx : Crash(t)  BY <1>2
  <2>1. DiskOK' /\ RecoverOK'
    BY DEF Crash, disk, recv, DiskOK, RecoverOK
  <2>2. ProcsOK'
    BY TxPcsKnown, GotoTyping DEF Crash, ProcsOK
  <2>3. EnvOK'
    BY BoundAssumption DEF Crash, EnvOK
  <2>4. LoopsOK' /\ RollbackHasWork'
    BY DEF Crash, LoopsOK, LoopPcs, RollbackHasWork, RollbackPcs, Unswapped, ProcsOK, Goto, recv
  <2> QED BY <2>1, <2>2, <2>3, <2>4
<1>3. CASE RecoverCrash
  <2>1. DiskOK' /\ ProcsOK' /\ RollbackHasWork'
    BY <1>3 DEF RecoverCrash, disk, procs, DiskOK, ProcsOK, RollbackHasWork, RollbackPcs, Unswapped
  <2>2. RecoverOK'
    BY <1>3, RecPcsKnown DEF RecoverCrash, RecoverOK
  <2>3. EnvOK' /\ LoopsOK'
    BY <1>3, BoundAssumption DEF RecoverCrash, EnvOK, LoopsOK, procs
  <2> QED BY <2>1, <2>2, <2>3
<1>4. CASE \E f \in Files : Edit(f)
  <2> PICK f \in Files : Edit(f)  BY <1>4
  <2>1. DiskOK'
    BY ValuesKnown DEF Edit, DiskOK
  <2>2. ProcsOK' /\ RecoverOK' /\ RollbackHasWork' /\ LoopsOK'
    BY DEF Edit, procs, recv, ProcsOK, RecoverOK, RollbackHasWork, RollbackPcs, Unswapped, LoopsOK
  <2>3. EnvOK'
    BY BoundAssumption DEF Edit, EnvOK
  <2> QED BY <2>1, <2>2, <2>3
<1>5. CASE UNCHANGED vars
  BY <1>5, BoundAssumption DEF vars, disk, procs, recv, env, DiskOK, ProcsOK, RecoverOK, EnvOK,
              LoopsOK, RollbackHasWork, Unswapped
<1> QED BY <1>1, <1>2, <1>3, <1>4, <1>5

\* Type correctness of persist_tx and recover: every variable stays within the
\* type of the field it models, and no loop of either is ever left with nothing
\* to visit.
THEOREM Typing == Spec => []TypeOK
<1>1. Init => TypeInv
  BY InitTypeInv
<1>2. TypeInv /\ [Next]_vars => TypeInv'
  BY TxStepTyping, RecoverStepTyping, OtherStepTyping DEF Next
<1>3. TypeInv => TypeOK
  BY DEF TypeInv
<1> QED BY <1>1, <1>2, <1>3, PTL DEF Spec

-----------------------------------------------------------------------------
(* No partial write ever reaches a live file *)

\* Before the staging loop a transaction has no staged file; in the loop, only
\* the file being written may be partial and the files to come are not there;
\* from the end of the loop to the end of the commit no staged file is partial.
StageInv ==
  \A t \in Tx, f \in Files :
    /\ pc[t] \in {"idle", "pendcheck", "verify", "jprepared"} =>
         stage[t][f] = "missing"
    /\ pc[t] = "stage" =>
         IF f \in todo[t] THEN stage[t][f] = "missing" ELSE stage[t][f] # "partial"
    /\ pc[t] = "stagewrite" =>
         IF f \notin todo[t] THEN stage[t][f] # "partial"
         ELSE IF IsNext(f, todo[t]) THEN stage[t][f] \in {"missing", "partial"}
         ELSE stage[t][f] = "missing"
    /\ pc[t] \in {"jstaged", "jswapping", "swap", "promote", "jswapped"} =>
         stage[t][f] # "partial"

\* The staged bytes of f are complete or gone, and t will not write them again.
Settled(t, f) ==
  /\ stage[t][f] # "partial"
  /\ pc[t] \notin {"idle", "pendcheck", "verify", "jprepared"}
  /\ pc[t] \in {"stage", "stagewrite"} => f \notin todo[t]

\* What recovery found intact stays fit to be promoted, although the process
\* that staged it may still run.
RecoverStageInv ==
  rpc \in {"rswap", "rpromote"} =>
    \A f \in rpending : IsNext(f, rpending) => Settled(rtx, f)

\* Neither a live file nor a backup, which may be restored, is partial.
LiveInv ==
  \A f \in Files : dest[f] # "partial" /\ \A t \in Tx : bak[t][f] # "partial"

WholeInv == StageInv /\ RecoverStageInv /\ LiveInv

\* Files are visited in the order of their numbers, so one file is next.
LEMMA NextIsUnique ==
  ASSUME NEW S \in SUBSET Files, NEW f \in S, NEW g \in S, IsNext(f, S), IsNext(g, S)
  PROVE  f = g
  BY DEF IsNext

\* Every step of a transactor keeps its staged files in order.
LEMMA TxStepStage ==
  ASSUME TypeInv, StageInv, NEW t \in Tx, Start(t) \/ PersistStep(t)
  PROVE  StageInv'
<1> USE DEF TypeInv, TypeOK, DiskOK, ProcsOK
<1> SUFFICES ASSUME NEW u \in Tx, NEW g \in Files
             PROVE  StageInv!(u, g)'
  BY DEF StageInv
<1>0. StageInv!(u, g)
  BY DEF StageInv
<1>1. CASE Start(t)
  BY <1>1, <1>0, NextIsUnique DEF Start, Goto, Loop, Advance, Return, Put, Rename, disk, Unswapped, JournalSites
<1>2. CASE CheckPending(t)
  BY <1>2, <1>0, NextIsUnique DEF CheckPending, Lookup, Goto, Loop, Advance, Return, Put, Rename, disk, Unswapped, JournalSites
<1>3. CASE VerifyFile(t)
  BY <1>3, <1>0, NextIsUnique DEF VerifyFile, Goto, Loop, Advance, Return, Put, Rename, disk, Unswapped, JournalSites
<1>4. CASE JournalCreate(t)
  BY <1>4, <1>0, NextIsUnique DEF JournalCreate, AfterJournal, Goto, Loop, Advance, Return, Put, Rename, disk, Unswapped, JournalSites
<1>5. CASE JournalWrite(t)
  BY <1>5, <1>0, NextIsUnique DEF JournalWrite, AfterJournal, Goto, Loop, Advance, Return, Put, Rename, disk, Unswapped, JournalSites
<1>6. CASE StageCreate(t)
  BY <1>6, <1>0, NextIsUnique DEF StageCreate, Goto, Loop, Advance, Return, Put, Rename, disk, Unswapped, JournalSites
<1>7. CASE StageWrite(t)
  BY <1>7, <1>0, NextIsUnique DEF StageWrite, Goto, Loop, Advance, Return, Put, Rename, disk, Unswapped, JournalSites
<1>8. CASE Unstage(t)
  BY <1>8, <1>0, NextIsUnique DEF Unstage, Goto, Loop, Advance, Return, Put, Rename, disk, Unswapped, JournalSites
<1>9. CASE DropStaging(t)
  BY <1>9, <1>0, NextIsUnique DEF DropStaging, Goto, Loop, Advance, Return, Put, Rename, disk, Unswapped, JournalSites
<1>10. CASE Swap(t)
  BY <1>10, <1>0, NextIsUnique DEF Swap, Rollback, Goto, Loop, Advance, Return, Put, Rename, disk, Unswapped, JournalSites
<1>11. CASE Promote(t)
  BY <1>11, <1>0, NextIsUnique DEF Promote, Rollback, Goto, Loop, Advance, Return, Put, Rename, disk, Unswapped, JournalSites
<1>12. CASE Restore(t)
  <2>1. UNCHANGED stage /\ (u # t => UNCHANGED <<pc[u], todo[u]>>)
    BY <1>12 DEF Restore, Advance, Loop, Goto
  <2>2. pc'[t] \in {"restore", "unstagerest"}
    BY <1>12 DEF Restore, Advance, Loop, Goto
  <2> QED BY <1>0, <2>1, <2>2
<1>13. CASE UnstageRest(t)
  BY <1>13, <1>0, NextIsUnique DEF UnstageRest, Goto, Loop, Advance, Return, Put, Rename, disk, Unswapped, JournalSites
<1>14. CASE RestoreLast(t)
  BY <1>14, <1>0, NextIsUnique DEF RestoreLast, Lookup, Goto, Loop, Advance, Return, Put, Rename, disk, Unswapped, JournalSites
<1>15. CASE DropRollback(t)
  BY <1>15, <1>0, NextIsUnique DEF DropRollback, Goto, Loop, Advance, Return, Put, Rename, disk, Unswapped, JournalSites
<1>16. CASE RemoveBackup(t)
  BY <1>16, <1>0, NextIsUnique DEF RemoveBackup, Goto, Loop, Advance, Return, Put, Rename, disk, Unswapped, JournalSites
<1>17. CASE DropDone(t)
  BY <1>17, <1>0, NextIsUnique DEF DropDone, Goto, Loop, Advance, Return, Put, Rename, disk, Unswapped, JournalSites
<1> QED
  BY <1>1, <1>2, <1>3, <1>4, <1>5, <1>6, <1>7, <1>8, <1>9, <1>10, <1>11, <1>12, <1>13, <1>14, <1>15, <1>16, <1>17 DEF PersistStep

\* A transactor that has staged f never makes it partial again: what a concurrent
\* recovery has checked stays checked.
LEMMA TxStepSettled ==
  ASSUME TypeInv, StageInv, NEW t \in Tx, Start(t) \/ PersistStep(t),
         NEW u \in Tx, NEW g \in Files, Settled(u, g)
  PROVE  Settled(u, g)'
<1> USE DEF TypeInv, TypeOK, DiskOK, ProcsOK, Settled
<1>1. CASE Start(t)
  BY <1>1 DEF Start, Goto, Loop, Advance, Return, Put, Rename, disk, Unswapped, JournalSites
<1>2. CASE CheckPending(t)
  BY <1>2 DEF CheckPending, Lookup, Goto, Loop, Advance, Return, Put, Rename, disk, Unswapped, JournalSites
<1>3. CASE VerifyFile(t)
  BY <1>3 DEF VerifyFile, Goto, Loop, Advance, Return, Put, Rename, disk, Unswapped, JournalSites
<1>4. CASE JournalCreate(t)
  BY <1>4 DEF JournalCreate, AfterJournal, Goto, Loop, Advance, Return, Put, Rename, disk, Unswapped, JournalSites
<1>5. CASE JournalWrite(t)
  BY <1>5 DEF JournalWrite, AfterJournal, Goto, Loop, Advance, Return, Put, Rename, disk, Unswapped, JournalSites
<1>6. CASE StageCreate(t)
  <2>1. PICK f \in todo[t] :
          \/ /\ stage' = Put(stage, t, f, "partial")
             /\ Goto(t, "stagewrite") /\ UNCHANGED todo
          \/ Loop(t, "unstage", FilesOf[t]) /\ UNCHANGED stage
    BY <1>6 DEF StageCreate
  <2>2. f \in Files /\ pc[t] = "stage"
    BY <1>6 DEF StageCreate
  <2>3. \A v \in Tx, h \in Files :
          Put(stage, t, f, "partial")[v][h] = IF v = t /\ h = f THEN "partial" ELSE stage[v][h]
    BY <2>2 DEF Put
  <2>4. stage'[u][g] # "partial"
    BY <2>1, <2>2, <2>3
  <2> QED BY <2>1, <2>2, <2>4 DEF Goto, Loop
<1>7. CASE StageWrite(t)
  BY <1>7 DEF StageWrite, Goto, Loop, Advance, Return, Put, Rename, disk, Unswapped, JournalSites
<1>8. CASE Unstage(t)
  BY <1>8 DEF Unstage, Goto, Loop, Advance, Return, Put, Rename, disk, Unswapped, JournalSites
<1>9. CASE DropStaging(t)
  BY <1>9 DEF DropStaging, Goto, Loop, Advance, Return, Put, Rename, disk, Unswapped, JournalSites
<1>10. CASE Swap(t)
  BY <1>10 DEF Swap, Rollback, Goto, Loop, Advance, Return, Put, Rename, disk, Unswapped, JournalSites
<1>11. CASE Promote(t)
  BY <1>11 DEF Promote, Rollback, Goto, Loop, Advance, Return, Put, Rename, disk, Unswapped, JournalSites
<1>12. CASE Restore(t)
  <2>1. PICK f : Advance(t, f, "unstagerest", Unswapped(t))
    BY <1>12 DEF Restore
  <2>2. pc[t] = "restore" /\ UNCHANGED stage
    BY <1>12 DEF Restore
  <2>3. pc'[t] \in {"restore", "unstagerest"} /\ \A v \in Tx \ {t} : pc'[v] = pc[v]
    BY <2>1, <2>2 DEF Advance, Loop, Goto
  <2>4. \A v \in Tx \ {t} : todo'[v] = todo[v]
    BY <2>1 DEF Advance, Loop
  <2> QED BY <2>2, <2>3, <2>4
<1>13. CASE UnstageRest(t)
  BY <1>13 DEF UnstageRest, Goto, Loop, Advance, Return, Put, Rename, disk, Unswapped, JournalSites
<1>14. CASE RestoreLast(t)
  BY <1>14 DEF RestoreLast, Lookup, Goto, Loop, Advance, Return, Put, Rename, disk, Unswapped, JournalSites
<1>15. CASE DropRollback(t)
  BY <1>15 DEF DropRollback, Goto, Loop, Advance, Return, Put, Rename, disk, Unswapped, JournalSites
<1>16. CASE RemoveBackup(t)
  BY <1>16 DEF RemoveBackup, Goto, Loop, Advance, Return, Put, Rename, disk, Unswapped, JournalSites
<1>17. CASE DropDone(t)
  BY <1>17 DEF DropDone, Goto, Loop, Advance, Return, Put, Rename, disk, Unswapped, JournalSites
<1> QED
  BY <1>1, <1>2, <1>3, <1>4, <1>5, <1>6, <1>7, <1>8, <1>9, <1>10, <1>11, <1>12, <1>13, <1>14, <1>15, <1>16, <1>17 DEF PersistStep

\* A transactor renames only whole files into place.
LEMMA TxStepLive ==
  ASSUME TypeInv, StageInv, LiveInv, NEW t \in Tx, Start(t) \/ PersistStep(t)
  PROVE  LiveInv'
<1> USE DEF TypeInv, TypeOK, DiskOK, ProcsOK, LiveInv
<1>1. CASE Start(t)
  BY <1>1 DEF Start, Put, Rename, disk
<1>2. CASE CheckPending(t)
  BY <1>2 DEF CheckPending, Lookup, Put, Rename, disk
<1>3. CASE VerifyFile(t)
  BY <1>3 DEF VerifyFile, Put, Rename, disk
<1>4. CASE JournalCreate(t)
  BY <1>4 DEF JournalCreate, Put, Rename, disk
<1>5. CASE JournalWrite(t)
  BY <1>5 DEF JournalWrite, Put, Rename, disk
<1>6. CASE StageCreate(t)
  BY <1>6 DEF StageCreate, Put, Rename, disk
<1>7. CASE StageWrite(t)
  BY <1>7 DEF StageWrite, Put, Rename, disk
<1>8. CASE Unstage(t)
  BY <1>8 DEF Unstage, Put, Rename, disk
<1>9. CASE DropStaging(t)
  BY <1>9 DEF DropStaging, Put, Rename, disk
<1>10. CASE Swap(t)
  <2>1. PICK f \in Unswapped(t) :
          \/ UNCHANGED <<dest, bak>>
          \/ bak' = Put(bak, t, f, dest[f]) /\ dest' = [dest EXCEPT ![f] = "missing"]
    BY <1>10 DEF Swap
  <2>2. f \in Files
    BY <2>1 DEF Unswapped
  <2>3. \A u \in Tx, g \in Files :
          Put(bak, t, f, dest[f])[u][g] = IF u = t /\ g = f THEN dest[f] ELSE bak[u][g]
    BY <2>2 DEF Put
  <2> QED BY <2>1, <2>2, <2>3
<1>11. CASE Promote(t)
  <2>1. PICK f \in Unswapped(t) :
          \/ UNCHANGED dest
          \/ dest' = [dest EXCEPT ![f] = stage[t][f]]
    BY <1>11 DEF Promote
  <2>2. f \in Files /\ f \in Unswapped(t) /\ pc[t] = "promote" /\ UNCHANGED bak
    BY <1>11, <2>1 DEF Promote, Unswapped
  <2>3. stage[t][f] # "partial"
    BY <2>2 DEF StageInv
  <2> QED BY <2>1, <2>2, <2>3
<1>12. CASE Restore(t)
  <2>1. PICK f \in todo[t] :
          \/ UNCHANGED <<dest, bak>>
          \/ bak' = Put(bak, t, f, "missing") /\ dest' = [dest EXCEPT ![f] = bak[t][f]]
    BY <1>12 DEF Restore
  <2>2. f \in Files
    BY <2>1 DEF Unswapped
  <2>3. \A u \in Tx, g \in Files :
          Put(bak, t, f, "missing")[u][g] = IF u = t /\ g = f THEN "missing" ELSE bak[u][g]
    BY <2>2 DEF Put
  <2> QED BY <2>1, <2>2, <2>3
<1>13. CASE UnstageRest(t)
  BY <1>13 DEF UnstageRest, Put, Rename, disk
<1>14. CASE RestoreLast(t)
  <2>1. PICK f \in Unswapped(t) :
          \/ UNCHANGED <<dest, bak>>
          \/ bak' = Put(bak, t, f, "missing") /\ dest' = [dest EXCEPT ![f] = bak[t][f]]
    BY <1>14 DEF RestoreLast
  <2>2. f \in Files
    BY <2>1 DEF Unswapped
  <2>3. \A u \in Tx, g \in Files :
          Put(bak, t, f, "missing")[u][g] = IF u = t /\ g = f THEN "missing" ELSE bak[u][g]
    BY <2>2 DEF Put
  <2> QED BY <2>1, <2>2, <2>3
<1>15. CASE DropRollback(t)
  BY <1>15 DEF DropRollback, Put, Rename, disk
<1>16. CASE RemoveBackup(t)
  <2>1. PICK f \in todo[t] : bak' = Put(bak, t, f, "missing") \/ UNCHANGED bak
    BY <1>16 DEF RemoveBackup
  <2>2. f \in Files /\ UNCHANGED dest
    BY <1>16, <2>1 DEF RemoveBackup
  <2>3. \A u \in Tx, g \in Files :
          Put(bak, t, f, "missing")[u][g] = IF u = t /\ g = f THEN "missing" ELSE bak[u][g]
    BY <2>2 DEF Put
  <2> QED BY <2>1, <2>2, <2>3
<1>17. CASE DropDone(t)
  BY <1>17 DEF DropDone, Put, Rename, disk
<1> QED
  BY <1>1, <1>2, <1>3, <1>4, <1>5, <1>6, <1>7, <1>8, <1>9, <1>10, <1>11, <1>12, <1>13, <1>14, <1>15, <1>16, <1>17 DEF PersistStep

\* Recovery only removes staged files, or promotes those it found intact.
LEMMA RecoverStepWhole ==
  ASSUME TypeInv, WholeInv, RecoverStep
  PROVE  WholeInv'
<1> USE DEF TypeInv, TypeOK, DiskOK, ProcsOK, RecoverOK, WholeInv
<1>1. \A u \in Tx, g \in Files : stage'[u][g] \in {stage[u][g], "missing"}
  <2>1. CASE CleanStage
    <3>1. PICK f \in rtodo : stage' \in {Put(stage, rtx, f, "missing"), stage}
      BY <2>1 DEF CleanStage
    <3>2. \A u \in Tx, g \in Files : Put(stage, rtx, f, "missing")[u][g] =
            IF u = rtx /\ g = f THEN "missing" ELSE stage[u][g]
      BY DEF Put
    <3> QED BY <3>1, <3>2
  <2>2. CASE RecoverPromote
    <3>1. PICK f \in rpending : stage' \in {Put(stage, rtx, f, "missing"), stage}
      BY <2>2 DEF RecoverPromote
    <3>2. \A u \in Tx, g \in Files : Put(stage, rtx, f, "missing")[u][g] =
            IF u = rtx /\ g = f THEN "missing" ELSE stage[u][g]
      BY DEF Put
    <3> QED BY <3>1, <3>2
  <2>3. CASE ~CleanStage /\ ~RecoverPromote
    <3>1. UNCHANGED stage
      BY <2>3 DEF RecoverStep, ReadJournal, Classify, CleanBak, CleanJournal,
             CheckStage, RecoverSwap, RecoverJournalCreate, RecoverJournalWrite,
             RecoverRemoveBackup, RecoverDrop, disk
    <3> QED BY <3>1
  <2> QED BY <2>1, <2>2, <2>3
<1>2. UNCHANGED procs /\ UNCHANGED rtx
  BY DEF RecoverStep, ReadJournal, Classify, CleanStage, CleanBak, CleanJournal,
         CheckStage, RecoverSwap, RecoverPromote, RecoverJournalCreate,
         RecoverJournalWrite, RecoverRemoveBackup, RecoverDrop, recframe, procs
<1>3. StageInv'
  <2> SUFFICES ASSUME NEW u \in Tx, NEW g \in Files
               PROVE  (/\ pc[u] \in {"idle", "pendcheck", "verify", "jprepared"} =>
                            stage[u][g] = "missing"
                       /\ pc[u] = "stage" =>
                            IF g \in todo[u] THEN stage[u][g] = "missing"
                                             ELSE stage[u][g] # "partial"
                       /\ pc[u] = "stagewrite" =>
                            IF g \notin todo[u] THEN stage[u][g] # "partial"
                            ELSE IF IsNext(g, todo[u])
                                   THEN stage[u][g] \in {"missing", "partial"}
                            ELSE stage[u][g] = "missing"
                       /\ pc[u] \in {"jstaged", "jswapping", "swap", "promote", "jswapped"} =>
                            stage[u][g] # "partial")'
    BY DEF StageInv
  <2>1. pc'[u] = pc[u] /\ todo'[u] = todo[u]
    BY <1>2 DEF procs
  <2>2. stage'[u][g] # stage[u][g] => stage'[u][g] = "missing"
    BY <1>1
  <2> QED BY <2>1, <2>2 DEF StageInv
<1>4. \A u \in Tx, g \in Files : Settled(u, g) => Settled(u, g)'
  BY <1>1, <1>2 DEF Settled, procs
<1>5. CASE ReadJournal
  <2>1. RecoverStageInv'
    BY <1>5, <1>2, <1>4 DEF ReadJournal, RecoverStageInv, Answer, RGoto, RLoop
  <2>2. LiveInv'
    BY <1>5 DEF ReadJournal, LiveInv, Put, Rename, disk
  <2> QED BY <1>3, <2>1, <2>2
<1>6. CASE Classify
  <2>1. RecoverStageInv'
    BY <1>6, <1>2, <1>4 DEF Classify, Decide, RecoverStageInv, Answer, RGoto, RLoop
  <2>2. LiveInv'
    BY <1>6 DEF Classify, LiveInv, Put, Rename, disk
  <2> QED BY <1>3, <2>1, <2>2
<1>7. CASE CleanStage
  <2>1. RecoverStageInv'
    BY <1>7, <1>2, <1>4 DEF CleanStage, RecoverStageInv, Answer, RGoto, RLoop
  <2>2. LiveInv'
    BY <1>7 DEF CleanStage, LiveInv, Put, Rename, disk
  <2> QED BY <1>3, <2>1, <2>2
<1>8. CASE CleanBak
  <2>1. RecoverStageInv'
    BY <1>8, <1>2, <1>4 DEF CleanBak, RecoverStageInv, Answer, RGoto, RLoop
  <2>2. LiveInv'
    <3>1. PICK f \in rtodo : bak' = Put(bak, rtx, f, "missing") \/ UNCHANGED bak
      BY <1>8 DEF CleanBak
    <3>2. f \in Files /\ UNCHANGED dest
      BY <1>8, <3>1 DEF CleanBak
    <3>3. \A u \in Tx, g \in Files :
            Put(bak, rtx, f, "missing")[u][g] = IF u = rtx /\ g = f THEN "missing" ELSE bak[u][g]
      BY <3>2 DEF Put
    <3> QED BY <3>1, <3>2, <3>3 DEF LiveInv
  <2> QED BY <1>3, <2>1, <2>2
<1>9. CASE CleanJournal
  <2>1. RecoverStageInv'
    BY <1>9, <1>2, <1>4 DEF CleanJournal, RecoverStageInv, Answer, RGoto, RLoop
  <2>2. LiveInv'
    BY <1>9 DEF CleanJournal, LiveInv, Put, Rename, disk
  <2> QED BY <1>3, <2>1, <2>2
<1>10. CASE CheckStage
  <2>1. RecoverStageInv'
    <3>1. PICK f \in rpending :
            /\ IsNext(f, rpending)
            /\ rpc' = "rswap" => stage[rtx][f] = rtx
      BY <1>10 DEF CheckStage, Answer, RGoto
    <3>2. CASE stage[rtx][f] = rtx
      <4>1. Settled(rtx, f)
        BY <3>2 DEF Settled, StageInv
      <4>2. UNCHANGED <<rpending, rtx>> /\ Settled(rtx, f)'
        BY <4>1, <1>2, <1>4, <1>10 DEF CheckStage
      <4>3. \A g \in rpending : IsNext(g, rpending) => g = f
        BY <3>1, NextIsUnique
      <4> QED BY <4>2, <4>3 DEF RecoverStageInv
    <3>3. CASE stage[rtx][f] # rtx
      BY <3>1, <3>3, <1>10 DEF CheckStage, RecoverStageInv, Answer, RGoto
    <3> QED BY <3>2, <3>3
  <2>2. LiveInv'
    BY <1>10 DEF CheckStage, LiveInv, Put, Rename, disk
  <2> QED BY <1>3, <2>1, <2>2
<1>11. CASE RecoverSwap
  <2>1. RecoverStageInv'
    BY <1>11, <1>2, <1>4 DEF RecoverSwap, RecoverStageInv, Answer, RGoto, RLoop
  <2>2. LiveInv'
    <3>1. PICK f \in rpending :
            \/ UNCHANGED <<dest, bak>>
            \/ bak' = Put(bak, rtx, f, dest[f]) /\ dest' = [dest EXCEPT ![f] = "missing"]
      BY <1>11 DEF RecoverSwap
    <3>2. f \in Files
      BY <3>1
    <3>3. \A u \in Tx, g \in Files :
            Put(bak, rtx, f, dest[f])[u][g] = IF u = rtx /\ g = f THEN dest[f] ELSE bak[u][g]
      BY <3>2 DEF Put
    <3> QED BY <3>1, <3>2, <3>3 DEF LiveInv
  <2> QED BY <1>3, <2>1, <2>2
<1>12. CASE RecoverPromote
  <2>1. RecoverStageInv'
    BY <1>12, <1>2, <1>4 DEF RecoverPromote, RecoverStageInv, Answer, RGoto, RLoop, Settled
  <2>2. LiveInv'
    BY <1>12 DEF RecoverPromote, LiveInv, Put, Rename, disk, RecoverStageInv, Settled
  <2> QED BY <1>3, <2>1, <2>2
<1>13. CASE RecoverJournalCreate
  <2>1. RecoverStageInv'
    BY <1>13, <1>2, <1>4 DEF RecoverJournalCreate, RecoverAfterJournal, RecoverStageInv, Answer, RGoto, RLoop
  <2>2. LiveInv'
    BY <1>13 DEF RecoverJournalCreate, LiveInv, Put, Rename, disk
  <2> QED BY <1>3, <2>1, <2>2
<1>14. CASE RecoverJournalWrite
  <2>1. RecoverStageInv'
    BY <1>14, <1>2, <1>4 DEF RecoverJournalWrite, RecoverAfterJournal, RecoverStageInv, Answer, RGoto, RLoop
  <2>2. LiveInv'
    BY <1>14 DEF RecoverJournalWrite, LiveInv, Put, Rename, disk
  <2> QED BY <1>3, <2>1, <2>2
<1>15. CASE RecoverRemoveBackup
  <2>1. RecoverStageInv'
    BY <1>15, <1>2, <1>4 DEF RecoverRemoveBackup, RecoverStageInv, Answer, RGoto, RLoop
  <2>2. LiveInv'
    <3>1. PICK f \in rtodo : bak' = Put(bak, rtx, f, "missing") \/ UNCHANGED bak
      BY <1>15 DEF RecoverRemoveBackup
    <3>2. f \in Files /\ UNCHANGED dest
      BY <1>15, <3>1 DEF RecoverRemoveBackup
    <3>3. \A u \in Tx, g \in Files :
            Put(bak, rtx, f, "missing")[u][g] = IF u = rtx /\ g = f THEN "missing" ELSE bak[u][g]
      BY <3>2 DEF Put
    <3> QED BY <3>1, <3>2, <3>3 DEF LiveInv
  <2> QED BY <1>3, <2>1, <2>2
<1>16. CASE RecoverDrop
  <2>1. RecoverStageInv'
    BY <1>16, <1>2, <1>4 DEF RecoverDrop, RecoverStageInv, Answer, RGoto, RLoop
  <2>2. LiveInv'
    BY <1>16 DEF RecoverDrop, LiveInv, Put, Rename, disk
  <2> QED BY <1>3, <2>1, <2>2
<1> QED
  BY <1>5, <1>6, <1>7, <1>8, <1>9, <1>10, <1>11, <1>12, <1>13, <1>14, <1>15, <1>16 DEF RecoverStep

\* Starting, dying, recovering and editing put no unfinished bytes on a live file.
LEMMA OtherStepWhole ==
  ASSUME TypeInv, WholeInv,
         \/ \E t \in Tx : RecoverStart(t) \/ Crash(t)
         \/ RecoverCrash
         \/ \E f \in Files : Edit(f)
         \/ UNCHANGED vars
  PROVE  WholeInv'
<1> USE DEF TypeInv, TypeOK, DiskOK, ProcsOK, WholeInv, StageInv, RecoverStageInv,
            LiveInv, Settled
<1>1. CASE \E t \in Tx : RecoverStart(t)
  BY <1>1 DEF RecoverStart, disk, procs
<1>2. CASE \E t \in Tx : Crash(t)
  BY <1>2 DEF Crash, disk, recv, Goto
<1>3. CASE RecoverCrash
  BY <1>3 DEF RecoverCrash, disk, procs
<1>4. CASE \E f \in Files : Edit(f)
  BY <1>4 DEF Edit, procs, recv
<1>5. CASE UNCHANGED vars
  BY <1>5 DEF vars, disk, procs, recv
<1> QED BY <1>1, <1>2, <1>3, <1>4, <1>5

\* Every step keeps types and whole files together.
LEMMA StepWhole ==
  ASSUME TypeInv, WholeInv, [Next]_vars
  PROVE  TypeInv' /\ WholeInv'
<1>1. TypeInv'
  BY TxStepTyping, RecoverStepTyping, OtherStepTyping DEF Next
<1>2. ASSUME NEW t \in Tx, Start(t) \/ PersistStep(t)
      PROVE  WholeInv'
  <2>1. UNCHANGED recv
    BY <1>2 DEF Start, PersistStep, CheckPending, VerifyFile, JournalCreate,
                JournalWrite, StageCreate, StageWrite, Unstage, DropStaging, Swap,
                Promote, Restore, UnstageRest, RestoreLast, DropRollback,
                RemoveBackup, DropDone, txframe
  <2>2. StageInv' /\ LiveInv'
    BY <1>2, TxStepStage, TxStepLive DEF WholeInv
  <2>3. RecoverStageInv'
    BY <1>2, <2>1, TxStepSettled
    DEF WholeInv, RecoverStageInv, recv, TypeInv, TypeOK, RecoverOK
  <2> QED BY <2>2, <2>3 DEF WholeInv
<1> QED
  BY <1>1, <1>2, RecoverStepWhole, OtherStepWhole DEF Next

\* "Live files are never truncated": in no interleaving of any number of
\* transactors, a recovery and an editor, with calls failing and processes dying
\* anywhere, does a source file hold the beginning of a write.
THEOREM LiveFilesWhole == Spec => []NoPartialLive
<1>1. Init => TypeInv /\ WholeInv
  BY InitTypeInv DEF Init, WholeInv, StageInv, RecoverStageInv, LiveInv
<1>2. TypeInv /\ WholeInv /\ [Next]_vars => (TypeInv /\ WholeInv)'
  BY StepWhole
<1>3. WholeInv => NoPartialLive
  BY DEF WholeInv, LiveInv, NoPartialLive
<1> QED BY <1>1, <1>2, <1>3, PTL DEF Spec
=============================================================================
