---------------------------- MODULE PersistTxEdits ---------------------------
(* What an editor may rely on: when ontixa processes take turns and nobody saves *)
(* a file between its check and its swap, persist_tx and recover move aside only *)
(* the bytes a plan was made from, and overwrite a later save only when a failed *)
(* commit puts back a file it had already moved; for any number of files,        *)
(* transactions, saves, failing calls and process deaths, wherever the journals  *)
(* are and whatever lookups miss.                                                *)
EXTENDS PersistTxAtomic

\* The setting: one process at a time, and the window the code documents is not hit:
\* a file that a running process has checked and may still swap is not saved.
NoRaces == ~Overlap /\ ~RacingEdits

\* One process runs at a time; recovery keeps the journal it works on.
OneProcess ==
  /\ \A t \in Tx : Running(t) => rpc = "idle" /\ \A u \in Tx : Running(u) => u = t
  /\ rpc # "idle" => journal[rtx] # "none"
  /\ rwriting => rpc \in {"jpromoted", "jrdone"}
  /\ \A t \in Tx : writing[t] => pc[t] \in JournalSites
  /\ \A t \in Tx : pc[t] = "idle" => journal[t] = "none"

\* The backups of a transaction hold its snapshot or nothing.
SnapshotBackups(t) == \A f \in FilesOf[t] : bak[t][f] \in {"missing", before[t][f]}

\* The control points at which persist_tx has moved nothing aside yet.
EarlyPcs == {"idle", "pendcheck", "verify", "jprepared", "stage", "stagewrite", "unstage",
             "dropstaging", "jstaged", "jswapping"}

\* From the check of a file to its swap nobody else has written it.  What has been
\* swapped, and everything once a commit has failed, may hold an editor's bytes.
GuardedTx(t) ==
  /\ swapped[t] \subseteq FilesOf[t]
  /\ SnapshotBackups(t)
  /\ pc[t] \in EarlyPcs => swapped[t] = {} /\ \A f \in Files : bak[t][f] = "missing"
  /\ pc[t] = "verify" => \A f \in FilesOf[t] \ todo[t] : dest[f] = before[t][f]
  /\ pc[t] \in {"jprepared", "stage", "stagewrite", "jstaged", "jswapping"} => AllBefore(t)
  /\ pc[t] \in {"swap", "promote", "jswapped"} =>
       \A f \in Unswapped(t) :
         IF pc[t] = "promote" /\ IsNext(f, Unswapped(t)) THEN OpenFile(t, f)
                                                        ELSE UntouchedFile(t, f)
  /\ pc[t] = "restore" => todo[t] \subseteq swapped[t]

\* The same for recovery, from the classification of a file to its swap.
GuardedRecovery ==
  /\ rpc # "idle" => rtodo \subseteq FilesOf[rtx] /\ rpending \subseteq FilesOf[rtx]
  /\ rpc = "read" => rpending = {}
  /\ rpc = "classify" => rtodo \cap rpending = {}
  /\ rpc \in {"classify", "checkstage", "rswap", "jpromoted"} =>
       \A f \in rpending : dest[f] = before[rtx][f]
  /\ rpc = "rpromote" =>
       \A f \in rpending :
         dest[f] = IF IsNext(f, rpending) THEN "missing" ELSE before[rtx][f]

\* The inductive invariant.
EditInv ==
  /\ TypeInv /\ OneProcess
  /\ (\A t \in Tx : GuardedTx(t)) /\ GuardedRecovery

USE TxAssumption, FilesAssumption

-----------------------------------------------------------------------------
(* One process at a time *)

\* A call of persist_tx is made by a running process, which never starts again, and
\* leaves a journal write under way only where one belongs.
LEMMA TxStepRuns ==
  ASSUME TypeInv, OneProcess, NEW t \in Tx, PersistStep(t)
  PROVE  Running(t) /\ pc'[t] # "idle" /\ (writing'[t] => pc'[t] \in JournalSites)
<1> USE DEF TypeInv, TypeOK, ProcsOK, Running, JournalSites
<1>0. writing[t] => pc[t] \in JournalSites
  BY DEF OneProcess
<1>1. CASE CheckPending(t)
  BY <1>0, <1>1 DEF CheckPending, Goto, Loop, Return
<1>2. CASE VerifyFile(t)
  BY <1>0, <1>2 DEF VerifyFile, Goto, Loop, Advance, Return
<1>3. CASE JournalCreate(t)
  BY <1>0, <1>3 DEF JournalCreate, AfterJournal, Goto, Loop, Return
<1>4. CASE JournalWrite(t)
  BY <1>0, <1>4 DEF JournalWrite, AfterJournal, Goto, Loop, Return
<1>5. CASE StageCreate(t) \/ StageWrite(t) \/ Unstage(t) \/ DropStaging(t)
  BY <1>0, <1>5 DEF StageCreate, StageWrite, Unstage, DropStaging, Goto, Loop, Advance, Return
<1>6. CASE Swap(t) \/ Promote(t)
  BY <1>0, <1>6 DEF Swap, Promote, Rollback, Goto, Loop
<1>7. CASE Restore(t) \/ UnstageRest(t) \/ RestoreLast(t)
  BY <1>0, <1>7 DEF Restore, UnstageRest, RestoreLast, Goto, Loop, Advance, Return
<1>8. CASE DropRollback(t) \/ RemoveBackup(t) \/ DropDone(t)
  BY <1>0, <1>8 DEF DropRollback, RemoveBackup, DropDone, Goto, Loop, Advance, Return
<1> QED BY <1>1, <1>2, <1>3, <1>4, <1>5, <1>6, <1>7, <1>8 DEF PersistStep

\* Every step keeps the processes apart.
LEMMA StepOneProcess ==
  ASSUME NoRaces, TypeInv, OneProcess, [Next]_vars
  PROVE  OneProcess'
<1> USE DEF TypeInv, TypeOK, DiskOK, ProcsOK, RecoverOK
<1>1. ASSUME NEW t \in Tx, PersistStep(t) PROVE OneProcess'
  <2>1. /\ OthersAlone(t) /\ Running(t) /\ pc'[t] # "idle"
        /\ (writing'[t] => pc'[t] \in JournalSites)
    BY <1>1, TxStepFrame, TxStepRuns
  <2>2. rpc = "idle" /\ ~rwriting /\ \A u \in Tx : Running(u) => u = t
    BY <2>1 DEF OneProcess
  <2>3. \A u \in Tx : Running(u)' => u = t
    BY <2>1, <2>2 DEF OthersAlone, Running
  <2> QED BY <2>1, <2>2, <2>3 DEF OneProcess, OthersAlone, recv
<1>2. ASSUME NEW t \in Tx, Start(t) PROVE OneProcess'
  BY <1>2 DEF Start, Goto, Quiet, NoRaces, OneProcess, Running, disk, recv, JournalSites
<1>3. ASSUME NEW t \in Tx, RecoverStart(t) PROVE OneProcess'
  BY <1>3 DEF RecoverStart, Quiet, NoRaces, OneProcess, Running, disk, procs
<1>4. ASSUME NEW t \in Tx, Crash(t) PROVE OneProcess'
  BY <1>4 DEF Crash, Goto, OneProcess, Running, disk, recv, JournalSites
<1>5. CASE RecoverStep
  <2>1. RecoverControl
    BY <1>5, RecoverStepControl DEF OneProcess
  <2>2. \A u \in Tx : ~Running(u) /\ ~Running(u)'
    BY <2>1 DEF RecoverControl, OneProcess, Running, procs
  <2> QED BY <2>1, <2>2 DEF RecoverControl, OneProcess, procs
<1>6. CASE RecoverCrash
  BY <1>6 DEF RecoverCrash, OneProcess, Running, disk, procs
<1>7. CASE UNCHANGED vars \/ \E f \in Files : Edit(f)
  BY <1>7 DEF Edit, OneProcess, Running, vars, disk, procs, recv
<1> QED BY <1>1, <1>2, <1>3, <1>4, <1>5, <1>6, <1>7 DEF Next

-----------------------------------------------------------------------------
(* The files under a running transaction *)

\* The calls that touch no live file and no backup.
LEMMA QuietStepGuarded ==
  ASSUME TypeInv, NEW t \in Tx, GuardedTx(t), PersistStep(t), UNCHANGED <<dest, bak>>,
         pc[t] \notin {"swap", "promote", "restore", "restorelast", "finalize"}
  PROVE  GuardedTx(t)'
<1> USE DEF TypeInv, TypeOK, ProcsOK, GuardedTx, SnapshotBackups, EarlyPcs, AllBefore,
            UntouchedFile, SwappedFile, OpenFile
<1>1. CASE CheckPending(t)
  <2>1. \/ pc'[t] = "verify" /\ todo'[t] = FilesOf[t]
        \/ pc'[t] = "returned"
    BY <1>1 DEF CheckPending, Goto, Loop, Return
  <2>2. pc[t] = "pendcheck" /\ UNCHANGED <<before, swapped>>
    BY <1>1 DEF CheckPending
  <2> QED BY <2>1, <2>2
<1>2. CASE VerifyFile(t)
  <2>1. PICK f \in todo[t] :
          \/ dest[f] = before[t][f] /\ Advance(t, f, "jprepared", {})
          \/ pc'[t] = "returned"
    <3>1. \A v : Return(t, v) => pc'[t] = "returned"
      BY DEF Return, Goto
    <3>2. PICK f \in todo[t], ok \in BOOLEAN :
            IF ok /\ dest[f] = before[t][f]
            THEN Advance(t, f, "jprepared", {}) /\ UNCHANGED ret
            ELSE Return(t, "Prepare") /\ UNCHANGED todo
      BY <1>2 DEF VerifyFile
    <3> HIDE DEF TypeInv, TypeOK, ProcsOK, GuardedTx
    <3> QED BY <3>1, <3>2
  <2>2. pc[t] = "verify" /\ UNCHANGED <<before, swapped>>
    BY <1>2 DEF VerifyFile
  <2>3. CASE dest[f] = before[t][f] /\ Advance(t, f, "jprepared", {})
    <3>1. \/ pc'[t] = "jprepared" /\ todo[t] = {f}
          \/ pc'[t] = "verify" /\ todo'[t] = todo[t] \ {f}
      BY <2>2, <2>3 DEF Advance, Loop, Goto
    <3>2. \A g \in FilesOf[t] \ (todo[t] \ {f}) : dest[g] = before[t][g]
      BY <2>2, <2>3
    <3> QED BY <2>2, <3>1, <3>2
  <2>4. CASE pc'[t] = "returned"
    BY <2>2, <2>4
  <2> QED BY <2>1, <2>3, <2>4
<1>3. CASE JournalCreate(t)
  BY <1>3 DEF JournalCreate, AfterJournal, Goto, Loop, Return, Unswapped, JournalSites
<1>4. CASE JournalWrite(t)
  BY <1>4 DEF JournalWrite, AfterJournal, Goto, Loop, Return, Unswapped, JournalSites
<1>5. CASE StageCreate(t)
  BY <1>5 DEF StageCreate, Goto, Loop
<1>6. CASE StageWrite(t)
  BY <1>6 DEF StageWrite, Loop, Goto
<1>7. CASE Unstage(t)
  BY <1>7 DEF Unstage, Goto, Loop, Advance
<1>8. CASE DropStaging(t)
  BY <1>8 DEF DropStaging, Goto, Return
<1>9. CASE UnstageRest(t)
  <2>1. pc[t] = "unstagerest" /\ UNCHANGED <<before, swapped>>
    BY <1>9 DEF UnstageRest
  <2>2. pc'[t] \in {"unstagerest", "restorelast"}
    BY <1>9 DEF UnstageRest, Advance, Loop, Goto
  <2> QED BY <2>1, <2>2 DEF Unswapped
<1>10. CASE DropRollback(t)
  BY <1>10 DEF DropRollback, Goto, Return
<1>11. CASE DropDone(t)
  BY <1>11 DEF DropDone, Goto, Return
<1> QED
  BY <1>1, <1>2, <1>3, <1>4, <1>5, <1>6, <1>7, <1>8, <1>9, <1>10, <1>11
  DEF PersistStep, Swap, Promote, Restore, RestoreLast, RemoveBackup

\* A rollback starts with the files swapped so far.
LEMMA RollbackGuarded ==
  ASSUME TypeInv, NEW t \in Tx, GuardedTx(t), Rollback(t), UNCHANGED <<bak, before, swapped>>
  PROVE  GuardedTx(t)'
<1> USE DEF TypeInv, TypeOK, ProcsOK
<1>1. \/ pc'[t] = "restore" /\ todo'[t] = swapped[t]
      \/ pc'[t] = "unstagerest"
  BY DEF Rollback, Loop, Goto
<1>2. swapped[t] \subseteq FilesOf[t] /\ SnapshotBackups(t)'
  BY DEF GuardedTx, SnapshotBackups
<1> QED BY <1>1, <1>2 DEF GuardedTx, EarlyPcs

\* dest -> bak, or into the rollback.
LEMMA SwapGuarded ==
  ASSUME TypeInv, NEW t \in Tx, GuardedTx(t), Swap(t)
  PROVE  GuardedTx(t)'
<1> USE DEF TypeInv, TypeOK, DiskOK, ProcsOK
<1>1. pc[t] = "swap" /\ UNCHANGED <<before, swapped>> /\ Unswapped(t)' = Unswapped(t)
  BY DEF Swap, Unswapped
<1>2. PICK f \in Unswapped(t) :
        /\ IsNext(f, Unswapped(t))
        /\ \/ /\ bak' = Put(bak, t, f, dest[f]) /\ dest' = [dest EXCEPT ![f] = "missing"]
              /\ Goto(t, "promote")
           \/ Rollback(t) /\ UNCHANGED <<dest, bak>>
  BY DEF Swap
<1>3. f \in FilesOf[t] /\ f \in Files /\ f \notin swapped[t] /\ swapped[t] \subseteq FilesOf[t]
  BY DEF Unswapped, GuardedTx
<1>4. SnapshotBackups(t) /\ \A g \in Unswapped(t) : UntouchedFile(t, g)
  BY <1>1 DEF GuardedTx
<1>5. CASE /\ bak' = Put(bak, t, f, dest[f]) /\ dest' = [dest EXCEPT ![f] = "missing"]
           /\ Goto(t, "promote")
  <2>1. pc'[t] = "promote"
    BY <1>5 DEF Goto
  <2>2. \A g \in Files : /\ dest'[g] = IF g = f THEN "missing" ELSE dest[g]
                         /\ bak'[t][g] = IF g = f THEN dest[f] ELSE bak[t][g]
    <3>1. \A g \in Files : Put(bak, t, f, dest[f])[t][g] = IF g = f THEN dest[f] ELSE bak[t][g]
      BY <1>3 DEF Put
    <3> QED BY <1>3, <1>5, <3>1
  <2>3. OpenFile(t, f)'
    BY <1>1, <1>2, <1>3, <1>4, <2>2 DEF OpenFile, UntouchedFile
  <2>4. ASSUME NEW g \in Unswapped(t), g # f
        PROVE  UntouchedFile(t, g)'
    BY <1>1, <1>4, <2>2, <2>4 DEF UntouchedFile, Unswapped
  <2>5. \A g \in Unswapped(t) : IsNext(g, Unswapped(t)) => g = f
    BY <1>2, NextIsUnique DEF Unswapped
  <2>6. SnapshotBackups(t)'
    BY <1>1, <1>4, <2>2, <2>3 DEF SnapshotBackups, OpenFile
  <2>7. \A g \in Unswapped(t) :
          IF IsNext(g, Unswapped(t)) THEN OpenFile(t, g)' ELSE UntouchedFile(t, g)'
    BY <1>2, <2>3, <2>4, <2>5
  <2>8. swapped'[t] \subseteq FilesOf[t]
    BY <1>1, <1>3
  <2> QED BY <1>1, <2>1, <2>6, <2>7, <2>8 DEF GuardedTx, EarlyPcs
<1>6. CASE Rollback(t) /\ UNCHANGED <<dest, bak>>
  BY <1>1, <1>6, RollbackGuarded
<1> QED BY <1>2, <1>5, <1>6

\* stage -> dest, or into the rollback.
LEMMA PromoteGuarded ==
  ASSUME TypeInv, NEW t \in Tx, GuardedTx(t), Promote(t)
  PROVE  GuardedTx(t)'
<1> USE DEF TypeInv, TypeOK, DiskOK, ProcsOK
<1>1. pc[t] = "promote" /\ UNCHANGED <<before, bak>>
  BY DEF Promote
<1>2. PICK f \in Unswapped(t) :
        /\ IsNext(f, Unswapped(t))
        /\ \/ /\ stage[t][f] # "missing"
              /\ dest' = [dest EXCEPT ![f] = stage[t][f]]
              /\ swapped' = [swapped EXCEPT ![t] = @ \cup {f}]
              /\ Goto(t, "jswapped")
           \/ Rollback(t) /\ UNCHANGED <<dest, swapped>>
  BY DEF Promote, Rename
<1>3. /\ f \in FilesOf[t] /\ f \in Files /\ f \notin swapped[t]
      /\ swapped[t] \subseteq FilesOf[t] /\ SnapshotBackups(t)
  BY DEF Unswapped, GuardedTx
<1>4. \A g \in Unswapped(t) : g # f => UntouchedFile(t, g)
  <2>1. \A g \in Unswapped(t) : IsNext(g, Unswapped(t)) => g = f
    BY <1>2, NextIsUnique DEF Unswapped
  <2> QED BY <1>1, <2>1 DEF GuardedTx
<1>5. CASE /\ stage[t][f] # "missing"
           /\ dest' = [dest EXCEPT ![f] = stage[t][f]]
           /\ swapped' = [swapped EXCEPT ![t] = @ \cup {f}]
           /\ Goto(t, "jswapped")
  <2>1. pc'[t] = "jswapped" /\ swapped'[t] = swapped[t] \cup {f}
    BY <1>5 DEF Goto
  <2>2. \A g \in Files : g # f => dest'[g] = dest[g]
    BY <1>5
  <2>3. \A g \in Unswapped(t)' : g \in Unswapped(t) /\ g # f /\ g \in Files
    BY <2>1 DEF Unswapped
  <2>4. \A g \in Unswapped(t)' : UntouchedFile(t, g)'
    BY <1>1, <1>4, <2>2, <2>3 DEF UntouchedFile
  <2>5. SnapshotBackups(t)'
    BY <1>1, <1>3 DEF SnapshotBackups
  <2> QED BY <1>3, <2>1, <2>4, <2>5 DEF GuardedTx, EarlyPcs
<1>6. CASE Rollback(t) /\ UNCHANGED <<dest, swapped>>
  BY <1>1, <1>6, RollbackGuarded
<1> QED BY <1>2, <1>5, <1>6

\* bak -> dest for a swapped file.
LEMMA RestoreGuarded ==
  ASSUME TypeInv, NEW t \in Tx, GuardedTx(t), Restore(t)
  PROVE  GuardedTx(t)'
<1> USE DEF TypeInv, TypeOK, DiskOK, ProcsOK
<1>1. pc[t] = "restore" /\ UNCHANGED <<before, swapped>> /\ Unswapped(t)' = Unswapped(t)
  BY DEF Restore, Unswapped
<1>2. PICK f \in todo[t] :
        /\ \/ dest' = [dest EXCEPT ![f] = bak[t][f]] /\ bak' = Put(bak, t, f, "missing")
           \/ UNCHANGED <<dest, bak>>
        /\ Advance(t, f, "unstagerest", Unswapped(t))
  BY DEF Restore
<1>3. /\ f \in Files /\ swapped[t] \subseteq FilesOf[t] /\ FilesOf[t] \subseteq Files
      /\ todo[t] \subseteq swapped[t] /\ SnapshotBackups(t)
  BY <1>1 DEF GuardedTx
<1>4. \/ pc'[t] = "restore" /\ todo'[t] = todo[t] \ {f}
      \/ pc'[t] = "unstagerest"
  BY <1>1, <1>2 DEF Advance, Loop, Goto
<1>5. \A g \in Files : Put(bak, t, f, "missing")[t][g] \in {bak[t][g], "missing"}
  BY DEF Put
<1>6. \A g \in Files : bak'[t][g] \in {bak[t][g], "missing"}
  BY <1>2, <1>5
<1>7. SnapshotBackups(t)'
  BY <1>1, <1>3, <1>6 DEF SnapshotBackups
<1> QED BY <1>1, <1>3, <1>4, <1>7 DEF GuardedTx, EarlyPcs

\* bak -> dest for the file whose swap failed, and removing the backups of a commit:
\* no file is guarded any more.
LEMMA LastStepsGuarded ==
  ASSUME TypeInv, NEW t \in Tx, GuardedTx(t), RestoreLast(t) \/ RemoveBackup(t)
  PROVE  GuardedTx(t)'
<1> USE DEF TypeInv, TypeOK, DiskOK, ProcsOK
<1>1. UNCHANGED <<before, swapped>> /\ swapped[t] \subseteq FilesOf[t] /\ FilesOf[t] \subseteq Files
  BY DEF RestoreLast, RemoveBackup, GuardedTx
<1>2. pc'[t] \in {"returned", "droprollback", "finalize", "jdone"}
  BY DEF RestoreLast, RemoveBackup, Advance, Loop, Goto, Return
<1>3. PICK f \in Files : bak' \in {bak, Put(bak, t, f, "missing")}
  BY DEF RestoreLast, RemoveBackup, Unswapped
<1>a. \A g \in Files : Put(bak, t, f, "missing")[t][g] \in {bak[t][g], "missing"}
  BY DEF Put
<1>4. \A g \in Files : bak'[t][g] \in {bak[t][g], "missing"}
  BY <1>3, <1>a
<1>5. SnapshotBackups(t)'
  BY <1>1, <1>4 DEF GuardedTx, SnapshotBackups
<1> QED BY <1>1, <1>2, <1>5 DEF GuardedTx, EarlyPcs

\* Every call of persist_tx keeps its own transaction guarded.
LEMMA TxStepGuarded ==
  ASSUME TypeInv, NEW t \in Tx, GuardedTx(t), PersistStep(t)
  PROVE  GuardedTx(t)'
<1>1. CASE Swap(t) \/ Promote(t) \/ Restore(t) \/ RestoreLast(t) \/ RemoveBackup(t)
  BY <1>1, SwapGuarded, PromoteGuarded, RestoreGuarded, LastStepsGuarded
<1>2. CASE ~(Swap(t) \/ Promote(t) \/ Restore(t) \/ RestoreLast(t) \/ RemoveBackup(t))
  <2>1. UNCHANGED <<dest, bak>>
    BY <1>2 DEF PersistStep, CheckPending, VerifyFile, JournalCreate, JournalWrite,
                StageCreate, StageWrite, Unstage, DropStaging, UnstageRest, DropRollback,
                DropDone, disk
  <2>2. pc[t] \notin {"swap", "promote", "restore", "restorelast", "finalize"}
    BY <1>2 DEF PersistStep, CheckPending, VerifyFile, JournalCreate, JournalWrite,
                StageCreate, StageWrite, Unstage, DropStaging, UnstageRest, DropRollback,
                DropDone, AfterJournal, JournalSites
  <2> QED BY <2>1, <2>2, QuietStepGuarded
<1> QED BY <1>1, <1>2

\* A transaction that does not run asks nothing of the live files.
LEMMA RestGuarded ==
  ASSUME TypeInv, NEW t \in Tx, GuardedTx(t), ~Running(t),
         pc'[t] = pc[t], swapped'[t] = swapped[t], before'[t] = before[t],
         \/ bak'[t] = bak[t]
         \/ pc[t] # "idle" /\ SnapshotBackups(t)'
  PROVE  GuardedTx(t)'
<1>1. pc[t] \in {"idle", "returned", "dead"}
  BY DEF Running
<1> QED BY <1>1 DEF GuardedTx, EarlyPcs, SnapshotBackups

-----------------------------------------------------------------------------
(* The files under recovery *)

\* The calls of recovery that touch no live file and no backup.
LEMMA RecoverQuietGuarded ==
  ASSUME TypeInv, OneProcess, GuardedRecovery, UNCHANGED <<dest, bak, before, rtx>>,
         \/ ReadJournal \/ Classify \/ CleanStage \/ CleanJournal \/ CheckStage
         \/ RecoverJournalCreate \/ RecoverJournalWrite \/ RecoverDrop
  PROVE  GuardedRecovery'
<1> USE DEF TypeInv, TypeOK, RecoverOK, GuardedRecovery
<1>1. CASE ReadJournal
  BY <1>1 DEF ReadJournal, RLoop, RGoto, Answer
<1>2. CASE Classify
  <2>1. PICK f \in rtodo :
          \/ /\ dest[f] \in {rtx, before[rtx][f]}
             /\ rpending' = IF dest[f] = rtx THEN rpending ELSE rpending \cup {f}
             /\ \/ rpc' = "classify" /\ rtodo' = rtodo \ {f}
                \/ rpc' \in {"cleanstage", "checkstage"} /\ rtodo' \subseteq FilesOf[rtx]
          \/ rpc' = "idle"
    BY <1>2 DEF Classify, Decide, RLoop, RGoto, Answer
  <2>2. rpc = "classify"
    BY <1>2 DEF Classify
  <2> QED BY <2>1, <2>2
<1>3. CASE CleanStage
  BY <1>3 DEF CleanStage, RGoto
<1>4. CASE CleanJournal \/ RecoverDrop
  BY <1>4 DEF CleanJournal, RecoverDrop, Answer
<1>5. CASE CheckStage
  <2>1. rpc = "checkstage" /\ UNCHANGED <<rtodo, rpending>> /\ rpc' \in {"rswap", "idle"}
    BY <1>5 DEF CheckStage, RGoto, Answer
  <2> QED BY <2>1
<1>6. CASE RecoverJournalCreate \/ RecoverJournalWrite
  <2>1. rwriting => rpc \in {"jpromoted", "jrdone"}
    BY DEF OneProcess
  <2>2. /\ rpc \in {"jpromoted", "jrdone"} /\ UNCHANGED rpending
        /\ rtodo' \in {rtodo, FilesOf[rtx]}
        /\ rpc' \in {rpc, "rdrop", "rmbaks", "checkstage"}
        /\ rpc' = "jpromoted" \/ rpc' = "checkstage" => rpc = "jpromoted"
    BY <1>6, <2>1
    DEF RecoverJournalCreate, RecoverJournalWrite, RecoverAfterJournal, RLoop, RGoto
  <2> QED BY <2>2
<1> QED BY <1>1, <1>2, <1>3, <1>4, <1>5, <1>6

\* Recovery removes backups.
LEMMA RecoverRemoveGuarded ==
  ASSUME TypeInv, GuardedRecovery, SnapshotBackups(rtx), CleanBak \/ RecoverRemoveBackup
  PROVE  GuardedRecovery' /\ SnapshotBackups(rtx)'
<1> USE DEF TypeInv, TypeOK, DiskOK, RecoverOK
<1>1. PICK f \in rtodo :
        /\ bak' \in {Put(bak, rtx, f, "missing"), bak}
        /\ rpc' \in {"cleanjournal", "cleanstage", "rmbaks", "jrdone"}
        /\ rtodo' \subseteq rtodo
  BY DEF CleanBak, RecoverRemoveBackup, RLoop, RGoto
<1>2. UNCHANGED <<dest, before, rtx, rpending>> /\ rpc # "idle"
  BY DEF CleanBak, RecoverRemoveBackup, recframe, procs
<1>3. \A g \in Files : bak'[rtx][g] \in {bak[rtx][g], "missing"}
  BY <1>1 DEF Put
<1>4. GuardedRecovery'
  BY <1>1, <1>2 DEF GuardedRecovery
<1>5. SnapshotBackups(rtx)'
  BY <1>2, <1>3 DEF SnapshotBackups
<1> QED BY <1>4, <1>5

\* dest -> bak for a pending file: it holds what it held when it was classified.
LEMMA RecoverSwapGuarded ==
  ASSUME TypeInv, GuardedRecovery, SnapshotBackups(rtx), RecoverSwap
  PROVE  GuardedRecovery' /\ SnapshotBackups(rtx)'
<1> USE DEF TypeInv, TypeOK, DiskOK, RecoverOK
<1>1. rpc = "rswap" /\ UNCHANGED <<rtodo, rpending, rtx, before>>
  BY DEF RecoverSwap, recframe, procs
<1>2. PICK f \in rpending :
        /\ IsNext(f, rpending)
        /\ \/ /\ bak' = Put(bak, rtx, f, dest[f]) /\ dest' = [dest EXCEPT ![f] = "missing"]
              /\ rpc' = "rpromote"
           \/ rpc' = "idle" /\ UNCHANGED <<dest, bak>>
  BY DEF RecoverSwap, RGoto, Answer
<1>3. /\ rtodo \subseteq FilesOf[rtx] /\ rpending \subseteq FilesOf[rtx]
      /\ f \in FilesOf[rtx] /\ f \in Files
      /\ \A g \in rpending : dest[g] = before[rtx][g]
  BY <1>1, <1>2 DEF GuardedRecovery
<1>4. CASE rpc' = "idle" /\ UNCHANGED <<dest, bak>>
  BY <1>1, <1>4 DEF GuardedRecovery, SnapshotBackups
<1>5. CASE /\ bak' = Put(bak, rtx, f, dest[f]) /\ dest' = [dest EXCEPT ![f] = "missing"]
           /\ rpc' = "rpromote"
  <2>1. \A g \in Files : bak'[rtx][g] = IF g = f THEN before[rtx][f] ELSE bak[rtx][g]
    BY <1>2, <1>3, <1>5 DEF Put
  <2>2. \A g \in Files : dest'[g] = IF g = f THEN "missing" ELSE dest[g]
    BY <1>3, <1>5
  <2>3. SnapshotBackups(rtx)'
    BY <1>1, <1>3, <2>1 DEF SnapshotBackups
  <2>4. \A g \in rpending : IsNext(g, rpending) => g = f
    BY <1>2, NextIsUnique
  <2>5. \A g \in rpending :
          dest'[g] = IF IsNext(g, rpending) THEN "missing" ELSE before[rtx][g]
    BY <1>2, <1>3, <2>2, <2>4
  <2> QED BY <1>1, <1>3, <1>5, <2>3, <2>5 DEF GuardedRecovery
<1> QED BY <1>2, <1>4, <1>5

\* stage -> dest for the file moved aside.
LEMMA RecoverPromoteGuarded ==
  ASSUME TypeInv, GuardedRecovery, SnapshotBackups(rtx), RecoverPromote
  PROVE  GuardedRecovery' /\ SnapshotBackups(rtx)'
<1> USE DEF TypeInv, TypeOK, DiskOK, RecoverOK
<1>1. rpc = "rpromote" /\ UNCHANGED <<bak, rtodo, rtx, before>>
  BY DEF RecoverPromote, recframe, procs
<1>2. PICK f \in rpending :
        /\ IsNext(f, rpending)
        /\ \/ /\ dest' = [dest EXCEPT ![f] = stage[rtx][f]]
              /\ rpending' = rpending \ {f}
              /\ rpc' = "jpromoted"
           \/ rpc' = "idle" /\ UNCHANGED <<dest, rpending>>
  BY DEF RecoverPromote, RGoto, Answer
<1>3. \A g \in rpending : IsNext(g, rpending) => g = f
  BY <1>2, NextIsUnique
<1>4. /\ rtodo \subseteq FilesOf[rtx] /\ rpending \subseteq FilesOf[rtx] /\ f \in Files
      /\ \A g \in rpending : g # f => dest[g] = before[rtx][g]
  BY <1>1, <1>2, <1>3 DEF GuardedRecovery
<1>5. SnapshotBackups(rtx)'
  BY <1>1 DEF SnapshotBackups
<1>6. GuardedRecovery'
  BY <1>1, <1>2, <1>4 DEF GuardedRecovery
<1> QED BY <1>5, <1>6

\* Every call of recovery keeps its transaction and itself guarded.
LEMMA RecoverStepGuarded ==
  ASSUME TypeInv, OneProcess, GuardedRecovery, SnapshotBackups(rtx), RecoverStep
  PROVE  GuardedRecovery' /\ SnapshotBackups(rtx)'
<1>1. CASE CleanBak \/ RecoverRemoveBackup
  BY <1>1, RecoverRemoveGuarded
<1>2. CASE RecoverSwap \/ RecoverPromote
  BY <1>2, RecoverSwapGuarded, RecoverPromoteGuarded
<1>3. CASE ~(CleanBak \/ RecoverRemoveBackup \/ RecoverSwap \/ RecoverPromote)
  <2>1. UNCHANGED <<dest, bak, before, rtx>>
    BY <1>3
    DEF RecoverStep, ReadJournal, Classify, CleanStage, CleanJournal, CheckStage,
        RecoverJournalCreate, RecoverJournalWrite, RecoverDrop, disk, recframe, procs
  <2>2. GuardedRecovery'
    BY <1>3, <2>1, RecoverQuietGuarded DEF RecoverStep
  <2>3. SnapshotBackups(rtx)'
    BY <2>1 DEF SnapshotBackups
  <2> QED BY <2>2, <2>3
<1> QED BY <1>1, <1>2, <1>3

-----------------------------------------------------------------------------
(* The invariant *)

\* It holds before anything starts.
LEMMA InitEditInv == Init => EditInv
<1> SUFFICES ASSUME Init PROVE EditInv
  OBVIOUS
<1>1. TypeInv
  BY InitTypeInv
<1>2. OneProcess /\ GuardedRecovery
  BY DEF Init, OneProcess, GuardedRecovery, Running
<1>3. ASSUME NEW t \in Tx PROVE GuardedTx(t)
  BY DEF Init, GuardedTx, SnapshotBackups, EarlyPcs
<1> QED BY <1>1, <1>2, <1>3 DEF EditInv

\* A call of persist_tx keeps every transaction guarded, and recovery, which is idle.
LEMMA TxStepKeepsGuards ==
  ASSUME EditInv, NEW t \in Tx, PersistStep(t)
  PROVE  (\A u \in Tx : GuardedTx(u)') /\ GuardedRecovery'
<1> USE DEF EditInv
<1>1. OthersAlone(t) /\ UNCHANGED before /\ Running(t)
  BY TxStepFrame, TxStepRuns
<1>2. rpc' = "idle" /\ \A u \in Tx : Running(u) => u = t
  BY <1>1 DEF OneProcess, OthersAlone, recv
<1>3. GuardedTx(t)'
  BY TxStepGuarded
<1>4. ASSUME NEW u \in Tx \ {t} PROVE GuardedTx(u)'
  BY <1>1, <1>2, RestGuarded DEF OthersAlone
<1> QED BY <1>2, <1>3, <1>4 DEF GuardedRecovery

\* A call of recovery keeps every transaction guarded, none of which runs.
LEMMA RecoverStepKeepsGuards ==
  ASSUME EditInv, RecoverStep
  PROVE  (\A u \in Tx : GuardedTx(u)') /\ GuardedRecovery'
<1> USE DEF EditInv, TypeInv, TypeOK, RecoverOK
<1>1. RecoverControl
  BY RecoverStepControl DEF OneProcess
<1>2. \A u \in Tx : ~Running(u)
  BY <1>1 DEF RecoverControl, OneProcess
<1>3. GuardedRecovery' /\ SnapshotBackups(rtx)'
  BY RecoverStepGuarded DEF GuardedTx
<1>4. rpc # "idle" /\ pc[rtx] # "idle" /\ UNCHANGED <<pc, swapped, before, rtx>>
  <2>1. rpc # "idle" /\ UNCHANGED <<procs, rtx>>
    BY <1>1 DEF RecoverControl
  <2> QED BY <2>1 DEF procs, OneProcess
<1>5. ASSUME NEW u \in Tx, u # rtx PROVE GuardedTx(u)'
  <2>1. bak'[u] = bak[u] /\ pc'[u] = pc[u] /\ swapped'[u] = swapped[u] /\ before'[u] = before[u]
    BY <1>1, <1>4, <1>5 DEF RecoverControl
  <2> QED BY <1>2, <2>1, RestGuarded
<1>6. ASSUME NEW u \in Tx, u = rtx PROVE GuardedTx(u)'
  <2>1. SnapshotBackups(u)'
    BY <1>3, <1>4, <1>6 DEF SnapshotBackups
  <2> QED BY <1>2, <1>4, <1>6, <2>1, RestGuarded
<1> QED BY <1>3, <1>5, <1>6

\* A new process plans from the files as they are, and has checked none of them.
LEMMA StartKeepsGuards ==
  ASSUME NoRaces, EditInv, NEW t \in Tx, Start(t)
  PROVE  (\A u \in Tx : GuardedTx(u)') /\ GuardedRecovery'
<1> USE DEF EditInv, TypeInv, TypeOK, ProcsOK
<1>1. /\ pc[t] = "idle" /\ rpc = "idle" /\ \A u \in Tx : ~Running(u)
      /\ before' = [before EXCEPT ![t] = dest] /\ Goto(t, "pendcheck")
      /\ UNCHANGED <<dest, bak, swapped, todo, recv>>
  BY DEF Start, disk, NoRaces, Quiet
<1>2. pc'[t] = "pendcheck" /\ \A u \in Tx \ {t} : pc'[u] = pc[u] /\ before'[u] = before[u]
  BY <1>1 DEF Goto
<1>3. swapped[t] = {} /\ \A f \in Files : bak[t][f] = "missing"
  BY <1>1 DEF GuardedTx, EarlyPcs
<1>4. GuardedTx(t)'
  BY <1>1, <1>2, <1>3 DEF GuardedTx, SnapshotBackups
<1>5. ASSUME NEW u \in Tx \ {t} PROVE GuardedTx(u)'
  BY <1>1, <1>2, RestGuarded
<1> QED BY <1>1, <1>4, <1>5 DEF GuardedRecovery, recv

\* A save outside the window reaches no file that is guarded.
LEMMA EditKeepsGuards ==
  ASSUME NoRaces, EditInv, NEW f \in Files, Edit(f)
  PROVE  (\A u \in Tx : GuardedTx(u)') /\ GuardedRecovery'
<1> USE DEF EditInv, TypeInv, TypeOK, DiskOK
<1>1. /\ ~MayRecover(f) /\ \A u \in Tx : ~MaySwap(u, f)
      /\ dest' = [dest EXCEPT ![f] = "foreign"]
      /\ UNCHANGED <<stage, bak, journal, procs, recv>>
  BY DEF Edit, NoRaces, Unguarded
<1>2. \A g \in Files : g # f => dest'[g] = dest[g]
  BY <1>1
<1>3. ASSUME NEW u \in Tx PROVE GuardedTx(u)'
  <2>1. UNCHANGED <<bak, before, pc, todo, swapped>> /\ Unswapped(u)' = Unswapped(u)
    BY <1>1 DEF procs, Unswapped
  <2>2. GuardedTx(u) /\ Unswapped(u) \subseteq Files /\ FilesOf[u] \subseteq Files
    BY DEF Unswapped
  <2>3. SnapshotBackups(u)'
    BY <2>1, <2>2 DEF GuardedTx, SnapshotBackups
  <2>4. pc[u] \in EarlyPcs => Unswapped(u) = FilesOf[u]
    BY <2>2 DEF GuardedTx, Unswapped
  <2>5. pc[u] = "verify" => \A g \in FilesOf[u] \ todo[u] : dest'[g] = before[u][g]
    <3>1. ASSUME pc[u] = "verify", NEW g \in FilesOf[u] \ todo[u]
          PROVE  dest[g] = before[u][g] /\ g # f /\ g \in Files
      BY <1>1, <2>2, <2>4, <3>1 DEF MaySwap, GuardedTx, EarlyPcs
    <3> QED BY <1>2, <3>1
  <2>6. pc[u] \in {"jprepared", "stage", "stagewrite", "jstaged", "jswapping"} => AllBefore(u)'
    <3>1. ASSUME pc[u] \in {"jprepared", "stage", "stagewrite", "jstaged", "jswapping"},
                 NEW g \in FilesOf[u]
          PROVE  dest[g] = before[u][g] /\ g # f /\ g \in Files
      BY <1>1, <2>2, <2>4, <3>1 DEF MaySwap, GuardedTx, EarlyPcs, AllBefore
    <3> QED BY <1>2, <2>1, <3>1 DEF AllBefore
  <2>7. pc[u] \in {"swap", "promote", "jswapped"} =>
          \A g \in Unswapped(u) :
            IF pc[u] = "promote" /\ IsNext(g, Unswapped(u)) THEN OpenFile(u, g)'
                                                            ELSE UntouchedFile(u, g)'
    <3>1. ASSUME pc[u] \in {"swap", "promote", "jswapped"}, NEW g \in Unswapped(u)
          PROVE  /\ g # f /\ g \in Files
                 /\ IF pc[u] = "promote" /\ IsNext(g, Unswapped(u)) THEN OpenFile(u, g)
                                                                    ELSE UntouchedFile(u, g)
      BY <1>1, <2>2, <3>1 DEF MaySwap, GuardedTx
    <3> QED BY <1>2, <2>1, <3>1 DEF OpenFile, UntouchedFile
  <2> QED BY <2>1, <2>2, <2>3, <2>5, <2>6, <2>7 DEF GuardedTx
<1>4. GuardedRecovery'
  <2>1. UNCHANGED <<before, rpc, rtx, rtodo, rpending>>
    BY <1>1 DEF procs, recv
  <2>2. rpc \in {"classify", "checkstage", "rswap", "rpromote", "jpromoted"} => f \notin rpending
    BY <1>1 DEF MayRecover
  <2>3. rpending \subseteq Files
    BY DEF RecoverOK
  <2> QED BY <1>2, <2>1, <2>2, <2>3 DEF GuardedRecovery
<1> QED BY <1>3, <1>4

\* Dying, and starting or abandoning a recovery, move nothing.
LEMMA OtherKeepsGuards ==
  ASSUME EditInv,
         \/ \E t \in Tx : RecoverStart(t) \/ Crash(t)
         \/ RecoverCrash \/ UNCHANGED vars
  PROVE  (\A u \in Tx : GuardedTx(u)') /\ GuardedRecovery'
<1> USE DEF EditInv, TypeInv, TypeOK, ProcsOK
<1>1. UNCHANGED <<dest, bak, before, todo, swapped>>
  BY DEF RecoverStart, Crash, RecoverCrash, vars, disk, procs
<1>2. \A u \in Tx : pc'[u] \in {pc[u], "dead"}
  BY DEF RecoverStart, Crash, RecoverCrash, vars, procs, Goto
<1>3. ASSUME NEW u \in Tx PROVE GuardedTx(u)'
  <2>1. Unswapped(u)' = Unswapped(u)
    BY <1>1 DEF Unswapped
  <2>2. CASE pc'[u] = pc[u]
    <3>1. /\ SnapshotBackups(u)' <=> SnapshotBackups(u)
          /\ AllBefore(u)' <=> AllBefore(u)
          /\ \A g : /\ UntouchedFile(u, g)' <=> UntouchedFile(u, g)
                    /\ OpenFile(u, g)' <=> OpenFile(u, g)
      BY <1>1 DEF SnapshotBackups, AllBefore, UntouchedFile, OpenFile
    <3> QED BY <1>1, <2>1, <2>2, <3>1 DEF GuardedTx
  <2>3. CASE pc'[u] = "dead"
    BY <1>1, <2>3 DEF GuardedTx, SnapshotBackups, EarlyPcs
  <2> QED BY <1>2, <2>2, <2>3
<1>4. GuardedRecovery'
  <2>1. \/ rpc' = "idle"
        \/ rpc' = "read" /\ rtodo' = {} /\ rpending' = {}
        \/ UNCHANGED recv
    BY DEF RecoverStart, Crash, RecoverCrash, vars
  <2> QED BY <1>1, <2>1 DEF GuardedRecovery, recv
<1> QED BY <1>3, <1>4

\* Every step keeps it.
LEMMA StepEditInv ==
  ASSUME NoRaces, EditInv, [Next]_vars
  PROVE  EditInv'
<1>1. TypeInv'
  BY TxStepTyping, RecoverStepTyping, OtherStepTyping DEF EditInv, Next
<1>2. OneProcess'
  BY StepOneProcess DEF EditInv
<1>3. (\A u \in Tx : GuardedTx(u)') /\ GuardedRecovery'
  BY TxStepKeepsGuards, RecoverStepKeepsGuards, StartKeepsGuards, EditKeepsGuards,
     OtherKeepsGuards DEF Next
<1> QED BY <1>1, <1>2, <1>3 DEF EditInv

\* EditInv always holds.
LEMMA EditInvAlways ==
  ASSUME NoRaces
  PROVE  Spec => []EditInv
<1>1. Init => EditInv
  BY InitEditInv
<1>2. EditInv /\ [Next]_vars => EditInv'
  BY StepEditInv
<1> QED BY <1>1, <1>2, PTL DEF Spec

\* The bytes a transaction moves aside, and may later delete or put back, are those
\* its plan was made from: no save of an editor is ever in a backup by mistake.
THEOREM BackupsAreSnapshots ==
  ASSUME NoRaces
  PROVE  Spec => []BackupIsSnapshot
<1>1. EditInv => BackupIsSnapshot
  BY DEF EditInv, GuardedTx, SnapshotBackups, BackupIsSnapshot
<1> QED BY <1>1, EditInvAlways, PTL

\* The step that takes an editor's bytes off a live file is the swap of a transaction
\* planned from those bytes, or gives the file its backup back after a failed commit.
LEMMA StepTakesPlanned ==
  ASSUME NoRaces, EditInv, [Next]_vars, NEW f \in Files,
         dest[f] = "foreign", dest'[f] # "foreign"
  PROVE  \E t \in Tx : /\ f \in FilesOf[t] /\ Live(t)
                       /\ before[t][f] = "foreign" \/ GivesBack(t, f)
<1> USE DEF EditInv, TypeInv, TypeOK, DiskOK
<1>1. ASSUME NEW t \in Tx, PersistStep(t)
      PROVE  /\ f \in FilesOf[t] /\ Live(t)
             /\ before[t][f] = "foreign" \/ GivesBack(t, f)
  <2>1. Running(t)
    BY <1>1, TxStepRuns
  <2>a. swapped[t] \subseteq FilesOf[t] /\ SnapshotBackups(t)
    BY DEF GuardedTx
  <2>2. Swap(t) \/ Promote(t) \/ Restore(t) \/ RestoreLast(t)
    BY <1>1
    DEF PersistStep, CheckPending, VerifyFile, JournalCreate, JournalWrite, StageCreate,
        StageWrite, Unstage, DropStaging, UnstageRest, DropRollback, RemoveBackup,
        DropDone, disk
  <2>3. CASE Swap(t)
    <3>1. pc[t] = "swap" /\ f \in Unswapped(t)
      BY <2>3 DEF Swap
    <3>2. UntouchedFile(t, f) /\ f \in FilesOf[t]
      BY <3>1 DEF GuardedTx, Unswapped
    <3> QED BY <2>1, <3>1, <3>2 DEF UntouchedFile, Live
  <2>4. CASE Promote(t)
    <3>1. pc[t] = "promote" /\ f \in Unswapped(t) /\ IsNext(f, Unswapped(t))
      BY <2>4 DEF Promote
    <3> QED BY <3>1 DEF GuardedTx, Unswapped, OpenFile
  <2>5. CASE Restore(t)
    <3>1. /\ pc[t] = "restore" /\ f \in todo[t]
          /\ bak[t][f] # "missing" /\ dest'[f] = bak[t][f]
      BY <2>5 DEF Restore, Rename
    <3>2. f \in swapped[t]
      BY <3>1 DEF GuardedTx
    <3> QED BY <2>1, <2>a, <3>1, <3>2 DEF GivesBack, Live, SnapshotBackups
  <2>6. CASE RestoreLast(t)
    <3>1. /\ pc[t] = "restorelast" /\ f \in Unswapped(t)
          /\ bak[t][f] # "missing" /\ dest'[f] = bak[t][f]
      BY <2>6 DEF RestoreLast, Rename
    <3> QED BY <2>1, <2>a, <3>1 DEF GivesBack, Live, SnapshotBackups, Unswapped
  <2> QED BY <2>2, <2>3, <2>4, <2>5, <2>6
<1>2. CASE RecoverStep
  <2>1. rpc # "idle" /\ rtx \in Tx /\ Live(rtx)
    BY <1>2, RecoverStepControl DEF RecoverControl, OneProcess, RecoverOK, Live
  <2>2. RecoverSwap \/ RecoverPromote
    BY <1>2
    DEF RecoverStep, ReadJournal, Classify, CleanStage, CleanBak, CleanJournal, CheckStage,
        RecoverJournalCreate, RecoverJournalWrite, RecoverRemoveBackup, RecoverDrop, disk
  <2>3. CASE RecoverSwap
    <3>1. rpc = "rswap" /\ f \in rpending
      BY <2>3 DEF RecoverSwap
    <3> QED BY <2>1, <3>1 DEF GuardedRecovery
  <2>4. CASE RecoverPromote
    <3>1. rpc = "rpromote" /\ f \in rpending /\ IsNext(f, rpending)
      BY <2>4 DEF RecoverPromote
    <3> QED BY <3>1 DEF GuardedRecovery
  <2> QED BY <2>2, <2>3, <2>4
<1>3. CASE \/ \E t \in Tx : Start(t) \/ RecoverStart(t) \/ Crash(t)
           \/ RecoverCrash \/ UNCHANGED vars
  BY <1>3 DEF Start, RecoverStart, Crash, RecoverCrash, vars, disk
<1>4. ASSUME NEW g \in Files, Edit(g) PROVE FALSE
  BY <1>4 DEF Edit
<1> QED BY <1>1, <1>2, <1>3, <1>4 DEF Next

\* What an editor saved, at any time but between a check and the swap it guards, leaves
\* a live file only through a transaction that was planned from it, or, saved after a
\* transaction had moved the file aside, when that transaction's commit fails and the
\* file is rolled back: neither a stale plan nor a late recovery overwrites a save.
THEOREM SavesSurvive ==
  ASSUME NoRaces
  PROVE  Spec => EditsSurvive
<1>1. EditInv /\ [Next]_vars =>
        \A f \in Files : dest[f] = "foreign" /\ dest'[f] # "foreign" =>
          \E t \in Tx : /\ f \in FilesOf[t] /\ Live(t)
                        /\ before[t][f] = "foreign" \/ GivesBack(t, f)
  BY StepTakesPlanned
<1> QED BY <1>1, EditInvAlways, PTL DEF Spec, EditsSurvive
=============================================================================
