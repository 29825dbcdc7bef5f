--------------------------- MODULE PersistTxAtomic ---------------------------
(* Crash safety of PersistTx when processes take turns and nobody else edits   *)
(* the files, for any number of files, transactions, failing calls and process *)
(* deaths.  First who may be running when; then what the live files, the       *)
(* staged files and the backups look like at each point of persist_tx and of   *)
(* recover, and what follows for the bytes, the results and the answers.       *)
EXTENDS PersistTxProofs

\* Transactions that write a common file keep their journals in one directory.
SharedRoot ==
  \A t, u \in Tx : FilesOf[t] \cap FilesOf[u] # {} => Root[t] = Root[u]

\* The setting of the theorems below: one ontixa process at a time, each pending
\* check sees the journals about its files, no editor, and lookups that see what is
\* there.
TakeTurns == ~Overlap /\ SharedRoot /\ MaxEdits = 0 /\ ~LookupFails

\* One process runs; per directory, one transaction at most is past its pending
\* check or has left a journal; a journal exists from the staging loop on and for as long as
\* recovery works on it.
ExclInv ==
  /\ \A t \in Tx : Running(t) => rpc = "idle" /\ \A u \in Tx : Running(u) => u = t
  /\ \A t, u \in Tx : Live(t) /\ Live(u) /\ Root[t] = Root[u] => t = u
  /\ \A t \in Tx : Running(t) /\ pc[t] \notin {"pendcheck", "verify", "jprepared"} =>
       journal[t] # "none"
  /\ \A t \in Tx : pc[t] = "idle" => journal[t] = "none"
  /\ \A t \in Tx : writing[t] => pc[t] \in JournalSites /\ journal[t] # "none"
  /\ rpc # "idle" => journal[rtx] # "none"
  /\ rwriting => rpc \in {"jpromoted", "jrdone"}

\* A transaction's own bytes are on no live file or backup before it starts, and
\* are staged by nobody else; its snapshot is not made of them.
ContentInv ==
  /\ \A t \in Tx, f \in Files : stage[t][f] \in {"missing", "partial", t}
  /\ \A t \in Tx : pc[t] = "idle" =>
       \A f \in Files : /\ dest[f] # t /\ bak[t][f] = "missing"
                        /\ \A u \in Tx : bak[u][f] # t
  /\ \A t \in Tx : pc[t] # "idle" =>
       \A f \in FilesOf[t] : before[t][f] \notin {t, "missing"}
  /\ \A t \in Tx : swapped[t] \subseteq FilesOf[t]

USE TxAssumption, FilesAssumption

-----------------------------------------------------------------------------
\* Both hold before any process starts.
LEMMA InitTurns == Init => ExclInv /\ ContentInv
  BY DEF Init, ExclInv, ContentInv, Running, Live

\* A step of a transactor leaves the other transactions and recovery alone.
OthersAlone(t) ==
  /\ \A u \in Tx \ {t} :
       /\ pc'[u] = pc[u] /\ todo'[u] = todo[u] /\ swapped'[u] = swapped[u]
       /\ writing'[u] = writing[u] /\ errs'[u] = errs[u] /\ ret'[u] = ret[u]
       /\ journal'[u] = journal[u] /\ stage'[u] = stage[u] /\ bak'[u] = bak[u]
  /\ UNCHANGED recv

\* No call of persist_tx touches the entries of another transaction, or a snapshot.
LEMMA TxStepFrame ==
  ASSUME TypeInv, NEW t \in Tx, PersistStep(t)
  PROVE  OthersAlone(t) /\ UNCHANGED before
<1> USE DEF TypeInv, TypeOK, DiskOK, ProcsOK, OthersAlone
<1>1. CASE CheckPending(t)
  BY <1>1 DEF CheckPending, Lookup, Goto, Loop, Advance, Return, Put, disk, txframe
<1>2. CASE VerifyFile(t)
  BY <1>2 DEF VerifyFile, Goto, Loop, Advance, Return, Put, disk, txframe
<1>3. CASE JournalCreate(t)
  BY <1>3 DEF JournalCreate, AfterJournal, Goto, Loop, Advance, Return, Put, disk, txframe
<1>4. CASE JournalWrite(t)
  BY <1>4 DEF JournalWrite, AfterJournal, Goto, Loop, Advance, Return, Put, disk, txframe
<1>5. CASE StageCreate(t)
  BY <1>5 DEF StageCreate, Goto, Loop, Advance, Return, Put, disk, txframe
<1>6. CASE StageWrite(t)
  BY <1>6 DEF StageWrite, Goto, Loop, Advance, Return, Put, disk, txframe
<1>7. CASE Unstage(t)
  BY <1>7 DEF Unstage, Goto, Loop, Advance, Return, Put, disk, txframe
<1>8. CASE DropStaging(t)
  BY <1>8 DEF DropStaging, Goto, Loop, Advance, Return, Put, disk, txframe
<1>9. CASE Swap(t)
  BY <1>9 DEF Swap, Rollback, Goto, Loop, Advance, Return, Put, disk, txframe
<1>10. CASE Promote(t)
  BY <1>10 DEF Promote, Rollback, Goto, Loop, Advance, Return, Put, disk, txframe
<1>11. CASE Restore(t)
  BY <1>11 DEF Restore, Goto, Loop, Advance, Return, Put, disk, txframe
<1>12. CASE UnstageRest(t)
  BY <1>12 DEF UnstageRest, Goto, Loop, Advance, Return, Put, disk, txframe
<1>13. CASE RestoreLast(t)
  BY <1>13 DEF RestoreLast, Lookup, Goto, Loop, Advance, Return, Put, disk, txframe
<1>14. CASE DropRollback(t)
  BY <1>14 DEF DropRollback, Goto, Loop, Advance, Return, Put, disk, txframe
<1>15. CASE RemoveBackup(t)
  BY <1>15 DEF RemoveBackup, Goto, Loop, Advance, Return, Put, disk, txframe
<1>16. CASE DropDone(t)
  BY <1>16 DEF DropDone, Goto, Loop, Advance, Return, Put, disk, txframe
<1> QED
  BY <1>1, <1>2, <1>3, <1>4, <1>5, <1>6, <1>7, <1>8, <1>9, <1>10, <1>11, <1>12, <1>13,
     <1>14, <1>15, <1>16 DEF PersistStep

\* How a step of a running transactor moves its control point and its journal.
ControlStep(t) ==
  /\ Running(t)
  /\ pc'[t] \notin {"idle", "pendcheck", "dead"}
  /\ pc'[t] \in {"verify", "jprepared"} => pc[t] \in {"pendcheck", "verify", "jprepared"}
  /\ pc[t] = "pendcheck" => journal'[t] = journal[t] /\ pc'[t] \in {"verify", "returned"}
  /\ pc[t] = "pendcheck" /\ pc'[t] = "verify" =>
       \A u \in Tx : Root[u] = Root[t] => journal[u] = "none"
  /\ pc[t] \in {"pendcheck", "verify"} => pc'[t] \in {"verify", "jprepared", "returned"}
  /\ journal[t] # "none" /\ Running(t)' => journal'[t] # "none"
  /\ pc[t] = "jprepared" /\ Running(t)' /\ pc'[t] # "jprepared" => journal'[t] # "none"
  /\ writing'[t] => pc'[t] \in JournalSites /\ journal'[t] # "none"

\* Each call of persist_tx moves as ControlStep says.
LEMMA TxStepControl ==
  ASSUME TakeTurns, TypeInv, ExclInv, NEW t \in Tx, PersistStep(t)
  PROVE  ControlStep(t)
<1> USE DEF TypeInv, TypeOK, DiskOK, ProcsOK, ControlStep, Running, JournalSites
<1>0. writing[t] => pc[t] \in JournalSites /\ journal[t] # "none"
  BY DEF ExclInv
<1>1. CASE CheckPending(t)
  BY <1>0, <1>1 DEF CheckPending, Lookup, Goto, Loop, Advance, Return, disk, TakeTurns
<1>2. CASE VerifyFile(t)
  BY <1>0, <1>2 DEF VerifyFile, Goto, Loop, Advance, Return, disk
<1>3. CASE JournalCreate(t)
  BY <1>0, <1>3 DEF JournalCreate, AfterJournal, Goto, Loop, Advance, Return, disk
<1>4. CASE JournalWrite(t)
  BY <1>0, <1>4 DEF JournalWrite, AfterJournal, Goto, Loop, Advance, Return, disk
<1>5. CASE StageCreate(t)
  BY <1>0, <1>5 DEF StageCreate, Goto, Loop, Advance, Return, disk
<1>6. CASE StageWrite(t)
  BY <1>0, <1>6 DEF StageWrite, Goto, Loop, Advance, Return, disk
<1>7. CASE Unstage(t)
  BY <1>0, <1>7 DEF Unstage, Goto, Loop, Advance, Return, disk
<1>8. CASE DropStaging(t)
  BY <1>0, <1>8 DEF DropStaging, Goto, Loop, Advance, Return, disk
<1>9. CASE Swap(t)
  BY <1>0, <1>9 DEF Swap, Rollback, Goto, Loop, Advance, Return, disk
<1>10. CASE Promote(t)
  BY <1>0, <1>10 DEF Promote, Rollback, Goto, Loop, Advance, Return, disk
<1>11. CASE Restore(t)
  BY <1>0, <1>11 DEF Restore, Goto, Loop, Advance, Return, disk
<1>12. CASE UnstageRest(t)
  BY <1>0, <1>12 DEF UnstageRest, Goto, Loop, Advance, Return, disk
<1>13. CASE RestoreLast(t)
  BY <1>0, <1>13 DEF RestoreLast, Lookup, Goto, Loop, Advance, Return, disk
<1>14. CASE DropRollback(t)
  BY <1>0, <1>14 DEF DropRollback, Goto, Loop, Advance, Return, disk
<1>15. CASE RemoveBackup(t)
  BY <1>0, <1>15 DEF RemoveBackup, Goto, Loop, Advance, Return, disk
<1>16. CASE DropDone(t)
  BY <1>0, <1>16 DEF DropDone, Goto, Loop, Advance, Return, disk
<1> QED
  BY <1>1, <1>2, <1>3, <1>4, <1>5, <1>6, <1>7, <1>8, <1>9, <1>10, <1>11, <1>12, <1>13,
     <1>14, <1>15, <1>16 DEF PersistStep

\* Every step of a transactor keeps mutual exclusion.
LEMMA TxStepExcl ==
  ASSUME TakeTurns, TypeInv, ExclInv, NEW t \in Tx, PersistStep(t)
  PROVE  ExclInv'
<1>1. OthersAlone(t) /\ ControlStep(t)
  BY TxStepFrame, TxStepControl
<1>2. rpc = "idle" /\ \A u \in Tx : Running(u) => u = t
  BY <1>1 DEF ExclInv, ControlStep
<1>3. \A u \in Tx : Running(u)' => u = t
  BY <1>1, <1>2 DEF OthersAlone, Running
<1>4. \A u \in Tx : Live(u)' /\ u # t => Live(u)
  BY <1>1 DEF OthersAlone, Live, Running
<1>5. \A u \in Tx : Live(t)' /\ Live(u) /\ Root[u] = Root[t] => u = t
  BY <1>1 DEF ExclInv, ControlStep, Live, Running
<1>6. \A u, v \in Tx : Live(u)' /\ Live(v)' /\ Root[u] = Root[v] => u = v
  BY <1>4, <1>5 DEF ExclInv
<1>7. \A u \in Tx : Running(u)' /\ pc'[u] \notin {"pendcheck", "verify", "jprepared"} =>
        journal'[u] # "none"
  BY <1>1, <1>3 DEF ExclInv, ControlStep, Running
<1>8. /\ \A u \in Tx : pc'[u] = "idle" => journal'[u] = "none"
      /\ \A u \in Tx : writing'[u] => pc'[u] \in JournalSites /\ journal'[u] # "none"
      /\ rpc' = "idle" /\ ~rwriting'
  BY <1>1, <1>2 DEF ExclInv, ControlStep, OthersAlone, Running, JournalSites, recv
<1> QED BY <1>3, <1>6, <1>7, <1>8 DEF ExclInv

\* Recovery touches only the disk entries of the transaction in hand, and keeps its
\* journal until it answers.
RecoverControl ==
  /\ rpc # "idle"
  /\ UNCHANGED <<procs, rtx>>
  /\ \A u \in Tx \ {rtx} :
       journal'[u] = journal[u] /\ stage'[u] = stage[u] /\ bak'[u] = bak[u]
  /\ journal[rtx] # "none" /\ rpc' # "idle" => journal'[rtx] # "none"
  /\ rwriting' => rpc' \in {"jpromoted", "jrdone"}

\* Each call of recover_one moves as RecoverControl says.
LEMMA RecoverStepControl ==
  ASSUME TypeInv, RecoverStep, rwriting => rpc \in {"jpromoted", "jrdone"}
  PROVE  RecoverControl
<1> USE DEF TypeInv, TypeOK, DiskOK, RecoverOK, RecoverControl
<1>1. CASE ReadJournal
  BY <1>1 DEF ReadJournal, Answer, RGoto, RLoop, Put, disk, recframe
<1>2. CASE Classify
  BY <1>2 DEF Classify, Decide, Answer, RGoto, RLoop, Put, disk, recframe
<1>3. CASE CleanStage
  BY <1>3 DEF CleanStage, Answer, RGoto, RLoop, Put, disk, recframe
<1>4. CASE CleanBak
  BY <1>4 DEF CleanBak, Answer, RGoto, RLoop, Put, disk, recframe
<1>5. CASE CleanJournal
  BY <1>5 DEF CleanJournal, Answer, RGoto, RLoop, Put, disk, recframe
<1>6. CASE CheckStage
  BY <1>6 DEF CheckStage, Answer, RGoto, RLoop, Put, disk, recframe
<1>7. CASE RecoverSwap
  BY <1>7 DEF RecoverSwap, Answer, RGoto, RLoop, Put, disk, recframe
<1>8. CASE RecoverPromote
  BY <1>8 DEF RecoverPromote, Answer, RGoto, RLoop, Put, disk, recframe
<1>9. CASE RecoverJournalCreate
  BY <1>9 DEF RecoverJournalCreate, RecoverAfterJournal, Answer, RGoto, RLoop, Put, disk, recframe
<1>10. CASE RecoverJournalWrite
  BY <1>10 DEF RecoverJournalWrite, RecoverAfterJournal, Answer, RGoto, RLoop, Put, disk, recframe
<1>11. CASE RecoverRemoveBackup
  BY <1>11 DEF RecoverRemoveBackup, Answer, RGoto, RLoop, Put, disk, recframe
<1>12. CASE RecoverDrop
  BY <1>12 DEF RecoverDrop, Answer, RGoto, RLoop, Put, disk, recframe
<1> QED
  BY <1>1, <1>2, <1>3, <1>4, <1>5, <1>6, <1>7, <1>8, <1>9, <1>10, <1>11, <1>12 DEF RecoverStep

\* Every other step keeps mutual exclusion too.
LEMMA OtherStepExcl ==
  ASSUME TakeTurns, TypeInv, ExclInv,
         \/ \E t \in Tx : Start(t) \/ RecoverStart(t) \/ Crash(t)
         \/ RecoverStep \/ RecoverCrash
         \/ \E f \in Files : Edit(f)
         \/ UNCHANGED vars
  PROVE  ExclInv'
<1> USE DEF TypeInv, TypeOK, DiskOK, ProcsOK, RecoverOK
<1>1. ASSUME NEW t \in Tx, Start(t) PROVE ExclInv'
  BY <1>1 DEF Start, Goto, Quiet, TakeTurns, ExclInv, Running, Live, disk, recv, JournalSites
<1>2. ASSUME NEW t \in Tx, RecoverStart(t) PROVE ExclInv'
  BY <1>2 DEF RecoverStart, Quiet, TakeTurns, ExclInv, Running, Live, disk, procs
<1>3. ASSUME NEW t \in Tx, Crash(t) PROVE ExclInv'
  BY <1>3 DEF Crash, Goto, ExclInv, Running, Live, disk, recv, JournalSites
<1>4. CASE RecoverStep
  <2>1. RecoverControl
    BY <1>4, RecoverStepControl DEF ExclInv
  <2>2. \A u \in Tx : ~Running(u)
    BY <2>1 DEF RecoverControl, ExclInv
  <2>3. \A u \in Tx : ~Running(u)' /\ (Live(u)' => Live(u))
    BY <2>1, <2>2 DEF RecoverControl, ExclInv, Live, Running, procs
  <2>4. \A t, u \in Tx : Live(t)' /\ Live(u)' /\ Root[t] = Root[u] => t = u
    BY <2>3 DEF ExclInv
  <2>5. /\ \A t \in Tx : pc'[t] = "idle" => journal'[t] = "none"
        /\ \A t \in Tx : writing'[t] => pc'[t] \in JournalSites /\ journal'[t] # "none"
    BY <2>1, <2>2 DEF RecoverControl, ExclInv, procs, Running, JournalSites
  <2> QED
    BY <2>1, <2>3, <2>4, <2>5 DEF RecoverControl, ExclInv
<1>5. CASE RecoverCrash
  BY <1>5 DEF RecoverCrash, ExclInv, Running, Live, disk, procs
<1>6. ASSUME NEW f \in Files, Edit(f) PROVE ExclInv'
  BY <1>6 DEF Edit, ExclInv, Running, Live, procs, recv
<1>7. CASE UNCHANGED vars
  BY <1>7 DEF vars, disk, procs, recv, ExclInv, Running, Live
<1> QED BY <1>1, <1>2, <1>3, <1>4, <1>5, <1>6, <1>7

-----------------------------------------------------------------------------
(* Where bytes come from *)

\* What Put stores, and where.
LEMMA PutAt ==
  ASSUME NEW fs \in [Tx -> [Files -> Content]], NEW t \in Tx, NEW f \in Files, NEW c
  PROVE  \A u \in Tx, g \in Files :
           Put(fs, t, f, c)[u][g] = IF u = t /\ g = f THEN c ELSE fs[u][g]
  BY DEF Put

\* A process moves bytes between the live file, the staged file and the backup of
\* one transaction, and writes only that transaction's bytes.
BytesStep(t) ==
  \A f \in Files :
    /\ stage'[t][f] \in {stage[t][f], "missing", "partial", t}
    /\ dest'[f] \in {dest[f], "missing", stage[t][f], bak[t][f]}
    /\ bak'[t][f] \in {bak[t][f], "missing", dest[f]}

\* Each call of persist_tx moves bytes so, and swaps in files of its plan only.
LEMMA TxStepBytes ==
  ASSUME TypeInv, NEW t \in Tx, PersistStep(t)
  PROVE  BytesStep(t) /\ (swapped[t] \subseteq FilesOf[t] => swapped'[t] \subseteq FilesOf[t])
<1> USE DEF TypeInv, TypeOK, DiskOK, ProcsOK, BytesStep
<1>1. CASE CheckPending(t)
  BY <1>1 DEF CheckPending, Lookup, Put, disk, Unswapped
<1>2. CASE VerifyFile(t)
  BY <1>2 DEF VerifyFile, Put, disk, Unswapped
<1>3. CASE JournalCreate(t)
  BY <1>3 DEF JournalCreate, Put, disk, Unswapped
<1>4. CASE JournalWrite(t)
  BY <1>4 DEF JournalWrite, Put, disk, Unswapped
<1>5. CASE StageCreate(t)
  BY <1>5 DEF StageCreate, Put, disk, Unswapped
<1>6. CASE StageWrite(t)
  BY <1>6 DEF StageWrite, Put, disk, Unswapped
<1>7. CASE Unstage(t)
  BY <1>7 DEF Unstage, Put, disk, Unswapped
<1>8. CASE DropStaging(t)
  BY <1>8 DEF DropStaging, Put, disk, Unswapped
<1>9. CASE Swap(t)
  BY <1>9 DEF Swap, Put, disk, Unswapped
<1>10. CASE Promote(t)
  BY <1>10 DEF Promote, Put, disk, Unswapped
<1>11. CASE Restore(t)
  BY <1>11 DEF Restore, Put, disk, Unswapped
<1>12. CASE UnstageRest(t)
  BY <1>12 DEF UnstageRest, Put, disk, Unswapped
<1>13. CASE RestoreLast(t)
  BY <1>13 DEF RestoreLast, Lookup, Put, disk, Unswapped
<1>14. CASE DropRollback(t)
  BY <1>14 DEF DropRollback, Put, disk, Unswapped
<1>15. CASE RemoveBackup(t)
  BY <1>15 DEF RemoveBackup, Put, disk, Unswapped
<1>16. CASE DropDone(t)
  BY <1>16 DEF DropDone, Put, disk, Unswapped
<1> QED
  BY <1>1, <1>2, <1>3, <1>4, <1>5, <1>6, <1>7, <1>8, <1>9, <1>10, <1>11, <1>12, <1>13,
     <1>14, <1>15, <1>16 DEF PersistStep

\* So does each call of recover_one.
LEMMA RecoverStepBytes ==
  ASSUME TypeInv, RecoverStep
  PROVE  BytesStep(rtx)
<1> USE DEF TypeInv, TypeOK, DiskOK, RecoverOK, BytesStep
<1>1. CASE ReadJournal
  BY <1>1 DEF ReadJournal, Put, disk
<1>2. CASE Classify
  BY <1>2 DEF Classify, Put, disk
<1>3. CASE CleanStage
  BY <1>3 DEF CleanStage, Put, disk
<1>4. CASE CleanBak
  BY <1>4 DEF CleanBak, Put, disk
<1>5. CASE CleanJournal
  BY <1>5 DEF CleanJournal, Put, disk
<1>6. CASE CheckStage
  BY <1>6 DEF CheckStage, Put, disk
<1>7. CASE RecoverSwap
  <2>1. PICK f \in rpending :
          \/ UNCHANGED <<dest, bak>>
          \/ bak' = Put(bak, rtx, f, dest[f]) /\ dest' = [dest EXCEPT ![f] = "missing"]
    BY <1>7 DEF RecoverSwap
  <2>2. f \in Files /\ UNCHANGED stage
    BY <1>7 DEF RecoverSwap
  <2> QED BY SMTT(60), <2>1, <2>2, PutAt
<1>8. CASE RecoverPromote
  <2>1. PICK f \in rpending :
          \/ UNCHANGED <<dest, stage>>
          \/ stage' = Put(stage, rtx, f, "missing") /\ dest' = [dest EXCEPT ![f] = stage[rtx][f]]
    BY <1>8 DEF RecoverPromote
  <2>2. f \in Files /\ UNCHANGED bak
    BY <1>8 DEF RecoverPromote
  <2> QED BY <2>1, <2>2, PutAt
<1>9. CASE RecoverJournalCreate
  BY <1>9 DEF RecoverJournalCreate, Put, disk
<1>10. CASE RecoverJournalWrite
  BY <1>10 DEF RecoverJournalWrite, Put, disk
<1>11. CASE RecoverRemoveBackup
  BY <1>11 DEF RecoverRemoveBackup, Put, disk
<1>12. CASE RecoverDrop
  BY <1>12 DEF RecoverDrop, Put, disk
<1> QED
  BY <1>1, <1>2, <1>3, <1>4, <1>5, <1>6, <1>7, <1>8, <1>9, <1>10, <1>11, <1>12 DEF RecoverStep

\* A step that moves bytes of a transaction that has started keeps ContentInv.
LEMMA BytesKeepContent ==
  ASSUME TypeInv, ContentInv, NEW t \in Tx, BytesStep(t), pc[t] # "idle",
         \A u \in Tx \ {t} : stage'[u] = stage[u] /\ bak'[u] = bak[u],
         \A u \in Tx : pc'[u] = "idle" <=> pc[u] = "idle",
         UNCHANGED before, \A u \in Tx : swapped'[u] \subseteq FilesOf[u]
  PROVE  ContentInv'
<1> USE DEF TypeInv, TypeOK, DiskOK, ProcsOK
<1>1. ASSUME NEW u \in Tx, NEW f \in Files
      PROVE  stage'[u][f] \in {"missing", "partial", u}
  <2>1. stage[u][f] \in {"missing", "partial", u}
    BY DEF ContentInv
  <2>2. CASE u = t
    <3>1. stage'[t][f] \in {stage[t][f], "missing", "partial", t}
      BY DEF BytesStep
    <3> QED BY <2>1, <2>2, <3>1
  <2> QED BY <2>1, <2>2
<1>2. ASSUME NEW u \in Tx, pc'[u] = "idle", NEW f \in Files
      PROVE  /\ dest'[f] # u /\ bak'[u][f] = "missing"
             /\ \A v \in Tx : bak'[v][f] # u
  <2>1. u # t /\ pc[u] = "idle" /\ u # "missing" /\ u # "partial"
    BY <1>2
  <2>2. dest[f] # u /\ bak[u][f] = "missing" /\ \A v \in Tx : bak[v][f] # u
    BY <2>1 DEF ContentInv
  <2>3. stage[t][f] # u
    BY <2>1 DEF ContentInv
  <2>4. /\ dest'[f] \in {dest[f], "missing", stage[t][f], bak[t][f]}
        /\ bak'[t][f] \in {bak[t][f], "missing", dest[f]}
    BY DEF BytesStep
  <2>5. \A v \in Tx : bak'[v][f] # u
    BY <2>1, <2>2, <2>4
  <2> QED BY <2>1, <2>2, <2>3, <2>4, <2>5
<1> QED BY <1>1, <1>2 DEF ContentInv

\* Every step keeps ContentInv.
LEMMA StepContent ==
  ASSUME TakeTurns, TypeInv, ExclInv, ContentInv, [Next]_vars
  PROVE  ContentInv'
<1> USE DEF TypeInv, TypeOK, DiskOK, ProcsOK, RecoverOK
<1>1. ASSUME NEW t \in Tx, PersistStep(t) PROVE ContentInv'
  <2>1. OthersAlone(t) /\ ControlStep(t) /\ UNCHANGED before
    BY <1>1, TxStepFrame, TxStepControl
  <2>2. \A u \in Tx : swapped'[u] \subseteq FilesOf[u]
    <3>1. \A u \in Tx : swapped[u] \subseteq FilesOf[u]
      BY DEF ContentInv
    <3>2. swapped'[t] \subseteq FilesOf[t]
      BY <1>1, <3>1, TxStepBytes
    <3>3. \A u \in Tx \ {t} : swapped'[u] = swapped[u]
      BY <2>1 DEF OthersAlone
    <3> QED BY <3>1, <3>2, <3>3
  <2>3. pc[t] # "idle" /\ \A u \in Tx : pc'[u] = "idle" <=> pc[u] = "idle"
    BY <2>1 DEF OthersAlone, ControlStep, Running
  <2> QED BY <1>1, <2>1, <2>2, <2>3, TxStepBytes, BytesKeepContent DEF OthersAlone
<1>2. CASE RecoverStep
  <2>1. RecoverControl
    BY <1>2, RecoverStepControl DEF ExclInv
  <2>2. pc[rtx] # "idle"
    BY <2>1 DEF RecoverControl, ExclInv
  <2> QED
    BY <1>2, <2>1, <2>2, RecoverStepBytes, BytesKeepContent
    DEF RecoverControl, procs, ContentInv
<1>3. ASSUME NEW t \in Tx, Start(t) PROVE ContentInv'
  BY <1>3 DEF Start, Goto, ContentInv, disk
<1>4. ASSUME NEW t \in Tx, RecoverStart(t) \/ Crash(t) PROVE ContentInv'
  <2>1. UNCHANGED <<disk, before, swapped>>
    BY <1>4 DEF RecoverStart, Crash, procs
  <2>2. \A u \in Tx : pc'[u] = "idle" <=> pc[u] = "idle"
    BY <1>4 DEF RecoverStart, Crash, Goto, Running, procs
  <2> QED BY <2>1, <2>2 DEF ContentInv, disk
<1>5. CASE RecoverCrash \/ UNCHANGED vars
  BY <1>5 DEF RecoverCrash, vars, ContentInv, disk, procs
<1>6. ASSUME NEW f \in Files, Edit(f) PROVE ContentInv'
  BY <1>6 DEF Edit, ContentInv, procs
<1> QED BY <1>1, <1>2, <1>3, <1>4, <1>5, <1>6 DEF Next

-----------------------------------------------------------------------------
(* The bytes *)

\* The old bytes of f are live or in the backup, which holds nothing else.
KeptFile(t, f) ==
  before[t][f] \in {dest[f], bak[t][f]} /\ bak[t][f] \in {"missing", before[t][f]}

Kept(t) == \A f \in FilesOf[t] : KeptFile(t, f)

\* A file of the plan: as it was, replaced, or moved aside between two calls.
UntouchedFile(t, f) == dest[f] = before[t][f] /\ bak[t][f] = "missing"
SwappedFile(t, f)   == dest[f] = t /\ bak[t][f] = before[t][f]
OpenFile(t, f)      == dest[f] = "missing" /\ bak[t][f] = before[t][f]

\* What the live files and backups of a running transaction look like at each
\* point of persist_tx.
TxShape(t) ==
  /\ pc[t] = "idle" => swapped[t] = {}
  /\ pc[t] \in {"pendcheck", "verify", "jprepared", "stage", "stagewrite", "unstage",
                "dropstaging", "jstaged", "jswapping"} =>
       swapped[t] = {} /\ \A f \in FilesOf[t] : UntouchedFile(t, f)
  /\ pc[t] \in {"swap", "promote", "jswapped"} =>
       \A f \in FilesOf[t] :
         IF f \in swapped[t] THEN SwappedFile(t, f)
         ELSE IF pc[t] = "promote" /\ IsNext(f, Unswapped(t)) THEN OpenFile(t, f)
         ELSE UntouchedFile(t, f)
  /\ pc[t] \in {"restore", "unstagerest", "restorelast"} =>
       /\ Kept(t)
       /\ \A f \in Unswapped(t) :
            UntouchedFile(t, f) \/ (IsNext(f, Unswapped(t)) /\ OpenFile(t, f))
  /\ pc[t] = "restore" => todo[t] \subseteq swapped[t]
  /\ pc[t] = "restore" /\ ~errs[t] =>
       \A f \in swapped[t] \ todo[t] : dest[f] = before[t][f]
  /\ pc[t] \in {"unstagerest", "restorelast"} /\ ~errs[t] =>
       \A f \in swapped[t] : dest[f] = before[t][f]
  /\ pc[t] = "droprollback" => AllBefore(t) /\ Kept(t)
  /\ pc[t] \in {"finalize", "jdone", "dropdone"} => AllAfter(t)

\* A transaction can be put back, or has been put through.
Whole(t) == Kept(t) \/ AllAfter(t)

\* What a transaction that no longer runs has left.
LeftShape(t) ==
  ~Running(t) /\ journal[t] # "none" => Whole(t)

\* Each file recovery has classified is as it was classified.
Classified(S) ==
  /\ rpending \subseteq S
  /\ \A f \in S : IF f \in rpending THEN dest[f] = before[rtx][f] ELSE dest[f] = rtx

\* The same at each point of recover_one.
RecoverShape ==
  /\ rpc # "idle" => rtodo \subseteq FilesOf[rtx] /\ rpending \subseteq FilesOf[rtx]
  /\ rpc = "read" => rpending = {} /\ rany = FALSE
  /\ rpc = "classify" =>
       /\ Classified(FilesOf[rtx] \ rtodo)
       /\ rany \/ rpending = FilesOf[rtx] \ rtodo
  /\ rpc \in {"cleanstage", "cleanbak", "cleanjournal"} =>
       IF rpending = {} THEN AllAfter(rtx) ELSE AllBefore(rtx)
  /\ rpc \in {"checkstage", "rswap", "jpromoted"} =>
       Kept(rtx) /\ Classified(FilesOf[rtx])
  /\ rpc = "rswap" =>
       \A f \in rpending : IsNext(f, rpending) => stage[rtx][f] = rtx
  /\ rpc = "rpromote" =>
       /\ Kept(rtx)
       /\ \A f \in FilesOf[rtx] :
            IF f \notin rpending THEN dest[f] = rtx
            ELSE IF IsNext(f, rpending) THEN dest[f] = "missing" /\ stage[rtx][f] = rtx
            ELSE dest[f] = before[rtx][f]
  /\ rpc \in {"rmbaks", "jrdone", "rdrop"} => AllAfter(rtx)

\* All of it, for every transaction and for recovery.
ShapeInv ==
  (\A t \in Tx : TxShape(t) /\ LeftShape(t)) /\ RecoverShape

\* At every point of persist_tx the files can be put back or have been put through.
LEMMA ShapeIsWhole ==
  TypeInv => \A t \in Tx : Running(t) /\ TxShape(t) => Whole(t)
<1> SUFFICES ASSUME TypeInv, NEW t \in Tx, Running(t), TxShape(t)
             PROVE  Whole(t)
  OBVIOUS
<1> USE DEF TypeInv, TypeOK, ProcsOK
<1>1. \A f \in FilesOf[t] : UntouchedFile(t, f) \/ SwappedFile(t, f) \/ OpenFile(t, f) => KeptFile(t, f)
  BY DEF UntouchedFile, SwappedFile, OpenFile, KeptFile
<1>2. pc[t] \in TxPcs \ {"idle", "returned", "dead"}
  BY DEF Running
<1>3. CASE pc[t] \in {"pendcheck", "verify", "jprepared", "stage", "stagewrite", "unstage",
                "dropstaging", "jstaged", "jswapping"}
  BY <1>1, <1>3 DEF TxShape, Whole, Kept
<1>4. CASE pc[t] \in {"swap", "promote", "jswapped"}
  BY <1>1, <1>4 DEF TxShape, Whole, Kept
<1>5. CASE pc[t] \in {"restore", "unstagerest", "restorelast", "droprollback"}
  BY <1>5 DEF TxShape, Whole
<1>6. CASE pc[t] \in {"finalize", "jdone", "dropdone"}
  BY <1>6 DEF TxShape, Whole
<1> QED BY <1>2, <1>3, <1>4, <1>5, <1>6 DEF TxPcs, JournalSites

\* The steps that touch no live file and no backup.
LEMMA QuietStepShape ==
  ASSUME TypeInv, NEW t \in Tx, TxShape(t), PersistStep(t), UNCHANGED <<dest, bak>>,
         pc[t] \notin {"swap", "promote", "restore", "restorelast", "finalize"}
  PROVE  TxShape(t)'
<1> USE DEF TypeInv, TypeOK, ProcsOK, TxShape, AllBefore, AllAfter, Kept, KeptFile, UntouchedFile, SwappedFile, OpenFile
<1>1. CASE CheckPending(t)
  BY <1>1 DEF CheckPending, Lookup, Goto, Loop, Advance, Return, Unswapped, JournalSites
<1>2. CASE VerifyFile(t)
  BY <1>2 DEF VerifyFile, Goto, Loop, Advance, Return, Unswapped, JournalSites
<1>3. CASE JournalCreate(t)
  BY <1>3 DEF JournalCreate, AfterJournal, Goto, Loop, Advance, Return, Unswapped, JournalSites
<1>4. CASE JournalWrite(t)
  BY <1>4 DEF JournalWrite, AfterJournal, Goto, Loop, Advance, Return, Unswapped, JournalSites
<1>5. CASE StageCreate(t)
  BY <1>5 DEF StageCreate, Goto, Loop, Advance, Return, Unswapped, JournalSites
<1>6. CASE StageWrite(t)
  BY <1>6 DEF StageWrite, Goto, Loop, Advance, Return, Unswapped, JournalSites
<1>7. CASE Unstage(t)
  BY <1>7 DEF Unstage, Goto, Loop, Advance, Return, Unswapped, JournalSites
<1>8. CASE DropStaging(t)
  BY <1>8 DEF DropStaging, Goto, Loop, Advance, Return, Unswapped, JournalSites
<1>9. CASE UnstageRest(t)
  <2>1. pc[t] = "unstagerest" /\ UNCHANGED <<before, swapped, errs>>
    BY <1>9 DEF UnstageRest
  <2>2. pc'[t] \in {"unstagerest", "restorelast"}
    BY <1>9 DEF UnstageRest, Advance, Loop, Goto
  <2> QED BY <2>1, <2>2 DEF Unswapped
<1>10. CASE DropRollback(t)
  BY <1>10 DEF DropRollback, Goto, Loop, Advance, Return, Unswapped, JournalSites
<1>11. CASE DropDone(t)
  BY <1>11 DEF DropDone, Goto, Loop, Advance, Return, Unswapped, JournalSites
<1> QED BY <1>1, <1>2, <1>3, <1>4, <1>5, <1>6, <1>7, <1>8, <1>9, <1>10, <1>11 DEF PersistStep, Swap, Promote, Restore, RestoreLast, RemoveBackup

\* A rollback starts with every old byte kept and only one file open.
LEMMA RollbackShape ==
  ASSUME TypeInv, NEW t \in Tx, Rollback(t), UNCHANGED <<before, swapped>>,
         Kept(t)',
         \A g \in Unswapped(t) :
           UntouchedFile(t, g)' \/ (IsNext(g, Unswapped(t)) /\ OpenFile(t, g)')
  PROVE  TxShape(t)'
<1> USE DEF TypeInv, TypeOK, ProcsOK
<1>1. \/ pc'[t] = "restore" /\ todo'[t] = swapped[t]
      \/ pc'[t] = "unstagerest" /\ swapped[t] = {}
  BY DEF Rollback, Loop, Goto
<1>2. Unswapped(t)' = Unswapped(t)
  BY DEF Unswapped
<1> QED BY <1>1, <1>2 DEF TxShape

\* dest -> bak, or into the rollback.
LEMMA SwapShape ==
  ASSUME TypeInv, ContentInv, NEW t \in Tx, TxShape(t), Swap(t)
  PROVE  TxShape(t)'
<1> USE DEF TypeInv, TypeOK, DiskOK, ProcsOK
<1>1. pc[t] = "swap" /\ UNCHANGED <<before, swapped, errs>> /\ Unswapped(t)' = Unswapped(t)
  BY DEF Swap, Unswapped
<1>2. PICK f \in Unswapped(t) :
        /\ IsNext(f, Unswapped(t))
        /\ \/ /\ dest[f] # "missing"
              /\ bak' = Put(bak, t, f, dest[f]) /\ dest' = [dest EXCEPT ![f] = "missing"]
              /\ Goto(t, "promote")
           \/ Rollback(t) /\ UNCHANGED <<dest, bak>>
  BY DEF Swap, Rename
<1>3. f \in FilesOf[t] /\ f \in Files /\ f \notin swapped[t]
  BY DEF Unswapped
<1>4. \A g \in FilesOf[t] : IF g \in swapped[t] THEN SwappedFile(t, g) ELSE UntouchedFile(t, g)
  BY <1>1 DEF TxShape
<1>5. CASE bak' = Put(bak, t, f, dest[f]) /\ dest' = [dest EXCEPT ![f] = "missing"] /\ Goto(t, "promote")
  <2>1. pc'[t] = "promote"
    BY <1>5 DEF Goto
  <2>2. \A g \in Files : /\ dest'[g] = IF g = f THEN "missing" ELSE dest[g]
                         /\ bak'[t][g] = IF g = f THEN dest[f] ELSE bak[t][g]
    <3>1. \A g \in Files : Put(bak, t, f, dest[f])[t][g] = IF g = f THEN dest[f] ELSE bak[t][g]
      BY <1>3 DEF Put
    <3> QED BY <1>3, <1>5, <3>1
  <2>3. OpenFile(t, f)'
    BY <1>1, <1>3, <1>4, <2>2 DEF OpenFile, UntouchedFile
  <2>4. ASSUME NEW g \in FilesOf[t], g # f
        PROVE  IF g \in swapped[t] THEN SwappedFile(t, g)' ELSE UntouchedFile(t, g)'
    BY <1>1, <1>4, <2>2, <2>4 DEF SwappedFile, UntouchedFile
  <2>5. \A g \in Unswapped(t) : IsNext(g, Unswapped(t)) => g = f
    BY <1>2, NextIsUnique DEF Unswapped
  <2> QED BY <1>1, <1>2, <1>3, <2>1, <2>3, <2>4, <2>5 DEF TxShape, Unswapped
<1>6. CASE Rollback(t) /\ UNCHANGED <<dest, bak>>
  <2>1. Kept(t)' /\ \A g \in Unswapped(t) : UntouchedFile(t, g)'
    BY <1>1, <1>4, <1>6 DEF Kept, KeptFile, SwappedFile, UntouchedFile, Unswapped
  <2> QED BY <1>1, <1>6, <2>1, RollbackShape
<1> QED BY <1>2, <1>5, <1>6

\* stage -> dest, or into the rollback.
LEMMA PromoteShape ==
  ASSUME TypeInv, StageInv, ContentInv, NEW t \in Tx, TxShape(t), Promote(t)
  PROVE  TxShape(t)'
<1> USE DEF TypeInv, TypeOK, DiskOK, ProcsOK
<1>1. pc[t] = "promote" /\ UNCHANGED <<before, errs, bak>>
  BY DEF Promote
<1>2. PICK f \in Unswapped(t) :
        /\ IsNext(f, Unswapped(t))
        /\ \/ /\ stage[t][f] # "missing"
              /\ dest' = [dest EXCEPT ![f] = stage[t][f]]
              /\ swapped' = [swapped EXCEPT ![t] = @ \cup {f}]
              /\ Goto(t, "jswapped")
           \/ Rollback(t) /\ UNCHANGED <<dest, swapped>>
  BY DEF Promote, Rename
<1>3. f \in FilesOf[t] /\ f \in Files /\ f \notin swapped[t]
  BY DEF Unswapped
<1>4. \A g \in FilesOf[t] :
        IF g \in swapped[t] THEN SwappedFile(t, g)
        ELSE IF g = f THEN OpenFile(t, g) ELSE UntouchedFile(t, g)
  <2>1. \A g \in Unswapped(t) : IsNext(g, Unswapped(t)) => g = f
    BY <1>2, NextIsUnique DEF Unswapped
  <2> QED BY <1>1, <1>2, <1>3, <2>1 DEF TxShape, Unswapped
<1>5. CASE /\ stage[t][f] # "missing"
           /\ dest' = [dest EXCEPT ![f] = stage[t][f]]
           /\ swapped' = [swapped EXCEPT ![t] = @ \cup {f}]
           /\ Goto(t, "jswapped")
  <2>1. pc'[t] = "jswapped" /\ swapped'[t] = swapped[t] \cup {f}
    BY <1>5 DEF Goto
  <2>2. stage[t][f] = t
    BY <1>1, <1>3, <1>5 DEF StageInv, ContentInv
  <2>3. \A g \in Files : dest'[g] = IF g = f THEN t ELSE dest[g]
    BY <1>3, <1>5, <2>2
  <2>4. \A g \in FilesOf[t] :
          IF g \in swapped'[t] THEN SwappedFile(t, g)' ELSE UntouchedFile(t, g)'
    BY <1>1, <1>3, <1>4, <2>1, <2>3 DEF SwappedFile, OpenFile, UntouchedFile
  <2> QED BY <2>1, <2>4 DEF TxShape
<1>6. CASE Rollback(t) /\ UNCHANGED <<dest, swapped>>
  <2>1. Kept(t)'
    BY <1>1, <1>4, <1>6 DEF Kept, KeptFile, SwappedFile, OpenFile, UntouchedFile
  <2>2. \A g \in Unswapped(t) : UntouchedFile(t, g)' \/ (IsNext(g, Unswapped(t)) /\ OpenFile(t, g)')
    BY <1>1, <1>2, <1>4, <1>6 DEF OpenFile, UntouchedFile, Unswapped
  <2> QED BY <1>1, <1>6, <2>1, <2>2, RollbackShape
<1> QED BY <1>2, <1>5, <1>6

\* bak -> dest for a swapped file.
LEMMA RestoreShape ==
  ASSUME TypeInv, ContentInv, NEW t \in Tx, TxShape(t), Restore(t)
  PROVE  TxShape(t)'
<1> USE DEF TypeInv, TypeOK, DiskOK, ProcsOK
<1>1. pc[t] = "restore" /\ UNCHANGED <<before, swapped>> /\ Unswapped(t)' = Unswapped(t)
  BY DEF Restore, Unswapped
<1>2. PICK f \in todo[t] :
        /\ \/ /\ bak[t][f] # "missing"
              /\ dest' = [dest EXCEPT ![f] = bak[t][f]] /\ bak' = Put(bak, t, f, "missing")
              /\ UNCHANGED errs
           \/ errs' = [errs EXCEPT ![t] = TRUE] /\ UNCHANGED <<dest, bak>>
        /\ Advance(t, f, "unstagerest", Unswapped(t))
  BY DEF Restore, Rename
<1>3. f \in swapped[t] /\ f \in FilesOf[t] /\ f \in Files /\ f \notin Unswapped(t)
  BY <1>1 DEF TxShape, ContentInv, Unswapped
<1>4. \/ pc'[t] = "restore" /\ todo'[t] = todo[t] \ {f}
      \/ pc'[t] = "unstagerest" /\ todo[t] = {f}
  BY <1>1, <1>2 DEF Advance, Loop, Goto
<1>5. CASE /\ bak[t][f] # "missing"
           /\ dest' = [dest EXCEPT ![f] = bak[t][f]] /\ bak' = Put(bak, t, f, "missing")
           /\ UNCHANGED errs
  <2>1. \A g \in Files : /\ dest'[g] = IF g = f THEN before[t][f] ELSE dest[g]
                         /\ bak'[t][g] = IF g = f THEN "missing" ELSE bak[t][g]
    <3>1. \A g \in Files : Put(bak, t, f, "missing")[t][g] = IF g = f THEN "missing" ELSE bak[t][g]
      BY <1>3 DEF Put
    <3>2. bak[t][f] = before[t][f]
      BY <1>1, <1>3, <1>5 DEF TxShape, Kept, KeptFile
    <3> QED BY <1>3, <1>5, <3>1, <3>2
  <2>2. Kept(t)' /\ \A g \in Unswapped(t) :
          UntouchedFile(t, g)' \/ (IsNext(g, Unswapped(t)) /\ OpenFile(t, g)')
    BY ZenonT(60), <1>1, <1>3, <2>1 DEF TxShape, Kept, KeptFile, UntouchedFile, OpenFile, Unswapped
  <2>3. ~errs'[t] => \A g \in swapped[t] \ (todo[t] \ {f}) : dest'[g] = before[t][g]
    BY <1>1, <1>3, <1>5, <2>1 DEF TxShape, ContentInv
  <2> QED BY <1>1, <1>4, <2>2, <2>3 DEF TxShape
<1>6. CASE errs' = [errs EXCEPT ![t] = TRUE] /\ UNCHANGED <<dest, bak>>
  BY <1>1, <1>4, <1>6 DEF TxShape, Kept, KeptFile, UntouchedFile, OpenFile
<1> QED BY <1>2, <1>5, <1>6

\* bak -> dest for the file whose swap failed.
LEMMA RestoreLastShape ==
  ASSUME TypeInv, ContentInv, ~LookupFails, NEW t \in Tx, TxShape(t), RestoreLast(t)
  PROVE  TxShape(t)' /\ Whole(t)'
<1> USE DEF TypeInv, TypeOK, DiskOK, ProcsOK
<1>1. pc[t] = "restorelast" /\ UNCHANGED <<before, swapped>> /\ Unswapped(t)' = Unswapped(t)
  BY DEF RestoreLast, Unswapped
<1>2. PICK f \in Unswapped(t), ok \in BOOLEAN :
        /\ IsNext(f, Unswapped(t))
        /\ bak[t][f] = "missing" => ok
        /\ IF Rename(bak[t][f], ok)
             THEN dest' = [dest EXCEPT ![f] = bak[t][f]] /\ bak' = Put(bak, t, f, "missing")
             ELSE UNCHANGED <<dest, bak>>
        /\ IF ~ok \/ errs[t] THEN Return(t, "RecoveryRequired") ELSE Goto(t, "droprollback")
  BY DEF RestoreLast, Lookup
<1>3. f \in FilesOf[t] /\ f \in Files /\ f \notin swapped[t]
  BY DEF Unswapped
<1>4. pc'[t] \in {"returned", "droprollback"} /\ (pc'[t] = "droprollback" => ok /\ ~errs[t])
  BY <1>2 DEF Return, Goto
<1>5. Kept(t) /\ \A g \in Unswapped(t) : g # f => UntouchedFile(t, g)
  BY <1>1, <1>2, NextIsUnique DEF TxShape, Unswapped
<1>6. UntouchedFile(t, f) \/ OpenFile(t, f)
  BY <1>1, <1>2 DEF TxShape
<1>7. before[t][f] # "missing"
  BY <1>1, <1>3 DEF ContentInv
<1>8. CASE Rename(bak[t][f], ok)
  <2>1. \A g \in Files : /\ dest'[g] = IF g = f THEN before[t][f] ELSE dest[g]
                         /\ bak'[t][g] = IF g = f THEN "missing" ELSE bak[t][g]
    <3>1. \A g \in Files : Put(bak, t, f, "missing")[t][g] = IF g = f THEN "missing" ELSE bak[t][g]
      BY <1>3 DEF Put
    <3>2. bak[t][f] = before[t][f]
      BY <1>3, <1>5, <1>8 DEF Rename, Kept, KeptFile
    <3> QED BY <1>2, <1>3, <1>8, <3>1, <3>2
  <2>2. Kept(t)'
    BY <1>1, <1>5, <2>1 DEF Kept, KeptFile
  <2>3. ~errs[t] => AllBefore(t)'
    BY <1>1, <1>5, <2>1 DEF TxShape, AllBefore, UntouchedFile, Unswapped
  <2> QED BY <1>4, <2>2, <2>3 DEF TxShape, Whole
<1>9. CASE ~Rename(bak[t][f], ok)
  <2>1. Kept(t)'
    BY <1>1, <1>2, <1>5, <1>9 DEF Kept, KeptFile
  <2>2. ok => UntouchedFile(t, f)
    BY <1>6, <1>7, <1>9 DEF Rename, OpenFile
  <2>3. ok /\ ~errs[t] => AllBefore(t)'
    BY <1>1, <1>2, <1>5, <1>9, <2>2 DEF TxShape, AllBefore, UntouchedFile, Unswapped
  <2> QED BY <1>4, <2>1, <2>3 DEF TxShape, Whole
<1> QED BY <1>8, <1>9

\* Removing a backup once every file holds its new bytes.
LEMMA RemoveBackupShape ==
  ASSUME TypeInv, NEW t \in Tx, TxShape(t), RemoveBackup(t)
  PROVE  TxShape(t)'
<1> USE DEF TypeInv, TypeOK, ProcsOK
<1>1. pc[t] = "finalize" /\ UNCHANGED <<dest, before>>
  BY DEF RemoveBackup
<1>2. PICK f : Advance(t, f, "jdone", {})
  BY DEF RemoveBackup
<1>3. pc'[t] \in {"finalize", "jdone"}
  BY <1>1, <1>2 DEF Advance, Loop, Goto
<1> QED BY <1>1, <1>3 DEF TxShape, AllAfter

\* Every step of a transactor.
LEMMA TxStepShape ==
  ASSUME TypeInv, WholeInv, ContentInv, ~LookupFails, NEW t \in Tx, TxShape(t), PersistStep(t)
  PROVE  TxShape(t)'
<1>1. CASE Swap(t) \/ Promote(t) \/ Restore(t) \/ RestoreLast(t) \/ RemoveBackup(t)
  BY <1>1, SwapShape, PromoteShape, RestoreShape, RestoreLastShape, RemoveBackupShape DEF WholeInv
<1>2. CASE ~(Swap(t) \/ Promote(t) \/ Restore(t) \/ RestoreLast(t) \/ RemoveBackup(t))
  <2>1. UNCHANGED <<dest, bak>>
    BY <1>2 DEF PersistStep, CheckPending, VerifyFile, JournalCreate, JournalWrite,
                StageCreate, StageWrite, Unstage, DropStaging, UnstageRest, DropRollback,
                DropDone, disk
  <2>2. pc[t] \notin {"swap", "promote", "restore", "restorelast", "finalize"}
    BY <1>2 DEF PersistStep, CheckPending, VerifyFile, JournalCreate, JournalWrite,
                StageCreate, StageWrite, Unstage, DropStaging, UnstageRest, DropRollback,
                DropDone, AfterJournal, JournalSites
  <2> QED BY <2>1, <2>2, QuietStepShape
<1> QED BY <1>1, <1>2

\* What persist_tx has done when it returns.
Returned(t) ==
  \/ /\ ret'[t] \in {"Prepare", "Staging"}
     /\ AllBefore(t) /\ UNCHANGED <<dest, bak>>
  \/ /\ ret'[t] = "Commit"
     /\ AllBefore(t) \/ AllAfter(t)
     /\ UNCHANGED <<dest, bak>>
  \/ /\ ret'[t] = "ok"
     /\ AllAfter(t) /\ UNCHANGED <<dest, bak>>
  \/ /\ ret'[t] = "RecoveryRequired"
     /\ pc[t] = "restorelast" /\ UNCHANGED journal

\* It returns at the end of the path it took, and nowhere else.
LEMMA TxStepReturns ==
  ASSUME TypeInv, ExclInv, NEW t \in Tx, TxShape(t), PersistStep(t)
  PROVE  IF Running(t)' THEN ret'[t] = ret[t] ELSE Returned(t)
<1> USE DEF TypeInv, TypeOK, ProcsOK, Running, Returned, TxShape, JournalSites, AllBefore, UntouchedFile
<1>0. writing[t] => pc[t] \in JournalSites
  BY DEF ExclInv
<1>1. CASE CheckPending(t)
  BY <1>0, <1>1 DEF CheckPending, Lookup, Goto, Loop, Advance, Return, disk
<1>2. CASE VerifyFile(t)
  BY <1>0, <1>2 DEF VerifyFile, Goto, Loop, Advance, Return, disk
<1>3. CASE JournalCreate(t)
  BY <1>0, <1>3 DEF JournalCreate, AfterJournal, Goto, Loop, Advance, Return, disk
<1>4. CASE JournalWrite(t)
  BY <1>0, <1>4 DEF JournalWrite, AfterJournal, Goto, Loop, Advance, Return, disk
<1>5. CASE StageCreate(t)
  BY <1>0, <1>5 DEF StageCreate, Goto, Loop, Advance, Return, disk
<1>6. CASE StageWrite(t)
  BY <1>0, <1>6 DEF StageWrite, Goto, Loop, Advance, Return, disk
<1>7. CASE Unstage(t)
  BY <1>0, <1>7 DEF Unstage, Goto, Loop, Advance, Return, disk
<1>8. CASE DropStaging(t)
  BY <1>0, <1>8 DEF DropStaging, Goto, Loop, Advance, Return, disk
<1>9. CASE Swap(t)
  BY <1>0, <1>9 DEF Swap, Rollback, Goto, Loop, Advance, Return, disk
<1>10. CASE Promote(t)
  BY <1>0, <1>10 DEF Promote, Rollback, Goto, Loop, Advance, Return, disk
<1>11. CASE Restore(t)
  BY <1>0, <1>11 DEF Restore, Goto, Loop, Advance, Return, disk
<1>12. CASE UnstageRest(t)
  BY <1>0, <1>12 DEF UnstageRest, Goto, Loop, Advance, Return, disk
<1>13. CASE RestoreLast(t)
  BY <1>0, <1>13 DEF RestoreLast, Goto, Loop, Advance, Return, disk
<1>14. CASE DropRollback(t)
  BY <1>0, <1>14 DEF DropRollback, Goto, Loop, Advance, Return, disk
<1>15. CASE RemoveBackup(t)
  BY <1>0, <1>15 DEF RemoveBackup, Goto, Loop, Advance, Return, disk
<1>16. CASE DropDone(t)
  BY <1>0, <1>16 DEF DropDone, Goto, Loop, Advance, Return, disk
<1> QED
  BY <1>1, <1>2, <1>3, <1>4, <1>5, <1>6, <1>7, <1>8, <1>9, <1>10, <1>11, <1>12, <1>13, <1>14, <1>15, <1>16 DEF PersistStep

-----------------------------------------------------------------------------
(* Recovery *)

\* The steps of recovery that touch no live file and no backup.
LEMMA RecoverQuietShape ==
  ASSUME TypeInv, ExclInv, RecoverShape, Whole(rtx), rpc # "idle",
         UNCHANGED <<dest, bak, before, rtx>>,
         \A f \in FilesOf[rtx] : before[rtx][f] \notin {rtx, "missing"},
         \/ ReadJournal \/ Classify \/ CleanStage \/ CleanJournal \/ CheckStage
         \/ RecoverJournalCreate \/ RecoverJournalWrite \/ RecoverDrop
  PROVE  RecoverShape'
<1> USE DEF TypeInv, TypeOK, RecoverOK, RecoverShape, Classified, AllBefore, AllAfter, Kept, KeptFile
<1>1. CASE ReadJournal
  BY <1>1 DEF ReadJournal, RLoop, RGoto, Answer
<1>2. CASE Classify
  <2>1. PICK f \in rtodo :
          \/ /\ dest[f] \in {rtx, before[rtx][f]}
             /\ rany' = (rany \/ dest[f] = rtx)
             /\ rpending' = IF dest[f] = rtx THEN rpending ELSE rpending \cup {f}
             /\ IF rtodo = {f} THEN Decide(rpending', rany')
                               ELSE RLoop("classify", rtodo \ {f})
          \/ rpc' = "idle"
    BY <1>2 DEF Classify, Answer
  <2>2. rpc = "classify"
    BY <1>2 DEF Classify
  <2>3. CASE rpc' = "idle"
    BY <2>3
  <2>4. CASE rtodo # {f} /\ rpc' # "idle"
    <3>1. rpc' = "classify" /\ rtodo' = rtodo \ {f}
      BY <2>1, <2>4 DEF RLoop, RGoto
    <3>2. FilesOf[rtx] \ rtodo' = (FilesOf[rtx] \ rtodo) \cup {f} /\ f \in FilesOf[rtx]
      BY <2>2, <3>1
    <3> QED BY <2>1, <2>2, <2>4, <3>1, <3>2
  <2>5. CASE rtodo = {f} /\ rpc' # "idle"
    <3>1. FilesOf[rtx] = (FilesOf[rtx] \ rtodo) \cup {f} /\ f \in FilesOf[rtx]
      BY <2>2, <2>5
    <3>2. Classified(FilesOf[rtx])' /\ (rany' \/ rpending' = FilesOf[rtx])
      BY <2>1, <2>2, <2>5, <3>1
    <3>3. /\ Decide(rpending', rany')
          /\ rpc' \in {"cleanstage", "checkstage"}
          /\ rtodo' \subseteq FilesOf[rtx]
      BY <2>1, <2>5 DEF Decide, RLoop, RGoto
    <3>4. CASE rpending' = {}
      BY <3>2, <3>3, <3>4 DEF Decide, RLoop, RGoto
    <3>5. CASE rpending' # {} /\ rpc' = "cleanstage"
      BY <3>2, <3>3, <3>5 DEF Decide, RLoop, RGoto
    <3>6. CASE rpending' # {} /\ rpc' = "checkstage"
      BY ZenonT(60), <3>2, <3>3, <3>6 DEF Whole
    <3> QED BY <3>3, <3>4, <3>5, <3>6
  <2> QED BY <2>3, <2>4, <2>5
<1>3. CASE CleanStage
  BY <1>3 DEF CleanStage, RGoto
<1>4. CASE CleanJournal
  BY <1>4 DEF CleanJournal, Answer
<1>5. CASE CheckStage
  <2>1. PICK f \in rpending :
          /\ IsNext(f, rpending)
          /\ \/ stage[rtx][f] = rtx /\ rpc' = "rswap"
             \/ rpc' = "idle"
    BY <1>5 DEF CheckStage, RGoto, Answer
  <2>2. rpc = "checkstage" /\ UNCHANGED <<rtodo, rpending, stage>>
    BY <1>5 DEF CheckStage, disk
  <2>3. \A g \in rpending : IsNext(g, rpending) => g = f
    BY <2>1, NextIsUnique
  <2> QED BY <2>1, <2>2, <2>3
<1>6. CASE RecoverJournalCreate \/ RecoverJournalWrite
  <2>1. rwriting => rpc \in {"jpromoted", "jrdone"}
    BY DEF ExclInv
  <2> QED BY <1>6, <2>1 DEF RecoverJournalCreate, RecoverJournalWrite, RecoverAfterJournal, RLoop, RGoto
<1>7. CASE RecoverDrop
  BY <1>7 DEF RecoverDrop, Answer
<1> QED BY <1>1, <1>2, <1>3, <1>4, <1>5, <1>6, <1>7

\* A backup is removed once all files are new or all are old.
LEMMA RecoverRemoveShape ==
  ASSUME TypeInv, RecoverShape, Whole(rtx),
         \A f \in FilesOf[rtx] : before[rtx][f] \notin {rtx, "missing"},
         CleanBak \/ RecoverRemoveBackup
  PROVE  RecoverShape' /\ Whole(rtx)'
<1> USE DEF TypeInv, TypeOK, DiskOK, RecoverOK
<1>1. PICK f \in rtodo :
        /\ bak' \in {Put(bak, rtx, f, "missing"), bak}
        /\ \/ rpc = "cleanbak" /\ rpc' \in {"cleanjournal", "cleanstage"}
           \/ rpc = "rmbaks" /\ rpc' \in {"rmbaks", "jrdone"}
        /\ rtodo' \subseteq rtodo
  BY DEF CleanBak, RecoverRemoveBackup, RLoop, RGoto
<1>a. UNCHANGED <<dest, before, rtx, rpending>>
  BY DEF CleanBak, RecoverRemoveBackup, recframe, procs
<1>2. \A g \in Files : bak'[rtx][g] \in {bak[rtx][g], "missing"}
  BY <1>1 DEF Put
<1>3. rtodo' \subseteq FilesOf[rtx] /\ rpending \subseteq FilesOf[rtx] /\ FilesOf[rtx] \subseteq Files
  BY <1>1 DEF RecoverShape
<1>4. CASE rpc = "cleanbak"
  <2>1. rpc' \in {"cleanjournal", "cleanstage"}
    BY <1>1, <1>4
  <2>2. IF rpending = {} THEN AllAfter(rtx) ELSE AllBefore(rtx)
    BY <1>4 DEF RecoverShape
  <2>3. RecoverShape'
    BY <1>a, <1>3, <2>1, <2>2 DEF RecoverShape, AllAfter, AllBefore
  <2>4. ASSUME AllBefore(rtx) PROVE Kept(rtx)'
    <3>1. PICK g \in FilesOf[rtx] : dest[g] = before[rtx][g]
      BY <2>4 DEF AllBefore
    <3>2. Kept(rtx)
      BY <3>1 DEF Whole, AllAfter
    <3> QED BY <1>a, <1>2, <1>3, <2>4, <3>2 DEF Kept, KeptFile, AllBefore
  <2> QED BY <1>a, <2>2, <2>3, <2>4 DEF Whole, AllAfter
<1>5. CASE rpc = "rmbaks"
  <2>1. rpc' \in {"rmbaks", "jrdone"}
    BY <1>1, <1>5
  <2>2. AllAfter(rtx)
    BY <1>5 DEF RecoverShape
  <2>3. RecoverShape'
    BY <1>a, <1>3, <2>1, <2>2 DEF RecoverShape, AllAfter
  <2> QED BY <1>a, <2>2, <2>3 DEF Whole, AllAfter
<1> QED BY <1>1, <1>4, <1>5

\* dest -> bak for a pending file.
LEMMA RecoverSwapShape ==
  ASSUME TypeInv, RecoverShape, RecoverSwap,
         \A f \in FilesOf[rtx] : before[rtx][f] \notin {rtx, "missing"}
  PROVE  RecoverShape' /\ Whole(rtx)'
<1> USE DEF TypeInv, TypeOK, DiskOK, RecoverOK
<1>1. rpc = "rswap" /\ UNCHANGED <<stage, rtodo, rpending, rtx, before>>
  BY DEF RecoverSwap, recframe, procs
<1>2. PICK f \in rpending :
        /\ IsNext(f, rpending)
        /\ \/ /\ bak' = Put(bak, rtx, f, dest[f]) /\ dest' = [dest EXCEPT ![f] = "missing"]
              /\ rpc' = "rpromote"
           \/ rpc' = "idle" /\ UNCHANGED <<dest, bak>>
  BY DEF RecoverSwap, RGoto, Answer
<1>3. /\ Kept(rtx) /\ Classified(FilesOf[rtx]) /\ rtodo \subseteq FilesOf[rtx]
      /\ f \in FilesOf[rtx] /\ f \in Files /\ dest[f] = before[rtx][f] /\ stage[rtx][f] = rtx
  BY <1>1, <1>2 DEF RecoverShape, Classified
<1>4. CASE rpc' = "idle" /\ UNCHANGED <<dest, bak>>
  BY <1>1, <1>3, <1>4 DEF RecoverShape, Whole, Kept, KeptFile
<1>5. CASE /\ bak' = Put(bak, rtx, f, dest[f]) /\ dest' = [dest EXCEPT ![f] = "missing"]
           /\ rpc' = "rpromote"
  <2>1. \A g \in Files : bak'[rtx][g] = IF g = f THEN before[rtx][f] ELSE bak[rtx][g]
    BY <1>3, <1>5 DEF Put
  <2>2. \A g \in Files : dest'[g] = IF g = f THEN "missing" ELSE dest[g]
    BY <1>3, <1>5
  <2>3. Kept(rtx)'
    BY ZenonT(60), <1>1, <1>3, <2>1, <2>2 DEF Kept, KeptFile
  <2>4. \A g \in rpending : IsNext(g, rpending) => g = f
    BY <1>2, NextIsUnique
  <2>5. \A g \in FilesOf[rtx] :
          IF g \notin rpending THEN dest'[g] = rtx
          ELSE IF IsNext(g, rpending) THEN dest'[g] = "missing" /\ stage[rtx][g] = rtx
          ELSE dest'[g] = before[rtx][g]
    BY <1>2, <1>3, <2>2, <2>4 DEF Classified
  <2> QED BY <1>1, <1>3, <1>5, <2>3, <2>5 DEF RecoverShape, Whole
<1> QED BY <1>2, <1>4, <1>5

\* stage -> dest for a pending file.
LEMMA RecoverPromoteShape ==
  ASSUME TypeInv, RecoverShape, RecoverPromote,
         \A f \in FilesOf[rtx] : before[rtx][f] \notin {rtx, "missing"}
  PROVE  RecoverShape' /\ Whole(rtx)'
<1> USE DEF TypeInv, TypeOK, DiskOK, RecoverOK
<1>1. rpc = "rpromote" /\ UNCHANGED <<bak, rtodo, rtx, before>>
  BY DEF RecoverPromote, recframe, procs
<1>2. PICK f \in rpending :
        /\ IsNext(f, rpending)
        /\ \/ /\ dest' = [dest EXCEPT ![f] = stage[rtx][f]]
              /\ rpending' = rpending \ {f}
              /\ rpc' = "jpromoted"
           \/ rpc' = "idle" /\ UNCHANGED <<dest, rpending>>
  BY DEF RecoverPromote, RGoto, Answer
<1>3. \A g \in rpending : IsNext(g, rpending) => g = f
  BY <1>2, NextIsUnique
<1>4. /\ Kept(rtx) /\ rtodo \subseteq FilesOf[rtx] /\ rpending \subseteq FilesOf[rtx]
      /\ f \in FilesOf[rtx] /\ f \in Files /\ dest[f] = "missing" /\ stage[rtx][f] = rtx
      /\ \A g \in FilesOf[rtx] : g # f =>
           dest[g] = IF g \in rpending THEN before[rtx][g] ELSE rtx
  BY <1>1, <1>2, <1>3 DEF RecoverShape
<1>5. CASE rpc' = "idle" /\ UNCHANGED <<dest, rpending>>
  BY <1>1, <1>4, <1>5 DEF RecoverShape, Whole, Kept, KeptFile
<1>6. CASE /\ dest' = [dest EXCEPT ![f] = stage[rtx][f]]
           /\ rpending' = rpending \ {f}
           /\ rpc' = "jpromoted"
  <2>1. \A g \in Files : dest'[g] = IF g = f THEN rtx ELSE dest[g]
    BY <1>4, <1>6
  <2>2. Kept(rtx)'
    BY <1>1, <1>4, <2>1 DEF Kept, KeptFile
  <2>3. Classified(FilesOf[rtx])'
    BY <1>1, <1>4, <1>6, <2>1 DEF Classified
  <2> QED BY <1>1, <1>4, <1>6, <2>2, <2>3 DEF RecoverShape, Whole
<1> QED BY <1>2, <1>5, <1>6

\* Every step of recovery.
LEMMA RecoverStepShape ==
  ASSUME TypeInv, ExclInv, ContentInv, ShapeInv, RecoverStep
  PROVE  RecoverShape' /\ Whole(rtx)'
<1>1. RecoverControl
  BY RecoverStepControl DEF ExclInv
<1>2. /\ \A f \in FilesOf[rtx] : before[rtx][f] \notin {rtx, "missing"}
      /\ Whole(rtx) /\ RecoverShape /\ rpc # "idle"
  BY <1>1 DEF RecoverControl, ExclInv, ContentInv, ShapeInv, LeftShape, TypeInv, TypeOK, RecoverOK
<1>3. CASE CleanBak \/ RecoverRemoveBackup
  BY <1>2, <1>3, RecoverRemoveShape
<1>4. CASE RecoverSwap
  BY <1>2, <1>4, RecoverSwapShape
<1>5. CASE RecoverPromote
  BY <1>2, <1>5, RecoverPromoteShape
<1>6. CASE \/ ReadJournal \/ Classify \/ CleanStage \/ CleanJournal \/ CheckStage
           \/ RecoverJournalCreate \/ RecoverJournalWrite \/ RecoverDrop
  <2>1. UNCHANGED <<dest, bak>>
    BY <1>6 DEF ReadJournal, Classify, CleanStage, CleanJournal, CheckStage,
                RecoverJournalCreate, RecoverJournalWrite, RecoverDrop, disk
  <2>2. UNCHANGED <<before, rtx>>
    BY <1>1 DEF RecoverControl, procs
  <2>3. RecoverShape'
    BY <1>2, <1>6, <2>1, <2>2, RecoverQuietShape
  <2>4. Whole(rtx)'
    BY <1>2, <2>1, <2>2 DEF Whole, Kept, KeptFile, AllAfter
  <2> QED BY <2>3, <2>4
<1> QED BY <1>3, <1>4, <1>5, <1>6 DEF RecoverStep

-----------------------------------------------------------------------------
(* The inductive invariant *)

\* The inductive invariant.
TurnInv == TypeInv /\ WholeInv /\ ExclInv /\ ContentInv /\ ShapeInv

\* A call of persist_tx moves files of its own plan only, and none at the pending check.
LEMMA TxStepFiles ==
  ASSUME TypeInv, ExclInv, ContentInv, NEW t \in Tx, TxShape(t), PersistStep(t),
         NEW f \in Files, pc[t] = "pendcheck" \/ f \notin FilesOf[t]
  PROVE  dest'[f] = dest[f]
<1> USE DEF TypeInv, TypeOK, DiskOK
<1>1. CASE pc[t] \notin {"swap", "promote", "restore", "restorelast"}
  <2>1. UNCHANGED dest
    BY <1>1
    DEF PersistStep, CheckPending, VerifyFile, JournalCreate, JournalWrite, StageCreate,
        StageWrite, Unstage, DropStaging, Swap, Promote, Restore, UnstageRest, RestoreLast,
        DropRollback, RemoveBackup, DropDone, disk
  <2> QED BY <2>1
<1>2. CASE pc[t] \in {"swap", "promote", "restore", "restorelast"}
  <2>1. f \notin FilesOf[t]
    BY <1>2
  <2>2. f \notin Unswapped(t)
    BY <2>1 DEF Unswapped
  <2>3. pc[t] = "restore" => f \notin todo[t]
    BY <2>1 DEF TxShape, ContentInv
  <2>4. ~ (pc[t] \in JournalSites) /\ ~writing[t]
    BY <1>2 DEF ExclInv, JournalSites
  <2>5. Swap(t) \/ Promote(t) \/ Restore(t) \/ RestoreLast(t)
    BY <1>2, <2>4
    DEF PersistStep, CheckPending, VerifyFile, JournalCreate, JournalWrite, StageCreate,
        StageWrite, Unstage, DropStaging, UnstageRest, DropRollback, RemoveBackup, DropDone
  <2>6. CASE Swap(t)
    BY <2>2, <2>6 DEF Swap
  <2>7. CASE Promote(t)
    BY <2>2, <2>7 DEF Promote
  <2>8. CASE Restore(t)
    BY <2>3, <2>8 DEF Restore
  <2>9. CASE RestoreLast(t)
    BY <2>2, <2>9 DEF RestoreLast
  <2> QED BY <2>5, <2>6, <2>7, <2>8, <2>9
<1> QED BY <1>1, <1>2

\* Recovery moves files of the plan in hand only.
LEMMA RecoverStepFiles ==
  ASSUME TypeInv, ExclInv, RecoverShape, RecoverStep, NEW f \in Files, f \notin FilesOf[rtx]
  PROVE  dest'[f] = dest[f]
<1> USE DEF TypeInv, TypeOK, DiskOK
<1>1. f \notin rpending
  BY RecoverStepControl DEF RecoverControl, ExclInv, RecoverShape
<1>2. CASE RecoverSwap
  BY <1>1, <1>2 DEF RecoverSwap
<1>3. CASE RecoverPromote
  BY <1>1, <1>3 DEF RecoverPromote
<1>4. CASE ~(RecoverSwap \/ RecoverPromote)
  BY <1>4
  DEF RecoverStep, ReadJournal, Classify, CleanStage, CleanBak, CleanJournal, CheckStage,
      RecoverJournalCreate, RecoverJournalWrite, RecoverRemoveBackup, RecoverDrop, disk
<1> QED BY <1>2, <1>3, <1>4

\* What a transaction has left stays whole while its files and backups are left alone.
LEMMA LeftAlone ==
  ASSUME NEW u \in Tx, Whole(u), bak'[u] = bak[u], before'[u] = before[u],
         \A f \in FilesOf[u] : dest'[f] = dest[f]
  PROVE  Whole(u)'
  BY DEF Whole, Kept, KeptFile, AllAfter

\* A step of one transactor keeps the shapes of all, and of recovery.
LEMMA TxStepShapes ==
  ASSUME TakeTurns, TurnInv, NEW t \in Tx, PersistStep(t)
  PROVE  ShapeInv'
<1> USE DEF TurnInv
<1>1. OthersAlone(t) /\ UNCHANGED before /\ ControlStep(t)
  BY TxStepFrame, TxStepControl
<1>2. rpc = "idle" /\ \A u \in Tx : Running(u) => u = t
  BY <1>1 DEF ExclInv, ControlStep
<1>3. TxShape(t)'
  BY TxStepShape DEF ShapeInv, TakeTurns
<1>4. ~Running(t)' => Whole(t)'
  <2>1. Whole(t)
    BY <1>1, ShapeIsWhole DEF ShapeInv, ControlStep
  <2>2. CASE pc[t] = "restorelast"
    <3>1. RestoreLast(t)
      BY <2>2 DEF PersistStep, CheckPending, VerifyFile, JournalCreate, JournalWrite,
             StageCreate, StageWrite, Unstage, DropStaging, Swap, Promote, Restore,
             UnstageRest, DropRollback, RemoveBackup, DropDone, ExclInv, JournalSites
    <3> QED BY <3>1, RestoreLastShape DEF ShapeInv, TakeTurns
  <2>3. CASE pc[t] # "restorelast" /\ ~Running(t)'
    <3>1. UNCHANGED <<dest, bak>>
      BY <2>3, TxStepReturns DEF ShapeInv, Returned
    <3> QED BY <1>1, <2>1, <3>1 DEF Whole, Kept, KeptFile, AllAfter
  <2> QED BY <2>2, <2>3
<1>5. ASSUME NEW u \in Tx, u # t PROVE TxShape(u)' /\ LeftShape(u)'
  <2>1. pc[u] \in {"idle", "returned", "dead"} /\ pc'[u] = pc[u] /\ swapped'[u] = swapped[u]
    BY <1>1, <1>2, <1>5 DEF OthersAlone, Running
  <2>2. TxShape(u)'
    BY <2>1 DEF TxShape, ShapeInv
  <2>3. ASSUME journal'[u] # "none" PROVE Whole(u)'
    <3>1. Live(u) /\ Whole(u) /\ bak'[u] = bak[u]
      BY <1>1, <1>5, <2>1, <2>3 DEF OthersAlone, Live, ShapeInv, LeftShape, Running
    <3>2. pc[t] # "pendcheck" => Live(t)
      BY <1>1 DEF Live, ControlStep
    <3>3. pc[t] # "pendcheck" => FilesOf[t] \cap FilesOf[u] = {}
      BY <1>5, <3>1, <3>2 DEF ExclInv, TakeTurns, SharedRoot
    <3>4. \A f \in FilesOf[u] : dest'[f] = dest[f]
      <4> SUFFICES ASSUME NEW f \in FilesOf[u] PROVE dest'[f] = dest[f]
        OBVIOUS
      <4>1. f \in Files /\ (pc[t] = "pendcheck" \/ f \notin FilesOf[t])
        BY <3>3
      <4> QED BY <4>1, TxStepFiles DEF ShapeInv
    <3> QED BY <1>1, <3>1, <3>4, LeftAlone
  <2> QED BY <2>2, <2>3 DEF LeftShape
<1>6. RecoverShape'
  BY <1>1, <1>2 DEF OthersAlone, recv, RecoverShape
<1> QED BY <1>3, <1>4, <1>5, <1>6 DEF ShapeInv, LeftShape

\* So does a step of recovery.
LEMMA RecoverStepShapes ==
  ASSUME TakeTurns, TurnInv, RecoverStep
  PROVE  ShapeInv'
<1> USE DEF TurnInv
<1>1. RecoverControl /\ RecoverShape' /\ Whole(rtx)'
  BY RecoverStepControl, RecoverStepShape DEF ExclInv
<1>2. UNCHANGED <<procs, rtx>> /\ Live(rtx) /\ rtx \in Tx /\ \A u \in Tx : ~Running(u)
  BY <1>1 DEF RecoverControl, ExclInv, Live, TypeInv, TypeOK, RecoverOK
<1>3. ASSUME NEW u \in Tx PROVE TxShape(u)' /\ LeftShape(u)'
  <2>1. pc[u] \in {"idle", "returned", "dead"} /\ pc'[u] = pc[u] /\ swapped'[u] = swapped[u]
    BY <1>2 DEF Running, procs
  <2>2. TxShape(u)'
    BY <2>1 DEF TxShape, ShapeInv
  <2>3. LeftShape(u)'
    <3>1. CASE u = rtx
      BY <1>1, <1>2, <3>1 DEF LeftShape
    <3>2. ASSUME u # rtx, journal'[u] # "none" PROVE Whole(u)'
      <4>1. journal'[u] = journal[u] /\ bak'[u] = bak[u] /\ UNCHANGED before
        BY <1>1, <1>2, <3>2 DEF RecoverControl, procs
      <4>2. Live(u) /\ Whole(u)
        BY <1>2, <3>2, <4>1 DEF Live, ShapeInv, LeftShape
      <4>3. FilesOf[rtx] \cap FilesOf[u] = {}
        BY <1>2, <3>2, <4>2 DEF ExclInv, TakeTurns, SharedRoot
      <4>4. \A f \in FilesOf[u] : dest'[f] = dest[f]
        BY <4>3, RecoverStepFiles DEF ShapeInv
      <4> QED BY <4>1, <4>2, <4>4, LeftAlone
    <3> QED BY <3>1, <3>2 DEF LeftShape
  <2> QED BY <2>2, <2>3
<1> QED BY <1>1, <1>3 DEF ShapeInv

\* A new transaction starts from the bytes on disk.
LEMMA StartShapes ==
  ASSUME TakeTurns, TurnInv, NEW t \in Tx, Start(t)
  PROVE  ShapeInv'
<1> USE DEF TurnInv, TypeInv, TypeOK, ProcsOK
<1>1. /\ pc[t] = "idle" /\ before' = [before EXCEPT ![t] = dest] /\ Goto(t, "pendcheck")
      /\ UNCHANGED <<dest, stage, bak, journal, todo, swapped, errs, recv>>
      /\ rpc = "idle"
  BY DEF Start, disk, TakeTurns, Quiet
<1>2. TxShape(t)'
  <2>1. pc'[t] = "pendcheck" /\ swapped'[t] = {}
    BY <1>1 DEF Goto, ShapeInv, TxShape
  <2>2. \A f \in FilesOf[t] : UntouchedFile(t, f)'
    <3>1. \A f \in FilesOf[t] : bak[t][f] = "missing"
      BY <1>1 DEF ContentInv
    <3>2. before'[t] = dest
      BY <1>1
    <3> QED BY <1>1, <3>1, <3>2 DEF UntouchedFile
  <2> QED BY <2>1, <2>2 DEF TxShape
<1>3. LeftShape(t)'
  BY <1>1 DEF LeftShape, ExclInv
<1>4. ASSUME NEW u \in Tx, u # t PROVE TxShape(u)' /\ LeftShape(u)'
  <2>1. pc'[u] = pc[u] /\ before'[u] = before[u] /\ TxShape(u) /\ LeftShape(u)
    BY <1>1, <1>4 DEF Goto, ShapeInv
  <2>2. TxShape(u)'
    BY ZenonT(60), <1>1, <2>1 DEF TxShape, UntouchedFile, SwappedFile, OpenFile, Kept, KeptFile,
           AllBefore, AllAfter, Unswapped
  <2>3. LeftShape(u)'
    BY <1>1, <2>1 DEF LeftShape, Whole, Kept, KeptFile, AllAfter, Running
  <2> QED BY <2>2, <2>3
<1>5. RecoverShape'
  BY <1>1 DEF RecoverShape, recv
<1> QED BY <1>2, <1>3, <1>4, <1>5 DEF ShapeInv

\* A process that dies leaves the files of its transaction whole.
LEMMA CrashShapes ==
  ASSUME TurnInv, NEW t \in Tx, Crash(t)
  PROVE  ShapeInv'
<1> USE DEF TurnInv, TypeInv, TypeOK, ProcsOK
<1>1. /\ UNCHANGED <<dest, stage, bak, journal, before, todo, swapped, errs, recv>>
      /\ Running(t) /\ Goto(t, "dead")
  BY DEF Crash, disk
<1>2. Whole(t)
  BY <1>1, ShapeIsWhole DEF ShapeInv
<1>3. TxShape(t)' /\ LeftShape(t)'
  BY <1>1, <1>2 DEF Goto, TxShape, LeftShape, Whole, Kept, KeptFile, AllAfter
<1>4. ASSUME NEW u \in Tx, u # t PROVE TxShape(u)' /\ LeftShape(u)'
  <2>1. pc'[u] = pc[u] /\ TxShape(u) /\ LeftShape(u)
    BY <1>1, <1>4 DEF Goto, ShapeInv
  <2>2. TxShape(u)'
    <3>1. /\ Unswapped(u)' = Unswapped(u)
          /\ AllBefore(u)' <=> AllBefore(u)
          /\ AllAfter(u)' <=> AllAfter(u)
          /\ \A g : /\ UntouchedFile(u, g)' <=> UntouchedFile(u, g)
                    /\ SwappedFile(u, g)' <=> SwappedFile(u, g)
                    /\ OpenFile(u, g)' <=> OpenFile(u, g)
                    /\ KeptFile(u, g)' <=> KeptFile(u, g)
      BY <1>1 DEF Unswapped, AllBefore, AllAfter, UntouchedFile, SwappedFile, OpenFile, KeptFile
    <3>2. Kept(u)' <=> Kept(u)
      BY <1>1, <3>1 DEF Kept
    <3> QED BY <1>1, <2>1, <3>1, <3>2 DEF TxShape
  <2>3. LeftShape(u)'
    BY <1>1, <2>1 DEF LeftShape, Whole, Kept, KeptFile, AllAfter, Running
  <2> QED BY <2>2, <2>3
<1>5. RecoverShape'
  BY <1>1 DEF RecoverShape, Classified, Kept, KeptFile, AllBefore, AllAfter, recv, ShapeInv
<1> QED BY <1>3, <1>4, <1>5 DEF ShapeInv

\* Steps that move neither a file nor a transactor.
LEMMA StillShapes ==
  ASSUME TurnInv, UNCHANGED <<disk, procs>>,
         \/ rpc' = "idle"
         \/ rpc' = "read" /\ rtodo' = {} /\ rpending' = {} /\ rany' = FALSE
         \/ UNCHANGED recv
  PROVE  ShapeInv'
<1> USE DEF TurnInv
<1>1. UNCHANGED <<dest, stage, bak, journal, before, pc, todo, swapped, errs>>
  BY DEF disk, procs
<1>2. ASSUME NEW u \in Tx PROVE TxShape(u)' /\ LeftShape(u)'
  <2>0. TxShape(u) /\ LeftShape(u) /\ Unswapped(u)' = Unswapped(u)
    BY <1>1 DEF ShapeInv, Unswapped
  <2>1. TxShape(u)'
    BY <1>1, <2>0 DEF TxShape, UntouchedFile, SwappedFile, OpenFile, Kept, KeptFile,
           AllBefore, AllAfter
  <2>2. LeftShape(u)'
    BY <1>1, <2>0 DEF LeftShape, Whole, Kept, KeptFile, AllAfter, Running
  <2> QED BY <2>1, <2>2
<1>3. RecoverShape'
  BY <1>1 DEF ShapeInv, RecoverShape, Classified, Kept, KeptFile, AllBefore, AllAfter, recv
<1> QED BY <1>2, <1>3 DEF ShapeInv

\* The inductive invariant holds initially.
LEMMA InitTurnInv == Init => TurnInv
<1> SUFFICES ASSUME Init PROVE TurnInv
  OBVIOUS
<1>1. TypeInv
  BY InitTypeInv
<1>2. WholeInv
  BY DEF Init, WholeInv, StageInv, RecoverStageInv, LiveInv
<1>3. ExclInv /\ ContentInv
  BY InitTurns
<1>4. ShapeInv
  BY DEF Init, ShapeInv, TxShape, LeftShape, RecoverShape
<1> QED BY <1>1, <1>2, <1>3, <1>4 DEF TurnInv

\* Every step keeps it.
LEMMA StepTurnInv ==
  ASSUME TakeTurns, TurnInv, [Next]_vars
  PROVE  TurnInv'
<1> USE DEF TurnInv
<1>1. TypeInv' /\ WholeInv'
  BY StepWhole
<1>2. ContentInv'
  BY StepContent
<1>3. ExclInv'
  BY TxStepExcl, OtherStepExcl DEF Next
<1>4. ShapeInv'
  <2>1. ASSUME NEW t \in Tx, PersistStep(t) PROVE ShapeInv'
    BY <2>1, TxStepShapes
  <2>2. ASSUME NEW t \in Tx, Start(t) PROVE ShapeInv'
    BY <2>2, StartShapes
  <2>3. ASSUME NEW t \in Tx, Crash(t) PROVE ShapeInv'
    BY <2>3, CrashShapes
  <2>4. CASE RecoverStep
    BY <2>4, RecoverStepShapes
  <2>5. CASE RecoverCrash \/ UNCHANGED vars \/ \E t \in Tx : RecoverStart(t)
    BY <2>5, StillShapes DEF RecoverCrash, vars, RecoverStart
  <2>6. ASSUME NEW f \in Files PROVE ~Edit(f)
    BY DEF Edit, TakeTurns, TypeInv, TypeOK, EnvOK
  <2> QED BY <2>1, <2>2, <2>3, <2>4, <2>5, <2>6 DEF Next
<1> QED BY <1>1, <1>2, <1>3, <1>4

-----------------------------------------------------------------------------
(* What the invariant gives *)

\* Before a step and after it, at most one transaction is live; the step that ends
\* it finds all its files old or all new, and moves none.
LEMMA StepResolves ==
  ASSUME TakeTurns, TurnInv, [Next]_vars, NEW t \in Tx, Live(t), ~Live(t)'
  PROVE  UNCHANGED <<dest, before>> /\ (AllBefore(t) \/ AllAfter(t))
<1> USE DEF TurnInv
<1>1. ASSUME NEW u \in Tx, PersistStep(u)
      PROVE  UNCHANGED <<dest, before>> /\ (AllBefore(t) \/ AllAfter(t))
  <2>1. OthersAlone(u) /\ UNCHANGED before /\ ControlStep(u)
    BY <1>1, TxStepFrame, TxStepControl
  <2>2. u = t
    BY <2>1 DEF OthersAlone, Live, Running
  <2>3. ~Running(t)' /\ journal'[t] = "none"
    BY <2>1, <2>2 DEF ControlStep, Live
  <2>4. Returned(t)
    BY <1>1, <2>2, <2>3, TxStepReturns DEF ShapeInv
  <2>5. ~(pc[t] = "restorelast" /\ UNCHANGED journal)
    BY <2>1, <2>2, <2>3 DEF ExclInv, ControlStep
  <2> QED BY <2>1, <2>4, <2>5 DEF Returned
<1>2. CASE RecoverStep
  <2>1. RecoverControl
    BY <1>2, RecoverStepControl DEF ExclInv
  <2>2. t = rtx /\ journal'[rtx] = "none" /\ journal[rtx] # "none" /\ rpc' = "idle"
    BY <2>1 DEF RecoverControl, ExclInv, Live, Running, procs, TypeInv, TypeOK, RecoverOK
  <2>3. CASE CleanJournal \/ RecoverDrop
    BY <2>2, <2>3 DEF CleanJournal, RecoverDrop, ShapeInv, RecoverShape, recframe, procs
  <2>4. CASE ~(CleanJournal \/ RecoverDrop)
    BY <1>2, <2>2, <2>4
    DEF RecoverStep, ReadJournal, Classify, CleanStage, CleanBak, CheckStage, RecoverSwap,
        RecoverPromote, RecoverJournalCreate, RecoverJournalWrite, RecoverRemoveBackup,
        RecoverAfterJournal, RLoop, RGoto, disk, ExclInv
  <2> QED BY <2>3, <2>4
<1>3. ASSUME NEW u \in Tx, Start(u) PROVE FALSE
  BY <1>3 DEF Start, Goto, Live, Running, ExclInv, disk, TypeInv, TypeOK, ProcsOK
<1>4. ASSUME NEW u \in Tx, Crash(u)
      PROVE  UNCHANGED <<dest, before>> /\ (AllBefore(t) \/ AllAfter(t))
  <2>1. UNCHANGED <<dest, before, journal>> /\ Goto(u, "dead")
    BY <1>4 DEF Crash, disk
  <2>2. u = t /\ journal[t] = "none" /\ Running(t) /\ pc[t] # "pendcheck"
    BY <2>1 DEF Live, Running, Goto, TypeInv, TypeOK, ProcsOK
  <2>3. pc[t] \in {"verify", "jprepared"}
    BY <2>2 DEF ExclInv
  <2> QED BY <2>1, <2>3 DEF ShapeInv, TxShape, AllBefore, UntouchedFile
<1>5. CASE RecoverCrash \/ UNCHANGED vars \/ \E u \in Tx : RecoverStart(u)
  BY <1>5 DEF RecoverCrash, vars, RecoverStart, Live, Running, disk, procs
<1>6. ASSUME NEW f \in Files PROVE ~Edit(f)
  BY DEF Edit, TakeTurns, TypeInv, TypeOK, EnvOK
<1> QED BY <1>1, <1>2, <1>3, <1>4, <1>5, <1>6 DEF Next

\* The result of a transactor changes when it returns, and then only its own.
LEMMA StepReturns ==
  ASSUME TakeTurns, TurnInv, [Next]_vars, NEW t \in Tx, ret'[t] # ret[t]
  PROVE  Returned(t) /\ UNCHANGED before /\ (pc[t] = "restorelast" => journal[t] # "none")
<1> USE DEF TurnInv
<1>1. ASSUME NEW u \in Tx, PersistStep(u)
      PROVE  Returned(t) /\ UNCHANGED before /\ (pc[t] = "restorelast" => journal[t] # "none")
  <2>1. OthersAlone(u) /\ UNCHANGED before /\ u = t
    BY <1>1, TxStepFrame DEF OthersAlone
  <2>2. Returned(t)
    BY <1>1, <2>1, TxStepReturns DEF ShapeInv
  <2> QED BY <2>1, <2>2 DEF ExclInv, Running
<1>2. CASE RecoverStep \/ RecoverCrash \/ UNCHANGED vars
  <2>1. UNCHANGED ret
    BY <1>2, RecoverStepControl DEF RecoverControl, RecoverCrash, vars, procs, ExclInv
  <2> QED BY <2>1
<1>3. CASE \E u \in Tx : Start(u) \/ RecoverStart(u) \/ Crash(u)
  BY <1>3 DEF Start, RecoverStart, Crash, procs
<1>4. CASE \E f \in Files : Edit(f)
  BY <1>4 DEF Edit, procs
<1> QED BY <1>1, <1>2, <1>3, <1>4 DEF Next

\* Recovery answers Committed or RolledBack at its last call, for the files as they are.
LEMMA StepAnswers ==
  ASSUME TakeTurns, TurnInv, [Next]_vars, NEW t \in Tx, outcome'[t] # outcome[t],
         outcome'[t] \in {"Committed", "RolledBack"}
  PROVE  /\ UNCHANGED <<dest, before>>
         /\ IF outcome'[t] = "Committed" THEN AllAfter(t) ELSE AllBefore(t)
<1> USE DEF TurnInv, TypeInv, TypeOK, RecoverOK
<1>1. CASE CleanJournal \/ RecoverDrop
  <2>1. t = rtx
    BY <1>1 DEF CleanJournal, RecoverDrop, Answer
  <2> QED BY <1>1, <2>1 DEF CleanJournal, RecoverDrop, Answer, ShapeInv, RecoverShape, recframe, procs
<1>2. ASSUME RecoverStep, ~(CleanJournal \/ RecoverDrop) PROVE FALSE
  BY <1>2
  DEF RecoverStep, ReadJournal, Classify, CleanStage, CleanBak, CheckStage, RecoverSwap,
      RecoverPromote, RecoverJournalCreate, RecoverJournalWrite, RecoverRemoveBackup, Answer
<1>3. ASSUME NEW u \in Tx, PersistStep(u) PROVE FALSE
  BY <1>3, TxStepFrame DEF OthersAlone, recv
<1>4. ASSUME \/ \E u \in Tx : Start(u) \/ RecoverStart(u) \/ Crash(u)
             \/ RecoverCrash \/ UNCHANGED vars \/ \E f \in Files : Edit(f)
      PROVE  FALSE
  BY <1>4 DEF Start, RecoverStart, Crash, RecoverCrash, vars, Edit, recv
<1> QED BY <1>1, <1>2, <1>3, <1>4 DEF Next

\* TurnInv always holds, for any number of files, transactions, failing calls and deaths.
LEMMA TurnInvAlways ==
  ASSUME TakeTurns
  PROVE  Spec => []TurnInv
<1>1. Init => TurnInv
  BY InitTurnInv
<1>2. TurnInv /\ [Next]_vars => TurnInv'
  BY StepTurnInv
<1> QED BY <1>1, <1>2, PTL DEF Spec

\* Whatever calls fail and wherever processes die, while a transaction is unresolved
\* the disk holds all its old bytes or all its new bytes.
THEOREM NothingLost ==
  ASSUME TakeTurns
  PROVE  Spec => []NoBytesLost
<1>1. TurnInv => NoBytesLost
  <2> SUFFICES ASSUME TurnInv, NEW t \in Tx, Live(t)
               PROVE  \/ \A f \in FilesOf[t] : before[t][f] \in {dest[f], bak[t][f]}
                      \/ \A f \in FilesOf[t] : t \in {dest[f], stage[t][f]}
    BY DEF NoBytesLost
  <2>1. Whole(t)
    BY ShapeIsWhole DEF TurnInv, ShapeInv, LeftShape, Live
  <2> QED BY <2>1 DEF Whole, Kept, KeptFile, AllAfter
<1> QED BY <1>1, TurnInvAlways, PTL

\* A transaction is resolved only with all its files old or all new, by whichever of
\* persist_tx, its rollback, and recovery resolves it, or by dying early.
THEOREM Atomicity ==
  ASSUME TakeTurns
  PROVE  Spec => ResolvedAtomically
<1>1. TurnInv /\ [Next]_vars =>
        \A t \in Tx : Live(t) /\ ~Live(t)' => AllBefore(t)' \/ AllAfter(t)'
  <2> SUFFICES ASSUME TurnInv, [Next]_vars, NEW t \in Tx, Live(t), ~Live(t)'
               PROVE  AllBefore(t)' \/ AllAfter(t)'
    OBVIOUS
  <2>1. UNCHANGED <<dest, before>> /\ (AllBefore(t) \/ AllAfter(t))
    BY StepResolves
  <2> QED BY <2>1 DEF AllBefore, AllAfter
<1> QED BY <1>1, TurnInvAlways, PTL DEF Spec, ResolvedAtomically

\* The result of persist_tx is the truth about the files.
THEOREM ReturnsTruth ==
  ASSUME TakeTurns
  PROVE  Spec => ReturnTruthful
<1>1. TurnInv /\ [Next]_vars =>
        \A t \in Tx : ret'[t] # ret[t] =>
          /\ ret'[t] = "ok" => AllAfter(t)'
          /\ ret'[t] \in {"Prepare", "Staging"} => AllBefore(t)'
          /\ ret'[t] = "Commit" => AllBefore(t)' \/ AllAfter(t)'
          /\ ret'[t] = "RecoveryRequired" => journal'[t] # "none"
  <2> SUFFICES ASSUME TurnInv, [Next]_vars, NEW t \in Tx, ret'[t] # ret[t]
               PROVE  /\ ret'[t] = "ok" => AllAfter(t)'
                      /\ ret'[t] \in {"Prepare", "Staging"} => AllBefore(t)'
                      /\ ret'[t] = "Commit" => AllBefore(t)' \/ AllAfter(t)'
                      /\ ret'[t] = "RecoveryRequired" => journal'[t] # "none"
    OBVIOUS
  <2>1. Returned(t) /\ UNCHANGED before /\ (pc[t] = "restorelast" => journal[t] # "none")
    BY StepReturns
  <2> QED BY <2>1 DEF Returned, AllBefore, AllAfter
<1> QED BY <1>1, TurnInvAlways, PTL DEF Spec, ReturnTruthful

\* So is the answer of recovery.
THEOREM RecoveryTellsTruth ==
  ASSUME TakeTurns
  PROVE  Spec => RecoverTruthful
<1>1. TurnInv /\ [Next]_vars =>
        \A t \in Tx : outcome'[t] # outcome[t] =>
          /\ outcome'[t] = "Committed" => AllAfter(t)'
          /\ outcome'[t] = "RolledBack" => AllBefore(t)'
  <2> SUFFICES ASSUME TurnInv, [Next]_vars, NEW t \in Tx, outcome'[t] # outcome[t],
                      outcome'[t] \in {"Committed", "RolledBack"}
               PROVE  /\ outcome'[t] = "Committed" => AllAfter(t)'
                      /\ outcome'[t] = "RolledBack" => AllBefore(t)'
    OBVIOUS
  <2>1. /\ UNCHANGED <<dest, before>>
        /\ IF outcome'[t] = "Committed" THEN AllAfter(t) ELSE AllBefore(t)
    BY StepAnswers
  <2> QED BY <2>1 DEF AllBefore, AllAfter
<1> QED BY <1>1, TurnInvAlways, PTL DEF Spec, RecoverTruthful
==============================================================================
