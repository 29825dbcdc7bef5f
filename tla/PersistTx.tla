------------------------------ MODULE PersistTx ------------------------------
(***************************************************************************)
(* The journalled multi-file write of ontixa-cli/src/persist.rs: several   *)
(* CLI processes (the transactors, one transaction each) and `ontixa       *)
(* recover` act on one directory tree, one file-system call per step.  A   *)
(* call may fail, a process may die between any two calls, and an editor   *)
(* may save a file.                                                        *)
(*                                                                         *)
(* Bytes are abstracted to the values the protocol tells apart: "orig",    *)
(* the transaction's own name for the bytes it installs (`after`),         *)
(* "foreign" for an editor's bytes, "partial" for a file whose write has   *)
(* not finished, "missing" for no file.  Fingerprints are taken to be      *)
(* injective.  A journal is "none", "torn" (created, not fully written) or *)
(* "whole"; its `state` and `swapped` fields are left out because nothing  *)
(* reads them back from disk.                                              *)
(***************************************************************************)
EXTENDS Naturals, FiniteSets

CONSTANTS
  Tx,           \* transactions; a name stands for the bytes it installs
  Files,        \* live source files, numbered in the order of the plan
  FilesOf,      \* the files a transaction rewrites
  Root,         \* the directory that holds a transaction's journal
  MaxFaults,    \* bound on failing file-system calls
  MaxCrashes,   \* bound on process deaths
  MaxEdits,     \* bound on editor saves
  Overlap,      \* may two processes run at the same time?
  RacingEdits,  \* may an editor save between a check and the swap it guards?
  LookupFails   \* may reading a directory entry fail (read_dir, exists)?

ASSUME TxAssumption ==
  Tx \cap {"orig", "foreign", "partial", "missing"} = {}

ASSUME FilesAssumption ==
  /\ Files \subseteq Nat
  /\ FilesOf \in [Tx -> SUBSET Files]
  /\ \A t \in Tx : FilesOf[t] # {}

ASSUME BoundAssumption ==
  /\ MaxFaults \in Nat /\ MaxCrashes \in Nat /\ MaxEdits \in Nat
  /\ Overlap \in BOOLEAN /\ RacingEdits \in BOOLEAN /\ LookupFails \in BOOLEAN

VARIABLES
  dest, stage, bak, journal,                          \* the disk
  before, pc, todo, swapped, writing, errs, ret,      \* transactors
  rpc, rtx, rtodo, rpending, rany, rwriting,          \* `ontixa recover`
  outcome,                                            \* its last answers
  faults, crashes, edits                              \* environment budgets

disk  == <<dest, stage, bak, journal>>
procs == <<before, pc, todo, swapped, writing, errs, ret>>
recv  == <<rpc, rtx, rtodo, rpending, rany, rwriting, outcome>>
env   == <<faults, crashes, edits>>
vars  == <<disk, procs, recv, env>>

Content == Tx \cup {"orig", "foreign", "partial", "missing"}

JournalSites == {"jprepared", "jstaged", "jswapping", "jswapped", "jdone"}

TxPcs == {"idle", "pendcheck", "verify", "stage", "stagewrite", "unstage",
          "dropstaging", "swap", "promote", "restore", "unstagerest",
          "restorelast", "droprollback", "finalize", "dropdone",
          "returned", "dead"} \cup JournalSites

Results == {"none", "ok", "Prepare", "Staging", "Commit", "RecoveryRequired"}

RecPcs == {"idle", "read", "classify", "cleanstage", "cleanbak", "cleanjournal",
           "checkstage", "rswap", "rpromote", "jpromoted", "rmbaks", "jrdone",
           "rdrop"}

Outcomes == {"none", "Committed", "RolledBack",
             "ConflictJournal", "ConflictFile", "ConflictStage"}

Init ==
  /\ dest = [f \in Files |-> "orig"]
  /\ stage = [t \in Tx |-> [f \in Files |-> "missing"]]
  /\ bak = [t \in Tx |-> [f \in Files |-> "missing"]]
  /\ journal = [t \in Tx |-> "none"]
  /\ before = [t \in Tx |-> [f \in Files |-> "missing"]]
  /\ pc = [t \in Tx |-> "idle"]
  /\ todo = [t \in Tx |-> {}]
  /\ swapped = [t \in Tx |-> {}]
  /\ writing = [t \in Tx |-> FALSE]
  /\ errs = [t \in Tx |-> FALSE]
  /\ ret = [t \in Tx |-> "none"]
  /\ rpc = "idle" /\ rtx \in Tx /\ rtodo = {} /\ rpending = {}
  /\ rany = FALSE /\ rwriting = FALSE
  /\ outcome = [t \in Tx |-> "none"]
  /\ faults = 0 /\ crashes = 0 /\ edits = 0

-----------------------------------------------------------------------------
(* Helpers *)

\* The loops run over the files in list order: f is the one whose turn it is.
IsNext(f, S) == f \in S /\ \A g \in S : f <= g

\* A file-system call of this step succeeds (ok) or uses up one fault.
Call(ok) == IF ok THEN faults' = faults
                  ELSE faults < MaxFaults /\ faults' = faults + 1

\* A lookup; the code takes one that fails for "there is nothing there".
Lookup(seen) == Call(seen) /\ (seen \/ LookupFails)

Running(t) == pc[t] \notin {"idle", "returned", "dead"}

Quiet == rpc = "idle" /\ \A t \in Tx : ~Running(t)

\* The transaction is past the pending-journal check, or left a journal behind.
Live(t) == (Running(t) /\ pc[t] # "pendcheck") \/ journal[t] # "none"

Unswapped(t) == FilesOf[t] \ swapped[t]

Goto(t, p) == pc' = [pc EXCEPT ![t] = p]

\* Start the loop at p over S.
Loop(t, p, S) == Goto(t, p) /\ todo' = [todo EXCEPT ![t] = S]

\* Leave f behind; go round again, or on to p over the files of S.
Advance(t, f, p, S) ==
  IF todo[t] = {f} THEN Loop(t, p, S) ELSE Loop(t, pc[t], todo[t] \ {f})

Return(t, r) ==
  /\ Goto(t, "returned")
  /\ ret' = [ret EXCEPT ![t] = r]

Put(fs, t, f, c) == [fs EXCEPT ![t] = [@ EXCEPT ![f] = c]]

txframe == <<recv, crashes, edits>>

-----------------------------------------------------------------------------
(* persist_tx: prepare *)

\* The caller loads the sources, plans, and hands persist_tx the snapshot.
Start(t) ==
  /\ pc[t] = "idle"
  /\ Overlap \/ Quiet
  /\ \A f \in FilesOf[t] : dest[f] # "missing"
  /\ before' = [before EXCEPT ![t] = dest]
  /\ Goto(t, "pendcheck")
  /\ UNCHANGED <<disk, todo, swapped, writing, errs, ret, recv, env>>

\* Mutant: persist_tx does not look for a pending journal.
CheckPendingSkipped(t) ==
  /\ pc[t] = "pendcheck"
  /\ Loop(t, "verify", FilesOf[t])
  /\ UNCHANGED <<disk, before, swapped, writing, errs, ret, faults, txframe>>

\* Refuse to start while a journal of the same root is pending.
CheckPending(t) ==
  /\ pc[t] = "pendcheck"
  /\ \E seen \in BOOLEAN :
       /\ Lookup(seen)
       /\ IF seen /\ \E u \in Tx : Root[u] = Root[t] /\ journal[u] # "none"
            THEN Return(t, "Prepare") /\ UNCHANGED todo
            ELSE Loop(t, "verify", FilesOf[t]) /\ UNCHANGED ret
  /\ UNCHANGED <<disk, before, swapped, writing, errs, txframe>>

\* Mutant: readability is checked, the bytes are not compared.
VerifyFileUncompared(t) ==
  /\ pc[t] = "verify"
  /\ \E f \in todo[t] :
       /\ IsNext(f, todo[t])
       /\ dest[f] # "missing"
       /\ Advance(t, f, "jprepared", {})
  /\ UNCHANGED <<disk, before, swapped, writing, errs, ret, faults, txframe>>

\* Each destination must be readable and hold exactly the snapshot.
VerifyFile(t) ==
  /\ pc[t] = "verify"
  /\ \E f \in todo[t], ok \in BOOLEAN :
       /\ IsNext(f, todo[t])
       /\ Call(ok)
       /\ IF ok /\ dest[f] = before[t][f]
            THEN Advance(t, f, "jprepared", {}) /\ UNCHANGED ret
            ELSE Return(t, "Prepare") /\ UNCHANGED todo
  /\ UNCHANGED <<disk, before, swapped, writing, errs, txframe>>

-----------------------------------------------------------------------------
(* write_journal: File::create truncates, write_all and sync_data follow *)

\* Where each of the five calls of write_journal continues.
AfterJournal(t, ok) ==
  \/ /\ pc[t] = "jprepared" /\ ok
     /\ Loop(t, "stage", FilesOf[t]) /\ UNCHANGED ret
  \/ /\ pc[t] = "jprepared" /\ ~ok
     /\ Return(t, "Staging") /\ UNCHANGED todo
  \/ /\ pc[t] = "jstaged" /\ ok
     /\ Goto(t, "jswapping") /\ UNCHANGED <<todo, ret>>
  \/ /\ pc[t] = "jstaged" /\ ~ok
     /\ Loop(t, "unstage", FilesOf[t]) /\ UNCHANGED ret
  \/ /\ pc[t] = "jswapping" \/ (pc[t] = "jswapped" /\ Unswapped(t) # {})
     /\ Goto(t, "swap") /\ UNCHANGED <<todo, ret>>
  \/ /\ pc[t] = "jswapped" /\ Unswapped(t) = {}
     /\ Loop(t, "finalize", FilesOf[t]) /\ UNCHANGED ret
  \/ /\ pc[t] = "jdone"
     /\ Goto(t, "dropdone") /\ UNCHANGED <<todo, ret>>

JournalCreate(t) ==
  /\ pc[t] \in JournalSites /\ ~writing[t]
  /\ \E ok \in BOOLEAN :
       /\ Call(ok)
       /\ IF ok THEN /\ journal' = [journal EXCEPT ![t] = "torn"]
                     /\ writing' = [writing EXCEPT ![t] = TRUE]
                     /\ UNCHANGED <<pc, todo, ret>>
                ELSE AfterJournal(t, FALSE) /\ UNCHANGED <<journal, writing>>
  /\ UNCHANGED <<dest, stage, bak, before, swapped, errs, txframe>>

\* A failing write or sync may have written part of the entry or all of it;
\* a journal that was removed meanwhile stays removed.
JournalWrite(t) ==
  /\ writing[t]
  /\ \E ok \in BOOLEAN, j \in {"torn", "whole"} :
       /\ Call(ok)
       /\ ok => j = "whole"
       /\ journal' = [journal EXCEPT ![t] = IF @ = "none" THEN @ ELSE j]
       /\ AfterJournal(t, ok)
  /\ writing' = [writing EXCEPT ![t] = FALSE]
  /\ UNCHANGED <<dest, stage, bak, before, swapped, errs, txframe>>

-----------------------------------------------------------------------------
(* persist_tx: stage *)

StageCreate(t) ==
  /\ pc[t] = "stage"
  /\ \E f \in todo[t], ok \in BOOLEAN :
       /\ IsNext(f, todo[t])
       /\ Call(ok)
       /\ IF ok /\ stage[t][f] = "missing"
            THEN /\ stage' = Put(stage, t, f, "partial")
                 /\ Goto(t, "stagewrite") /\ UNCHANGED todo
            ELSE Loop(t, "unstage", FilesOf[t]) /\ UNCHANGED stage
  /\ UNCHANGED <<dest, bak, journal, before, swapped, writing, errs, ret, txframe>>

\* Mutant: the results of write_all and sync_data are dropped.
StageWriteUnchecked(t) ==
  /\ pc[t] = "stagewrite"
  /\ \E f \in todo[t], ok \in BOOLEAN :
       /\ IsNext(f, todo[t])
       /\ Call(ok)
       /\ stage' = Put(stage, t, f, IF ok THEN t ELSE "partial")
       /\ IF todo[t] = {f} THEN Loop(t, "jstaged", {})
                           ELSE Loop(t, "stage", todo[t] \ {f})
  /\ UNCHANGED <<dest, bak, journal, before, swapped, writing, errs, ret, txframe>>

\* write_all and sync_data; a failure may leave part of the bytes or all.
StageWrite(t) ==
  /\ pc[t] = "stagewrite"
  /\ \E f \in todo[t], ok \in BOOLEAN, c \in {"partial", t} :
       /\ IsNext(f, todo[t])
       /\ Call(ok)
       /\ ok => c = t
       /\ stage' = [stage EXCEPT ![t] =
                      [@ EXCEPT ![f] = IF @ = "missing" THEN @ ELSE c]]
       /\ IF ~ok THEN Loop(t, "unstage", FilesOf[t])
          ELSE IF todo[t] = {f} THEN Loop(t, "jstaged", {})
          ELSE Loop(t, "stage", todo[t] \ {f})
  /\ UNCHANGED <<dest, bak, journal, before, swapped, writing, errs, ret, txframe>>

\* Staging failed: remove every staged file, then the journal.
Unstage(t) ==
  /\ pc[t] = "unstage"
  /\ \E f \in todo[t], ok \in BOOLEAN :
       /\ IsNext(f, todo[t])
       /\ Call(ok)
       /\ stage' = IF ok THEN Put(stage, t, f, "missing") ELSE stage
       /\ Advance(t, f, "dropstaging", {})
  /\ UNCHANGED <<dest, bak, journal, before, swapped, writing, errs, ret, txframe>>

DropStaging(t) ==
  /\ pc[t] = "dropstaging"
  /\ \E ok \in BOOLEAN :
       /\ Call(ok)
       /\ journal' = [journal EXCEPT ![t] = IF ok THEN "none" ELSE @]
  /\ Return(t, "Staging")
  /\ UNCHANGED <<dest, stage, bak, before, todo, swapped, writing, errs, txframe>>

-----------------------------------------------------------------------------
(* persist_tx: commit and rollback *)

Rename(src, ok) == ok /\ src # "missing"

\* A swap failed: restore the swapped files first, if there are any.
Rollback(t) ==
  IF swapped[t] = {} THEN Loop(t, "unstagerest", Unswapped(t))
                     ELSE Loop(t, "restore", swapped[t])

\* dest -> bak
Swap(t) ==
  /\ pc[t] = "swap"
  /\ \E f \in Unswapped(t), ok \in BOOLEAN :
       /\ IsNext(f, Unswapped(t))
       /\ Call(ok)
       /\ IF Rename(dest[f], ok)
            THEN /\ bak' = Put(bak, t, f, dest[f])
                 /\ dest' = [dest EXCEPT ![f] = "missing"]
                 /\ Goto(t, "promote") /\ UNCHANGED todo
            ELSE Rollback(t) /\ UNCHANGED <<dest, bak>>
  /\ UNCHANGED <<stage, journal, before, swapped, writing, errs, ret, txframe>>

\* stage -> dest
Promote(t) ==
  /\ pc[t] = "promote"
  /\ \E f \in Unswapped(t), ok \in BOOLEAN :
       /\ IsNext(f, Unswapped(t))
       /\ Call(ok)
       /\ IF Rename(stage[t][f], ok)
            THEN /\ dest' = [dest EXCEPT ![f] = stage[t][f]]
                 /\ stage' = Put(stage, t, f, "missing")
                 /\ swapped' = [swapped EXCEPT ![t] = @ \cup {f}]
                 /\ Goto(t, "jswapped") /\ UNCHANGED todo
            ELSE Rollback(t) /\ UNCHANGED <<dest, stage, swapped>>
  /\ UNCHANGED <<bak, journal, before, writing, errs, ret, txframe>>

\* Rollback, first loop: bak -> dest for every swapped file.
Restore(t) ==
  /\ pc[t] = "restore"
  /\ \E f \in todo[t], ok \in BOOLEAN :
       /\ IsNext(f, todo[t])
       /\ Call(ok)
       /\ IF Rename(bak[t][f], ok)
            THEN /\ dest' = [dest EXCEPT ![f] = bak[t][f]]
                 /\ bak' = Put(bak, t, f, "missing")
                 /\ UNCHANGED errs
            ELSE /\ errs' = [errs EXCEPT ![t] = TRUE]
                 /\ UNCHANGED <<dest, bak>>
       /\ Advance(t, f, "unstagerest", Unswapped(t))
  /\ UNCHANGED <<stage, journal, before, swapped, writing, ret, txframe>>

\* Rollback, second loop: drop the staged bytes of the unswapped files.
UnstageRest(t) ==
  /\ pc[t] = "unstagerest"
  /\ \E f \in todo[t], ok \in BOOLEAN :
       /\ IsNext(f, todo[t])
       /\ Call(ok)
       /\ stage' = IF ok THEN Put(stage, t, f, "missing") ELSE stage
       /\ Advance(t, f, "restorelast", {})
  /\ UNCHANGED <<dest, bak, journal, before, swapped, writing, errs, ret, txframe>>

\* Mutant: rollback skips the file whose swap failed.
RestoreLastSkipped(t) ==
  /\ pc[t] = "restorelast"
  /\ IF errs[t] THEN Return(t, "RecoveryRequired")
                ELSE Goto(t, "droprollback") /\ UNCHANGED ret
  /\ UNCHANGED <<disk, before, todo, swapped, writing, errs, faults, txframe>>

\* Mutant: failures of the rollback are swallowed.
RestoreLastSwallowing(t) ==
  /\ pc[t] = "restorelast"
  /\ \E f \in Unswapped(t), ok \in BOOLEAN :
       /\ IsNext(f, Unswapped(t))
       /\ Call(ok)
       /\ dest' = IF Rename(bak[t][f], ok)
                    THEN [dest EXCEPT ![f] = bak[t][f]] ELSE dest
       /\ bak' = IF ok THEN Put(bak, t, f, "missing") ELSE bak
  /\ Goto(t, "droprollback")
  /\ UNCHANGED <<stage, journal, before, todo, swapped, writing, errs, ret, txframe>>

\* Rollback, last: the file whose swap failed may still sit in its backup.
RestoreLast(t) ==
  /\ pc[t] = "restorelast"
  /\ \E f \in Unswapped(t), ok \in BOOLEAN, seen \in BOOLEAN :
       /\ IsNext(f, Unswapped(t))
       /\ IF seen THEN Call(ok) ELSE ok /\ Lookup(seen)
       /\ bak[t][f] = "missing" => ok
       /\ IF seen /\ Rename(bak[t][f], ok)
            THEN /\ dest' = [dest EXCEPT ![f] = bak[t][f]]
                 /\ bak' = Put(bak, t, f, "missing")
            ELSE UNCHANGED <<dest, bak>>
       /\ IF ~ok \/ errs[t] THEN Return(t, "RecoveryRequired")
                            ELSE Goto(t, "droprollback") /\ UNCHANGED ret
       /\ errs' = [errs EXCEPT ![t] = @ \/ ~ok]
  /\ UNCHANGED <<stage, journal, before, todo, swapped, writing, txframe>>

\* A complete rollback removes the journal and reports Phase::Commit.
DropRollback(t) ==
  /\ pc[t] = "droprollback"
  /\ \E ok \in BOOLEAN :
       /\ Call(ok)
       /\ journal' = [journal EXCEPT ![t] = IF ok THEN "none" ELSE @]
  /\ Return(t, "Commit")
  /\ UNCHANGED <<dest, stage, bak, before, todo, swapped, writing, errs, txframe>>

-----------------------------------------------------------------------------
(* persist_tx: finalize *)

RemoveBackup(t) ==
  /\ pc[t] = "finalize"
  /\ \E f \in todo[t], ok \in BOOLEAN :
       /\ IsNext(f, todo[t])
       /\ Call(ok)
       /\ bak' = IF ok THEN Put(bak, t, f, "missing") ELSE bak
       /\ errs' = [errs EXCEPT ![t] = @ \/ ~Rename(bak[t][f], ok)]
       /\ Advance(t, f, "jdone", {})
  /\ UNCHANGED <<dest, stage, journal, before, swapped, writing, ret, txframe>>

\* Backups that could not be removed turn the commit into a Phase::Commit error.
DropDone(t) ==
  /\ pc[t] = "dropdone"
  /\ \E ok \in BOOLEAN :
       /\ Call(ok)
       /\ journal' = [journal EXCEPT ![t] = IF ok THEN "none" ELSE @]
  /\ Return(t, IF errs[t] THEN "Commit" ELSE "ok")
  /\ UNCHANGED <<dest, stage, bak, before, todo, swapped, writing, errs, txframe>>

-----------------------------------------------------------------------------
(* recover / recover_one *)

recframe == <<procs, crashes, edits>>

RGoto(p) == rpc' = p

\* Answer for the journal in hand; the recoverer is done with it.
Answer(o) ==
  /\ rpc' = "idle"
  /\ outcome' = [outcome EXCEPT ![rtx] = o]

RLoop(p, S) == RGoto(p) /\ rtodo' = S

\* `ontixa recover` finds t's journal in its root.
RecoverStart(t) ==
  /\ rpc = "idle"
  /\ Overlap \/ Quiet
  /\ journal[t] # "none"
  /\ rpc' = "read" /\ rtx' = t
  /\ rtodo' = {} /\ rpending' = {} /\ rany' = FALSE
  /\ outcome' = [outcome EXCEPT ![t] = "none"]
  /\ UNCHANGED <<disk, procs, rwriting, env>>

\* Mutant: recovery waits for the journal to be readable instead of reporting it.
ReadJournalWaiting ==
  /\ rpc = "read"
  /\ \E ok \in BOOLEAN :
       /\ Call(ok)
       /\ IF ok /\ journal[rtx] = "whole"
            THEN RLoop("classify", FilesOf[rtx])
            ELSE UNCHANGED <<rpc, rtodo>>
  /\ UNCHANGED <<disk, rtx, rpending, rany, rwriting, outcome, recframe>>

ReadJournal ==
  /\ rpc = "read"
  /\ \E ok \in BOOLEAN :
       /\ Call(ok)
       /\ IF ok /\ journal[rtx] = "whole"
            THEN RLoop("classify", FilesOf[rtx]) /\ UNCHANGED outcome
            ELSE Answer("ConflictJournal") /\ UNCHANGED rtodo
  /\ UNCHANGED <<disk, rtx, rpending, rany, rwriting, recframe>>

\* Mutant: one swapped file is taken for a committed transaction.
DecideOnFirst(pending, any) == RLoop("cleanstage", FilesOf[rtx])

\* What the classification decides once every file has been read.
Decide(pending, any) ==
  IF pending = {} THEN RLoop("cleanstage", FilesOf[rtx])
  ELSE IF any THEN RLoop("checkstage", {})
  ELSE RLoop("cleanstage", FilesOf[rtx])

\* Mutant: a file with unknown bytes is taken to be pending.
ClassifyUnknownAsPending ==
  /\ rpc = "classify"
  /\ \E f \in rtodo :
       /\ IsNext(f, rtodo)
       /\ rany' = (rany \/ dest[f] = rtx)
       /\ rpending' = IF dest[f] = rtx THEN rpending ELSE rpending \cup {f}
       /\ IF rtodo = {f} THEN Decide(rpending', rany')
                         ELSE RLoop("classify", rtodo \ {f})
  /\ UNCHANGED <<disk, rtx, rwriting, outcome, faults, recframe>>

Classify ==
  /\ rpc = "classify"
  /\ \E f \in rtodo, ok \in BOOLEAN :
       /\ IsNext(f, rtodo)
       /\ Call(ok)
       /\ IF ok /\ dest[f] \in {rtx, before[rtx][f]}
            THEN /\ rany' = (rany \/ dest[f] = rtx)
                 /\ rpending' = IF dest[f] = rtx THEN rpending
                                                 ELSE rpending \cup {f}
                 /\ IF rtodo = {f} THEN Decide(rpending', rany')
                                   ELSE RLoop("classify", rtodo \ {f})
                 /\ UNCHANGED outcome
            ELSE Answer("ConflictFile") /\ UNCHANGED <<rtodo, rpending, rany>>
  /\ UNCHANGED <<disk, rtx, rwriting, recframe>>

\* Nothing left to swap, or nothing swapped: remove stage and backup of each
\* file, then the journal.
CleanStage ==
  /\ rpc = "cleanstage"
  /\ \E f \in rtodo, ok \in BOOLEAN :
       /\ IsNext(f, rtodo)
       /\ Call(ok)
       /\ stage' = IF ok THEN Put(stage, rtx, f, "missing") ELSE stage
  /\ RGoto("cleanbak")
  /\ UNCHANGED <<dest, bak, journal, rtx, rtodo, rpending, rany, rwriting, outcome, recframe>>

CleanBak ==
  /\ rpc = "cleanbak"
  /\ \E f \in rtodo, ok \in BOOLEAN :
       /\ IsNext(f, rtodo)
       /\ Call(ok)
       /\ bak' = IF ok THEN Put(bak, rtx, f, "missing") ELSE bak
       /\ IF rtodo = {f} THEN RLoop("cleanjournal", {})
                         ELSE RLoop("cleanstage", rtodo \ {f})
  /\ UNCHANGED <<dest, stage, journal, rtx, rpending, rany, rwriting, outcome, recframe>>

\* Mutant: recovery answers without removing the journal.
CleanJournalKept ==
  /\ rpc = "cleanjournal"
  /\ Answer(IF rpending = {} THEN "Committed" ELSE "RolledBack")
  /\ UNCHANGED <<disk, rtx, rtodo, rpending, rany, rwriting, faults,
                 recframe>>

CleanJournal ==
  /\ rpc = "cleanjournal"
  /\ \E ok \in BOOLEAN :
       /\ Call(ok)
       /\ journal' = [journal EXCEPT ![rtx] = IF ok THEN "none" ELSE @]
  /\ Answer(IF rpending = {} THEN "Committed" ELSE "RolledBack")
  /\ UNCHANGED <<dest, stage, bak, rtx, rtodo, rpending, rany, rwriting, recframe>>

\* Past the commit point: the staged bytes of a pending file must be intact.
CheckStage ==
  /\ rpc = "checkstage"
  /\ \E f \in rpending, ok \in BOOLEAN :
       /\ IsNext(f, rpending)
       /\ Call(ok)
       /\ IF ok /\ stage[rtx][f] = rtx
            THEN RGoto("rswap") /\ UNCHANGED outcome
            ELSE Answer("ConflictStage")
  /\ UNCHANGED <<disk, rtx, rtodo, rpending, rany, rwriting, recframe>>

RecoverSwap ==
  /\ rpc = "rswap"
  /\ \E f \in rpending, ok \in BOOLEAN :
       /\ IsNext(f, rpending)
       /\ Call(ok)
       /\ IF Rename(dest[f], ok)
            THEN /\ bak' = Put(bak, rtx, f, dest[f])
                 /\ dest' = [dest EXCEPT ![f] = "missing"]
                 /\ RGoto("rpromote") /\ UNCHANGED outcome
            ELSE Answer("ConflictFile") /\ UNCHANGED <<dest, bak>>
  /\ UNCHANGED <<stage, journal, rtx, rtodo, rpending, rany, rwriting, recframe>>

RecoverPromote ==
  /\ rpc = "rpromote"
  /\ \E f \in rpending, ok \in BOOLEAN :
       /\ IsNext(f, rpending)
       /\ Call(ok)
       /\ IF Rename(stage[rtx][f], ok)
            THEN /\ dest' = [dest EXCEPT ![f] = stage[rtx][f]]
                 /\ stage' = Put(stage, rtx, f, "missing")
                 /\ rpending' = rpending \ {f}
                 /\ RGoto("jpromoted") /\ UNCHANGED outcome
            ELSE Answer("ConflictFile") /\ UNCHANGED <<dest, stage, rpending>>
  /\ UNCHANGED <<bak, journal, rtx, rtodo, rany, rwriting, recframe>>

\* Mutant: a recovery that finishes a commit forgets the backups.
RecoverAfterJournalBackupsKept ==
  IF rpc = "jrdone" THEN RGoto("rdrop") /\ UNCHANGED rtodo
  ELSE IF rpending = {} THEN RLoop("jrdone", {})
  ELSE RGoto("checkstage") /\ UNCHANGED rtodo

\* The two calls of write_journal in recovery ignore their result.
RecoverAfterJournal ==
  IF rpc = "jrdone" THEN RGoto("rdrop") /\ UNCHANGED rtodo
  ELSE IF rpending = {} THEN RLoop("rmbaks", FilesOf[rtx])
  ELSE RGoto("checkstage") /\ UNCHANGED rtodo

RecoverJournalCreate ==
  /\ rpc \in {"jpromoted", "jrdone"} /\ ~rwriting
  /\ \E ok \in BOOLEAN :
       /\ Call(ok)
       /\ rwriting' = ok
       /\ IF ok THEN /\ journal' = [journal EXCEPT ![rtx] = "torn"]
                     /\ UNCHANGED <<rpc, rtodo>>
                ELSE RecoverAfterJournal /\ UNCHANGED journal
  /\ UNCHANGED <<dest, stage, bak, rtx, rpending, rany, outcome, recframe>>

RecoverJournalWrite ==
  /\ rwriting
  /\ \E ok \in BOOLEAN, j \in {"torn", "whole"} :
       /\ Call(ok)
       /\ ok => j = "whole"
       /\ journal' = [journal EXCEPT ![rtx] = IF @ = "none" THEN @ ELSE j]
  /\ rwriting' = FALSE
  /\ RecoverAfterJournal
  /\ UNCHANGED <<dest, stage, bak, rtx, rpending, rany, outcome, recframe>>

RecoverRemoveBackup ==
  /\ rpc = "rmbaks"
  /\ \E f \in rtodo, ok \in BOOLEAN :
       /\ IsNext(f, rtodo)
       /\ Call(ok)
       /\ bak' = IF ok THEN Put(bak, rtx, f, "missing") ELSE bak
       /\ IF rtodo = {f} THEN RLoop("jrdone", {}) ELSE RLoop("rmbaks", rtodo \ {f})
  /\ UNCHANGED <<dest, stage, journal, rtx, rpending, rany, rwriting,
                 outcome, recframe>>

RecoverDrop ==
  /\ rpc = "rdrop"
  /\ \E ok \in BOOLEAN :
       /\ Call(ok)
       /\ journal' = [journal EXCEPT ![rtx] = IF ok THEN "none" ELSE @]
  /\ Answer("Committed")
  /\ UNCHANGED <<dest, stage, bak, rtx, rtodo, rpending, rany, rwriting,
                 recframe>>

-----------------------------------------------------------------------------
(* The environment: process death, an editor saving a file *)

Crash(t) ==
  /\ Running(t)
  /\ crashes < MaxCrashes /\ crashes' = crashes + 1
  /\ Goto(t, "dead")
  /\ writing' = [writing EXCEPT ![t] = FALSE]
  /\ UNCHANGED <<disk, before, todo, swapped, errs, ret, recv, faults, edits>>

RecoverCrash ==
  /\ rpc # "idle"
  /\ crashes < MaxCrashes /\ crashes' = crashes + 1
  /\ rpc' = "idle" /\ rwriting' = FALSE
  /\ UNCHANGED <<disk, procs, rtx, rtodo, rpending, rany, outcome,
                 faults, edits>>

\* t has checked f and may still swap it.
MaySwap(t, f) ==
  /\ f \in Unswapped(t)
  /\ \/ pc[t] = "verify" /\ f \notin todo[t]
     \/ pc[t] \in {"jprepared", "stage", "stagewrite", "jstaged", "jswapping",
                   "swap", "promote", "jswapped"}

\* Recovery has classified f as pending and may still swap it.
MayRecover(f) ==
  /\ f \in rpending
  /\ rpc \in {"classify", "checkstage", "rswap", "rpromote", "jpromoted"}

\* f is outside the window the code documents, between a check and the swap it
\* guards.  Saves after the swap and during a rollback are outside it too.
Unguarded(f) == ~MayRecover(f) /\ \A t \in Tx : ~MaySwap(t, f)

Edit(f) ==
  /\ edits < MaxEdits /\ edits' = edits + 1
  /\ RacingEdits \/ Unguarded(f)
  /\ dest' = [dest EXCEPT ![f] = "foreign"]
  /\ UNCHANGED <<stage, bak, journal, procs, recv, faults, crashes>>

-----------------------------------------------------------------------------
PersistStep(t) ==
  \/ CheckPending(t) \/ VerifyFile(t)
  \/ JournalCreate(t) \/ JournalWrite(t)
  \/ StageCreate(t) \/ StageWrite(t) \/ Unstage(t) \/ DropStaging(t)
  \/ Swap(t) \/ Promote(t)
  \/ Restore(t) \/ UnstageRest(t) \/ RestoreLast(t) \/ DropRollback(t)
  \/ RemoveBackup(t) \/ DropDone(t)

RecoverStep ==
  \/ ReadJournal \/ Classify
  \/ CleanStage \/ CleanBak \/ CleanJournal
  \/ CheckStage \/ RecoverSwap \/ RecoverPromote
  \/ RecoverJournalCreate \/ RecoverJournalWrite
  \/ RecoverRemoveBackup \/ RecoverDrop

Next ==
  \/ \E t \in Tx : Start(t) \/ PersistStep(t) \/ RecoverStart(t) \/ Crash(t)
  \/ RecoverStep \/ RecoverCrash
  \/ \E f \in Files : Edit(f)

Spec == Init /\ [][Next]_vars

\* A process keeps making calls until it returns or dies, and somebody runs
\* `ontixa recover` while a journal is pending.
Fairness ==
  /\ \A t \in Tx : WF_vars(PersistStep(t))
  /\ WF_vars(RecoverStep)
  /\ \A t \in Tx : WF_vars(RecoverStart(t))

FairSpec == Spec /\ Fairness
-----------------------------------------------------------------------------
(* Properties *)

LoopPcs == {"verify", "stage", "stagewrite", "unstage", "restore",
            "unstagerest", "finalize"}

DiskOK ==
  /\ dest \in [Files -> Content]
  /\ stage \in [Tx -> [Files -> Content]]
  /\ bak \in [Tx -> [Files -> Content]]
  /\ journal \in [Tx -> {"none", "torn", "whole"}]

ProcsOK ==
  /\ before \in [Tx -> [Files -> Content]]
  /\ pc \in [Tx -> TxPcs]
  /\ todo \in [Tx -> SUBSET Files]
  /\ swapped \in [Tx -> SUBSET Files]
  /\ writing \in [Tx -> BOOLEAN]
  /\ errs \in [Tx -> BOOLEAN]
  /\ ret \in [Tx -> Results]

RecoverOK ==
  /\ rpc \in RecPcs /\ rtx \in Tx
  /\ rtodo \in SUBSET Files /\ rpending \in SUBSET Files
  /\ rany \in BOOLEAN /\ rwriting \in BOOLEAN
  /\ outcome \in [Tx -> Outcomes]

EnvOK ==
  faults \in 0..MaxFaults /\ crashes \in 0..MaxCrashes /\ edits \in 0..MaxEdits

LoopsOK ==
  /\ \A t \in Tx : pc[t] \in LoopPcs => todo[t] # {}
  /\ rpc \in {"classify", "cleanstage", "cleanbak", "rmbaks"} => rtodo # {}

\* Every variable has the type of its field in the code, and a loop that is
\* under way (persist_tx or recover_one) has a file left to visit.
TypeOK == DiskOK /\ ProcsOK /\ RecoverOK /\ EnvOK /\ LoopsOK

AllBefore(t) == \A f \in FilesOf[t] : dest[f] = before[t][f]
AllAfter(t)  == \A f \in FilesOf[t] : dest[f] = t

\* "Live files are never truncated": whoever reads a source file, at any moment
\* and whatever failed, never sees bytes whose write had not finished.
NoPartialLive == \A f \in Files : dest[f] # "partial"

\* Every staged file or backup that outlives its transaction is there because
\* one call failed: however often a process died, the next runs of recovery have
\* taken away what it left ("artifacts the next recover call must clean up").
StraysAreFailures ==
  LET Left(fs) == {p \in Tx \X Files : ~Live(p[1]) /\ fs[p[1]][p[2]] # "missing"}
  IN  Cardinality(Left(stage)) + Cardinality(Left(bak)) <= faults

\* While a transaction is unresolved, the disk still holds what is needed to
\* put every file back, or what is needed to finish every file, whatever calls
\* failed and wherever a process died.
NoBytesLost ==
  edits = 0 => \A t \in Tx : Live(t) =>
    \/ \A f \in FilesOf[t] : before[t][f] \in {dest[f], bak[t][f]}
    \/ \A f \in FilesOf[t] : t \in {dest[f], stage[t][f]}

\* A journal goes away (finalize, rollback, recovery) only once the files of
\* its transaction all hold their old bytes or all hold their new bytes.
ResolvedAtomically ==
  [][\A t \in Tx : Live(t) /\ ~Live(t)' => AllBefore(t)' \/ AllAfter(t)']_vars

\* What persist_tx returns is what happened to the live files: Ok means all
\* replaced, a Prepare or Staging error none, a Commit error not a
\* mixture, and RecoveryRequired comes with a journal to recover from.
ReturnTruthful ==
  [][\A t \in Tx : ret'[t] # ret[t] =>
       /\ ret'[t] = "ok" => AllAfter(t)'
       /\ ret'[t] \in {"Prepare", "Staging"} => AllBefore(t)'
       /\ ret'[t] = "Commit" => AllBefore(t)' \/ AllAfter(t)'
       /\ ret'[t] = "RecoveryRequired" => journal'[t] # "none"]_vars

\* What recover answers is what is on disk: Committed means every file holds
\* its new bytes, RolledBack every file its old ones.
RecoverTruthful ==
  [][\A t \in Tx : outcome'[t] # outcome[t] =>
       /\ outcome'[t] = "Committed" => AllAfter(t)'
       /\ outcome'[t] = "RolledBack" => AllBefore(t)']_vars

\* A backup holds exactly the bytes the transaction's plan was made from: no
\* other writer's bytes are moved aside and later deleted.
BackupIsSnapshot ==
  \A t \in Tx : \A f \in FilesOf[t] : bak[t][f] \in {"missing", before[t][f]}

\* A rollback puts f's backup back, whatever f holds by then.
GivesBack(t, f) ==
  /\ \/ pc[t] = "restore" /\ f \in swapped[t]
     \/ pc[t] = "restorelast" /\ f \in Unswapped(t) /\ bak[t][f] # "missing"
  /\ dest'[f] = before[t][f]

\* An editor's bytes saved outside the check-to-swap window leave a live file in
\* two ways only: through a transaction planned from those very bytes, or, saved
\* after a transaction had moved the file aside, when that transaction fails
\* later and rolls the file back.  Neither a stale plan nor a recovery after a
\* crash overwrites them.
EditsSurvive ==
  [][\A f \in Files : dest[f] = "foreign" /\ dest'[f] # "foreign" =>
       \E t \in Tx : /\ f \in FilesOf[t] /\ Live(t)
                     /\ before[t][f] = "foreign" \/ GivesBack(t, f)]_vars

\* The disk state recovery can finish from: a readable journal, every live file
\* old or new, and if any is new, intact staged bytes for the old ones.
Intact(t) ==
  /\ journal[t] = "whole"
  /\ \A f \in FilesOf[t] : dest[f] \in {before[t][f], t}
  /\ (\E f \in FilesOf[t] : dest[f] = t) =>
       \A f \in FilesOf[t] : dest[f] # t => stage[t][f] = t

\* Once nothing runs and nothing more fails, an intact pending transaction is
\* resolved by repeated recovery.
RecoveryCompletes ==
  \A t \in Tx :
    (Quiet /\ Intact(t) /\ faults = MaxFaults /\ crashes = MaxCrashes /\ edits = 0)
      ~> ~Live(t)

\* Every started transaction is eventually answered: it returns, or recovery of
\* the journal it left gives an answer.
EventuallyAnswered ==
  \A t \in Tx : Live(t) ~> (~Live(t) \/ outcome[t] # "none")

\* Seen by readers who respect the journal, a transaction is one atomic step.
View == [f \in Files |->
           IF \E t \in Tx : Live(t) /\ f \in FilesOf[t]
             THEN before[CHOOSE t \in Tx : Live(t) /\ f \in FilesOf[t]][f]
             ELSE dest[f]]

Abstract == INSTANCE AtomicUpdate WITH view <- View, open <- {t \in Tx : Live(t)}

\* persist_tx and recover together implement the atomic multi-file update.
ImplementsAtomicUpdate == Abstract!Spec
=============================================================================
