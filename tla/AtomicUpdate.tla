----------------------------- MODULE AtomicUpdate -----------------------------
(***************************************************************************)
(* What a journalled transaction promises a reader who waits while a       *)
(* journal is pending: the files of one transaction change together or     *)
(* not at all, and the transactions of one journal directory are resolved  *)
(* one at a time.                                                          *)
(***************************************************************************)
CONSTANTS Tx, Files, FilesOf, Root

VARIABLES
  view,   \* the contents such a reader relies on
  open    \* transactions begun and not yet resolved

Init ==
  /\ view = [f \in Files |-> "orig"]
  /\ open = {}

Begin(t) ==
  /\ \A u \in open : Root[u] # Root[t]
  /\ open' = open \cup {t}
  /\ UNCHANGED view

Abort(t) ==
  /\ t \in open
  /\ open' = open \ {t}
  /\ UNCHANGED view

Commit(t) ==
  /\ t \in open
  /\ open' = open \ {t}
  /\ view' = [f \in Files |-> IF f \in FilesOf[t] THEN t ELSE view[f]]

Next == \E t \in Tx : Begin(t) \/ Abort(t) \/ Commit(t)

Spec == Init /\ [][Next]_<<view, open>>
=============================================================================
