----------------------------- MODULE MCPersistTx -----------------------------
(* Finite instances of PersistTx. *)
EXTENDS PersistTx

CONSTANTS t1, t2

\* Every transaction rewrites every file.
AllFiles == [t \in Tx |-> Files]

\* One journal directory for all.
OneRoot == [t \in Tx |-> "/"]
=============================================================================
