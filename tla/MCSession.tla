------------------------------ MODULE MCSession ------------------------------
(* A session over two files: main, which may use lib, and lib. *)
EXTENDS Session, TLC

Lib == 1
Main == 2
TwoFiles == (Lib :> [uses : {{}}, name : {"a", "b"}]) @@ (Main :> [uses : {{}, {Lib}}, name : {"a"}])
OneEdit == {[path |-> Main, name |-> "a", to |-> "b"]}
\* The main file is not on the disk yet.
OneDisk == {Lib :> [uses |-> {}, name |-> "a"] @@ Main :> NoFile}
=============================================================================
