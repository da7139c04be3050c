------------------------------ MODULE MCLaunch ------------------------------
(* Launch on a small account: model values for what a discovery may find.  *)
(* Three instances and a database make the smallest account in which one   *)
(* instance error is tolerated (1/4 =< 0.3 < 1/3).                         *)
EXTENDS Launch, TLC
CONSTANTS i1, i2, i3, db1, lb1
MCInstances == {i1, i2, i3}
OneInstance == {i1}
MCDBs == {db1}
MCLBs == {lb1}
=============================================================================
