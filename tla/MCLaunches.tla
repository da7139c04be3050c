----------------------------- MODULE MCLaunches -----------------------------
(* Two launches of a customer, in two processes: two requests that went to *)
(* different instances of keelhaul, or one that followed a restart.        *)
EXTENDS Launches, TLC
CONSTANTS l1, l2, p1, p2
MCLaunches == {l1, l2}
MCProcesses == {p1, p2}
MCHost == l1 :> p1 @@ l2 :> p2
=============================================================================
