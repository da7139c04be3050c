--------------------------- MODULE LaunchContract ---------------------------
(***************************************************************************)
(* What a launch promises, seen from outside: its State(), the row of its  *)
(* bastion, the checks created in the customer's account and the           *)
(* notification.  A launch leaves "in-progress" once; the row advances     *)
(* only before that, and is active when the launch completes; checks are   *)
(* created between completion and the notification, which reports the      *)
(* outcome and is sent at most once.                                       *)
(***************************************************************************)
CONSTANT Targets
VARIABLES status, row, checks, notified
vars == <<status, row, checks, notified>>

Order == {<<"none", "new">>, <<"new", "launching">>, <<"launching", "active">>}

Init == status = "in-progress" /\ row = "none" /\ checks = {} /\ notified = "no"

Advance ==
  /\ status = "in-progress"
  /\ <<row, row'>> \in Order
  /\ UNCHANGED <<status, checks, notified>>

Complete ==
  /\ status = "in-progress" /\ row = "active"
  /\ status' = "complete"
  /\ UNCHANGED <<row, checks, notified>>

Fail ==
  /\ status = "in-progress" /\ status' = "failed"
  /\ UNCHANGED <<row, checks, notified>>

(* Possible after the notification too, when an earlier update failed. *)
MarkFailed ==
  /\ status = "failed" /\ row # "none" /\ row' = "failed"
  /\ UNCHANGED <<status, checks, notified>>

Check ==
  /\ status = "complete" /\ notified = "no"
  /\ \E t \in Targets \ checks : checks' = checks \cup {t}
  /\ UNCHANGED <<status, row, notified>>

Notify ==
  /\ status # "in-progress" /\ notified = "no"
  /\ notified' = IF status = "complete" THEN "success" ELSE "error"
  /\ UNCHANGED <<status, row, checks>>

Next == Advance \/ Complete \/ Fail \/ MarkFailed \/ Check \/ Notify

Spec == Init /\ [][Next]_vars
=============================================================================
