----------------------------- MODULE MCTracker -----------------------------
(* Two trackers, for the races between leaders, or one for what must       *)
(* happen in the end.  The intervals keep the order they have in the code. *)
EXTENDS Tracker, TLC
CONSTANTS p1, p2, b1
TwoTrackers == {p1, p2}
OneTracker == {p1}
OneBastion == {b1}
TrackerSymmetry == Permutations(TwoTrackers)
=============================================================================
