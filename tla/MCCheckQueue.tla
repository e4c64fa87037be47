---------------------------- MODULE MCCheckQueue ----------------------------
(* Two workers, three checks, two blocks one after the other.               *)
EXTENDS CheckQueue

CONSTANTS w1, w2, c1, c2, c3
=============================================================================
