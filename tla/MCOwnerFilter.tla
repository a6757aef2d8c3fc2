--------------------------- MODULE MCOwnerFilter ----------------------------
(***************************************************************************)
(* OwnerFilter for TLC: every order of every list of at most five pods and *)
(* three ReplicaSets.                                                      *)
(***************************************************************************)
EXTENDS OwnerFilter

CONSTANTS old, new, foreign, p1, p2, p3, p4, p5

MCOwner ==
    p1 :> old @@ p2 :> old @@ p3 :> new @@ p4 :> new @@ p5 :> foreign
=============================================================================
