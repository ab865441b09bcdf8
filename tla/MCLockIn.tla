------------------------------ MODULE MCLockIn ------------------------------
(* One move of each kind that matters, a Sleep Talk that may call some of    *)
(* them, one or two uses of each.                                            *)
EXTENDS LockIn

\* Each move is named after its kind; "sleep_talk" and "struggle" are plain.
KindOfMoves ==
  [m \in Move |-> IF m \in Kinds THEN m ELSE "other"]
=============================================================================
