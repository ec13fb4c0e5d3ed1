----------------------------- MODULE MCOpStream -----------------------------
(***************************************************************************)
(* OpStream for TLC: one operation and two workers.                        *)
(***************************************************************************)
EXTENDS OpStream

CONSTANTS o1, w1, w2

MCWorkers == {w1, w2}
OneOp == {o1}
=============================================================================
