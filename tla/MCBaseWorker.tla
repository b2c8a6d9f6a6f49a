---------------------------- MODULE MCBaseWorker ----------------------------
(* Instances of BaseWorker for TLC.                                          *)
EXTENDS BaseWorker, TLC

CONSTANTS c1, c2, d1, d2

\* The first check aims at 2, the other one at 0.
Targets == [c \in Checks |-> IF c = c1 THEN 2 ELSE 0]
NonNegative == 0 .. 4

=============================================================================
