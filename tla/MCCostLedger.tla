---------------------------- MODULE MCCostLedger ----------------------------
(* Two processes, one of them misconfigurable, over a small ledger.          *)
EXTENDS CostLedger, TLC

CONSTANTS a, b

(* Both operators configure the same cap.                                    *)
SameCap == [c \in {a, b} |-> 3]

(* Process b is configured with another cap than process a.                  *)
OtherCap == [c \in {a, b} |-> IF c = a THEN 3 ELSE 5]

Symmetry == Permutations(RequestId)
=============================================================================
