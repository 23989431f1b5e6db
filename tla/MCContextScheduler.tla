------------------------- MODULE MCContextScheduler -------------------------
(* Instances of ContextScheduler for TLC.                                  *)
EXTENDS ContextScheduler, TLC

CONSTANTS a, b, c, d

\* Bounds.  Two HWCs of equal priority, or the second one preferred.
EqualPriority == [h \in HWC |-> 0]
SecondPreferred == [h \in HWC |-> h]

SWCSymmetry == Permutations(SWC)
=============================================================================
