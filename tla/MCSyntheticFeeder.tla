--------------------------- MODULE MCSyntheticFeeder --------------------------
(* Instances of SyntheticFeeder for TLC.                                   *)
EXTENDS SyntheticFeeder

CONSTANTS t1, t2

\* One thread runs for ever, the other for a few instructions.
OneLimited == t1 :> 0 @@ t2 :> 4

\* The hypotheses of the theorems of SyntheticFeederProofs: what they prove
\* holds of the instance.
ASSUME IterationsLast == ~Wraps /\ Window <= WrongPathLimit
===============================================================================
