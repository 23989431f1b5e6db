---------------------------- MODULE MCTraceFeeder ----------------------------
(* Instances of TraceFeeder for TLC.                                       *)
EXTENDS TraceFeeder

I(pc) == [pc |-> pc, kind |-> "inst"]
N(pc) == [pc |-> pc, kind |-> "nop"]
O(pc) == [pc |-> pc, kind |-> "orphan"]

\* A loop of two instructions: the branch at 2 has orphans in its bundle, one
\* with the address of the loop's exit.  Then no-ops, and the exit.
LoopTrace == <<I(1), I(2), O(3), O(4), I(1), N(2), I(3), I(2), O(3), I(1), N(2), I(4)>>

OneStream == {0}
Loop == [s \in OneStream |-> LoopTrace]

\* Where the controller skips nothing the instance is regular: what
\* TraceFeederPath proves holds of it.
ASSUME LoopIsRegular == SkipCounts = {} => Regular
=============================================================================
