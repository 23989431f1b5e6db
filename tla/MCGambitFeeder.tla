---------------------------- MODULE MCGambitFeeder ----------------------------
(* Instances of GambitFeeder for TLC.                                      *)
EXTENDS GambitFeeder

I(kind, seq) == [kind |-> kind, seq |-> seq]

\* Straight code with a no-op, a taken branch, a long immediate, an interrupt,
\* and a branch not taken: every kind, and long enough for the queue to wrap.
Mixed == <<I("plain", TRUE), I("nop", TRUE), I("branch", FALSE), I("mlx", TRUE),
           I("plain", FALSE), I("nop", TRUE), I("branch", TRUE), I("plain", TRUE)>>
===============================================================================
