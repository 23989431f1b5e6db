--------------------------- MODULE MCSoftsdvFeeder ---------------------------
EXTENDS SoftsdvFeeder

Plain(va) == [va |-> va, to |-> va + 1, ctl |-> FALSE, rep |-> FALSE,
              new |-> FALSE, warm |-> FALSE]
New(i) == [i EXCEPT !.new = TRUE]
Warm(i) == [i EXCEPT !.warm = TRUE]
Rep(va) == [Plain(va) EXCEPT !.rep = TRUE]
Jump(va, to) == [Plain(va) EXCEPT !.ctl = TRUE, !.to = to]

\* Warm-up; a branch to a REP of three iterations, with an interrupt behind
\* it, and another behind the first instruction of its handler; a return to
\* straight code and a REP that is cut in two by a third interrupt.
Machine == <<New(Warm(Plain(1))), Warm(Plain(2)),
             New(Plain(10)), Jump(11, 20), Rep(20), Rep(20), Rep(20),
             New(Plain(30)), New(Plain(40)), Jump(41, 21),
             Plain(21), Jump(22, 24), Rep(24), Rep(24),
             New(Jump(50, 24)), Rep(24), Rep(24), Plain(25), Plain(26)>>

\* What the theorems ask of a stream and of the model is so of this one.
ASSUME NewLeavesREP /\ OnlyREPsRepeat /\ ~ LateTraps
=============================================================================
