-------------------------- MODULE MCMingoScheduler --------------------------
(* Three threads: one that sleeps, one that computes, one that calls the     *)
(* operating system.                                                        *)
EXTENDS MingoScheduler

Ev(kind, count) == [kind |-> kind, count |-> count, hint |-> FALSE]

ThreeThreads ==
    << <<Ev("wait", 0), Ev("end", 0)>>,
       <<Ev("op", 0), [Ev("op", 1) EXCEPT !.hint = TRUE], Ev("end", 0)>>,
       <<Ev("syscall", 0), Ev("end", 0)>> >>

(* The default periods, each a multiple of the one before: 5, 10, 10000. *)
DefaultPolls ==
    {{}, {"new"}, {"new", "resumed"}, {"new", "resumed", "timer"}}

(* A model of one stage, and one that has two operations in flight. *)
OneStage == [threads |-> 3, depth |-> 1, unschedule |-> TRUE]
TwoStages == [threads |-> 2, depth |-> 2, unschedule |-> FALSE]

OneOrTwoStages == {OneStage, TwoStages}
OnlyOneStage == {OneStage}
=============================================================================
