--------------------------- MODULE ThreadDispatch ---------------------------
(***************************************************************************)
(* What the context scheduler promises, without its tables, flags, policy  *)
(* or instructions: threads are admitted up to a capacity, a processor is  *)
(* idle only when no thread waits, a thread keeps its processor until it   *)
(* yields, it yields only when it was asked to leave or has ended, and an  *)
(* ended thread never comes back.                                          *)
(***************************************************************************)
EXTENDS Integers, FiniteSets

CONSTANTS Thread, Processor, Capacity, NONE

VARIABLES
    stage,    \* what has become of each thread
    place,    \* Processor -> the thread that has it, or NONE
    aborted   \* the capacity was exceeded and the system has stopped

dvars == <<stage, place, aborted>>

Stages == {"new", "waiting", "running", "leaving", "exiting", "gone"}

DispatchInit ==
    /\ stage = [t \in Thread |-> "new"]
    /\ place = [p \in Processor |-> NONE]
    /\ aborted = FALSE

Live == {t \in Thread : stage[t] \notin {"new", "gone"}}

\* A new thread takes an idle processor, or waits if there is none.
Admit(t) ==
    /\ stage[t] = "new"
    /\ Cardinality(Live) < Capacity
    /\ IF \E p \in Processor : place[p] = NONE
       THEN /\ \E p \in Processor : /\ place[p] = NONE
                                    /\ place' = [place EXCEPT ![p] = t]
            /\ stage' = [stage EXCEPT ![t] = "running"]
       ELSE /\ stage' = [stage EXCEPT ![t] = "waiting"]
            /\ UNCHANGED place
    /\ UNCHANGED aborted

\* One thread too many stops the system.
Refuse ==
    /\ \E t \in Thread : stage[t] = "new"
    /\ Cardinality(Live) >= Capacity
    /\ aborted' = TRUE
    /\ UNCHANGED <<stage, place>>

\* Every running thread is asked to leave its processor.
Preempt ==
    /\ stage' = [t \in Thread |-> IF stage[t] = "running" THEN "leaving"
                                  ELSE stage[t]]
    /\ UNCHANGED <<place, aborted>>

\* A thread ends while it has a processor, asked to leave or not.
Exit(t) ==
    /\ stage[t] \in {"running", "leaving", "exiting"}
    /\ stage' = [stage EXCEPT ![t] = "exiting"]
    /\ UNCHANGED <<place, aborted>>

\* A leaving thread gives up its processor p, which goes to a waiting thread
\* (perhaps itself) and is idle only if there is none.
Yield(t) ==
    /\ stage[t] \in {"leaving", "exiting"}
    /\ LET after == [stage EXCEPT ![t] =
                       IF @ = "exiting" THEN "gone" ELSE "waiting"]
           waiting == {u \in Thread : after[u] = "waiting"}
       IN  \E p \in Processor :
             /\ place[p] = t
             /\ \/ /\ waiting = {}
                   /\ place' = [place EXCEPT ![p] = NONE]
                   /\ stage' = after
                \/ \E u \in waiting :
                     /\ place' = [place EXCEPT ![p] = u]
                     /\ stage' = [after EXCEPT ![u] = "running"]
    /\ UNCHANGED aborted

DispatchNext ==
    /\ ~aborted
    /\ \/ \E t \in Thread : Admit(t) \/ Exit(t) \/ Yield(t)
       \/ Refuse
       \/ Preempt

\* What never happens ...
DispatchSafety == DispatchInit /\ [][DispatchNext]_dvars

\* ... and what does: a thread that must leave leaves.
DispatchSpec ==
    /\ DispatchSafety
    /\ \A t \in Thread : WF_dvars(~aborted /\ Yield(t))
=============================================================================
