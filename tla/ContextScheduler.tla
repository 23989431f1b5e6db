-------------------------- MODULE ContextScheduler --------------------------
(***************************************************************************)
(* The context scheduler (feeders/scheduler/context_sched), the software   *)
(* contexts it multiplexes (feeders/common/sw_context) and the hardware    *)
(* contexts it maps them onto (feeders/common/hw_context).                 *)
(*                                                                         *)
(* A software context (SWC) is one simulated thread.  A hardware context   *)
(* (HWC) is one hardware thread of the performance model, which fetches    *)
(* from the SWC mapped to it.  A switch takes two stages: the scheduler    *)
(* marks the SWC as being descheduled and the SWC feeds context switch     *)
(* instructions to the performance model; when one of them commits, the    *)
(* scheduler frees the SWC and gives the HWC to the next one, round robin. *)
(*                                                                         *)
(* External to the repository, and modelled from how it is used here:      *)
(* the performance model, one in-order queue of fetched instructions per   *)
(* HWC, which fetches, commits the oldest and kills the youngest; and the  *)
(* feeder, which may say at any fetch that its stream has ended.           *)
(***************************************************************************)
EXTENDS Integers, Sequences, FiniteSets

CONSTANTS
    SWC,                      \* the software contexts that may be created
    NumHWC,                   \* hardware contexts registered at start-up
    Priority,                 \* Priority[h]: HW_CONTEXT_CLASS::GetPriority
    MAX_NUM_SWCS,             \* length of SWContextList (context_sched.awb)
    INTERVAL_TIMER,           \* cycles between reschedules, 0 for never
    CORE_SWAP_FEEDER_ENABLE,  \* switch only at a macro boundary (sw_context.awb)
    PipeDepth,                \* bound: instructions in flight per HWC
    NONE                      \* ASIM_SWC_NONE and ASIM_HWC_NONE

MaxInt32 == 2147483647

HWC == 0 .. NumHWC - 1
Slots == 0 .. MAX_NUM_SWCS - 1

ASSUME SizesAssumption ==
    /\ NumHWC \in Nat \ {0}
    /\ MAX_NUM_SWCS \in Nat \ {0}
    /\ INTERVAL_TIMER \in Nat
    /\ PipeDepth \in Nat \ {0}

\* Priorities are INT32.  A HWC of the least one would never be found free:
\* FindFreeHardwareContext starts from it and looks for a greater one.
ASSUME ConstantsAssumption ==
    /\ Priority \in [HWC -> -MaxInt32 .. MaxInt32]
    /\ CORE_SWAP_FEEDER_ENABLE \in BOOLEAN
    /\ NONE \notin SWC
    /\ NONE \notin HWC

VARIABLES
    \* CONTEXT_SCHEDULER_CLASS
    SWContextList,      \* slot -> SWC or NONE
    nextSWCToTry,       \* round-robin index
    numSWC,             \* contexts added so far; nothing decrements it
    cycle,              \* argument of the next Clock, see NextCycle
    \* HW_CONTEXT_CLASS
    runningSWC,         \* HWC -> SWC or NONE
    \* SW_CONTEXT_CLASS
    created,            \* the SW_CONTEXT_CLASS objects constructed so far
    hwc,                \* SWC -> HWC or NONE
    mappedToHWC,
    runnable,
    deschedulePending,
    deletePending,
    streamEnded,
    running,            \* has fetched since it was last mapped
    running_cs,         \* the same, when CORE_SWAP_FEEDER_ENABLE
    contextSwitchState,
    \* performance model and process
    pipe,               \* HWC -> instructions in flight, oldest first
    error               \* the ASIMERROR that ended the process, or "none"

schedVars == <<SWContextList, nextSWCToTry, numSWC, cycle>>
mapVars == <<runningSWC, hwc, mappedToHWC>>
swcVars == <<created, runnable, deschedulePending, deletePending, streamEnded,
             running, running_cs, contextSwitchState>>
vars == <<schedVars, mapVars, swcVars, pipe, error>>

\* ASIMERROR ends the process: no call is made after it.
Alive == error = "none"

SwitchStates == {"NONE", "REQUESTED", "SENT"}

\* ASIM_INST: the SWC it belongs to, and GetAsimSchedulerContextSwitch.
Instr == [swc : SWC, cs : BOOLEAN]

TypeOK ==
    /\ SWContextList \in [Slots -> SWC \cup {NONE}]
    /\ nextSWCToTry \in Slots
    /\ numSWC \in Nat
    /\ cycle \in 0 .. INTERVAL_TIMER
    /\ runningSWC \in [HWC -> SWC \cup {NONE}]
    /\ created \subseteq SWC
    /\ hwc \in [SWC -> HWC \cup {NONE}]
    /\ mappedToHWC \in [SWC -> BOOLEAN]
    /\ runnable \in [SWC -> BOOLEAN]
    /\ deschedulePending \in [SWC -> BOOLEAN]
    /\ deletePending \in [SWC -> BOOLEAN]
    /\ streamEnded \in [SWC -> BOOLEAN]
    /\ running \in [SWC -> BOOLEAN]
    /\ running_cs \in [SWC -> BOOLEAN]
    /\ contextSwitchState \in [SWC -> SwitchStates]
    /\ pipe \in [HWC -> Seq(Instr)]
    /\ error \in {"none", "NoSlot", "NotMapped", "NotDescheduling",
                  "NotInList", "AlreadyMapped", "StillDescheduling",
                  "NotRunnable"}

-----------------------------------------------------------------------------
(* The scheduler's tables and its policy.                                  *)

EmptySlots_LastUnused == {i \in Slots : SWContextList[i] = NONE /\ i + 1 # MAX_NUM_SWCS}

EmptySlots == {i \in Slots : SWContextList[i] = NONE}

\* The first empty slot AddSoftwareContext meets.
FirstEmptySlot == CHOOSE i \in EmptySlots : \A j \in EmptySlots : i <= j

RemoveSoftwareContext_Forgotten(list, w) == list

\* The list after RemoveSoftwareContext(w): the first slot holding w is freed.
RemoveSoftwareContext(list, w) ==
    LET at == {i \in Slots : list[i] = w}
    IN  IF at = {} THEN list
        ELSE [list EXCEPT ![CHOOSE i \in at : \A j \in at : i <= j] = NONE]

\* RemoveSoftwareContext's ASIMERROR.
RemoveFails(list, w) == \A i \in Slots : list[i] # w

\* FindFreeHardwareContext: the free HWC of greatest priority, the first one
\* among equals, or NONE.
FindFreeHardwareContext ==
    LET free == {h \in HWC : runningSWC[h] = NONE}
        Beats(g, h) == \/ Priority[g] > Priority[h]
                       \/ Priority[g] = Priority[h] /\ g <= h
    IN  IF free = {} THEN NONE
        ELSE CHOOSE g \in free : \A h \in free : Beats(g, h)

\* Slots from nextSWCToTry round to i, in the order they are searched.
SearchDistance(i) == (i - nextSWCToTry + MAX_NUM_SWCS) % MAX_NUM_SWCS

Candidates_MappedToo(list, rn, mapped) ==
    {i \in Slots : list[i] # NONE /\ rn[list[i]]}

\* Slots of a list whose SWC is runnable and on no HWC.
Candidates(list, rn, mapped) ==
    {i \in Slots : list[i] # NONE /\ rn[list[i]] /\ ~mapped[list[i]]}

FindActiveSoftwareContext_NoWrap(list, rn, mapped) ==
    LET C == {i \in Candidates(list, rn, mapped) : i >= nextSWCToTry}
    IN  IF C = {} THEN MAX_NUM_SWCS ELSE CHOOSE i \in C : \A j \in C : i <= j

\* FindActiveSoftwareContext: the first candidate met when the list is searched
\* round from nextSWCToTry, MAX_NUM_SWCS when there is none.
FindActiveSoftwareContext(list, rn, mapped) ==
    LET C == Candidates(list, rn, mapped)
    IN  IF C = {} THEN MAX_NUM_SWCS
        ELSE CHOOSE i \in C : \A j \in C : SearchDistance(i) <= SearchDistance(j)

NextToTry_SameSlot(i) == IF i = MAX_NUM_SWCS THEN nextSWCToTry ELSE i

\* nextSWCToTry after PickSoftwareContext found slot i.
NextToTry(i) ==
    (IF i = MAX_NUM_SWCS THEN nextSWCToTry + 1 ELSE i + 1) % MAX_NUM_SWCS

\* The ASIMERRORs of RunSoftwareContext for SWC w, "none" if it may run.
RunError(w, mapped, pending) ==
    IF mapped[w] THEN "AlreadyMapped"
    ELSE IF pending[w] THEN "StillDescheduling"
    ELSE IF ~runnable[w] THEN "NotRunnable"
    ELSE "none"

\* SW_CONTEXT_CLASS's modifiers, as the new value of the member.
SetNoHWC_Forgotten(w) == hwc

SetNoHWC(w) == [hwc EXCEPT ![w] = NONE]

SetNotDeschedulePending_Forgotten(w) == deschedulePending

SetNotDeschedulePending(w) == [deschedulePending EXCEPT ![w] = FALSE]

\* Clock sees every cycle number; only its remainder by INTERVAL_TIMER and
\* whether it is 0 matter, so the positive multiples are all INTERVAL_TIMER.
NextCycle == IF INTERVAL_TIMER = 0 THEN 0 ELSE (cycle % INTERVAL_TIMER) + 1

-----------------------------------------------------------------------------
(* Every HWC is registered (AddHardwareContext) before the first thread.   *)

Init ==
    /\ SWContextList = [i \in Slots |-> NONE]
    /\ nextSWCToTry = 0
    /\ numSWC = 0
    /\ cycle = 0
    /\ runningSWC = [h \in HWC |-> NONE]
    /\ created = {}
    /\ hwc = [w \in SWC |-> NONE]
    /\ mappedToHWC = [w \in SWC |-> FALSE]
    /\ runnable = [w \in SWC |-> TRUE]
    /\ deschedulePending = [w \in SWC |-> FALSE]
    /\ deletePending = [w \in SWC |-> FALSE]
    /\ streamEnded = [w \in SWC |-> FALSE]
    /\ running = [w \in SWC |-> FALSE]
    /\ running_cs = [w \in SWC |-> FALSE]
    /\ contextSwitchState = [w \in SWC |-> "NONE"]
    /\ pipe = [h \in HWC |-> <<>>]
    /\ error = "none"

(***************************************************************************)
(* TryRunningSoftwareContext(w), called with w already in list: a free HWC *)
(* is given to w if the policy picks w; when the policy picks another SWC  *)
(* nobody is run, and nextSWCToTry has moved on.                           *)
(***************************************************************************)
TryRunningSoftwareContext(w, list) ==
    LET h == FindFreeHardwareContext
        i == FindActiveSoftwareContext(list, runnable, mappedToHWC)
    IN  IF h = NONE
        THEN UNCHANGED <<nextSWCToTry, mapVars, error>>
        ELSE /\ nextSWCToTry' = NextToTry(i)
             /\ IF i \in Slots /\ list[i] = w
                THEN /\ mappedToHWC' = [mappedToHWC EXCEPT ![w] = TRUE]
                     /\ hwc' = [hwc EXCEPT ![w] = h]
                     /\ runningSWC' = [runningSWC EXCEPT ![h] = w]
                     /\ error' = RunError(w, mappedToHWC, deschedulePending)
                ELSE UNCHANGED <<mapVars, error>>

AddSoftwareContext(w) ==
    /\ numSWC' = numSWC + 1
    /\ IF EmptySlots = {}
       THEN /\ error' = "NoSlot"
            /\ UNCHANGED <<SWContextList, nextSWCToTry, mapVars>>
       ELSE /\ SWContextList' = [SWContextList EXCEPT ![FirstEmptySlot] = w]
            /\ TryRunningSoftwareContext(w, SWContextList')

\* StartThread: construct a software context and add it.
StartThread(w) ==
    /\ Alive
    /\ w \notin created
    /\ created' = created \cup {w}
    /\ AddSoftwareContext(w)
    /\ UNCHANGED <<cycle, runnable, deschedulePending, deletePending,
                   streamEnded, running, running_cs, contextSwitchState, pipe>>

(***************************************************************************)
(* Clock: every INTERVAL_TIMER cycles, IntervalTimer on each busy HWC asks *)
(* for a context switch (InitiateContextSwitch) and records it             *)
(* (StartDeschedule), unless one is already under way.  The watchdog that  *)
(* Clock also runs (CheckLiveness) changes no state.                       *)
(***************************************************************************)
\* StartDeschedule, called for each SWC of W.
StartDeschedule(W) ==
    /\ deschedulePending' = [w \in SWC |-> deschedulePending[w] \/ w \in W]
    /\ error' = IF \E w \in W : ~mappedToHWC[w] THEN "NotMapped" ELSE "none"

\* InitiateContextSwitch, called for each SWC of W.
InitiateContextSwitch(W) ==
    contextSwitchState' =
        [w \in SWC |-> IF w \in W THEN "REQUESTED" ELSE contextSwitchState[w]]

IntervalTimerVictims ==
    {w \in SWC : ~deschedulePending[w] /\ \E h \in HWC : runningSWC[h] = w}

Clock ==
    /\ Alive
    /\ cycle' = NextCycle
    /\ IF INTERVAL_TIMER # 0 /\ cycle = INTERVAL_TIMER
       THEN /\ InitiateContextSwitch(IntervalTimerVictims)
            /\ StartDeschedule(IntervalTimerVictims)
       ELSE UNCHANGED <<contextSwitchState, deschedulePending, error>>
    /\ UNCHANGED <<SWContextList, nextSWCToTry, numSWC, mapVars, created,
                   runnable, deletePending, streamEnded, running, running_cs,
                   pipe>>

(***************************************************************************)
(* HW_CONTEXT_CLASS::Fetch and FetchMicro: nothing when no SWC is mapped,  *)
(* otherwise the Fetch of that SWC: a context switch instruction if one is *)
(* due, or what the feeder has, which may be the end of the stream.  sof:  *)
(* the fetch is at the start of a macro instruction.                       *)
(***************************************************************************)
SwitchDue_SentOnce(w, sof) ==
    /\ contextSwitchState[w] = "REQUESTED"
    /\ CORE_SWAP_FEEDER_ENABLE => sof

SwitchDue(w, sof) ==
    /\ contextSwitchState[w] \in {"REQUESTED", "SENT"}
    /\ CORE_SWAP_FEEDER_ENABLE => sof

FetchContextSwitch(w) ==
    /\ contextSwitchState' = [contextSwitchState EXCEPT ![w] = "SENT"]
    /\ UNCHANGED <<schedVars, mapVars, created, runnable, deschedulePending,
                   deletePending, streamEnded, running, running_cs, error>>

\* The first fetch after a swap: what the feeder returns is not looked at.
FetchResume(w) ==
    /\ running_cs[w]
    /\ running' = [running EXCEPT ![w] = TRUE]
    /\ running_cs' = [running_cs EXCEPT ![w] = FALSE]
    /\ UNCHANGED <<schedVars, mapVars, created, runnable, deschedulePending,
                   deletePending, streamEnded, contextSwitchState, error>>

\* An instruction of the stream; the first one of all starts the stream up.
FetchInstruction(w) ==
    /\ ~running_cs[w]
    /\ running' = [running EXCEPT ![w] = TRUE]
    /\ UNCHANGED <<schedVars, mapVars, created, runnable, deschedulePending,
                   deletePending, streamEnded, running_cs, contextSwitchState,
                   error>>

\* SoftwareContextExited: the SWC is marked for deletion and its switch
\* recorded, or it is removed at once if it holds no HWC.
SoftwareContextExited_AsPreempted(w) ==
    /\ StartDeschedule({w})
    /\ UNCHANGED <<runnable, deletePending, SWContextList>>

SoftwareContextExited(w) ==
    /\ runnable' = [runnable EXCEPT ![w] = FALSE]
    /\ IF mappedToHWC[w]
       THEN /\ deletePending' = [deletePending EXCEPT ![w] = TRUE]
            /\ StartDeschedule({w})
            /\ UNCHANGED SWContextList
       ELSE /\ SWContextList' = RemoveSoftwareContext(SWContextList, w)
            /\ error' = IF RemoveFails(SWContextList, w) THEN "NotInList"
                        ELSE "none"
            /\ UNCHANGED <<deletePending, deschedulePending>>

\* The feeder's Fetch failed.  The instruction that was being fetched is still
\* handed to the performance model.
HandleEndThread(w) ==
    /\ ~running_cs[w]
    /\ running' = [running EXCEPT ![w] = TRUE]
    /\ contextSwitchState' = [contextSwitchState EXCEPT ![w] = "REQUESTED"]
    /\ SoftwareContextExited(w)
    /\ streamEnded' = [streamEnded EXCEPT ![w] = TRUE]
    /\ UNCHANGED <<nextSWCToTry, numSWC, cycle, mapVars, created, running_cs>>

SWCFetch(w, sof) ==
    \/ SwitchDue(w, sof) /\ FetchContextSwitch(w)
    \/ ~SwitchDue(w, sof) /\ FetchResume(w)
    \/ ~SwitchDue(w, sof) /\ FetchInstruction(w)
    \/ ~SwitchDue(w, sof) /\ HandleEndThread(w)

Fetch(h, sof) ==
    LET w == runningSWC[h]
    IN  /\ Alive
        /\ w # NONE
        /\ Len(pipe[h]) < PipeDepth
        /\ pipe' = [pipe EXCEPT ![h] =
                      Append(@, [swc |-> w, cs |-> SwitchDue(w, sof)])]
        /\ SWCFetch(w, sof)

\* The next fetch of w, on whatever HWC, starts the stream up again or, with
\* swapping, resumes it at the program counter of the switch.
StopRunning_Forgotten(w) == UNCHANGED <<running, running_cs>>

StopRunning(w) ==
    IF CORE_SWAP_FEEDER_ENABLE
    THEN running_cs' = [running_cs EXCEPT ![w] = TRUE] /\ UNCHANGED running
    ELSE running' = [running EXCEPT ![w] = FALSE] /\ UNCHANGED running_cs

(***************************************************************************)
(* ContextSwitchCompleted(w), and what SW_CONTEXT_CLASS::Commit does after *)
(* it: w leaves its HWC, is taken off the list if it was being deleted,    *)
(* and the HWC goes to the SWC that the policy picks, if any.              *)
(***************************************************************************)
ContextSwitchCompleted(w) ==
    LET h == hwc[w]
        mapped == [mappedToHWC EXCEPT ![w] = FALSE]
        pending == SetNotDeschedulePending(w)
        unmapped == SetNoHWC(w)
        list == IF deletePending[w] THEN RemoveSoftwareContext(SWContextList, w)
                ELSE SWContextList
        i == FindActiveSoftwareContext(list, runnable, mapped)
        picked == IF i \in Slots THEN list[i] ELSE NONE
    IN  /\ error' =
             IF ~mappedToHWC[w] THEN "NotMapped"
             ELSE IF ~deschedulePending[w] THEN "NotDescheduling"
             ELSE IF deletePending[w] /\ RemoveFails(SWContextList, w)
                  THEN "NotInList"
             ELSE IF picked # NONE THEN RunError(picked, mapped, pending)
             ELSE "none"
        /\ deschedulePending' = pending
        /\ SWContextList' = list
        /\ nextSWCToTry' = NextToTry(i)
        /\ mappedToHWC' = IF picked = NONE THEN mapped
                          ELSE [mapped EXCEPT ![picked] = TRUE]
        /\ hwc' = IF picked = NONE THEN unmapped
                  ELSE [unmapped EXCEPT ![picked] = h]
        /\ runningSWC' = IF h = NONE THEN runningSWC
                         ELSE [runningSWC EXCEPT ![h] = picked]
        /\ StopRunning(w)
        /\ contextSwitchState' = [contextSwitchState EXCEPT ![w] = "NONE"]

\* HW_CONTEXT_CLASS::Commit of the oldest instruction in flight on h: only a
\* context switch instruction of an SWC whose switch was sent has an effect.
Commit(h) ==
    /\ Alive
    /\ pipe[h] # <<>>
    /\ pipe' = [pipe EXCEPT ![h] = Tail(@)]
    /\ LET w == Head(pipe[h]).swc
       IN  IF Head(pipe[h]).cs /\ contextSwitchState[w] = "SENT"
           THEN ContextSwitchCompleted(w)
           ELSE UNCHANGED <<SWContextList, nextSWCToTry, mapVars, error,
                            deschedulePending, running, running_cs,
                            contextSwitchState>>
    /\ UNCHANGED <<numSWC, cycle, created, runnable, deletePending, streamEnded>>

\* HW_CONTEXT_CLASS::Kill: the performance model squashes the instructions
\* on h younger than the n oldest; no context keeps anything about them.
Kill(h, n) ==
    /\ Alive
    /\ n < Len(pipe[h])
    /\ pipe' = [pipe EXCEPT ![h] = SubSeq(@, 1, n)]
    /\ UNCHANGED <<schedVars, mapVars, swcVars, error>>

-----------------------------------------------------------------------------
Aborted ==
    /\ ~Alive
    /\ UNCHANGED vars

Next ==
    \/ \E w \in SWC : StartThread(w)
    \/ Clock
    \/ \E h \in HWC, sof \in BOOLEAN : Fetch(h, sof)
    \/ \E h \in HWC : Commit(h)
    \/ \E h \in HWC, n \in 0 .. PipeDepth - 1 : Kill(h, n)
    \/ Aborted

Spec == Init /\ [][Next]_vars

(***************************************************************************)
(* The simulator's main loop calls Clock every cycle and the performance   *)
(* model keeps fetching.  The watchdog (CheckLiveness, run by Clock) stops *)
(* a simulation in which a busy HWC commits nothing for LIVENESS_TIMEOUT   *)
(* cycles, so in a run that goes on commits happen even if kills keep      *)
(* emptying the queue: strong fairness.                                    *)
(***************************************************************************)
Fairness ==
    /\ WF_vars(Clock)
    /\ \A h \in HWC : WF_vars(\E sof \in BOOLEAN : Fetch(h, sof))
    /\ \A h \in HWC : SF_vars(Commit(h))

FairSpec == Spec /\ Fairness

-----------------------------------------------------------------------------
(* Safety.                                                                 *)

\* HW_CONTEXT_CLASS::runningSWC and SW_CONTEXT_CLASS::hwc/mappedToHWC are two
\* copies of one relation, written by different calls (RunSoftwareContext,
\* ContextSwitchCompleted): they always agree, and no SWC is on two HWCs.
MappingConsistent ==
    \A w \in SWC :
        /\ mappedToHWC[w] <=> hwc[w] # NONE
        /\ \A h \in HWC : runningSWC[h] = w <=> hwc[w] = h

\* The scheduler's deschedulePending and the SWC's own contextSwitchState,
\* set and cleared in different classes, stay in step; only an SWC that holds
\* an HWC is being switched out; and an SWC is marked for deletion, and not
\* runnable, exactly from the end of its stream on.
SwitchConsistent ==
    \A w \in SWC :
        /\ deschedulePending[w] <=> contextSwitchState[w] # "NONE"
        /\ deschedulePending[w] => mappedToHWC[w]
        /\ deletePending[w] <=> streamEnded[w]
        /\ runnable[w] <=> ~streamEnded[w]
        /\ streamEnded[w] /\ mappedToHWC[w] => deschedulePending[w]

\* Who is in SWContextList: each SWC at most once; a running one always; a
\* created one until its stream has ended and its last switch has completed.
\* (No statement while the process is aborting.)
ListConsistent ==
    Alive =>
        /\ \A i, j \in Slots :
             SWContextList[i] = SWContextList[j] /\ i # j => SWContextList[i] = NONE
        /\ \A w \in SWC :
             /\ (\E i \in Slots : SWContextList[i] = w)
                  <=> (w \in created /\ (runnable[w] \/ mappedToHWC[w]))
             /\ mappedToHWC[w] \/ streamEnded[w] => w \in created

\* The assumption on which Clock's IntervalTimer loop rests (the comment in
\* Clock): no HWC is free while a runnable software context waits to run.
WorkConserving ==
    Alive =>
        ~ \E h \in HWC, w \in created :
            runningSWC[h] = NONE /\ runnable[w] /\ ~mappedToHWC[w]

\* No call order reaches an ASIMERROR of the scheduler except the documented
\* limit: AddSoftwareContext with all MAX_NUM_SWCS slots in use.
NoSchedulerError == error \in {"none", "NoSlot"}

\* A software context that has been switched out will be restarted, not just
\* fetched from: its next instruction, on any HWC, is preceded by a startup
\* branch (running false) or comes from the resumption PC (running_cs).
RestartsAfterSwitch ==
    \A w \in SWC : running[w] /\ ~running_cs[w] => mappedToHWC[w]

(* What a step may never do.                                               *)

\* A software context never moves from one HWC to another in one step, and a
\* HWC loses its SWC only at the end of a switch that was pending for it.
NoTheft ==
    [][ \A w \in SWC :
          /\ mappedToHWC[w] /\ mappedToHWC'[w] => hwc'[w] = hwc[w]
          /\ mappedToHWC[w] /\ ~mappedToHWC'[w] =>
               deschedulePending[w] /\ contextSwitchState[w] = "SENT" ]_vars

\* A software context whose stream has ended is never mapped again.
NoResurrection ==
    [][ \A w \in SWC : streamEnded[w] /\ ~mappedToHWC[w] => ~mappedToHWC'[w] ]_vars

(* Liveness, under Fairness.                                               *)

\* Round robin starves nobody: with an interval timer, a software context that
\* waits for a HWC gets one.
NoStarvation ==
    \A w \in SWC :
        (w \in created /\ runnable[w] /\ ~mappedToHWC[w] /\ Alive)
            ~> (mappedToHWC[w] \/ ~Alive)

\* A stream that has ended is run down and gives its HWC back, even if the
\* context switch instructions sent for it are killed in the pipeline.
EndedStreamLeaves ==
    \A w \in SWC : (streamEnded[w] /\ Alive)
                       ~> (~mappedToHWC[w] \/ ~Alive)

(* The scheduler implements ThreadDispatch.                                *)

\* The stage of a thread, read off the flags of its software context.  A
\* context refused for want of a slot is still "new".
StageOf(w) ==
    IF mappedToHWC[w]
    THEN IF deletePending[w] THEN "exiting"
         ELSE IF deschedulePending[w] THEN "leaving" ELSE "running"
    ELSE IF \E i \in Slots : SWContextList[i] = w THEN "waiting"
    ELSE IF runnable[w] THEN "new" ELSE "gone"

Dispatch == INSTANCE ThreadDispatch WITH
    Thread <- SWC, Processor <- HWC, Capacity <- MAX_NUM_SWCS,
    stage <- [w \in SWC |-> StageOf(w)], place <- runningSWC,
    aborted <- ~Alive

\* Every behaviour of the scheduler, the contexts and the performance model is
\* one that ThreadDispatch allows, and every thread due to leave does leave.
ImplementsDispatch == Dispatch!DispatchSpec

=============================================================================
