----------------------- MODULE ContextSchedulerProofs -----------------------
(***************************************************************************)
(* Proofs about ContextScheduler, for any number of threads, hardware      *)
(* contexts and list slots, any timer and both switching modes.            *)
(***************************************************************************)
EXTENDS ContextScheduler, FiniteSetTheorems, WellFoundedInduction, TLAPS

\* The least-number principle: what makes the CHOOSE of every search defined.
LEMMA LeastNat ==
    ASSUME NEW T, T \subseteq Nat, T # {}
    PROVE  \E x \in T : \A y \in T : x <= y
<1>1. PICK x \in T : \A y \in T : ~(<<y, x>> \in OpToRel(<, Nat))
  BY WFMin, NatLessThanWellFounded
<1>2. ASSUME NEW y \in T PROVE x <= y
  <2>1. ~(<<y, x>> \in OpToRel(<, Nat))
    BY <1>1
  <2>2. ~(y < x)
    BY <2>1 DEF OpToRel
  <2> QED
    BY <2>2
<1> QED
  BY <1>2

\* A search by distance finds an element of the set searched.
LEMMA FindActiveFinds ==
    ASSUME NEW list, NEW rn, NEW mapped, nextSWCToTry \in Slots
    PROVE  LET C == Candidates(list, rn, mapped)
               i == FindActiveSoftwareContext(list, rn, mapped)
           IN  IF C = {} THEN i = MAX_NUM_SWCS ELSE i \in C
<1> DEFINE C == Candidates(list, rn, mapped)
           T == {SearchDistance(i) : i \in C}
<1>1. CASE C = {}
  BY <1>1 DEF FindActiveSoftwareContext
<1>2. CASE C # {}
  <2>1. \A i \in C : SearchDistance(i) \in Nat
    BY SizesAssumption DEF Candidates, Slots, SearchDistance
  <2>2. T \subseteq Nat /\ T # {}
    BY <1>2, <2>1
  <2>3. PICK x \in T : \A y \in T : x <= y
    <3> HIDE DEF T
    <3> QED BY <2>2, LeastNat
  <2>4. PICK i \in C : SearchDistance(i) = x
    OBVIOUS
  <2>5. \A j \in C : SearchDistance(i) <= SearchDistance(j)
    BY <2>3, <2>4
  <2> QED
    BY <1>2, <2>5 DEF FindActiveSoftwareContext
<1> QED
  BY <1>1, <1>2

\* The slot AddSoftwareContext finds is an empty one.
LEMMA FirstEmptySlotIsEmpty ==
    ASSUME EmptySlots # {}
    PROVE  FirstEmptySlot \in EmptySlots
<1>1. EmptySlots \subseteq Nat
  BY SizesAssumption DEF EmptySlots, Slots
<1>2. \E i \in EmptySlots : \A j \in EmptySlots : i <= j
  BY <1>1, LeastNat
<1> QED
  BY <1>2 DEF FirstEmptySlot

\* RemoveSoftwareContext frees one slot, and one that held w.
LEMMA RemoveFreesSlot ==
    ASSUME NEW list \in [Slots -> SWC \cup {NONE}], NEW w \in SWC,
           \E i \in Slots : list[i] = w
    PROVE  \E i \in Slots : /\ list[i] = w
                            /\ RemoveSoftwareContext(list, w)
                                 = [list EXCEPT ![i] = NONE]
<1> DEFINE at == {i \in Slots : list[i] = w}
<1>1. at \subseteq Nat /\ at # {}
  BY SizesAssumption DEF Slots
<1>2. \E i \in at : \A j \in at : i <= j
  <2> HIDE DEF at
  <2> QED BY <1>1, LeastNat
<1>3. (CHOOSE i \in at : \A j \in at : i <= j) \in at
  <2> HIDE DEF at
  <2> QED BY <1>2
<1>4. RemoveSoftwareContext(list, w)
        = [list EXCEPT ![CHOOSE i \in at : \A j \in at : i <= j] = NONE]
  BY <1>1 DEF RemoveSoftwareContext
<1> QED
  BY <1>3, <1>4

\* FindFreeHardwareContext returns a free HWC whenever there is one.
LEMMA FindFreeFinds ==
    LET free == {h \in HWC : runningSWC[h] = NONE}
    IN  IF free = {} THEN FindFreeHardwareContext = NONE
        ELSE FindFreeHardwareContext \in free
<1> DEFINE free == {h \in HWC : runningSWC[h] = NONE}
           D(h) == MaxInt32 - Priority[h]
           T == {D(h) : h \in free}
           Beats(g, h) == \/ Priority[g] > Priority[h]
                          \/ Priority[g] = Priority[h] /\ g <= h
<1>0. MaxInt32 \in Int
  BY SMT DEF MaxInt32
<1>1. CASE free = {}
  BY <1>1 DEF FindFreeHardwareContext
<1>2. CASE free # {}
  <2>1. \A h \in free : Priority[h] \in Int /\ D(h) \in Nat
    BY <1>0, ConstantsAssumption
  <2>2. T \subseteq Nat /\ T # {}
    BY <1>2, <2>1
  <2>3. PICK x \in T : \A y \in T : x <= y
    <3> HIDE DEF T
    <3> QED BY <2>2, LeastNat
  <2> DEFINE best == {h \in free : D(h) = x}
  <2>4. best \subseteq Nat /\ best # {}
    BY SizesAssumption DEF HWC
  <2>5. PICK g \in best : \A h \in best : g <= h
    <3> HIDE DEF best
    <3> QED BY <2>4, LeastNat
  <2>6. ASSUME NEW h \in free PROVE Beats(g, h)
    <3>1. D(g) <= D(h)
      BY <2>3, <2>6
    <3>2. D(g) = D(h) => h \in best
      BY <2>6
    <3>3. Priority[g] >= Priority[h]
      BY <1>0, <2>1, <2>6, <3>1
    <3>4. Priority[g] = Priority[h] => g <= h
      BY <2>5, <3>2
    <3> QED
      BY <2>1, <2>6, <3>3, <3>4
  <2>7. (CHOOSE k \in free : \A h \in free : Beats(k, h)) \in free
    <3> HIDE DEF free, Beats
    <3> QED BY <2>6
  <2> QED
    BY <1>2, <2>7 DEF FindFreeHardwareContext
<1> QED
  BY <1>1, <1>2

-----------------------------------------------------------------------------
(* The inductive invariant is the conjunction of the invariants that TLC   *)
(* checks: none of them is inductive alone.  The mapping is kept because a *)
(* switch completes only for an SWC that is mapped (SwitchConsistent); the *)
(* switch flags agree because the SWC picked was not being descheduled     *)
(* (MappingConsistent); the SWC removed is in the list and the SWC picked  *)
(* is the one started because of ListConsistent and WorkConserving.        *)

IInv ==
    /\ TypeOK
    /\ MappingConsistent
    /\ SwitchConsistent
    /\ ListConsistent
    /\ WorkConserving
    /\ NoSchedulerError

LEMMA InitIInv == Init => IInv
<1> SUFFICES ASSUME Init PROVE IInv
  OBVIOUS
<1>1. TypeOK
  <2>1. nextSWCToTry \in Slots /\ cycle \in 0 .. INTERVAL_TIMER
    BY SizesAssumption DEF Init, Slots
  <2>2. pipe \in [HWC -> Seq(Instr)]
    BY DEF Init
  <2> QED
    BY <2>1, <2>2 DEF Init, TypeOK, SwitchStates
<1>2. MappingConsistent
  BY ConstantsAssumption DEF Init, MappingConsistent
<1>3. SwitchConsistent
  BY DEF Init, SwitchConsistent
<1>4. ListConsistent
  BY ConstantsAssumption DEF Init, ListConsistent
<1>5. WorkConserving
  BY DEF Init, WorkConserving
<1>6. NoSchedulerError
  BY DEF Init, NoSchedulerError
<1> QED
  BY <1>1, <1>2, <1>3, <1>4, <1>5, <1>6 DEF IInv

\* Clock: the timer marks mapped contexts only, in both flags at once.
LEMMA ClockIInv == IInv /\ Clock => IInv'
<1> SUFFICES ASSUME IInv, Clock PROVE IInv'
  OBVIOUS
<1> USE DEF IInv
<1>0. UNCHANGED <<SWContextList, nextSWCToTry, numSWC, runningSWC, hwc,
                  mappedToHWC, created, runnable, deletePending, streamEnded,
                  running, running_cs, pipe>>
  BY DEF Clock, mapVars
<1>1. cycle' \in 0 .. INTERVAL_TIMER
  BY SizesAssumption DEF Clock, NextCycle, TypeOK
<1>2. CASE INTERVAL_TIMER # 0 /\ cycle = INTERVAL_TIMER
  <2> DEFINE V == IntervalTimerVictims
  <2>1. /\ deschedulePending' = [w \in SWC |-> deschedulePending[w] \/ w \in V]
        /\ contextSwitchState' = [w \in SWC |-> IF w \in V THEN "REQUESTED"
                                                ELSE contextSwitchState[w]]
        /\ error' = IF \E w \in V : ~mappedToHWC[w] THEN "NotMapped" ELSE "none"
    BY <1>2 DEF Clock, StartDeschedule, InitiateContextSwitch
  <2>2. \A w \in V : w \in SWC /\ mappedToHWC[w]
    BY ConstantsAssumption DEF IntervalTimerVictims, MappingConsistent
  <2>3. error' = "none"
    BY <2>1, <2>2
  <2>4. TypeOK'
    <3>1. deschedulePending' \in [SWC -> BOOLEAN]
      BY <2>1 DEF TypeOK
    <3>2. contextSwitchState' \in [SWC -> SwitchStates]
      BY <2>1 DEF TypeOK, SwitchStates
    <3> QED
      BY <1>0, <1>1, <2>3, <3>1, <3>2 DEF TypeOK
  <2>5. SwitchConsistent'
    <3> SUFFICES ASSUME NEW w \in SWC
                 PROVE  /\ deschedulePending'[w] <=> contextSwitchState'[w] # "NONE"
                        /\ deschedulePending'[w] => mappedToHWC[w]
                        /\ streamEnded[w] /\ mappedToHWC[w] => deschedulePending'[w]
      BY <1>0 DEF SwitchConsistent
    <3>1. deschedulePending'[w] <=> (deschedulePending[w] \/ w \in V)
      BY <2>1
    <3>2. contextSwitchState'[w] = IF w \in V THEN "REQUESTED" ELSE contextSwitchState[w]
      BY <2>1
    <3> QED
      BY <2>2, <3>1, <3>2 DEF SwitchConsistent
  <2> QED
    BY <1>0, <2>3, <2>4, <2>5
    DEF MappingConsistent, ListConsistent, WorkConserving, NoSchedulerError,
        Alive, Clock
<1>3. CASE ~(INTERVAL_TIMER # 0 /\ cycle = INTERVAL_TIMER)
  <2>1. UNCHANGED <<contextSwitchState, deschedulePending, error>>
    BY <1>3 DEF Clock
  <2> QED
    BY <1>0, <1>1, <2>1
    DEF TypeOK, MappingConsistent, SwitchConsistent, ListConsistent,
        WorkConserving, NoSchedulerError, Alive
<1> QED
  BY <1>2, <1>3

\* Kill touches nothing but the performance model's queue.
LEMMA KillIInv ==
    ASSUME IInv, NEW h \in HWC, NEW n \in 0 .. PipeDepth - 1, Kill(h, n)
    PROVE  IInv'
<1> USE DEF IInv
<1>1. pipe' \in [HWC -> Seq(Instr)]
  <2>1. pipe[h] \in Seq(Instr) /\ n \in Nat /\ n < Len(pipe[h])
    BY SizesAssumption DEF Kill, TypeOK
  <2>2. SubSeq(pipe[h], 1, n) \in Seq(Instr)
    BY <2>1
  <2> QED
    BY <2>2 DEF Kill, TypeOK
<1> QED
  BY <1>1 DEF Kill, schedVars, mapVars, swcVars, TypeOK, MappingConsistent,
              SwitchConsistent, ListConsistent, WorkConserving,
              NoSchedulerError, Alive

\* Fetch: the context that fetches is mapped, so the end of its stream starts
\* a deschedule and never takes it off the list at once.
LEMMA FetchIInv ==
    ASSUME IInv, NEW h \in HWC, NEW sof \in BOOLEAN, Fetch(h, sof)
    PROVE  IInv'
<1> USE DEF IInv
<1> DEFINE w == runningSWC[h]
<1>1. w \in SWC /\ mappedToHWC[w]
  BY ConstantsAssumption DEF Fetch, TypeOK, MappingConsistent
<1>2. pipe' \in [HWC -> Seq(Instr)]
  <2>1. [swc |-> w, cs |-> SwitchDue(w, sof)] \in Instr
    BY <1>1, ConstantsAssumption DEF Instr, SwitchDue
  <2>2. pipe[h] \in Seq(Instr)
    BY DEF TypeOK
  <2>3. Append(pipe[h], [swc |-> w, cs |-> SwitchDue(w, sof)]) \in Seq(Instr)
    BY <2>1, <2>2
  <2> QED
    BY <2>3 DEF Fetch, TypeOK
<1>3. SWCFetch(w, sof) /\ Alive
  BY DEF Fetch
<1>4. CASE SwitchDue(w, sof) /\ FetchContextSwitch(w)
  <2>1. contextSwitchState' = [contextSwitchState EXCEPT ![w] = "SENT"]
    BY <1>4 DEF FetchContextSwitch
  <2>2. UNCHANGED <<SWContextList, nextSWCToTry, numSWC, cycle, runningSWC, hwc,
                    mappedToHWC, created, runnable, deschedulePending,
                    deletePending, streamEnded, running, running_cs, error>>
    BY <1>4 DEF FetchContextSwitch, schedVars, mapVars
  <2>3. contextSwitchState[w] # "NONE"
    BY <1>4 DEF SwitchDue
  <2>4. TypeOK'
    BY <1>2, <2>1, <2>2 DEF TypeOK, SwitchStates
  <2>5. SwitchConsistent'
    BY <1>1, <2>1, <2>2, <2>3 DEF SwitchConsistent, TypeOK
  <2> QED
    BY <2>2, <2>4, <2>5
    DEF MappingConsistent, ListConsistent, WorkConserving, NoSchedulerError, Alive
<1>5. CASE FetchResume(w) \/ FetchInstruction(w)
  <2>1. UNCHANGED <<SWContextList, nextSWCToTry, numSWC, cycle, runningSWC, hwc,
                    mappedToHWC, created, runnable, deschedulePending,
                    deletePending, streamEnded, contextSwitchState, error>>
    BY <1>5 DEF FetchResume, FetchInstruction, schedVars, mapVars
  <2>2. running' \in [SWC -> BOOLEAN] /\ running_cs' \in [SWC -> BOOLEAN]
    BY <1>5 DEF FetchResume, FetchInstruction, TypeOK
  <2> QED
    BY <1>2, <2>1, <2>2
    DEF TypeOK, MappingConsistent, SwitchConsistent, ListConsistent,
        WorkConserving, NoSchedulerError, Alive
<1>6. CASE HandleEndThread(w)
  <2>1. UNCHANGED <<SWContextList, nextSWCToTry, numSWC, cycle, runningSWC, hwc,
                    mappedToHWC, created, running_cs>>
    BY <1>1, <1>6 DEF HandleEndThread, SoftwareContextExited, mapVars
  <2>2. /\ running' = [running EXCEPT ![w] = TRUE]
        /\ contextSwitchState' = [contextSwitchState EXCEPT ![w] = "REQUESTED"]
        /\ runnable' = [runnable EXCEPT ![w] = FALSE]
        /\ deletePending' = [deletePending EXCEPT ![w] = TRUE]
        /\ streamEnded' = [streamEnded EXCEPT ![w] = TRUE]
        /\ deschedulePending' = [v \in SWC |-> deschedulePending[v] \/ v \in {w}]
    BY <1>1, <1>6
    DEF HandleEndThread, SoftwareContextExited, StartDeschedule
  <2>3. error' = "none"
    BY <1>1, <1>6 DEF HandleEndThread, SoftwareContextExited, StartDeschedule
  <2>4. TypeOK'
    <3>1. deschedulePending' \in [SWC -> BOOLEAN]
      BY <2>2 DEF TypeOK
    <3>2. contextSwitchState' \in [SWC -> SwitchStates]
      BY <2>2 DEF TypeOK, SwitchStates
    <3>3. /\ running' \in [SWC -> BOOLEAN] /\ runnable' \in [SWC -> BOOLEAN]
          /\ deletePending' \in [SWC -> BOOLEAN]
          /\ streamEnded' \in [SWC -> BOOLEAN]
      BY <2>2 DEF TypeOK
    <3> QED
      BY <1>2, <2>1, <2>3, <3>1, <3>2, <3>3 DEF TypeOK
  <2>5. \A v \in SWC : v # w =>
          /\ contextSwitchState'[v] = contextSwitchState[v]
          /\ runnable'[v] = runnable[v]
          /\ deletePending'[v] = deletePending[v]
          /\ streamEnded'[v] = streamEnded[v]
          /\ deschedulePending'[v] = deschedulePending[v]
    BY <2>2 DEF TypeOK
  <2>6. /\ contextSwitchState'[w] = "REQUESTED"
        /\ ~runnable'[w] /\ deletePending'[w] /\ streamEnded'[w]
        /\ deschedulePending'[w]
    BY <1>1, <2>2 DEF TypeOK
  <2>7. SwitchConsistent'
    BY <1>1, <2>1, <2>5, <2>6 DEF SwitchConsistent
  <2>8. ListConsistent'
    BY <1>1, <1>3, <2>1, <2>5, <2>6 DEF ListConsistent, Alive
  <2>9. WorkConserving'
    BY <1>1, <1>3, <2>1, <2>3, <2>5, <2>6 DEF WorkConserving, Alive, TypeOK
  <2> QED
    BY <2>1, <2>3, <2>4, <2>7, <2>8, <2>9
    DEF MappingConsistent, NoSchedulerError
<1> QED
  BY <1>3, <1>4, <1>5, <1>6 DEF SWCFetch

\* StartThread: a context is started at once only if a HWC was free, and then
\* no other context was waiting, so the policy picks the new one.
LEMMA StartThreadIInv ==
    ASSUME IInv, NEW w \in SWC, StartThread(w)
    PROVE  IInv'
<1> USE DEF IInv
<1>1. UNCHANGED <<cycle, runnable, deschedulePending, deletePending,
                  streamEnded, running, running_cs, contextSwitchState, pipe>>
  BY DEF StartThread
<1>2. /\ Alive /\ w \notin created /\ created' = created \cup {w}
      /\ numSWC' = numSWC + 1
  BY DEF StartThread, AddSoftwareContext
<1>3. ~mappedToHWC[w] /\ ~deschedulePending[w]
  BY <1>2 DEF ListConsistent, SwitchConsistent
<1>4. \A i \in Slots : SWContextList[i] # w
  BY <1>2 DEF ListConsistent
<1>5. CASE EmptySlots = {}
  <2>1. error' = "NoSlot" /\ UNCHANGED <<SWContextList, nextSWCToTry, mapVars>>
    BY <1>5 DEF StartThread, AddSoftwareContext
  <2> QED
    BY <1>1, <1>2, <2>1
    DEF mapVars, TypeOK, MappingConsistent, SwitchConsistent, ListConsistent,
        WorkConserving, NoSchedulerError, Alive
<1>6. CASE EmptySlots # {}
  <2> DEFINE e == FirstEmptySlot
             list == [SWContextList EXCEPT ![e] = w]
             i == FindActiveSoftwareContext(list, runnable, mappedToHWC)
             h == FindFreeHardwareContext
             C == Candidates(list, runnable, mappedToHWC)
  <2>1. e \in Slots /\ SWContextList[e] = NONE
    BY <1>6, FirstEmptySlotIsEmpty DEF EmptySlots
  <2>2. SWContextList' = list /\ TryRunningSoftwareContext(w, list)
    BY <1>6 DEF StartThread, AddSoftwareContext
  <2>3. list \in [Slots -> SWC \cup {NONE}] /\ list[e] = w
    BY <2>1 DEF TypeOK
  <2>4. \A k \in Slots : k # e => list[k] = SWContextList[k]
    BY DEF TypeOK
  <2>5. runnable[w]
    BY <1>2 DEF ListConsistent, SwitchConsistent
  <2>6. e \in C
    BY <1>3, <2>1, <2>3, <2>5, ConstantsAssumption DEF Candidates
  <2>7. i \in C
    BY <2>6, FindActiveFinds DEF TypeOK
  <2>8. /\ \A k, m \in Slots : list[k] = list[m] /\ k # m => list[k] = NONE
        /\ \A v \in SWC : (\E k \in Slots : list[k] = v)
                            <=> (v = w \/ \E k \in Slots : SWContextList[k] = v)
    BY <1>2, <1>4, <2>1, <2>3, <2>4, ConstantsAssumption DEF ListConsistent
  <2>9. CASE h = NONE
    <3>1. UNCHANGED <<nextSWCToTry, runningSWC, hwc, mappedToHWC, error>>
      BY <2>2, <2>9 DEF TryRunningSoftwareContext, mapVars
    <3>2. \A g \in HWC : runningSWC[g] # NONE
      BY <2>9, FindFreeFinds, ConstantsAssumption
    <3>3. TypeOK'
      BY <1>1, <1>2, <2>2, <2>3, <3>1 DEF TypeOK
    <3>4. ListConsistent'
      BY <1>1, <1>2, <2>2, <2>5, <2>8, <3>1 DEF ListConsistent
    <3>5. WorkConserving'
      BY <3>1, <3>2 DEF WorkConserving
    <3> QED
      BY <1>1, <3>1, <3>3, <3>4, <3>5
      DEF MappingConsistent, SwitchConsistent, NoSchedulerError
  <2>10. CASE h # NONE
    <3>1. h \in HWC /\ runningSWC[h] = NONE
      BY <2>10, FindFreeFinds
    <3>2. \A v \in created : runnable[v] => mappedToHWC[v]
      BY <1>2, <3>1 DEF WorkConserving
    <3>3. list[i] = w
      <4>1. /\ i \in Slots /\ list[i] # NONE
            /\ runnable[list[i]] /\ ~mappedToHWC[list[i]]
        BY <2>7 DEF Candidates
      <4>2. list[i] \in SWC
        BY <2>3, <4>1
      <4>3. list[i] = w \/ list[i] \in created
        BY <1>2, <2>3, <2>8, <4>1, <4>2 DEF ListConsistent
      <4> QED
        BY <3>2, <4>1, <4>3
    <3>4. i \in Slots
      BY <2>7 DEF Candidates
    <3>5. /\ nextSWCToTry' = NextToTry(i)
          /\ mappedToHWC' = [mappedToHWC EXCEPT ![w] = TRUE]
          /\ hwc' = [hwc EXCEPT ![w] = h]
          /\ runningSWC' = [runningSWC EXCEPT ![h] = w]
          /\ error' = RunError(w, mappedToHWC, deschedulePending)
      BY <2>2, <2>10, <3>3, <3>4 DEF TryRunningSoftwareContext
    <3>6. error' = "none"
      BY <1>3, <2>5, <3>5 DEF RunError
    <3>7. nextSWCToTry' \in Slots
      BY <3>4, <3>5, SizesAssumption DEF NextToTry, Slots
    <3>8. /\ mappedToHWC' \in [SWC -> BOOLEAN] /\ hwc' \in [SWC -> HWC \cup {NONE}]
          /\ runningSWC' \in [HWC -> SWC \cup {NONE}]
      BY <3>1, <3>5 DEF TypeOK
    <3>9. TypeOK'
      BY <1>1, <1>2, <2>2, <2>3, <3>6, <3>7, <3>8 DEF TypeOK
    <3>10. \A v \in SWC : v # w => mappedToHWC'[v] = mappedToHWC[v] /\ hwc'[v] = hwc[v]
      BY <3>5 DEF TypeOK
    <3>11. mappedToHWC'[w] /\ hwc'[w] = h
      BY <3>5 DEF TypeOK
    <3>12. /\ runningSWC'[h] = w
           /\ \A g \in HWC : g # h => runningSWC'[g] = runningSWC[g]
      BY <3>1, <3>5 DEF TypeOK
    <3>13. MappingConsistent'
      <4>1. hwc[w] = NONE
        BY <1>3 DEF MappingConsistent
      <4>2. \A v \in SWC : hwc[v] # h
        BY <3>1, ConstantsAssumption DEF MappingConsistent
      <4>3. \A g \in HWC : runningSWC[g] # w
        BY <4>1, ConstantsAssumption DEF MappingConsistent
      <4> QED
        BY <3>1, <3>10, <3>11, <3>12, <4>1, <4>2, <4>3, ConstantsAssumption
        DEF MappingConsistent
    <3>14. SwitchConsistent'
      BY <1>1, <2>5, <3>10, <3>11 DEF SwitchConsistent
    <3>15. ListConsistent'
      BY <1>1, <1>2, <2>2, <2>8, <3>10, <3>11 DEF ListConsistent
    <3>16. WorkConserving'
      BY <1>1, <1>2, <3>2, <3>10, <3>11 DEF WorkConserving, TypeOK
    <3> QED
      BY <3>6, <3>9, <3>13, <3>14, <3>15, <3>16 DEF NoSchedulerError
  <2> QED
    BY <2>9, <2>10
<1> QED
  BY <1>5, <1>6

\* ContextSwitchCompleted of a context whose switch was sent.  Stated of the
\* variables it changes; the rest is left alone by Commit.
LEMMA CompletedIInv ==
    ASSUME IInv, Alive, NEW w \in SWC, contextSwitchState[w] = "SENT",
           ContextSwitchCompleted(w), pipe' \in [HWC -> Seq(Instr)],
           UNCHANGED <<numSWC, cycle, created, runnable, deletePending, streamEnded>>
    PROVE  IInv'
<1> USE DEF IInv
<1> DEFINE h == hwc[w]
           mapped == [mappedToHWC EXCEPT ![w] = FALSE]
           pending == [deschedulePending EXCEPT ![w] = FALSE]
           unmapped == [hwc EXCEPT ![w] = NONE]
           list == IF deletePending[w] THEN RemoveSoftwareContext(SWContextList, w)
                   ELSE SWContextList
           i == FindActiveSoftwareContext(list, runnable, mapped)
           C == Candidates(list, runnable, mapped)
           picked == IF i \in Slots THEN list[i] ELSE NONE
<1>1. deschedulePending[w] /\ mappedToHWC[w] /\ w \in created
  BY DEF SwitchConsistent, ListConsistent
<1>2. h \in HWC /\ h # NONE /\ runningSWC[h] = w
  BY <1>1, ConstantsAssumption DEF MappingConsistent, TypeOK
<1>3. PICK at \in Slots : SWContextList[at] = w
  BY <1>1 DEF ListConsistent
<1>4. /\ list \in [Slots -> SWC \cup {NONE}]
      /\ \A k \in Slots : list[k] = IF deletePending[w] /\ SWContextList[k] = w
                                    THEN NONE ELSE SWContextList[k]
  <2>1. CASE deletePending[w]
    <3>1. PICK k \in Slots : /\ SWContextList[k] = w
                             /\ list = [SWContextList EXCEPT ![k] = NONE]
      <4>1. list = RemoveSoftwareContext(SWContextList, w)
        BY <2>1
      <4>2. SWContextList \in [Slots -> SWC \cup {NONE}]
        BY DEF TypeOK
      <4> HIDE DEF list
      <4> QED
        BY <1>3, <4>1, <4>2, RemoveFreesSlot
    <3>2. \A m \in Slots : m # k => SWContextList[m] # w
      BY <3>1, ConstantsAssumption DEF ListConsistent
    <3> QED
      BY <2>1, <3>1, <3>2 DEF TypeOK
  <2>2. CASE ~deletePending[w]
    BY <2>2 DEF TypeOK
  <2> QED
    BY <2>1, <2>2
<1>5. \A v \in SWC : (\E k \in Slots : list[k] = v)
        <=> (v \in created /\ (runnable[v] \/ mapped[v]))
  <2> SUFFICES ASSUME NEW v \in SWC
               PROVE  (\E k \in Slots : list[k] = v)
                        <=> (v \in created /\ (runnable[v] \/ mapped[v]))
    OBVIOUS
  <2>1. CASE v = w
    <3>1. (\E k \in Slots : list[k] = w) <=> ~deletePending[w]
      BY <1>3, <1>4, ConstantsAssumption
    <3>2. runnable[w] <=> ~deletePending[w]
      BY DEF SwitchConsistent
    <3>3. ~mapped[w]
      BY DEF TypeOK
    <3> QED
      BY <1>1, <2>1, <3>1, <3>2, <3>3
  <2>2. CASE v # w
    <3>1. (\E k \in Slots : list[k] = v) <=> (\E k \in Slots : SWContextList[k] = v)
      BY <1>4, <2>2, ConstantsAssumption
    <3>2. mapped[v] = mappedToHWC[v]
      BY <2>2 DEF TypeOK
    <3> QED
      BY <3>1, <3>2 DEF ListConsistent
  <2> QED
    BY <2>1, <2>2
<1>6. IF C = {} THEN i = MAX_NUM_SWCS ELSE i \in C
  <2> HIDE DEF mapped, list
  <2> QED BY FindActiveFinds DEF TypeOK
<1>7. MAX_NUM_SWCS \notin Slots
  BY SizesAssumption DEF Slots
<1>8. \/ /\ picked = NONE
         /\ \A v \in created : runnable[v] => mapped[v]
      \/ /\ picked \in SWC /\ picked \in created
         /\ runnable[picked] /\ ~mapped[picked]
  <2>1. CASE C = {}
    <3>1. picked = NONE
      BY <1>6, <1>7, <2>1
    <3>2. ASSUME NEW v \in created, runnable[v], ~mapped[v] PROVE FALSE
      <4>1. v \in SWC
        BY DEF TypeOK
      <4>2. PICK k \in Slots : list[k] = v
        BY <1>5, <3>2, <4>1
      <4>3. k \in C
        BY <3>2, <4>1, <4>2, ConstantsAssumption DEF Candidates
      <4> QED
        BY <2>1, <4>3
    <3> QED
      BY <3>1, <3>2
  <2>2. CASE C # {}
    <3>1. i \in C
      BY <1>6, <2>2
    <3>2. /\ i \in Slots /\ picked = list[i] /\ picked # NONE
          /\ runnable[picked] /\ ~mapped[picked]
      BY <3>1 DEF Candidates
    <3>3. picked \in SWC
      BY <1>4, <3>2
    <3>4. picked \in created
      BY <1>5, <3>2, <3>3
    <3> QED
      BY <3>2, <3>3, <3>4
  <2> QED
    BY <2>1, <2>2
<1>9. /\ deschedulePending' = pending
      /\ SWContextList' = list
      /\ nextSWCToTry' = NextToTry(i)
      /\ mappedToHWC' = IF picked = NONE THEN mapped ELSE [mapped EXCEPT ![picked] = TRUE]
      /\ hwc' = IF picked = NONE THEN unmapped ELSE [unmapped EXCEPT ![picked] = h]
      /\ runningSWC' = [runningSWC EXCEPT ![h] = picked]
      /\ contextSwitchState' = [contextSwitchState EXCEPT ![w] = "NONE"]
  BY <1>2 DEF ContextSwitchCompleted, SetNotDeschedulePending, SetNoHWC
<1>10. picked # NONE => ~pending[picked]
  BY <1>8 DEF SwitchConsistent, TypeOK
<1>11. error' = "none"
  <2>1. ~RemoveFails(SWContextList, w)
    BY <1>3 DEF RemoveFails
  <2>2. picked # NONE => RunError(picked, mapped, pending) = "none"
    BY <1>8, <1>10 DEF RunError
  <2>3. error' = IF ~mappedToHWC[w] THEN "NotMapped"
                 ELSE IF ~deschedulePending[w] THEN "NotDescheduling"
                 ELSE IF deletePending[w] /\ RemoveFails(SWContextList, w)
                      THEN "NotInList"
                 ELSE IF picked # NONE THEN RunError(picked, mapped, pending)
                 ELSE "none"
    BY DEF ContextSwitchCompleted, SetNotDeschedulePending, SetNoHWC
  <2> HIDE DEF picked, mapped, pending
  <2> QED
    BY <1>1, <2>1, <2>2, <2>3
<1>12. running' \in [SWC -> BOOLEAN] /\ running_cs' \in [SWC -> BOOLEAN]
  BY DEF ContextSwitchCompleted, StopRunning, TypeOK
<1>13. nextSWCToTry' \in Slots
  <2>1. i \in Slots \/ i = MAX_NUM_SWCS
    BY <1>6 DEF Candidates
  <2> HIDE DEF i
  <2> QED
    BY <1>9, <2>1, SizesAssumption DEF NextToTry, Slots, TypeOK
<1> HIDE DEF list, i, picked, C
<1>14. TypeOK'
  <2>1. /\ deschedulePending' \in [SWC -> BOOLEAN]
        /\ mappedToHWC' \in [SWC -> BOOLEAN]
        /\ hwc' \in [SWC -> HWC \cup {NONE}]
        /\ runningSWC' \in [HWC -> SWC \cup {NONE}]
    BY <1>2, <1>8, <1>9 DEF TypeOK
  <2>2. contextSwitchState' \in [SWC -> SwitchStates]
    BY <1>9 DEF TypeOK, SwitchStates
  <2> QED
    BY <1>4, <1>9, <1>11, <1>12, <1>13, <2>1, <2>2 DEF TypeOK
<1>15. \A v \in SWC :
         /\ mappedToHWC'[v] <=> (v = picked \/ (v # w /\ mappedToHWC[v]))
         /\ hwc'[v] = IF v = picked THEN h ELSE IF v = w THEN NONE ELSE hwc[v]
         /\ deschedulePending'[v] <=> (v # w /\ deschedulePending[v])
         /\ contextSwitchState'[v] = IF v = w THEN "NONE" ELSE contextSwitchState[v]
  BY <1>8, <1>9, ConstantsAssumption DEF TypeOK
<1>16. \A g \in HWC : runningSWC'[g] = IF g = h THEN picked ELSE runningSWC[g]
  BY <1>2, <1>9 DEF TypeOK
<1>17. picked # NONE => picked = w \/ ~mappedToHWC[picked]
  BY <1>8 DEF TypeOK
<1>18. MappingConsistent'
  <2> SUFFICES ASSUME NEW v \in SWC
               PROVE  /\ mappedToHWC'[v] <=> hwc'[v] # NONE
                      /\ \A g \in HWC : runningSWC'[g] = v <=> hwc'[v] = g
    BY DEF MappingConsistent
  <2>1. mappedToHWC'[v] <=> hwc'[v] # NONE
    BY <1>2, <1>15 DEF MappingConsistent
  <2>2. ASSUME NEW g \in HWC PROVE runningSWC'[g] = v <=> hwc'[v] = g
    <3>1. runningSWC[g] = v <=> hwc[v] = g
      BY DEF MappingConsistent
    <3>2. runningSWC[g] = w <=> g = h
      BY DEF MappingConsistent
    <3>3. picked = v /\ v # w => hwc[v] = NONE
      BY <1>17, ConstantsAssumption DEF MappingConsistent
    <3> QED
      BY <1>15, <1>16, <3>1, <3>2, <3>3, ConstantsAssumption
  <2> QED
    BY <2>1, <2>2
<1>19. SwitchConsistent'
  <2> SUFFICES ASSUME NEW v \in SWC
               PROVE  /\ deschedulePending'[v] <=> contextSwitchState'[v] # "NONE"
                      /\ deschedulePending'[v] => mappedToHWC'[v]
                      /\ deletePending[v] <=> streamEnded[v]
                      /\ runnable[v] <=> ~streamEnded[v]
                      /\ streamEnded[v] /\ mappedToHWC'[v] => deschedulePending'[v]
    BY DEF SwitchConsistent
  <2>1. v = picked => runnable[v]
    BY <1>8, ConstantsAssumption
  <2> QED
    BY <1>15, <2>1 DEF SwitchConsistent
<1>20. ListConsistent'
  <2>1. \A k, m \in Slots : list[k] = list[m] /\ k # m => list[k] = NONE
    BY <1>4 DEF ListConsistent
  <2>2. \A v \in SWC : (\E k \in Slots : list[k] = v)
                         <=> (v \in created /\ (runnable[v] \/ mappedToHWC'[v]))
    <3> SUFFICES ASSUME NEW v \in SWC
                 PROVE  (runnable[v] \/ mapped[v]) <=> (runnable[v] \/ mappedToHWC'[v])
      BY <1>5
    <3>1. v = picked => runnable[v]
      BY <1>8, ConstantsAssumption
    <3>2. mapped[v] <=> (v # w /\ mappedToHWC[v])
      BY DEF TypeOK
    <3> QED
      BY <1>15, <3>1, <3>2
  <2>3. \A v \in SWC : mappedToHWC'[v] \/ streamEnded[v] => v \in created
    BY <1>8, <1>15, ConstantsAssumption DEF ListConsistent
  <2> QED
    BY <1>9, <2>1, <2>2, <2>3 DEF ListConsistent
<1>21. WorkConserving'
  <2> SUFFICES ASSUME NEW g \in HWC, NEW v \in created,
                      runningSWC'[g] = NONE, runnable[v], ~mappedToHWC'[v]
               PROVE  FALSE
    BY DEF WorkConserving
  <2>1. v \in SWC
    BY DEF TypeOK
  <2>2. ~mapped[v]
    BY <1>15, <2>1 DEF TypeOK
  <2>3. picked \in SWC /\ picked \in created /\ runnable[picked] /\ ~mapped[picked]
    BY <1>8, <2>2
  <2>4. g # h /\ runningSWC[g] = NONE
    BY <1>16, <2>3, ConstantsAssumption
  <2>5. mappedToHWC[picked] /\ mappedToHWC[v]
    BY <2>1, <2>3, <2>4 DEF WorkConserving
  <2>6. picked = w /\ v = w
    BY <1>15, <1>17, <2>1, <2>3, <2>5, ConstantsAssumption
  <2> QED
    BY <1>15, <2>1, <2>6
<1> QED
  BY <1>11, <1>14, <1>18, <1>19, <1>20, <1>21 DEF NoSchedulerError

LEMMA CommitIInv ==
    ASSUME IInv, NEW h \in HWC, Commit(h)
    PROVE  IInv'
<1>1. pipe[h] \in Seq(Instr) /\ pipe[h] # <<>> /\ Alive
  BY DEF Commit, IInv, TypeOK
<1>2. Tail(pipe[h]) \in Seq(Instr) /\ Head(pipe[h]) \in Instr
  BY <1>1
<1>3. pipe' \in [HWC -> Seq(Instr)]
  BY <1>2 DEF Commit, IInv, TypeOK
<1>4. Head(pipe[h]).swc \in SWC
  BY <1>2 DEF Instr
<1>5. UNCHANGED <<numSWC, cycle, created, runnable, deletePending, streamEnded>>
  BY DEF Commit
<1>6. CASE Head(pipe[h]).cs /\ contextSwitchState[Head(pipe[h]).swc] = "SENT"
  <2>1. ContextSwitchCompleted(Head(pipe[h]).swc)
    BY <1>6 DEF Commit
  <2> QED
    BY <1>1, <1>3, <1>4, <1>5, <1>6, <2>1, CompletedIInv
<1>7. CASE ~(Head(pipe[h]).cs /\ contextSwitchState[Head(pipe[h]).swc] = "SENT")
  <2>1. UNCHANGED <<SWContextList, nextSWCToTry, runningSWC, hwc, mappedToHWC,
                    error, deschedulePending, running, running_cs,
                    contextSwitchState>>
    BY <1>7 DEF Commit, mapVars
  <2> QED
    BY <1>3, <1>5, <2>1
    DEF IInv, TypeOK, MappingConsistent, SwitchConsistent, ListConsistent,
        WorkConserving, NoSchedulerError, Alive
<1> QED
  BY <1>6, <1>7

\* Every step of the scheduler keeps the inductive invariant.
LEMMA NextIInv == IInv /\ [Next]_vars => IInv'
<1> SUFFICES ASSUME IInv, [Next]_vars PROVE IInv'
  OBVIOUS
<1>1. CASE UNCHANGED vars
  BY <1>1 DEF vars, schedVars, mapVars, swcVars, IInv, TypeOK,
              MappingConsistent, SwitchConsistent, ListConsistent,
              WorkConserving, NoSchedulerError, Alive
<1>2. CASE Aborted
  BY <1>1, <1>2 DEF Aborted
<1> QED
  BY <1>1, <1>2, ClockIInv, StartThreadIInv, FetchIInv, CommitIInv, KillIInv
  DEF Next

\* IInv is an invariant of the scheduler.
THEOREM SchedulerInvariant == Spec => []IInv
  BY InitIInv, NextIInv, PTL DEF Spec

\* The members of the scheduler's classes keep their types: in particular
\* nextSWCToTry always indexes SWContextList (the ASSERTX in
\* FindActiveSoftwareContext).
THEOREM SchedulerTypeOK == Spec => []TypeOK
<1>1. IInv => TypeOK
  BY DEF IInv
<1> QED
  BY <1>1, SchedulerInvariant, PTL

\* The HWC's runningSWC and the SWC's hwc and mappedToHWC always agree.
THEOREM MappingIsConsistent == Spec => []MappingConsistent
<1>1. IInv => MappingConsistent
  BY DEF IInv
<1> QED
  BY <1>1, SchedulerInvariant, PTL

\* Clock's assumption: no HWC is ever free while a runnable context waits.
THEOREM SchedulerIsWorkConserving == Spec => []WorkConserving
<1>1. IInv => WorkConserving
  BY DEF IInv
<1> QED
  BY <1>1, SchedulerInvariant, PTL

\* No ASIMERROR of the scheduler is reachable but the full SWContextList.
THEOREM SchedulerNeverErrs == Spec => []NoSchedulerError
<1>1. IInv => NoSchedulerError
  BY DEF IInv
<1> QED
  BY <1>1, SchedulerInvariant, PTL

\* The scheduler's and the contexts' copies of "being switched out" and of
\* "being deleted" never differ.
THEOREM SwitchIsConsistent == Spec => []SwitchConsistent
<1>1. IInv => SwitchConsistent
  BY DEF IInv
<1> QED
  BY <1>1, SchedulerInvariant, PTL

\* SWContextList holds exactly the contexts that still have a stream or a HWC.
THEOREM ListIsConsistent == Spec => []ListConsistent
<1>1. IInv => ListConsistent
  BY DEF IInv
<1> QED
  BY <1>1, SchedulerInvariant, PTL

-----------------------------------------------------------------------------
(* What one step may do to the mapping of one context v: nothing; give it  *)
(* a HWC it is entitled to; or complete the switch that was sent for it,   *)
(* after which it may be picked again, for the HWC it has just left.       *)

Kept(v) == mappedToHWC'[v] = mappedToHWC[v] /\ hwc'[v] = hwc[v]

Given(v) == ~mappedToHWC[v] /\ mappedToHWC'[v] /\ runnable[v]

Completed(v) ==
    /\ mappedToHWC[v] /\ deschedulePending[v] /\ contextSwitchState[v] = "SENT"
    /\ mappedToHWC'[v] => hwc'[v] = hwc[v]
    /\ StopRunning(v)

\* The instruction committed belongs to a context.
LEMMA CommittedContext ==
    ASSUME IInv, NEW h \in HWC, Commit(h)
    PROVE  Head(pipe[h]).swc \in SWC
<1>1. pipe[h] \in Seq(Instr) /\ pipe[h] # <<>>
  BY DEF Commit, IInv, TypeOK
<1>2. Head(pipe[h]) \in Instr
  BY <1>1
<1> QED
  BY <1>2 DEF Instr

\* A new context is given a HWC, or nothing moves.
LEMMA StartThreadMoves ==
    ASSUME IInv, NEW w \in SWC, StartThread(w), NEW v \in SWC
    PROVE  Kept(v) \/ (v = w /\ Given(v))
<1> USE DEF IInv
<1>1. ~mappedToHWC[w] /\ runnable[w]
  BY DEF StartThread, ListConsistent, SwitchConsistent, Alive
<1>2. \/ UNCHANGED <<hwc, mappedToHWC>>
      \/ \E h : /\ mappedToHWC' = [mappedToHWC EXCEPT ![w] = TRUE]
                /\ hwc' = [hwc EXCEPT ![w] = h]
  BY DEF StartThread, AddSoftwareContext, TryRunningSoftwareContext, mapVars
<1> QED
  BY <1>1, <1>2 DEF Kept, Given, TypeOK

\* Completing the switch of w moves w and the context picked, nobody else.
LEMMA CompletionMoves ==
    ASSUME IInv, NEW w \in SWC, contextSwitchState[w] = "SENT",
           ContextSwitchCompleted(w), NEW v \in SWC
    PROVE  IF v = w THEN Completed(v) ELSE Kept(v) \/ Given(v)
<1> USE DEF IInv
<1> DEFINE h == hwc[w]
           mapped == [mappedToHWC EXCEPT ![w] = FALSE]
           unmapped == [hwc EXCEPT ![w] = NONE]
           list == IF deletePending[w] THEN RemoveSoftwareContext(SWContextList, w)
                   ELSE SWContextList
           i == FindActiveSoftwareContext(list, runnable, mapped)
           picked == IF i \in Slots THEN list[i] ELSE NONE
<1>1. deschedulePending[w] /\ mappedToHWC[w]
  BY DEF SwitchConsistent
<1>2. picked = NONE \/ (runnable[picked] /\ ~mapped[picked])
  <2> DEFINE C == Candidates(list, runnable, mapped)
  <2>1. IF C = {} THEN i = MAX_NUM_SWCS ELSE i \in C
    <3> HIDE DEF mapped, list
    <3> QED BY FindActiveFinds DEF TypeOK
  <2>2. MAX_NUM_SWCS \notin Slots
    BY SizesAssumption DEF Slots
  <2> HIDE DEF mapped, list, i
  <2> QED
    BY <2>1, <2>2 DEF Candidates
<1>3. /\ mappedToHWC' = IF picked = NONE THEN mapped
                        ELSE [mapped EXCEPT ![picked] = TRUE]
      /\ hwc' = IF picked = NONE THEN unmapped ELSE [unmapped EXCEPT ![picked] = h]
      /\ StopRunning(w)
  BY DEF ContextSwitchCompleted, SetNoHWC
<1>4. /\ mapped \in [SWC -> BOOLEAN] /\ ~mapped[w]
      /\ \A u \in SWC : u # w => mapped[u] = mappedToHWC[u] /\ unmapped[u] = hwc[u]
      /\ DOMAIN unmapped = SWC
  BY DEF TypeOK
<1>5. v \in SWC /\ NONE \notin SWC
  BY ConstantsAssumption
<1> HIDE DEF mapped, unmapped, picked, h
<1>6. CASE v = picked
  <2>1. mappedToHWC'[v] /\ hwc'[v] = h
    BY <1>3, <1>4, <1>5, <1>6
  <2>2. runnable[v] /\ ~mapped[v]
    BY <1>2, <1>5, <1>6
  <2> QED
    BY <1>1, <1>3, <1>4, <2>1, <2>2 DEF Completed, Given, h
<1>7. CASE v # picked
  <2>1. mappedToHWC'[v] = mapped[v] /\ hwc'[v] = unmapped[v]
    BY <1>3, <1>4, <1>5, <1>7
  <2> QED
    BY <1>1, <1>3, <1>4, <1>5, <2>1 DEF Completed, Kept
<1> QED
  BY <1>6, <1>7

\* Every step of the scheduler, on one context.
LEMMA StepMoves ==
    ASSUME IInv, [Next]_vars, NEW v \in SWC
    PROVE  Kept(v) \/ Given(v) \/ Completed(v)
<1>1. CASE UNCHANGED mapVars
  BY <1>1 DEF mapVars, Kept
<1>2. CASE \E w \in SWC : StartThread(w)
  BY <1>2, StartThreadMoves
<1>3. ASSUME NEW h \in HWC, Commit(h)
      PROVE  Kept(v) \/ Given(v) \/ Completed(v)
  <2> DEFINE w == Head(pipe[h]).swc
  <2>1. w \in SWC
    BY <1>3, CommittedContext
  <2>2. UNCHANGED mapVars \/ (contextSwitchState[w] = "SENT" /\ ContextSwitchCompleted(w))
    BY <1>3 DEF Commit
  <2> HIDE DEF w
  <2> QED
    BY <1>1, <2>1, <2>2, CompletionMoves
<1>4. CASE Clock
  BY <1>1, <1>4 DEF Clock
<1>5. ASSUME NEW h \in HWC, NEW sof \in BOOLEAN, Fetch(h, sof)
      PROVE  UNCHANGED mapVars
  BY <1>5 DEF Fetch, SWCFetch, FetchContextSwitch, FetchResume,
              FetchInstruction, HandleEndThread
<1>6. ASSUME NEW h \in HWC, NEW n \in 0 .. PipeDepth - 1, Kill(h, n)
      PROVE  UNCHANGED mapVars
  BY <1>6 DEF Kill
<1>7. CASE Aborted \/ UNCHANGED vars
  BY <1>1, <1>7 DEF Aborted, vars
<1> QED
  BY <1>1, <1>2, <1>3, <1>4, <1>5, <1>6, <1>7 DEF Next

\* A HWC loses its context only by completing a switch sent for it, and no
\* context moves from one HWC to another in one step.
THEOREM NobodyIsRobbed == Spec => NoTheft
<1>1. IInv /\ [Next]_vars =>
        [ \A w \in SWC :
            /\ mappedToHWC[w] /\ mappedToHWC'[w] => hwc'[w] = hwc[w]
            /\ mappedToHWC[w] /\ ~mappedToHWC'[w] =>
                 deschedulePending[w] /\ contextSwitchState[w] = "SENT" ]_vars
  BY StepMoves DEF Kept, Given, Completed
<1> QED
  BY <1>1, SchedulerInvariant, PTL DEF Spec, NoTheft

\* A context whose stream has ended is never given a HWC again.
THEOREM NobodyIsRevived == Spec => NoResurrection
<1>1. IInv /\ [Next]_vars =>
        [ \A w \in SWC : streamEnded[w] /\ ~mappedToHWC[w] => ~mappedToHWC'[w] ]_vars
  BY StepMoves DEF Kept, Given, Completed, IInv, SwitchConsistent, TypeOK
<1> QED
  BY <1>1, SchedulerInvariant, PTL DEF Spec, NoResurrection

\* A step sets running for a mapped context only, and a completed switch resets
\* it, or leaves the mark to resume, in both switching modes.
LEMMA NextRestarts ==
    IInv /\ RestartsAfterSwitch /\ [Next]_vars => RestartsAfterSwitch'
<1> SUFFICES ASSUME IInv, RestartsAfterSwitch, [Next]_vars, NEW v \in SWC,
                    running'[v], ~running_cs'[v]
             PROVE  mappedToHWC'[v]
  BY DEF RestartsAfterSwitch
<1> USE DEF IInv, TypeOK
<1>1. CASE UNCHANGED <<running, running_cs>>
  <2>1. mappedToHWC[v]
    BY <1>1 DEF RestartsAfterSwitch
  <2>2. ~Completed(v)
    BY <1>1 DEF Completed, StopRunning
  <2> QED
    BY <2>1, <2>2, StepMoves DEF Kept, Given
<1>2. ASSUME NEW w \in SWC, StartThread(w) PROVE UNCHANGED <<running, running_cs>>
  BY <1>2 DEF StartThread
<1>3. CASE Clock
  BY <1>1, <1>3 DEF Clock
<1>4. ASSUME NEW h \in HWC, NEW sof \in BOOLEAN, Fetch(h, sof)
      PROVE  mappedToHWC'[v]
  <2> DEFINE w == runningSWC[h]
  <2>1. w \in SWC /\ mappedToHWC[w]
    BY <1>4, ConstantsAssumption DEF Fetch, MappingConsistent
  <2>2. UNCHANGED mappedToHWC
    BY <1>4 DEF Fetch, SWCFetch, FetchContextSwitch, FetchResume,
                FetchInstruction, HandleEndThread, mapVars
  <2>3. CASE UNCHANGED <<running, running_cs>>
    BY <2>2, <2>3 DEF RestartsAfterSwitch
  <2>4. CASE FetchResume(w) \/ FetchInstruction(w) \/ HandleEndThread(w)
    <3>1. v # w => running'[v] = running[v] /\ running_cs'[v] = running_cs[v]
      BY <2>4 DEF FetchResume, FetchInstruction, HandleEndThread
    <3> QED
      BY <2>1, <2>2, <3>1 DEF RestartsAfterSwitch
  <2> QED
    BY <1>4, <2>3, <2>4 DEF Fetch, SWCFetch, FetchContextSwitch
<1>5. ASSUME NEW h \in HWC, Commit(h)
      PROVE  mappedToHWC'[v]
  <2> DEFINE w == Head(pipe[h]).swc
  <2>1. w \in SWC
    BY <1>5, CommittedContext
  <2>2. CASE UNCHANGED <<running, running_cs>>
    BY <1>1, <2>2
  <2>3. CASE contextSwitchState[w] = "SENT" /\ ContextSwitchCompleted(w)
    <3>1. StopRunning(w)
      BY <2>3 DEF ContextSwitchCompleted
    <3>2. v # w /\ running'[v] = running[v] /\ running_cs'[v] = running_cs[v]
      BY <2>1, <3>1 DEF StopRunning
    <3>3. Kept(v) \/ Given(v)
      BY <2>1, <2>3, <3>2, CompletionMoves
    <3> QED
      BY <3>2, <3>3 DEF Kept, Given, RestartsAfterSwitch
  <2> QED
    BY <1>5, <2>2, <2>3 DEF Commit
<1>6. ASSUME NEW h \in HWC, NEW n \in 0 .. PipeDepth - 1, Kill(h, n)
      PROVE  UNCHANGED <<running, running_cs>>
  BY <1>6 DEF Kill, swcVars
<1>7. CASE Aborted \/ UNCHANGED vars
  BY <1>1, <1>7 DEF Aborted, vars, swcVars
<1> QED
  BY <1>1, <1>2, <1>3, <1>4, <1>5, <1>6, <1>7 DEF Next

\* In both switching modes, a context that has been switched out is restarted
\* before its stream is fetched from again.
THEOREM SwitchedOutIsRestarted == Spec => []RestartsAfterSwitch
<1>1. Init => RestartsAfterSwitch
  BY DEF Init, RestartsAfterSwitch
<1> QED
  BY <1>1, NextRestarts, SchedulerInvariant, PTL DEF Spec

-----------------------------------------------------------------------------
(* The context scheduler implements ThreadDispatch: every step of the      *)
(* scheduler, the contexts and the performance model is a step that        *)
(* ThreadDispatch allows, or leaves the stages and the places alone.       *)

StageMap == [w \in SWC |-> StageOf(w)]

\* Between the steps of a live scheduler the list says nothing that the other
\* members do not: a thread's stage is read off these.
LiveStage(w) ==
    IF mappedToHWC[w]
    THEN IF deletePending[w] THEN "exiting"
         ELSE IF deschedulePending[w] THEN "leaving" ELSE "running"
    ELSE IF w \notin created THEN "new"
    ELSE IF runnable[w] THEN "waiting" ELSE "gone"

LEMMA StagesOfLive == IInv /\ Alive => \A w \in SWC : StageOf(w) = LiveStage(w)
<1> SUFFICES ASSUME IInv, Alive, NEW w \in SWC PROVE StageOf(w) = LiveStage(w)
  OBVIOUS
<1>1. (\E i \in Slots : SWContextList[i] = w)
        <=> (w \in created /\ (runnable[w] \/ mappedToHWC[w]))
  BY DEF IInv, ListConsistent
<1>2. w \notin created => runnable[w]
  BY DEF IInv, ListConsistent, SwitchConsistent
<1> QED
  BY <1>1, <1>2 DEF StageOf, LiveStage

LEMMA StagesOfLiveNext ==
    (IInv /\ Alive => \A w \in SWC : StageOf(w) = LiveStage(w))'
  BY StagesOfLive, PTL

\* The instance counts with the same Cardinality as this module.
LEMMA SameCardinality == \A S : Dispatch!Cardinality(S) = Cardinality(S)
  BY DEF Dispatch!Cardinality, Cardinality, Dispatch!IsFiniteSet, IsFiniteSet

\* The threads in the system fill the slots of SWContextList that are in use.
LEMMA LiveFillSlots ==
    ASSUME IInv, Alive
    PROVE  /\ Cardinality(Dispatch!Live) \in Nat
           /\ Cardinality(Dispatch!Live) < MAX_NUM_SWCS <=> EmptySlots # {}
<1> DEFINE used == {i \in Slots : SWContextList[i] # NONE}
           f == [i \in used |-> SWContextList[i]]
           live == {w \in SWC : StageMap[w] \notin {"new", "gone"}}
<1>1. IsFiniteSet(Slots) /\ Cardinality(Slots) = MAX_NUM_SWCS
  <2>1. 0 \in Int /\ MAX_NUM_SWCS - 1 \in Int
    BY SizesAssumption
  <2>2. IsFiniteSet(Slots)
        /\ Cardinality(Slots) = IF 0 > MAX_NUM_SWCS - 1 THEN 0
                                ELSE (MAX_NUM_SWCS - 1) - 0 + 1
    BY <2>1, FS_Interval DEF Slots
  <2> QED
    BY <2>2, SizesAssumption
<1>2. used \in SUBSET Slots /\ (EmptySlots # {} <=> used # Slots)
  BY DEF EmptySlots
<1>3. /\ IsFiniteSet(used) /\ Cardinality(used) <= MAX_NUM_SWCS
      /\ (Cardinality(used) = MAX_NUM_SWCS <=> used = Slots)
      /\ Cardinality(used) \in Nat
  <2> HIDE DEF used
  <2>1. /\ IsFiniteSet(used) /\ Cardinality(used) <= Cardinality(Slots)
        /\ (Cardinality(Slots) = Cardinality(used) => Slots = used)
    BY <1>1, <1>2, FS_Subset
  <2>2. Cardinality(used) \in Nat
    BY <2>1, FS_CardinalityType
  <2> QED
    BY <1>1, <2>1, <2>2
<1>4. live = {SWContextList[i] : i \in used}
  <2>1. ASSUME NEW w \in SWC
        PROVE  StageMap[w] \notin {"new", "gone"} <=> \E i \in Slots : SWContextList[i] = w
    <3>1. (\E i \in Slots : SWContextList[i] = w)
            <=> (w \in created /\ (runnable[w] \/ mappedToHWC[w]))
      BY DEF IInv, ListConsistent
    <3>2. mappedToHWC[w] => w \in created
      BY DEF IInv, ListConsistent
    <3>3. StageMap[w] = LiveStage(w)
      BY StagesOfLive DEF StageMap
    <3> QED
      BY <3>1, <3>2, <3>3 DEF LiveStage
  <2>2. SWContextList \in [Slots -> SWC \cup {NONE}]
    BY DEF IInv, TypeOK
  <2> QED
    BY <2>1, <2>2, ConstantsAssumption
<1>5. f \in Surjection(used, live)
  BY <1>4 DEF Surjection
<1>6. f \in Injection(used, live)
  <2>1. \A i, j \in used : SWContextList[i] = SWContextList[j] => i = j
    BY DEF IInv, ListConsistent
  <2> QED
    BY <1>4, <2>1 DEF Injection, IsInjective
<1>7. Cardinality(live) = Cardinality(used)
  <2> HIDE DEF f, used, live
  <2> QED
    BY <1>3, <1>5, <1>6, FS_Surjection
<1>8. Dispatch!Live = live
  BY DEF Dispatch!Live, StageMap
<1> QED
  BY <1>2, <1>3, <1>7, <1>8, SizesAssumption

-----------------------------------------------------------------------------
(* The steps.                                                              *)

\* StartThread is Admit, or Refuse when the list is full.
LEMMA StartThreadDispatches ==
    ASSUME IInv, NEW w \in SWC, StartThread(w)
    PROVE  Dispatch!Admit(w) \/ Dispatch!Refuse
<1>1. /\ Alive /\ w \notin created /\ created' = created \cup {w}
      /\ UNCHANGED <<runnable, deschedulePending, deletePending>>
  BY DEF StartThread
<1>2. /\ ~mappedToHWC[w] /\ ~deschedulePending[w] /\ ~deletePending[w] /\ runnable[w]
  BY <1>1 DEF IInv, ListConsistent, SwitchConsistent
<1>3. StageMap[w] = "new"
  BY <1>1, <1>2, StagesOfLive DEF StageMap, LiveStage
<1>4. CASE EmptySlots = {}
  <2>1. error' = "NoSlot" /\ UNCHANGED <<SWContextList, mapVars>>
    BY <1>4 DEF StartThread, AddSoftwareContext
  <2>2. StageMap' = StageMap /\ UNCHANGED runningSWC
    BY <1>1, <2>1 DEF StageMap, StageOf, mapVars
  <2>3. ~(Cardinality(Dispatch!Live) < MAX_NUM_SWCS)
    BY <1>1, <1>4, LiveFillSlots
  <2>4. Cardinality(Dispatch!Live) >= MAX_NUM_SWCS
    <3>1. Cardinality(Dispatch!Live) \in Int
      BY <1>1, LiveFillSlots
    <3> QED
      BY <2>3, <3>1, SizesAssumption
  <2>5. (~Alive)' = TRUE
    BY <2>1 DEF Alive
  <2> QED
    BY <1>3, <2>2, <2>4, <2>5, SameCardinality DEF Dispatch!Refuse, StageMap
<1>5. CASE EmptySlots # {}
  <2>1. Cardinality(Dispatch!Live) < MAX_NUM_SWCS
    BY <1>1, <1>5, LiveFillSlots
  <2>2. \/ /\ UNCHANGED <<runningSWC, hwc, mappedToHWC, error>>
        \/ \E h \in HWC : /\ runningSWC[h] = NONE
                          /\ runningSWC' = [runningSWC EXCEPT ![h] = w]
                          /\ mappedToHWC' = [mappedToHWC EXCEPT ![w] = TRUE]
                          /\ error' = RunError(w, mappedToHWC, deschedulePending)
    <3>1. TryRunningSoftwareContext(w, SWContextList')
      BY <1>5 DEF StartThread, AddSoftwareContext
    <3>2. FindFreeHardwareContext # NONE =>
            FindFreeHardwareContext \in HWC /\ runningSWC[FindFreeHardwareContext] = NONE
      BY FindFreeFinds
    <3> QED
      BY <3>1, <3>2 DEF TryRunningSoftwareContext, mapVars
  <2>3. IInv'
    BY StartThreadIInv
  <2>4. CASE UNCHANGED <<runningSWC, hwc, mappedToHWC, error>>
    <3>1. Alive'
      BY <1>1, <2>4 DEF Alive
    <3>2. \A g \in HWC : runningSWC[g] # NONE
      BY <1>1, <1>2, <2>3, <2>4, <3>1 DEF IInv, WorkConserving
    <3>3. \A v \in SWC : StageOf(v)' = IF v = w THEN "waiting" ELSE StageOf(v)
      BY <1>1, <1>2, <2>3, <2>4, <3>1, StagesOfLive, StagesOfLiveNext DEF LiveStage
    <3>4. StageMap' = [StageMap EXCEPT ![w] = "waiting"]
      BY <3>3 DEF StageMap
    <3>5. UNCHANGED runningSWC /\ UNCHANGED (~Alive)
      BY <2>4 DEF Alive
    <3>6. Dispatch!Admit(w)
      BY <1>3, <2>1, <3>2, <3>4, <3>5, SameCardinality DEF Dispatch!Admit, StageMap
    <3> QED
      BY <3>6
  <2>5. ASSUME NEW h \in HWC, runningSWC[h] = NONE,
               runningSWC' = [runningSWC EXCEPT ![h] = w],
               mappedToHWC' = [mappedToHWC EXCEPT ![w] = TRUE],
               error' = RunError(w, mappedToHWC, deschedulePending)
        PROVE  Dispatch!Admit(w)
    <3>1. Alive'
      BY <1>2, <2>5 DEF Alive, RunError
    <3>2. \A v \in SWC : mappedToHWC'[v] = IF v = w THEN TRUE ELSE mappedToHWC[v]
      BY <2>5 DEF IInv, TypeOK
    <3>3. \A v \in SWC : StageOf(v)' = IF v = w THEN "running" ELSE StageOf(v)
      BY <1>1, <1>2, <2>3, <3>1, <3>2, StagesOfLive, StagesOfLiveNext DEF LiveStage
    <3>4. StageMap' = [StageMap EXCEPT ![w] = "running"]
      BY <3>3 DEF StageMap
    <3>5. UNCHANGED (~Alive)
      BY <1>1, <3>1
    <3> QED
      BY <1>3, <2>1, <2>5, <3>4, <3>5, SameCardinality DEF Dispatch!Admit, StageMap
  <2> QED
    BY <2>2, <2>4, <2>5
<1> QED
  BY <1>4, <1>5

\* The timer preempts every thread that runs.
LEMMA ClockDispatches ==
    ASSUME IInv, Clock
    PROVE  Dispatch!Preempt \/ UNCHANGED <<StageMap, runningSWC, ~Alive>>
<1>1. /\ Alive /\ UNCHANGED <<SWContextList, runningSWC, hwc, mappedToHWC, created,
                              runnable, deletePending>>
  BY DEF Clock, mapVars
<1>2. CASE INTERVAL_TIMER # 0 /\ cycle = INTERVAL_TIMER
  <2> DEFINE V == IntervalTimerVictims
  <2>1. /\ deschedulePending' = [w \in SWC |-> deschedulePending[w] \/ w \in V]
        /\ error' = IF \E w \in V : ~mappedToHWC[w] THEN "NotMapped" ELSE "none"
    BY <1>2 DEF Clock, StartDeschedule
  <2>2. \A w \in SWC : w \in V <=> ~deschedulePending[w] /\ mappedToHWC[w]
    <3>1. \A w \in SWC : mappedToHWC[w] => hwc[w] \in HWC /\ runningSWC[hwc[w]] = w
      BY DEF IInv, TypeOK, MappingConsistent
    <3>2. \A w \in SWC, h \in HWC : runningSWC[h] = w => mappedToHWC[w]
      BY ConstantsAssumption DEF IInv, MappingConsistent
    <3> QED
      BY <3>1, <3>2 DEF IntervalTimerVictims
  <2>3. Alive'
    BY <2>1, <2>2 DEF Alive, IntervalTimerVictims
  <2>4. ASSUME NEW w \in SWC
        PROVE  StageOf(w)' = IF StageOf(w) = "running" THEN "leaving" ELSE StageOf(w)
    <3>1. deschedulePending'[w] <=> deschedulePending[w] \/ mappedToHWC[w]
      BY <2>1, <2>2
    <3> QED
      BY <1>1, <3>1 DEF StageOf
  <2>5. StageMap' = [w \in SWC |-> IF StageMap[w] = "running" THEN "leaving"
                                   ELSE StageMap[w]]
    BY <2>4 DEF StageMap
  <2>6. UNCHANGED runningSWC /\ UNCHANGED (~Alive)
    BY <1>1, <2>3
  <2>7. Dispatch!Preempt
    BY <2>5, <2>6 DEF Dispatch!Preempt, StageMap
  <2> QED
    BY <2>7
<1>3. CASE ~(INTERVAL_TIMER # 0 /\ cycle = INTERVAL_TIMER)
  <2>1. UNCHANGED <<deschedulePending, error>>
    BY <1>3 DEF Clock
  <2> QED
    BY <1>1, <2>1 DEF StageMap, StageOf, Alive
<1> QED
  BY <1>2, <1>3

\* The end of a stream is Exit; any other fetch is nothing to the dispatcher.
LEMMA FetchDispatches ==
    ASSUME IInv, NEW h \in HWC, NEW sof \in BOOLEAN, Fetch(h, sof)
    PROVE  \/ \E t \in SWC : Dispatch!Exit(t)
           \/ UNCHANGED <<StageMap, runningSWC, ~Alive>>
<1>1. PICK w \in SWC : w = runningSWC[h] /\ SWCFetch(w, sof) /\ mappedToHWC[w] /\ Alive
  BY ConstantsAssumption DEF Fetch, IInv, TypeOK, MappingConsistent
<1>2. CASE FetchContextSwitch(w) \/ FetchResume(w) \/ FetchInstruction(w)
  BY <1>2 DEF FetchContextSwitch, FetchResume, FetchInstruction, schedVars, mapVars,
              StageMap, StageOf, Alive
<1>3. CASE HandleEndThread(w)
  <2>1. /\ UNCHANGED <<SWContextList, runningSWC, mappedToHWC>>
        /\ deletePending' = [deletePending EXCEPT ![w] = TRUE]
        /\ runnable' = [runnable EXCEPT ![w] = FALSE]
        /\ deschedulePending' = [v \in SWC |-> deschedulePending[v] \/ v \in {w}]
        /\ error' = "none"
    BY <1>1, <1>3 DEF HandleEndThread, SoftwareContextExited, StartDeschedule, mapVars
  <2>2. ASSUME NEW v \in SWC PROVE StageOf(v)' = IF v = w THEN "exiting" ELSE StageOf(v)
    <3>1. v = w => deletePending'[v] /\ mappedToHWC'[v]
      BY <1>1, <2>1 DEF IInv, TypeOK
    <3>2. v # w => /\ deletePending'[v] = deletePending[v] /\ runnable'[v] = runnable[v]
                   /\ deschedulePending'[v] = deschedulePending[v]
      BY <2>1 DEF IInv, TypeOK
    <3> QED
      BY <2>1, <3>1, <3>2 DEF StageOf
  <2>3. StageMap' = [StageMap EXCEPT ![w] = "exiting"]
    BY <2>2 DEF StageMap
  <2>4. StageMap[w] \in {"running", "leaving", "exiting"}
    BY <1>1 DEF StageMap, StageOf
  <2>5. UNCHANGED runningSWC /\ UNCHANGED (~Alive)
    BY <1>1, <2>1 DEF Alive
  <2>6. Dispatch!Exit(w)
    BY <2>3, <2>4, <2>5 DEF Dispatch!Exit, StageMap
  <2> QED
    BY <2>6
<1> QED
  BY <1>1, <1>2, <1>3 DEF SWCFetch

\* A completed switch is Yield.
LEMMA CompletionYields ==
    ASSUME IInv, IInv', Alive, NEW w \in SWC, contextSwitchState[w] = "SENT",
           ContextSwitchCompleted(w),
           UNCHANGED <<created, runnable, deletePending, streamEnded>>
    PROVE  Dispatch!Yield(w)
<1>1. deschedulePending[w] /\ mappedToHWC[w] /\ w \in created
  BY DEF IInv, SwitchConsistent, ListConsistent
<1>2. PICK h \in HWC : h = hwc[w] /\ runningSWC[h] = w /\ h # NONE
  BY <1>1, ConstantsAssumption DEF IInv, MappingConsistent, TypeOK
<1>3. PICK u : /\ runningSWC' = [runningSWC EXCEPT ![h] = u]
               /\ mappedToHWC' = IF u = NONE THEN [mappedToHWC EXCEPT ![w] = FALSE]
                    ELSE [[mappedToHWC EXCEPT ![w] = FALSE] EXCEPT ![u] = TRUE]
               /\ hwc' = IF u = NONE THEN [hwc EXCEPT ![w] = NONE]
                         ELSE [[hwc EXCEPT ![w] = NONE] EXCEPT ![u] = h]
               /\ deschedulePending' = [deschedulePending EXCEPT ![w] = FALSE]
  BY <1>2 DEF ContextSwitchCompleted, SetNotDeschedulePending, SetNoHWC
<1>4. Alive'
  <2>1. error' # "NoSlot"
    BY DEF ContextSwitchCompleted, RunError
  <2> QED
    BY <2>1 DEF IInv, NoSchedulerError, Alive
<1>5. u = NONE \/ u \in SWC
  BY <1>2, <1>3 DEF IInv, TypeOK
<1>6. \A v \in SWC : /\ mappedToHWC'[v] <=> v = u \/ (v # w /\ mappedToHWC[v])
                     /\ deschedulePending'[v] <=> v # w /\ deschedulePending[v]
  BY <1>3, <1>5, ConstantsAssumption DEF IInv, TypeOK
<1>7. \A v \in SWC : StageOf(v) = LiveStage(v) /\ StageOf(v)' = LiveStage(v)'
  BY <1>4, StagesOfLive, StagesOfLiveNext
<1> DEFINE after == [StageMap EXCEPT ![w] = IF StageMap[w] = "exiting" THEN "gone"
                                            ELSE "waiting"]
           waiting == {v \in SWC : after[v] = "waiting"}
<1>8. \A v \in SWC : after[v] = IF v = w THEN IF deletePending[w] THEN "gone" ELSE "waiting"
                                ELSE LiveStage(v)
  BY <1>1, <1>7 DEF StageMap, LiveStage
<1>9. runnable[w] <=> ~deletePending[w]
  BY DEF IInv, SwitchConsistent
<1>10. StageMap[w] \in {"leaving", "exiting"}
  BY <1>1, <1>7 DEF StageMap, LiveStage
<1>11. CASE u = NONE
  <2>1. waiting = {}
    <3>1. runningSWC'[h] = NONE
      BY <1>3, <1>11 DEF IInv, TypeOK
    <3>2. \A v \in created : runnable[v] => mappedToHWC'[v]
      BY <1>4, <3>1 DEF IInv, WorkConserving
    <3>3. ASSUME NEW v \in SWC, after[v] = "waiting" PROVE FALSE
      BY <1>1, <1>6, <1>8, <1>9, <1>11, <3>2, <3>3, ConstantsAssumption DEF LiveStage
    <3> QED
      BY <3>3
  <2>2. \A v \in SWC : StageOf(v)' = after[v]
    BY <1>1, <1>6, <1>7, <1>8, <1>9, <1>11, ConstantsAssumption DEF LiveStage
  <2>3. StageMap' = after
    BY <2>2 DEF StageMap
  <2>4. UNCHANGED (~Alive)
    BY <1>4
  <2> QED
    BY <1>2, <1>3, <1>10, <1>11, <2>1, <2>3, <2>4 DEF Dispatch!Yield, StageMap
<1>12. CASE u \in SWC
  <2>1. runnable[u] /\ (u = w \/ ~mappedToHWC[u]) /\ u \in created
    <3>1. CASE u = w
      <4>1. mappedToHWC'[w] /\ ~deschedulePending'[w]
        BY <1>6, <3>1
      <4> QED
        BY <1>1, <3>1, <4>1 DEF IInv, SwitchConsistent
    <3>2. CASE u # w
      <4>1. Kept(u) \/ Given(u)
        BY <1>12, <3>2, CompletionMoves
      <4>2. mappedToHWC'[u] /\ hwc'[u] = h
        BY <1>3, <1>12, ConstantsAssumption DEF IInv, TypeOK
      <4>3. hwc[u] # h
        BY <1>2, <1>12, <3>2 DEF IInv, MappingConsistent
      <4>4. u \in created
        BY <1>4, <1>12, <4>2 DEF IInv, ListConsistent
      <4> QED
        BY <4>1, <4>2, <4>3, <4>4 DEF Kept, Given
    <3> QED
      BY <3>1, <3>2
  <2>2. u \in waiting
    BY <1>8, <1>9, <1>12, <2>1 DEF LiveStage
  <2>3. \A v \in SWC : StageOf(v)' = IF v = u THEN "running" ELSE after[v]
    <3>1. ~deletePending[u] /\ ~deschedulePending'[u]
      BY <1>6, <1>12, <2>1 DEF IInv, SwitchConsistent
    <3> QED
      BY <1>1, <1>6, <1>7, <1>8, <1>9, <1>12, <2>1, <3>1 DEF LiveStage
  <2>4. StageMap' = [after EXCEPT ![u] = "running"]
    BY <2>3 DEF StageMap
  <2>5. UNCHANGED (~Alive)
    BY <1>4
  <2> QED
    BY <1>2, <1>3, <1>10, <2>2, <2>4, <2>5 DEF Dispatch!Yield, StageMap
<1> QED
  BY <1>5, <1>11, <1>12

LEMMA CommitDispatches ==
    ASSUME IInv, NEW h \in HWC, Commit(h)
    PROVE  \/ \E t \in SWC : Dispatch!Yield(t)
           \/ UNCHANGED <<StageMap, runningSWC, ~Alive>>
<1>1. PICK w \in SWC : w = Head(pipe[h]).swc
  BY CommittedContext
<1>2. IInv' /\ Alive /\ UNCHANGED <<created, runnable, deletePending, streamEnded>>
  BY CommitIInv DEF Commit
<1>3. CASE Head(pipe[h]).cs /\ contextSwitchState[w] = "SENT"
  <2>1. ContextSwitchCompleted(w)
    BY <1>1, <1>3 DEF Commit
  <2> QED
    BY <1>2, <1>3, <2>1, CompletionYields
<1>4. CASE ~(Head(pipe[h]).cs /\ contextSwitchState[w] = "SENT")
  <2>1. UNCHANGED <<SWContextList, runningSWC, mappedToHWC, error, deschedulePending>>
    BY <1>1, <1>4 DEF Commit, mapVars
  <2> QED
    BY <1>2, <2>1 DEF StageMap, StageOf, Alive
<1> QED
  BY <1>3, <1>4

LEMMA NextDispatches ==
    ASSUME IInv, [Next]_vars
    PROVE  [Dispatch!DispatchNext]_<<[w \in SWC |-> StageOf(w)], runningSWC, ~Alive>>
<1>1. ASSUME UNCHANGED <<SWContextList, runningSWC, mappedToHWC, runnable, deletePending,
                         deschedulePending, error>>
      PROVE  UNCHANGED <<StageMap, runningSWC, ~Alive>>
  BY <1>1 DEF StageMap, StageOf, Alive
<1>2. CASE UNCHANGED vars \/ Aborted
  BY <1>1, <1>2 DEF StageMap, Aborted, vars, schedVars, mapVars, swcVars
<1>3. ASSUME NEW w \in SWC, StartThread(w) PROVE Dispatch!DispatchNext
  <2>1. Alive
    BY <1>3 DEF StartThread
  <2> QED
    BY <1>3, <2>1, StartThreadDispatches DEF Dispatch!DispatchNext
<1>4. CASE Clock
  <2>1. Alive
    BY <1>4 DEF Clock
  <2> QED
    BY <1>4, <2>1, ClockDispatches DEF Dispatch!DispatchNext, StageMap
<1>5. ASSUME NEW h \in HWC, NEW sof \in BOOLEAN, Fetch(h, sof)
      PROVE  Dispatch!DispatchNext \/ UNCHANGED <<StageMap, runningSWC, ~Alive>>
  <2>1. Alive
    BY <1>5 DEF Fetch
  <2> QED
    BY <1>5, <2>1, FetchDispatches DEF Dispatch!DispatchNext
<1>6. ASSUME NEW h \in HWC, Commit(h)
      PROVE  Dispatch!DispatchNext \/ UNCHANGED <<StageMap, runningSWC, ~Alive>>
  <2>1. Alive
    BY <1>6 DEF Commit
  <2> QED
    BY <1>6, <2>1, CommitDispatches DEF Dispatch!DispatchNext
<1>7. ASSUME NEW h \in HWC, NEW n \in 0 .. PipeDepth - 1, Kill(h, n)
      PROVE  UNCHANGED <<StageMap, runningSWC, ~Alive>>
  BY <1>1, <1>7 DEF Kill, schedVars, mapVars, swcVars
<1> QED
  BY <1>2, <1>3, <1>4, <1>5, <1>6, <1>7 DEF Next, StageMap

\* The scheduler, the contexts and the performance model do only what
\* ThreadDispatch allows: a HWC is idle only when no thread waits, a thread
\* leaves its HWC only when it was asked to or has ended, an ended one never
\* comes back, and the system stops only when the list is full.
THEOREM SchedulerDispatches == Spec => Dispatch!DispatchSafety
<1>1. Init => Dispatch!DispatchInit
  <2> SUFFICES ASSUME Init PROVE Dispatch!DispatchInit
    OBVIOUS
  <2>1. \A w \in SWC : StageOf(w) = "new"
    BY ConstantsAssumption DEF Init, StageOf
  <2>2. (~Alive) = FALSE
    BY DEF Init, Alive
  <2> QED
    BY <2>1, <2>2 DEF Init, Dispatch!DispatchInit
<1>2. IInv /\ [Next]_vars
        => [Dispatch!DispatchNext]_<<[w \in SWC |-> StageOf(w)], runningSWC, ~Alive>>
  BY NextDispatches
<1> QED
  BY <1>1, <1>2, SchedulerInvariant, PTL
  DEF Spec, Dispatch!DispatchSafety, Dispatch!dvars
=============================================================================
