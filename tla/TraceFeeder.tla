----------------------------- MODULE TraceFeeder -----------------------------
(***************************************************************************)
(* TRACE_FEEDER_CLASS (feeders/inst/trace/tracefeeder): feeds a            *)
(* performance model with the instructions of its traces.  The model       *)
(* fetches down the path it predicts; the feeder compares the predicted    *)
(* address with the trace, hands out the trace's instructions on the right *)
(* path and made-up ones off it, and moves back when the model squashes.   *)
(*                                                                         *)
(* The part of the software context that stands between the two            *)
(* (sw_context.cpp, Fetch and Commit) decides whether a fetch is turned    *)
(* into a context switch or into a start-up at address 0.                  *)
(*                                                                         *)
(* External: the performance model.  It fetches at most Window             *)
(* instructions ahead, at any address after an instruction it has not      *)
(* resolved and at the right one after a resolved one; it commits in       *)
(* order, and commits an instruction only once the one fetched after it    *)
(* has the right address; it squashes by calling Kill.                     *)
(***************************************************************************)
EXTENDS TraceBuffer

CONSTANTS
    NumHWC,        \* hardware contexts
    Window,        \* bound: instructions in flight per stream
    Warmup,        \* N_TRACE_WARMUP_INSTRS (ia64reader.awb)
    SkipCounts,    \* values of n with which the controller calls Skip
    Refetches,     \* does the model squash and refetch an instruction
    PalFlows,      \* does it squash one that is not refetched
    PredictsZero,  \* does it ever fetch at address 0 of its own
    Switches,      \* does the scheduler switch contexts before they end
    MtInstLimit    \* MT_EXIT_INSTS, 0 for no limit

HWC == 0 .. NumHWC - 1

ASSUME FeederAssumption ==
    /\ NumHWC \in Nat \ {0}
    /\ Window \in Nat \ {0}
    /\ Warmup \in Nat
    /\ SkipCounts \subseteq Nat \ {0}
    /\ {Refetches, PalFlows, Switches, PredictsZero} \subseteq BOOLEAN
    /\ MtInstLimit \in Nat
    /\ Streams = 0 .. Cardinality(Streams) - 1

VARIABLES
    \* TRACE_FEEDER_CLASS
    trace,                   \* stream -> buffer
    ended,                   \* stream -> ThreadEnd has been called
    wrongpath,               \* stream -> off the path since the last kill
    committedInsts,          \* HWC -> instructions committed there
    mtThreadsRunningVector,  \* the bits still set
    mtExitCondition,
    \* SW_CONTEXT_CLASS
    hwc,                     \* stream -> HWC or NoHWC
    running,                 \* stream -> has fetched since it was mapped
    switching,               \* stream -> a context switch is requested or sent
    \* the performance model and the controller
    phase,                   \* stream -> "refused", "warmup", "run" or "gone"
    pipe,                    \* stream -> instructions in flight, oldest first
    resteer,                 \* stream -> address the next fetch must use
    retired,                 \* stream -> place of the last instruction retired
    error                    \* the ASIMERROR that ended the process, or "none"

limitVars == <<committedInsts, mtThreadsRunningVector, mtExitCondition>>
swcVars == <<hwc, running, switching>>
vars == <<trace, ended, wrongpath, limitVars, swcVars, phase, pipe, resteer,
          retired, error>>

NoHWC == -1
AnyPc == -1
Sentinel == -2        \* UINT64_MAX in Init
WrongpathId == -1     \* traceWrongpathId
ArtificialId == -2    \* traceArtificialInstId

Pcs(s) == {0} \cup {Trace[s][p].pc : p \in 1 .. Len(Trace[s])}

\* ASIM_INST: TraceID, the address it was fetched at, and what it is: an
\* instruction of the trace (with its place there), one made up off the path,
\* a start-up branch (with its target), a context switch, or padding.
Instr(s) ==
    [id : Slots \cup {WrongpathId, ArtificialId}, pc : Pcs(s),
     kind : {"real", "off", "startup", "switch", "pad"},
     pos : Positions(s), target : Pcs(s)]

TypeOK ==
    /\ \A s \in Streams : /\ trace[s] \in Buffers(s)
                          /\ pipe[s] \in Seq(Instr(s))
                          /\ resteer[s] \in Pcs(s) \cup {AnyPc}
                          /\ retired[s] \in Positions(s)
    /\ ended \in [Streams -> BOOLEAN]
    /\ wrongpath \in [Streams -> BOOLEAN]
    /\ committedInsts \in [HWC -> Nat]
    /\ mtThreadsRunningVector \subseteq Streams
    /\ mtExitCondition \in BOOLEAN
    /\ hwc \in [Streams -> HWC \cup {NoHWC}]
    /\ running \in [Streams -> BOOLEAN]
    /\ switching \in [Streams -> BOOLEAN]
    /\ phase \in [Streams -> {"refused", "warmup", "run", "gone"}]
    /\ error \in {"none", "wrongpathCommit"}

\* ASSERT and ASIMERROR end the process.
Alive == error = "none" /\ \A s \in Streams : trace[s].fault = "none"

-----------------------------------------------------------------------------
(* The trace as a program: what the reader's file says should happen.      *)

IsOrphan(s, p) == p <= Len(Trace[s]) /\ Trace[s][p].kind = "orphan"

\* The place of the instruction executed after the one at p.
NextOnPath(s, p) ==
    CHOOSE q \in p + 1 .. EofPos(s) :
        ~IsOrphan(s, q) /\ \A r \in p + 1 .. q - 1 : IsOrphan(s, r)

\* Its address, which the instruction at p resolves to.
NextPc(s, p) == LET q == NextOnPath(s, p)
                IN  IF q = EofPos(s) THEN AnyPc ELSE Trace[s][q].pc

\* Instructions, orphans not counted, before place p.
CountBefore(s, p) == Cardinality({q \in 1 .. p - 1 : ~IsOrphan(s, q)})

-----------------------------------------------------------------------------
(* TRACE_FEEDER_CLASS::Init.                                               *)

Init ==
    /\ trace \in {f \in [Streams -> UNION {InitialBuffers(s) : s \in Streams}] :
                    \A s \in Streams : f[s] \in InitialBuffers(s)}
    /\ ended = [s \in Streams |-> FALSE]
    /\ wrongpath = [s \in Streams |-> FALSE]
    /\ committedInsts = [h \in HWC |-> 0]
    /\ mtThreadsRunningVector = Streams
    /\ mtExitCondition = FALSE
    /\ hwc = [s \in Streams |-> NoHWC]
    /\ running = [s \in Streams |-> FALSE]
    /\ switching = [s \in Streams |-> FALSE]
    /\ phase = [s \in Streams |->
                  IF VirtualPc(s, trace[s]) = Sentinel THEN "refused" ELSE "warmup"]
    /\ pipe = [s \in Streams |-> <<>>]
    /\ resteer = [s \in Streams |-> AnyPc]
    /\ retired = [s \in Streams |-> 0]
    /\ error = "none"

-----------------------------------------------------------------------------
(* Before the model runs: fast-forwarding and warming up.                  *)

\* SkipHelper on the buffer of s: the buffer it leaves.  One step of the loop
\* is one instruction of the trace, counted unless it is an orphan.
SkipHelper(s, n) ==
    LET step(r) ==
            IF r.n >= n \/ Eof(s, r.b) THEN r
            ELSE LET c == NextInstr(s, r.b)
                 IN  IF IsWrongpath(c) THEN [r EXCEPT !.b = c]
                     ELSE [b |-> CommitInstr(c, c.head), n |-> r.n + 1]
        loop[k \in 0 .. EofPos(s)] ==
            IF k = 0 THEN [b |-> CommitAll(s, trace[s]), n |-> 0]
            ELSE step(loop[k - 1])
        last == loop[EofPos(s)]
    IN  NextInstr(s, last.b)

\* The controller fast-forwards a stream before it first fetches from it.
Skip(s, n) ==
    /\ Alive
    /\ phase[s] = "warmup"
    /\ ~ended[s]
    /\ trace' = [trace EXCEPT ![s] = SkipHelper(s, n)]
    /\ retired' = [retired EXCEPT ![s] = Inst(trace'[s]).pos - 1]
    /\ wrongpath' = [wrongpath EXCEPT ![s] = FALSE]
    /\ UNCHANGED <<ended, limitVars, swcVars, phase, pipe, resteer, error>>

\* The reader marks the first Warmup instructions, and the orphans among them.
IsWarmUp(s, p) == CountBefore(s, p) < Warmup

\* WarmUp returns true: the instruction at the head is noted and committed.
WarmUp(s) ==
    LET b == trace[s]
    IN  /\ Alive
        /\ phase[s] = "warmup"
        /\ IsWarmUp(s, Inst(b).pos) /\ ~Eof(s, b)
        /\ trace' = [trace EXCEPT ![s] = CommitInstr(NextInstr(s, b), b.head)]
        /\ retired' = [retired EXCEPT ![s] =
                          IF IsWrongpath(b) THEN @ ELSE Inst(b).pos]
        /\ UNCHANGED <<ended, wrongpath, limitVars, swcVars, phase, pipe, resteer, error>>

\* WarmUp returns false, and the model starts.
WarmUpDone(s) ==
    LET b == trace[s]
    IN  /\ Alive
        /\ phase[s] = "warmup"
        /\ ~IsWarmUp(s, Inst(b).pos) \/ Eof(s, b)
        /\ phase' = [phase EXCEPT ![s] = "run"]
        /\ UNCHANGED <<trace, ended, wrongpath, limitVars, swcVars, pipe, resteer,
                       retired, error>>

-----------------------------------------------------------------------------
(* The software context: mapped by the scheduler, and switched out.        *)

\* The scheduler maps the stream's context to a free HWC (ContextScheduler
\* models which context it picks, and when).
Schedule(s, h) ==
    /\ Alive
    /\ phase[s] = "run"
    /\ hwc[s] = NoHWC
    /\ \A t \in Streams : hwc[t] # h
    /\ hwc' = [hwc EXCEPT ![s] = h]
    /\ UNCHANGED <<trace, ended, wrongpath, limitVars, running, switching, phase,
                   pipe, resteer, retired, error>>

\* The scheduler asks the context to leave its HWC.
RequestSwitch(s) ==
    /\ Alive
    /\ Switches
    /\ hwc[s] # NoHWC
    /\ ~switching[s]
    /\ switching' = [switching EXCEPT ![s] = TRUE]
    /\ UNCHANGED <<trace, ended, wrongpath, limitVars, hwc, running, phase, pipe,
                   resteer, retired, error>>

-----------------------------------------------------------------------------
(* TRACE_FEEDER_CLASS::Fetch, called by SW_CONTEXT_CLASS::Fetch.           *)

\* The addresses the model may fetch at.  A context that starts up replaces
\* them by 0, unless the fetch is for a context switch.
PredictedPcs(s) ==
    IF ~running[s] /\ ~switching[s] THEN {0}
    ELSE IF resteer[s] # AnyPc THEN {resteer[s]}
    ELSE IF PredictsZero THEN Pcs(s) ELSE Pcs(s) \ {0}

Deliver(s, b, id, pc, kind, pos, target) ==
    /\ trace' = [trace EXCEPT ![s] = b]
    /\ pipe' = [pipe EXCEPT ![s] = Append(@,
                   [id |-> id, pc |-> pc, kind |-> kind, pos |-> pos, target |-> target])]
    /\ resteer' = [resteer EXCEPT ![s] = AnyPc]
    /\ UNCHANGED <<limitVars, hwc, phase, retired, error>>

FetchSwitch_BeforeSkip(s, b, pc) ==
    /\ switching[s]
    /\ Deliver(s, trace[s], ArtificialId, pc, "switch", 0, 0)
    /\ UNCHANGED <<ended, wrongpath, running, switching>>

\* A no-op that stands for the context switch.
FetchSwitch(s, b, pc) ==
    /\ switching[s]
    /\ Deliver(s, b, ArtificialId, pc, "switch", 0, 0)
    /\ UNCHANGED <<ended, wrongpath, running, switching>>

\* The end of the trace: Fetch returns false and HandleEndThread asks for a
\* context switch.  The padding carries the id of the slot at the head.
FetchEnd(s, b, pc) ==
    /\ ~switching[s]
    /\ Eof(s, b) \/ mtExitCondition
    /\ Deliver(s, b, b.head, pc, "pad", 0, 0)
    /\ ended' = [ended EXCEPT ![s] = TRUE]
    /\ switching' = [switching EXCEPT ![s] = TRUE]
    /\ running' = [running EXCEPT ![s] = TRUE]
    /\ UNCHANGED wrongpath

\* A branch to the trace's current address.
FetchStartup(s, b, pc) ==
    /\ ~switching[s]
    /\ ~Eof(s, b) /\ ~mtExitCondition
    /\ pc = 0
    /\ Deliver(s, b, ArtificialId, pc, "startup", 0, VirtualPc(s, b))
    /\ running' = [running EXCEPT ![s] = TRUE]
    /\ UNCHANGED <<ended, wrongpath, switching>>

OffPath_IgnoresFlag(s, b, pc) == VirtualPc(s, b) # pc \/ IsWrongpath(b)

OffPath(s, b, pc) == VirtualPc(s, b) # pc \/ IsWrongpath(b) \/ wrongpath[s]

\* A no-op down the mispredicted path.
FetchOffPath(s, b, pc) ==
    /\ ~switching[s]
    /\ ~Eof(s, b) /\ ~mtExitCondition
    /\ pc # 0
    /\ OffPath(s, b, pc)
    /\ Deliver(s, b, WrongpathId, pc, "off", 0, 0)
    /\ wrongpath' = [wrongpath EXCEPT ![s] = TRUE]
    /\ running' = [running EXCEPT ![s] = TRUE]
    /\ UNCHANGED <<ended, switching>>

\* The instruction at the head.  Convert notes in its slot whether it is a
\* no-op, after the head has moved on.
FetchInstr(s, b, pc) ==
    /\ ~switching[s]
    /\ ~Eof(s, b) /\ ~mtExitCondition
    /\ pc # 0
    /\ ~OffPath(s, b, pc)
    /\ LET p == Inst(b).pos
           c == NextInstr(s, b)
       IN  Deliver(s, [c EXCEPT !.slot[b.head].nop = @ \/ Trace[s][p].kind = "nop"],
                   b.head, pc, "real", p, 0)
    /\ running' = [running EXCEPT ![s] = TRUE]
    /\ UNCHANGED <<ended, wrongpath, switching>>

\* SkipOverWrongpath ran into the end of the buffer and aborted.
FetchAborts(s, b) ==
    /\ b.fault # "none"
    /\ trace' = [trace EXCEPT ![s] = b]
    /\ UNCHANGED <<ended, wrongpath, limitVars, swcVars, phase, pipe, resteer, retired, error>>

Fetch(s) ==
    /\ Alive
    /\ phase[s] = "run"
    /\ hwc[s] # NoHWC
    /\ Len(pipe[s]) < Window
    /\ \E pc \in PredictedPcs(s) : \E b \in {SkipOverWrongpath(s, trace[s], pc)} :
          \/ FetchAborts(s, b)
          \/ /\ b.fault = "none"
             /\ \/ FetchSwitch(s, b, pc)
                \/ FetchEnd(s, b, pc)
                \/ FetchStartup(s, b, pc)
                \/ FetchOffPath(s, b, pc)
                \/ FetchInstr(s, b, pc)

-----------------------------------------------------------------------------
(* The performance model's view of an instruction in flight.               *)

\* The address e resolves to, AnyPc if it is no control transfer of the trace.
ResolvedPc(s, e) ==
    CASE e.kind = "real"    -> NextPc(s, e.pos)
      [] e.kind = "startup" -> e.target
      [] OTHER              -> AnyPc

\* The oldest instruction is resolved and nothing was mispredicted after it.
Resolved(s) ==
    \A i \in DOMAIN pipe[s] \cap {2} :
        ResolvedPc(s, pipe[s][1]) \in {AnyPc, pipe[s][i].pc}

\* It leaves the pipe; if nothing was fetched after it the model knows where
\* to go on.
Retire(s) ==
    /\ pipe' = [pipe EXCEPT ![s] = Tail(@)]
    /\ resteer' = IF Len(pipe[s]) > 1 THEN resteer
                  ELSE [resteer EXCEPT ![s] =
                           IF pipe[s][1].kind \in {"real", "startup"}
                           THEN ResolvedPc(s, pipe[s][1]) ELSE @]

-----------------------------------------------------------------------------
(* TRACE_FEEDER_CLASS::Commit, called by SW_CONTEXT_CLASS::Commit.         *)

\* Commit's bookkeeping for mtInstLimit, on the HWC h the instruction ran on.
CountCommitted(h, n) ==
    IF MtInstLimit = 0 THEN UNCHANGED limitVars
    ELSE /\ committedInsts' = [committedInsts EXCEPT ![h] = @ + n]
         /\ mtThreadsRunningVector' =
                IF committedInsts'[h] >= MtInstLimit
                THEN mtThreadsRunningVector \ {h} ELSE mtThreadsRunningVector
         /\ mtExitCondition' = (mtExitCondition \/ mtThreadsRunningVector' = {})

\* An instruction with a place in the buffer.
CommitTrace(s, e) ==
    /\ e.kind \in {"real", "pad"}
    /\ trace' = [trace EXCEPT ![s] = CommitInstr(@, e.id)]
    /\ CountCommitted(hwc[s], Skipped(trace[s], e.id) + 1)
    /\ retired' = [retired EXCEPT ![s] = IF e.kind = "real" THEN e.pos ELSE @]
    /\ Retire(s)
    /\ UNCHANGED <<wrongpath, swcVars, phase, error>>

CommitStartup(s, e) ==
    /\ e.kind = "startup"
    /\ Retire(s)
    /\ UNCHANGED <<trace, wrongpath, limitVars, swcVars, phase, retired, error>>

\* The context switch instruction: the context leaves its HWC, for good if
\* its stream has ended.  The switch instructions after it mean nothing to
\* the feeder.
CommitSwitch(s, e) ==
    /\ e.kind = "switch"
    /\ hwc' = [hwc EXCEPT ![s] = NoHWC]
    /\ running' = [running EXCEPT ![s] = FALSE]
    /\ switching' = [switching EXCEPT ![s] = FALSE]
    /\ phase' = [phase EXCEPT ![s] = IF ended[s] THEN "gone" ELSE @]
    /\ pipe' = [pipe EXCEPT ![s] = <<>>]
    /\ resteer' = [resteer EXCEPT ![s] = AnyPc]
    /\ UNCHANGED <<trace, wrongpath, limitVars, retired, error>>

\* "Attempt to commit wrongpath instruction".
CommitOffPath(s, e) ==
    /\ e.kind = "off"
    /\ error' = "wrongpathCommit"
    /\ UNCHANGED <<trace, wrongpath, limitVars, swcVars, phase, pipe, resteer, retired>>

Commit(s) ==
    /\ Alive
    /\ pipe[s] # <<>>
    /\ Resolved(s)
    /\ LET e == Head(pipe[s])
       IN  \/ CommitTrace(s, e)
           \/ CommitStartup(s, e)
           \/ CommitSwitch(s, e)
           \/ CommitOffPath(s, e)
    /\ UNCHANGED ended

\* The model retires a no-op without telling the feeder.
DropNop(s) ==
    /\ Alive
    /\ pipe[s] # <<>>
    /\ Resolved(s)
    /\ Head(pipe[s]).kind = "real"
    /\ Trace[s][Head(pipe[s]).pos].kind = "nop"
    /\ Retire(s)
    /\ retired' = [retired EXCEPT ![s] = Head(pipe[s]).pos]
    /\ UNCHANGED <<trace, ended, wrongpath, limitVars, swcVars, phase, error>>

-----------------------------------------------------------------------------
(* TRACE_FEEDER_CLASS::Kill.                                               *)

KillBuffer_AlwaysNext(s, b, e, fetchNext) ==
    IF e.id \in Slots THEN NextInstr(s, Backup(b, e.id)) ELSE b

\* The buffer after Kill(e, fetchNext): back to e, or to the one after it.
KillBuffer(s, b, e, fetchNext) ==
    IF e.id \notin Slots THEN b
    ELSE IF fetchNext THEN NextInstr(s, Backup(b, e.id))
    ELSE Backup(b, e.id)

ClearsWrongpath_RealOnly(e) == e.id \in Slots

ClearsWrongpath(e) == e.id # WrongpathId

Kill(s, i, fetchNext, killMe) ==
    LET e == pipe[s][i]
    IN  /\ Alive
        /\ killMe \/ fetchNext
        /\ trace' = [trace EXCEPT ![s] = KillBuffer(s, @, e, fetchNext)]
        /\ wrongpath' = [wrongpath EXCEPT ![s] = @ /\ ~ClearsWrongpath(e)]
        /\ pipe' = [pipe EXCEPT ![s] = SubSeq(@, 1, IF killMe THEN i - 1 ELSE i)]
        /\ resteer' = [resteer EXCEPT ![s] =
                          IF fetchNext THEN ResolvedPc(s, e) ELSE e.pc]
        /\ UNCHANGED <<ended, limitVars, swcVars, phase, retired, error>>

\* A branch, or the start-up, resolved to another address than the one
\* fetched after it, if anything was.
Mispredict(s) ==
    \E i \in DOMAIN pipe[s] :
        /\ pipe[s][i].kind \in {"real", "startup"}
        /\ \A j \in DOMAIN pipe[s] \cap {i + 1} :
               ResolvedPc(s, pipe[s][i]) # pipe[s][j].pc
        /\ Kill(s, i, TRUE, FALSE)

\* A memory ordering trap.
Refetch(s) ==
    /\ Refetches
    /\ \E i \in DOMAIN pipe[s] : pipe[s][i].kind = "real" /\ Kill(s, i, FALSE, TRUE)

\* An excepting memory operation before the PAL flow the trace continues with.
PalFlow(s) ==
    /\ PalFlows
    /\ \E i \in DOMAIN pipe[s] : pipe[s][i].kind = "real" /\ Kill(s, i, TRUE, TRUE)

-----------------------------------------------------------------------------

\* The process aborted, or every stream has left.
Finished ==
    /\ ~Alive \/ \A s \in Streams : phase[s] \in {"gone", "refused"}
    /\ UNCHANGED vars

Next ==
    \/ \E s \in Streams :
          \/ \E n \in SkipCounts : Skip(s, n)
          \/ WarmUp(s)
          \/ WarmUpDone(s)
          \/ \E h \in HWC : Schedule(s, h)
          \/ RequestSwitch(s)
          \/ Fetch(s)
          \/ Commit(s)
          \/ DropNop(s)
          \/ Mispredict(s)
          \/ Refetch(s)
          \/ PalFlow(s)
    \/ Finished

Spec == Init /\ [][Next]_vars

\* The scheduler maps a waiting context when it can; the model keeps fetching
\* (HW_CONTEXT_CLASS's watchdog aborts a context that commits nothing), does
\* not squash the same instruction for ever, and resolves its branches.
Fairness ==
    \A s \in Streams :
        /\ WF_vars(WarmUp(s)) /\ WF_vars(WarmUpDone(s))
        /\ SF_vars(\E h \in HWC : Schedule(s, h))
        /\ WF_vars(Fetch(s))
        /\ WF_vars(Mispredict(s))
        /\ SF_vars(Commit(s) \/ DropNop(s))

FairSpec == Spec /\ Fairness

-----------------------------------------------------------------------------
(* The instances on which the feeder keeps to the path.                    *)

Insts(s, lo, hi) == {q \in lo .. hi : q <= Len(Trace[s]) /\ Trace[s][q].kind = "inst"}

\* The buffer is long enough: from any commit on it holds as many instructions
\* that cannot be dropped as the model has in flight, so that the feeder always
\* sees one that is no orphan; near the end of the trace, a slot whose flag
\* was left clear when the end was read over it.
TraceFits(s) ==
    /\ Len(Trace[s]) >= BufSize
    /\ \A c \in 0 .. Len(Trace[s]) :
          \/ Cardinality(Insts(s, c + 1, c + BufSize - 2)) >= Window
          \/ \E v \in Len(Trace[s]) + 1 .. c + BufSize - 2 : ~IsOrphan(s, v - BufSize)

\* Warming up does not stop in front of an orphan.
WarmupEndsOnPath(s) ==
    \A p \in 1 .. Len(Trace[s]) : CountBefore(s, p) = Warmup => ~IsOrphan(s, p)

Regular ==
    /\ ~PalFlows /\ ~PredictsZero /\ SkipCounts = {}
    /\ \A s \in Streams : TraceFits(s) /\ WarmupEndsOnPath(s)

-----------------------------------------------------------------------------
(* Safety.                                                                 *)

\* The slot of an instruction in flight still holds it, so that committing or
\* refetching it by slot number (TraceID) reaches the same instruction: no
\* fill overwrites a slot between the last commit and the head.
SlotStable ==
    \A s \in Streams : \A i \in DOMAIN pipe[s] :
        pipe[s][i].kind = "real" => trace[s].slot[pipe[s][i].id].pos = pipe[s][i].pos

\* The fetches made after an instruction of the trace return the next
\* instruction of the trace if and only if they ask for its address; pad and
\* switch instructions may come in between (Fetch, SkipOverWrongpath, Kill).
PathFaithful ==
    \A s \in Streams : \A i \in 1 .. Len(pipe[s]) - 1 :
        LET d == pipe[s][i]
            e == pipe[s][i + 1]
            q == NextOnPath(s, d.pos)
        IN  d.kind = "real" =>
              /\ e.kind = "real" => e.pos = q
              /\ e.kind = "off" => q # EofPos(s) /\ e.pc # NextPc(s, d.pos)
              /\ e.kind = "pad" => q = EofPos(s) \/ mtExitCondition

\* A start-up branch with no older instruction behind it leads to an
\* instruction on the path, so that killing it puts the model back on the
\* trace (Fetch's comment: "it'll resteer to the correct address").
StartupOnPath ==
    \A s \in Streams :
        pipe[s] # <<>> /\ pipe[s][1].kind = "startup" =>
            pipe[s][1].target = Trace[s][NextOnPath(s, retired[s])].pc

\* No instruction is lost: each one the head has passed is committed or still
\* in flight (Kill: "we will continue fetching after the killed insn").
NothingLost ==
    \A s \in Streams :
        \A p \in retired[s] + 1 .. Inst(trace[s]).pos - 1 :
            ~IsOrphan(s, p) => \E i \in DOMAIN pipe[s] : pipe[s][i].pos = p

\* None of the assertions of the buffer and the feeder fails: "Trace buffer
\* overrun on fill", "out of order commit", "Attempt to commit wrongpath
\* instruction".
NoFeederError == Alive

\* What the feeder keeps true of its buffers between any two calls: the slots
\* in flight keep their instructions, the model is on the path exactly when
\* its predictions were right, nothing between the last commit and the head is
\* lost, and no assertion fails (Fetch, Commit, Kill and the buffer's calls).
FeederInvariant ==
    /\ TypeOK
    /\ SlotStable
    /\ PathFaithful
    /\ NothingLost
    /\ NoFeederError

\* The model retires the instructions of the trace one after the other, none
\* left out but orphans and none twice, whatever it squashed and refetched.
RetiresInOrder ==
    [][\A s \in Streams :
          retired'[s] # retired[s] => retired'[s] = NextOnPath(s, retired[s])]_vars

-----------------------------------------------------------------------------
(* Liveness.                                                               *)

\* Every stream leaves in the end, and only after its last instruction has
\* been retired (Fetch: "If we're at the end of the trace, then signal the
\* end of thread").
TraceCompletes ==
    \A s \in Streams :
        <>(phase[s] = "gone" /\ NextOnPath(s, retired[s]) = EofPos(s))

=============================================================================
