---------------------------- MODULE SoftsdvFeeder ----------------------------
(***************************************************************************)
(* SOFTSDV_FEEDER_BASE_CLASS with its x86 part (feeders/inst/softsdv): one *)
(* CPU of the simulated machine, between the instructions SoftSDV sends    *)
(* and the performance model.  The feeder keeps what it was sent in the    *)
(* replay buffer until it commits, feeds wrong-path instructions while the *)
(* model is elsewhere, and turns every interrupt of the machine into a     *)
(* system event of the instruction before it.                              *)
(*                                                                         *)
(* FetchIncomingInstructions waits for SoftSDV, so what it reads depends   *)
(* on Stream alone; the waiting is in SoftsdvLink.  External: the model,   *)
(* which follows straight-line code, predicts branches at will, squashes   *)
(* with Kill and commits in order; it asks for the system event of the     *)
(* oldest instruction before it commits it, restarts behind it at the      *)
(* event's target, and commits the instruction or bypasses it.             *)
(*                                                                         *)
(* Left out: statistics, tags and process names, timer interrupts, memory  *)
(* references, the instruction translation table, faults of the model.     *)
(***************************************************************************)
EXTENDS ReplayBuffer

CONSTANTS
    Stream,       \* the instructions SoftSDV sends, in order
    WarmupChunk,  \* SOFTSDV_WARMUP_CHUNK_SIZE
    ExecuteChunk, \* SOFTSDV_EXECUTE_CHUNK_SIZE
    Window,       \* bound: instructions in flight
    MaxEvents,    \* bound: traps, squashes off the path and context switches
    LateTraps     \* does an instruction trap after the thread has ended

StreamSize == Len(Stream)
Addresses == 0 .. 99
Wild == 99          \* a place no instruction comes from

\* An instruction as the stub sends it: va is its address, to the address it
\* goes on at (that of the next instruction, or the target of a taken branch),
\* ctl marks a branch, rep one iteration of a REPeat instruction, new a new
\* sequence or an interrupt, warm one for the caches only.
Instruction == [va : Addresses \ {0, Wild}, to : Addresses \ {0, Wild},
                ctl : BOOLEAN, rep : BOOLEAN, new : BOOLEAN, warm : BOOLEAN]

\* The stub flags every instruction that is not where the last one goes; the
\* first one of a simulation is a new sequence, and so is the first that is
\* not warm-up (start_simulation).  The iterations of a REP have one address,
\* and no REP ends the stream.
ASSUME StreamAssumption ==
    /\ Stream \in Seq(Instruction) /\ StreamSize > 0
    /\ Stream[1].new
    /\ \A n \in 2 .. StreamSize :
        \/ Stream[n].new
        \/ /\ Stream[n].warm = Stream[n - 1].warm
           /\ \/ Stream[n].va = Stream[n - 1].to
              \/ Stream[n].rep /\ Stream[n - 1].rep /\ Stream[n].va = Stream[n - 1].va
    /\ ~ Stream[StreamSize].rep

ASSUME BoundAssumption ==
    /\ {WarmupChunk, ExecuteChunk, Window} \subseteq Nat \ {0}
    /\ ExecuteChunk > 1
    /\ MaxEvents \in Nat
    /\ LateTraps \in BOOLEAN

VARIABLES
    buffer,      \* liveInstrs
    onBadPath,
    event,       \* pendingSystemEvent and sysEventIsPending
    lastWarmup,  \* the warm-up instruction held back, 0 for NULL
    simComplete,
    warming,     \* the warm-up manager is still calling WarmUp
    pipe,        \* the performance model's instructions, oldest first
    predicted,   \* addresses it may fetch at next
    events,      \* those of them so far
    retired,     \* the last instruction committed
    bypassed,    \* instructions the model gave up for an interrupt
    error        \* ASIMERROR or ASSERT of the feeder

feeder == <<buffer, onBadPath, event, simComplete>>
warmup == <<lastWarmup, warming>>
model == <<pipe, predicted, events, retired, bypassed>>
vars == <<feeder, warmup, model, error>>

\* Macro instruction uids only tell older from younger, so an event refers to
\* its instruction by its place in the pipe.
NoEvent == [at |-> 0, target |-> 0]
Instr == [tid : {"good", "wrong", "artificial", "switch"}, n : 0 .. StreamSize,
          pc : Addresses]

TypeOK ==
    /\ buffer.list \in Seq([n : 1 .. StreamSize, uid : 1 .. StreamSize, implicit : BOOLEAN])
    /\ buffer.next \in 0 .. Len(buffer.list)
    /\ buffer.uid \in 0 .. StreamSize
    /\ event \in [at : 0 .. Window, target : Addresses]
    /\ lastWarmup \in 0 .. StreamSize
    /\ {onBadPath, simComplete, warming} \subseteq BOOLEAN
    /\ pipe \in Seq(Instr) /\ Len(pipe) <= Window
    /\ predicted \subseteq Addresses
    /\ events \in 0 .. MaxEvents
    /\ retired \in 0 .. StreamSize
    /\ bypassed \subseteq 1 .. StreamSize
    /\ error \in {"none", "wrongpathCommit", "outOfOrderCommit"}

\* The thread starts at address 0, and the model fetches there, unless a
\* warm-up manager comes first.
Init ==
    /\ buffer = NewBuffer
    /\ onBadPath = FALSE
    /\ event = NoEvent
    /\ lastWarmup = 0
    /\ simComplete = FALSE
    /\ warming \in BOOLEAN
    /\ pipe = <<>>
    /\ predicted = {0}
    /\ events = 0
    /\ retired = 0
    /\ bypassed = {}
    /\ error = "none"

-----------------------------------------------------------------------------
(* Reading ahead.                                                          *)

FetchIncomingInstructions_PastEnd(b, chunk) ==
    IF NUnfetchedQueuedInstrs(b) > chunk \div 2 THEN b
    ELSE AddInstructions(b, chunk)

\* FetchIncomingInstructions: nothing while more than half a chunk is left,
\* else a whole chunk or what there is before the stream ends.
FetchIncomingInstructions(b, chunk) ==
    IF NUnfetchedQueuedInstrs(b) > chunk \div 2 THEN b
    ELSE AddInstructions(b, Min({chunk, StreamSize - b.uid}))

\* WarmUp releases the last warm-up instruction, and returns the next one.
WarmUp ==
    /\ warming /\ error = "none"
    /\ LET released == IF lastWarmup = 0 THEN buffer
                       ELSE CommitInstruction(buffer, Place(buffer, lastWarmup))
           ready == FetchIncomingInstructions(released, WarmupChunk)
           k == ready.next
       IN /\ error' = IF lastWarmup = 0 \/ CommitInOrder(buffer, Place(buffer, lastWarmup))
                      THEN "none" ELSE "outOfOrderCommit"
          /\ retired' = IF lastWarmup = 0 THEN retired ELSE lastWarmup
          /\ IF k = Null \/ simComplete
             THEN /\ simComplete' = TRUE /\ warming' = FALSE
                  /\ lastWarmup' = 0
                  /\ buffer' = GetNextFetchHandle(ready)
             ELSE /\ warming' = Stream[ready.list[k].n].warm
                  /\ lastWarmup' = IF warming' THEN ready.list[k].n ELSE 0
                  /\ buffer' = IF warming' THEN GetNextFetchHandle(ready) ELSE ready
                  /\ UNCHANGED simComplete
    /\ UNCHANGED <<onBadPath, event, pipe, predicted, events, bypassed>>

-----------------------------------------------------------------------------
(* Fetch.                                                                  *)

CanFetch ==
    /\ ~ warming /\ error = "none"
    /\ Len(pipe) < Window
    /\ ~ \E i \in DOMAIN pipe : pipe[i].tid = "switch"

\* Where the model may go on behind an instruction of the stream.
Guesses(n) == IF Stream[n].ctl THEN {Stream[n].to, Wild} ELSE {Stream[n].to}

\* The feeder has read ahead; buffer.next is fetchHandle.
Ready == FetchIncomingInstructions(buffer, ExecuteChunk)
Handle == Ready.list[Ready.next].n
AtEnd == Ready.next = Null \/ simComplete
Elsewhere(pc) == pc # Stream[Handle].va

Deliver(tid, n, pc, guesses) ==
    /\ pipe' = Append(pipe, [tid |-> tid, n |-> n, pc |-> pc])
    /\ predicted' = guesses
    /\ UNCHANGED <<retired, bypassed, events, warmup, error>>

PushSystemEvent_NotPending(target) == UNCHANGED event

\* PushSystemEvent keeps the first event only.
PushSystemEvent(target) ==
    event' = IF event = NoEvent THEN [at |-> Len(pipe) + 1, target |-> target]
             ELSE event

\* ForceThreadExit, and a NOP.
FetchEnd(pc) ==
    /\ AtEnd
    /\ simComplete' = TRUE
    /\ buffer' = GetNextFetchHandle(Ready)
    /\ Deliver("artificial", 0, pc, {pc})
    /\ UNCHANGED <<onBadPath, event>>

\* InjectJMP: a NOP that asks for an interrupt to the new sequence.
JumpNeeded(pc) ==
    Elsewhere(pc) /\ ~ onBadPath /\ event = NoEvent /\ Stream[Handle].new

FetchJMP(pc) ==
    /\ ~ AtEnd /\ JumpNeeded(pc)
    /\ PushSystemEvent(Stream[Handle].va)
    /\ buffer' = Ready
    /\ Deliver("artificial", 0, pc, {Wild})
    /\ UNCHANGED <<onBadPath, simComplete>>

\* Off the path: the model is elsewhere, or waits for an interrupt.
OffPath(pc) == Elsewhere(pc) \/ onBadPath \/ event # NoEvent

FetchBadPath(pc) ==
    /\ ~ AtEnd /\ ~ JumpNeeded(pc) /\ OffPath(pc)
    /\ onBadPath' = TRUE
    /\ buffer' = Ready
    /\ Deliver("wrong", 0, pc, {Wild, Stream[Handle].va})
    /\ UNCHANGED <<event, simComplete>>

\* How many instructions behind place k are iterations of the one there.
SameAddress(b, k) ==
    LET first == b.list[k + 1].n
        Same(n) == Stream[n].va = Stream[b.list[k].n].va /\ ~ Stream[n].warm
    IN Max({0} \cup {j \in 1 .. StreamSize - first + 1 :
                        \A n \in first .. first + j - 1 : Same(n)})

Iterations_OneMore(b, k) == IF k = Len(b.list) THEN 0 ELSE SameAddress(b, k) + 1
Iterations(b, k) == IF k = Len(b.list) THEN 0 ELSE SameAddress(b, k)

MergeREPInstrs_NoRefill(b, k) ==
    FoldLeft(LAMBDA c, i : DeleteInstruction(c, k + 1),
             b, [i \in 1 .. Min({Iterations(b, k), Len(b.list) - k}) |-> i])

\* MergeREPInstrs: while the next instruction is at the same address, it is
\* one more iteration: it is dropped, and the feeder reads ahead again.
MergeREPInstrs(b, k) ==
    LET upTo[i \in 0 .. Iterations(b, k)] ==
            IF i = 0 THEN b
            ELSE FetchIncomingInstructions(DeleteInstruction(upTo[i - 1], k + 1),
                                           ExecuteChunk)
    IN  upTo[Iterations(b, k)]

\* AsimInstFromSoftsdvInst: the instruction before an interrupt raises the
\* event, and commits implicitly.
NextIsNew(b, k) == k < Len(b.list) /\ Stream[b.list[k + 1].n].new

FetchGood(pc) ==
    /\ ~ AtEnd /\ ~ OffPath(pc)
    /\ LET k == Ready.next
           ahead == FetchIncomingInstructions(GetNextFetchHandle(Ready), ExecuteChunk)
           merge == Stream[Handle].rep /\ ~ Stream[Handle].ctl
       IN \E b \in {IF merge THEN MergeREPInstrs(ahead, k) ELSE ahead} :
            IF NextIsNew(b, k)
            THEN /\ buffer' = SetImplicitCommit(b, k)
                 /\ PushSystemEvent(Stream[b.list[k + 1].n].va)
            ELSE buffer' = b /\ UNCHANGED event
    /\ Deliver("good", Handle, pc, Guesses(Handle))
    /\ UNCHANGED <<onBadPath, simComplete>>

Fetch ==
    /\ CanFetch
    /\ \E pc \in predicted :
        FetchEnd(pc) \/ FetchJMP(pc) \/ FetchBadPath(pc) \/ FetchGood(pc)

\* Fetch of a context switch: a NOP, and nothing more until it commits.
FetchSwitch ==
    /\ CanFetch /\ events < MaxEvents
    /\ \E pc \in predicted :
        /\ pipe' = Append(pipe, [tid |-> "switch", n |-> 0, pc |-> pc])
        /\ predicted' = {pc}
    /\ events' = events + 1
    /\ UNCHANGED <<feeder, warmup, retired, bypassed, error>>

-----------------------------------------------------------------------------
(* Commit and Kill.                                                        *)

\* Where the model finds out that an instruction goes on.
GoesTo(i) == IF pipe[i].tid = "good" THEN Stream[pipe[i].n].to ELSE pipe[i].pc

Mispredicted(i) ==
    /\ pipe[i].tid = "good" /\ i < Len(pipe)
    /\ pipe[i + 1].pc # GoesTo(i)

\* The event of the oldest instruction is taken, and branches are resolved,
\* before they commit.
Commits(b) ==
    IF pipe[1].tid # "good" THEN b ELSE CommitInstruction(b, Place(b, pipe[1].n))

Commit ==
    /\ pipe # <<>> /\ error = "none"
    /\ event.at # 1 /\ ~ Mispredicted(1)
    /\ LET good == pipe[1].tid = "good"
       IN /\ error' = CASE pipe[1].tid = "wrong" -> "wrongpathCommit"
                        [] good /\ ~ CommitInOrder(buffer, Place(buffer, pipe[1].n)) ->
                             "outOfOrderCommit"
                        [] OTHER -> "none"
          /\ buffer' = IF error' = "none" THEN Commits(buffer) ELSE buffer
          /\ retired' = IF good /\ error' = "none" THEN pipe[1].n ELSE retired
    /\ pipe' = Tail(pipe)
    /\ predicted' = IF Len(pipe) = 1 /\ pipe[1].tid = "good" THEN {GoesTo(1)} ELSE predicted
    /\ event' = [event EXCEPT !.at = IF @ = 0 THEN 0 ELSE @ - 1]
    /\ UNCHANGED <<onBadPath, simComplete, warmup, events, bypassed>>

\* Kill's SetNextFetch, for an instruction that is in the buffer.
Rewound_Behind(e, fetchNext) ==
    IF e.tid # "good" THEN buffer
    ELSE GetNextFetchHandle(SetNextFetch(buffer, Place(buffer, e.n)))

Rewound(e, fetchNext) ==
    IF e.tid # "good" THEN buffer
    ELSE LET b == SetNextFetch(buffer, Place(buffer, e.n))
         IN IF fetchNext THEN GetNextFetchHandle(b) ELSE b

EventAfterKill_Keeps(i, killMe) == event

\* Events of younger instructions die with them; that of a killed one too.
EventAfterKill(i, killMe) ==
    IF event.at > i \/ (killMe /\ event.at = i) THEN NoEvent ELSE event

Kill(i, fetchNext, killMe) ==
    IF pipe[i].tid = "wrong" THEN UNCHANGED feeder
    ELSE /\ buffer' = Rewound(pipe[i], fetchNext)
         /\ onBadPath' = FALSE
         /\ event' = EventAfterKill(i, killMe)
         /\ UNCHANGED simComplete

\* A mispredicted branch.
Resteer ==
    /\ error = "none"
    /\ \E i \in DOMAIN pipe :
        /\ Mispredicted(i)
        /\ Kill(i, TRUE, FALSE)
        /\ pipe' = SubSeq(pipe, 1, i)
        /\ predicted' = {GoesTo(i)}
    /\ UNCHANGED <<warmup, events, retired, bypassed, error>>

\* The oldest instruction has an event: HandleSystemEvent, and fetch goes on
\* at its target.  Then the instruction commits, or the model bypasses it.
Handled(i) == IF event.at = i THEN NoEvent ELSE event

TakeInterrupt ==
    /\ pipe # <<>> /\ error = "none" /\ event.at = 1
    /\ predicted' = {event.target}
    /\ event' = Handled(1)
    /\ onBadPath' = FALSE
    /\ \E b \in {Rewound(pipe[1], TRUE)}, bypass \in BOOLEAN :
        /\ bypass => pipe[1].tid = "good"
        /\ bypassed' = IF bypass THEN bypassed \cup {pipe[1].n} ELSE bypassed
        /\ IF bypass \/ pipe[1].tid # "good"
           THEN buffer' = b /\ UNCHANGED <<retired, error>>
           ELSE /\ error' = IF CommitInOrder(b, Place(b, pipe[1].n))
                            THEN "none" ELSE "outOfOrderCommit"
                /\ buffer' = IF error' = "none" THEN Commits(b) ELSE b
                /\ retired' = pipe[1].n
    /\ pipe' = <<>>
    /\ UNCHANGED <<simComplete, warmup, events>>

MayTrap(i) ==
    /\ error = "none" /\ events < MaxEvents
    /\ simComplete => LateTraps
    /\ i \in DOMAIN pipe /\ pipe[i].tid # "switch"

\* An instruction is squashed with all behind it and fetched again.
Trap ==
    /\ \E i \in 1 .. Window :
        /\ MayTrap(i) /\ pipe[i].tid # "wrong"
        /\ Kill(i, FALSE, TRUE)
        /\ pipe' = SubSeq(pipe, 1, i - 1)
        /\ predicted' = {pipe[i].pc}
    /\ events' = events + 1
    /\ UNCHANGED <<warmup, retired, bypassed, error>>

\* A kill of a later micro instruction spares its macro instruction.
TrapInside ==
    /\ \E i \in 1 .. Window :
        /\ MayTrap(i) /\ pipe[i].tid = "good"
        /\ Kill(i, TRUE, FALSE)
        /\ pipe' = SubSeq(pipe, 1, i)
        /\ predicted' = {GoesTo(i)}
    /\ events' = events + 1
    /\ UNCHANGED <<warmup, retired, bypassed, error>>

\* A branch off the path goes elsewhere off the path.
KillWrongPath ==
    /\ \E i \in 1 .. Window :
        /\ MayTrap(i) /\ pipe[i].tid = "wrong"
        /\ Kill(i, TRUE, FALSE)
        /\ pipe' = SubSeq(pipe, 1, i)
    /\ predicted' = {Wild} \cup predicted
    /\ events' = events + 1
    /\ UNCHANGED <<warmup, retired, bypassed, error>>

Next ==
    \/ WarmUp
    \/ Fetch
    \/ FetchSwitch
    \/ Commit
    \/ Resteer
    \/ TakeInterrupt
    \/ Trap
    \/ TrapInside
    \/ KillWrongPath

Spec == Init /\ [][Next]_vars

\* The model goes on fetching, commits what is done, resolves its branches
\* and takes interrupts.
Fairness ==
    /\ WF_vars(WarmUp) /\ WF_vars(Fetch) /\ WF_vars(Commit)
    /\ WF_vars(Resteer) /\ WF_vars(TakeInterrupt)

FairSpec == Spec /\ Fairness

-----------------------------------------------------------------------------
(* Properties.                                                             *)

\* The rest of a merged REP: instructions n + 1 to m are iterations of n.
MergedInto(n, m) ==
    \A j \in n + 1 .. m :
        /\ n > 0 /\ Stream[n].rep /\ ~ Stream[n].ctl
        /\ Stream[j].rep /\ ~ Stream[j].warm /\ Stream[j].va = Stream[n].va

\* The good instructions the model has, and what has been fetched and neither
\* bypassed nor held back.
Good == {i \in DOMAIN pipe : pipe[i].tid = "good"}
Awaited == {k \in DOMAIN buffer.list : /\ buffer.next # Null => k < buffer.next
                                       /\ buffer.list[k].n \notin bypassed \cup {lastWarmup}}

\* Every instruction SoftSDV has sent is committed or in the replay buffer,
\* once and in order, apart from the iterations merged into a REP
\* (AddInstruction, DeleteInstruction, CommitInstruction).
NothingLost ==
    LET ns == <<retired>> \o [k \in DOMAIN buffer.list |-> buffer.list[k].n]
              \o <<buffer.uid + 1>>
    IN error = "none" =>
        \A k \in 1 .. Len(ns) - 1 :
            ns[k] < ns[k + 1] /\ MergedInto(ns[k], ns[k + 1] - 1)

\* Whatever was squashed, the good instructions in flight are those of the
\* buffer before nextFetch in their order, apart from the ones the model has
\* bypassed and a warm-up instruction that is held back (SetNextFetch in Kill,
\* Fetch).
FlightIsFetched ==
    error = "none" =>
        /\ {pipe[i].n : i \in Good} = {buffer.list[k].n : k \in Awaited}
        /\ \A i, j \in Good : i < j => pipe[i].n < pipe[j].n

\* A pending interrupt belongs to an instruction in flight: the one before
\* the new sequence, or a NOP injected for it; and no instruction of the
\* stream is fed behind it until it is taken (FetchMacro, Kill).
InterruptIsPrecise ==
    (error = "none" /\ event # NoEvent) =>
        /\ event.at \in DOMAIN pipe
        /\ pipe[event.at].tid \in {"good", "artificial"}
        /\ \A i \in event.at + 1 .. Len(pipe) : pipe[i].tid \in {"wrong", "switch"}
        /\ buffer.next # Null
        /\ LET next == Stream[buffer.list[buffer.next].n]
           IN next.new /\ next.va = event.target

\* MergeREPInstrs tells iterations by their address alone: a new sequence at
\* the address of the REP in front of it would go for one more of them.
NewLeavesREP ==
    \A m \in 2 .. StreamSize :
        Stream[m].new /\ ~ Stream[m].warm /\ Stream[m - 1].rep =>
            Stream[m].va # Stream[m - 1].va

\* Nor does anything else begin there: an address is that of one instruction.
OnlyREPsRepeat ==
    \A m \in 2 .. StreamSize :
        Stream[m - 1].rep /\ ~ Stream[m].warm /\ Stream[m].va = Stream[m - 1].va =>
            Stream[m].rep

\* The feeder has always read far enough ahead to see an interrupt coming:
\* an instruction in flight whose successor is a new sequence has raised its
\* event (FetchIncomingInstructions, in FetchMacro and in MergeREPInstrs).
InterruptIsRaised ==
    error = "none" =>
        \A i \in DOMAIN pipe :
            (pipe[i].tid = "good" /\ \E m \in pipe[i].n + 1 .. StreamSize :
                Stream[m].new /\ MergedInto(pipe[i].n, m - 1)) => event.at = i

\* What Fetch, Commit and Kill keep true of the replay buffer: it has what is
\* not committed, and nextFetch parts what is in flight from what is not.
FeederInvariant ==
    /\ TypeOK
    /\ NothingLost
    /\ FlightIsFetched

\* No commit fails: what the model commits is of the path, and an instruction
\* that it skips is one it bypassed, and one that came before an interrupt
\* (Commit, SetImplicitCommit, CommitInstruction).
RetiresInOrder ==
    [][/\ error' = "none"
       /\ retired' # retired =>
           /\ retired' > retired
           /\ \A m \in retired + 1 .. retired' - 1 :
               \/ m \in bypassed /\ \E j \in m + 1 .. StreamSize :
                                       Stream[j].new /\ MergedInto(m, j - 1)
               \/ \E n \in bypassed \cup {retired} : n < m /\ MergedInto(n, m)]_vars

\* The whole stream is committed, whatever is mispredicted, interrupted and
\* squashed on the way, and then the simulation ends (ForceThreadExit).
StreamCompletes ==
    <>(simComplete /\ buffer.list = <<>> /\ buffer.uid = StreamSize)
=============================================================================
