----------------------------- MODULE SoftsdvLink -----------------------------
(***************************************************************************)
(* The link between the two processes of a SoftSDV simulation.  SoftSDV    *)
(* executes the program and sends every instruction it has executed        *)
(* (ExecuteAsim, arch_x86/cpuapi_x86.cpp); the feeder inside Asim reads    *)
(* ahead of the performance model (FetchIncomingInstructions,              *)
(* softsdv_feeder.cpp) and pays for what it has read with a new fetch      *)
(* request.  They share a ring of instructions per simulated CPU, one ring *)
(* of register values and one ring of requests.                            *)
(*                                                                         *)
(* A step reads at most one word of the other process' memory.  Each       *)
(* process waits by spinning; SOFTSDV_IO_SPIN_CONTROL_CLASS::Blocked looks *)
(* at the other's isActive flag after the spin has found the ring empty or *)
(* full, which is a step of its own.                                       *)
(*                                                                         *)
(* Left out: what an instruction is (its number in its CPU's stream stands *)
(* for it), the pipes that only shorten the spinning, the initial messages *)
(* (INIT, REG_MONITOR, WARMUP), which precede the first fetch request, and *)
(* kills, which only make the feeder read ahead less.                      *)
(***************************************************************************)
EXTENDS SharedRing, Sequences, FiniteSets

CONSTANTS
    Cpus,           \* the simulated CPUs
    Stream,         \* Stream[c]: "warm", "plain" or "trap", per instruction
    InstrEntries,   \* N_SOFTSDV_INSTR_RING_ENTRIES
    RegEntries,     \* N_SOFTSDV_REG_RING_ENTRIES
    RequestEntries, \* MAX_SDV_BUFFERED_REQUESTS
    WarmupChunk,    \* SOFTSDV_WARMUP_CHUNK_SIZE
    ExecuteChunk,   \* SOFTSDV_EXECUTE_CHUNK_SIZE
    SdvMayDie,      \* the SoftSDV process may disappear (a fault)
    AsimMayStop     \* the performance model may end the simulation

ASSUME LinkAssumption ==
    /\ IsFiniteSet(Cpus) /\ Cpus # {}
    /\ \A c \in Cpus : Stream[c] \in Seq({"warm", "plain", "trap"})
    /\ InstrEntries \in Nat /\ InstrEntries > 1
    /\ RegEntries \in Nat /\ RegEntries > 1
    /\ RequestEntries \in Nat /\ Cardinality(Cpus) < RequestEntries
    /\ WarmupChunk \in 1 .. (InstrEntries \div 2)
    /\ ExecuteChunk \in 1 .. WarmupChunk
    /\ SdvMayDie \in BOOLEAN /\ AsimMayStop \in BOOLEAN

VARIABLES
    \* memory written by SoftSDV, and memory written by Asim
    instrRing,      \* instrRing[c]: instructions to Asim
    regRing,        \* register values to Asim
    requestRing,    \* fetch requests to SoftSDV
    sdvActive,      \* SoftSDV's isActive flag
    asimActive,     \* Asim's isActive flag
    \* the SoftSDV process
    sdvAlive,       \* the process exists
    sdv,            \* where ExecuteAsim stands
    executed,       \* executed[c]: instructions of c sent so far
    regsUid,        \* register values sent so far
    \* the Asim process
    asim,           \* where the feeder stands
    regValues,      \* regValues[c]: register values waiting for their instruction
    received,       \* received[c]: instructions put into the replay buffer
    fetched,        \* how many of them the performance model has fetched
    warm,           \* warm[c]: a warm-up manager is still warming up c
    ended,          \* ended[c]: the thread of c has been ended, and why
    err             \* the first assertion that failed

sdvVars == <<sdvAlive, sdv, executed, regsUid>>
asimVars == <<asim, regValues, received, fetched, warm, ended>>
vars == <<instrRing, regRing, requestRing, sdvActive, asimActive, err,
          sdvVars, asimVars>>

-----------------------------------------------------------------------------
Kind(c, i) == Stream[c][i]

\* An instruction on the wire: its number and the register values it needs.
NoInstr == [num |-> 0, regs |-> 0]
Traps == {p \in UNION {{c} \X DOMAIN Stream[c] : c \in Cpus} :
            Kind(p[1], p[2]) = "trap"}
Instr(c) == [num : 1 .. Len(Stream[c]), regs : 0 .. Cardinality(Traps)]
Request == [cpu : Cpus, n : {WarmupChunk, ExecuteChunk}]

\* The feeder between two calls of the model.
Idle == [at |-> "model", cpu |-> CHOOSE c \in Cpus : TRUE, left |-> 0,
         chunk |-> 0, open |-> FALSE, fetch |-> FALSE]

\* WarmUpClientInfo has sent the first fetch request of every CPU.
InitialRequests(order) ==
    [NewRing(RequestEntries, [cpu |-> order[1], n |-> WarmupChunk]) EXCEPT
        !.writer = Cardinality(Cpus),
        !.payload = [s \in DOMAIN @ |->
            IF s < Cardinality(Cpus)
            THEN [cpu |-> order[s + 1], n |-> WarmupChunk]
            ELSE @[s]]]

Init ==
    /\ instrRing = [c \in Cpus |-> NewRing(InstrEntries, NoInstr)]
    /\ regRing = NewRing(RegEntries, [cpu |-> CHOOSE c \in Cpus : TRUE, uid |-> 0])
    /\ \E order \in [1 .. Cardinality(Cpus) -> Cpus] :
        /\ {order[k] : k \in DOMAIN order} = Cpus
        /\ requestRing = InitialRequests(order)
    /\ sdvActive = TRUE /\ asimActive = TRUE /\ sdvAlive = TRUE
    /\ sdv = [at |-> "execute", cpu |-> CHOOSE c \in Cpus : TRUE,
              remaining |-> 0, group |-> 0, regs |-> 0]
    /\ executed = [c \in Cpus |-> 0]
    /\ regsUid = 0
    /\ asim = Idle
    /\ regValues = [c \in Cpus |-> <<>>]
    /\ received = [c \in Cpus |-> <<>>]
    /\ fetched = [c \in Cpus |-> 0]
    /\ \E manager \in BOOLEAN : warm = [c \in Cpus |-> manager]
    /\ ended = [c \in Cpus |-> "no"]
    /\ err = "none"

Fail(what) == err' = IF err = "none" THEN what ELSE err

-----------------------------------------------------------------------------
(* The SoftSDV process: ExecuteAsim. *)

SdvAt(place) == sdvAlive /\ sdv.at = place

\* Wait for a fetch request, when the last one is served.
TakeRequest ==
    /\ SdvAt("execute")
    /\ NReadSlotsAvailable(RequestEntries, requestRing) # 0
    /\ LET request == Opened(requestRing)
       IN sdv' = [sdv EXCEPT !.at = "group", !.cpu = request.cpu,
                             !.remaining = request.n]
    /\ requestRing' = Released(RequestEntries, requestRing)
    /\ UNCHANGED <<instrRing, regRing, sdvActive, asimActive, err, sdvAlive,
                   executed, regsUid, asimVars>>

\* The ring was empty: look whether Asim is still there.
AwaitRequest ==
    /\ SdvAt("execute")
    /\ NReadSlotsAvailable(RequestEntries, requestRing) = 0
    /\ sdv' = [sdv EXCEPT !.at = "blocked"]
    /\ UNCHANGED <<instrRing, regRing, requestRing, sdvActive, asimActive, err,
                   sdvAlive, executed, regsUid, asimVars>>

\* asim_error_exit: SoftSDV leaves when Asim is no longer active.
RequestBlocked ==
    /\ SdvAt("blocked")
    /\ IF asimActive
       THEN sdv' = [sdv EXCEPT !.at = "execute"] /\ UNCHANGED sdvActive
       ELSE sdv' = [sdv EXCEPT !.at = "stopped"] /\ sdvActive' = FALSE
    /\ UNCHANGED <<instrRing, regRing, requestRing, asimActive, err, sdvAlive,
                   executed, regsUid, asimVars>>

\* step_reference runs up to the next trap, which must start a group, to the
\* end of the program or to the end of the request.
GroupSize(c, remaining) ==
    LET first == executed[c] + 1
        last == executed[c] + remaining
        Ends(k) == \/ k = last \/ k = Len(Stream[c])
                   \/ Kind(c, k + 1) = "trap"
    IN CHOOSE k \in first .. last :
        Ends(k) /\ \A j \in first .. (k - 1) : ~Ends(j)

NeedsRegisters(c) == Kind(c, executed[c] + 1) = "trap"

BeginGroup(regs) ==
    /\ sdv' = [sdv EXCEPT !.at = "step", !.regs = regs,
                          !.group = GroupSize(sdv.cpu, sdv.remaining) - executed[sdv.cpu]]
    /\ IF NWriteSlotsAvailable(InstrEntries, instrRing[sdv.cpu]) < sdv.remaining
       THEN Fail("No instruction ring write slots available")
       ELSE UNCHANGED err
    /\ UNCHANGED <<instrRing, requestRing, sdvActive, asimActive, sdvAlive,
                   executed, asimVars>>

Group ==
    /\ SdvAt("group")
    /\ executed[sdv.cpu] < Len(Stream[sdv.cpu])
    /\ ~NeedsRegisters(sdv.cpu)
    /\ BeginGroup(0)
    /\ UNCHANGED <<regRing, regsUid>>

\* NoteRegisterValues sends the state of the machine before the group.  When
\* the ring stays full and Asim has left, OpenNext returns NULL, and using it
\* ends the process.
GroupWithRegisters ==
    /\ SdvAt("group")
    /\ executed[sdv.cpu] < Len(Stream[sdv.cpu])
    /\ NeedsRegisters(sdv.cpu)
    /\ IF NWriteSlotsAvailable(RegEntries, regRing) # 0
       THEN /\ regsUid' = regsUid + 1
            /\ regRing' = Published(RegEntries,
                  Filled(regRing, [cpu |-> sdv.cpu, uid |-> regsUid + 1]))
            /\ BeginGroup(regsUid + 1)
       ELSE /\ ~asimActive
            /\ sdvAlive' = FALSE
            /\ UNCHANGED <<instrRing, regRing, requestRing, sdvActive, asimActive,
                           err, sdv, executed, regsUid, asimVars>>

FillInstr_AfterClose ==
    /\ SdvAt("step")
    /\ NWriteSlotsAvailable(InstrEntries, instrRing[sdv.cpu]) # 0
    /\ instrRing' = [instrRing EXCEPT ![sdv.cpu] = Published(InstrEntries, @)]
    /\ sdv' = [sdv EXCEPT !.at = "close"]
    /\ UNCHANGED <<regRing, requestRing, sdvActive, asimActive, err, sdvAlive,
                   executed, regsUid, asimVars>>

\* One instruction is written into the ring, not yet visible ...
FillInstr ==
    /\ SdvAt("step")
    /\ LET c == sdv.cpu
       IN /\ NWriteSlotsAvailable(InstrEntries, instrRing[c]) # 0
          /\ instrRing' = [instrRing EXCEPT
                ![c] = Filled(@, [num |-> executed[c] + 1, regs |-> sdv.regs])]
    /\ sdv' = [sdv EXCEPT !.at = "close"]
    /\ UNCHANGED <<regRing, requestRing, sdvActive, asimActive, err, sdvAlive,
                   executed, regsUid, asimVars>>

\* ... and published.
CloseInstr ==
    /\ SdvAt("close")
    /\ LET c == sdv.cpu
           r == sdv.remaining - 1
       IN /\ instrRing' = [instrRing EXCEPT ![c] = Published(InstrEntries, @)]
          /\ executed' = [executed EXCEPT ![c] = @ + 1]
          /\ sdv' = [sdv EXCEPT
                !.at = IF sdv.group > 1 THEN "step"
                       ELSE IF r = 0 THEN "execute" ELSE "group",
                !.remaining = r, !.group = @ - 1, !.regs = 0]
    /\ UNCHANGED <<regRing, requestRing, sdvActive, asimActive, err, sdvAlive,
                   regsUid, asimVars>>

\* The program is over: terminate announces it.
EndOfWorkload ==
    /\ SdvAt("group")
    /\ executed[sdv.cpu] = Len(Stream[sdv.cpu])
    /\ sdv' = [sdv EXCEPT !.at = "stopped"]
    /\ sdvActive' = FALSE
    /\ UNCHANGED <<instrRing, regRing, requestRing, asimActive, err, sdvAlive,
                   executed, regsUid, asimVars>>

\* The process disappears without a word.
SdvDies ==
    /\ SdvMayDie /\ sdvAlive /\ sdv.at # "stopped"
    /\ sdvAlive' = FALSE
    /\ UNCHANGED <<instrRing, regRing, requestRing, sdvActive, asimActive, err,
                   sdv, executed, regsUid, asimVars>>

Softsdv ==
    \/ TakeRequest \/ AwaitRequest \/ RequestBlocked
    \/ Group \/ GroupWithRegisters
    \/ FillInstr \/ CloseInstr \/ EndOfWorkload

-----------------------------------------------------------------------------
(* The Asim process: the calls of the performance model into the feeder. *)

AsimAt(place) == asim.at = place
Goto(place) == asim' = [asim EXCEPT !.at = place]

\* FetchIncomingInstructions returns to its caller.
Return == IF asim.fetch THEN Goto("fetch") ELSE asim' = Idle

simComplete == \E c \in Cpus : ended[c] # "no"

\* NUnfetchedQueuedInstrs of the replay buffer.
Unfetched(c) == Len(received[c]) - fetched[c]

\* Read ahead only when no more than half a chunk is left.
ReadsAhead(c, chunk) == Unfetched(c) <= chunk \div 2

ChunkOf(c) == IF warm[c] THEN WarmupChunk ELSE ExecuteChunk

\* WarmUp and FetchMacro begin with FetchIncomingInstructions, and so does
\* ITranslate, which then fetches nothing (FetchMacro also calls it a second
\* time, to look ahead).
Call(c, fetch) ==
    /\ AsimAt("model") /\ asimActive
    /\ ended[c] = "no"
    /\ IF ReadsAhead(c, ChunkOf(c))
       THEN asim' = [at |-> "before", cpu |-> c, left |-> ChunkOf(c),
                     chunk |-> ChunkOf(c), open |-> FALSE, fetch |-> fetch]
       ELSE /\ fetch
            /\ asim' = [Idle EXCEPT !.at = "fetch", !.cpu = c]
    /\ UNCHANGED <<instrRing, regRing, requestRing, sdvActive, asimActive, err,
                   sdvVars, regValues, received, fetched, warm, ended>>

\* CheckForIncomingRegValues takes all the register values there are, before
\* and after the instruction is opened.
ReadRegisters ==
    /\ AsimAt("before") \/ AsimAt("after")
    /\ NReadSlotsAvailable(RegEntries, regRing) # 0
    /\ regValues' = [regValues EXCEPT
            ![Opened(regRing).cpu] = Append(@, Opened(regRing).uid)]
    /\ regRing' = Released(RegEntries, regRing)
    /\ UNCHANGED <<instrRing, requestRing, sdvActive, asimActive, err, sdvVars,
                   asim, received, fetched, warm, ended>>

RegistersRead ==
    /\ AsimAt("before")
    /\ NReadSlotsAvailable(RegEntries, regRing) = 0
    /\ Goto("open")
    /\ UNCHANGED <<instrRing, regRing, requestRing, sdvActive, asimActive, err,
                   sdvVars, regValues, received, fetched, warm, ended>>

OpenInstr_Unchecked ==
    /\ AsimAt("open")
    /\ asim' = [asim EXCEPT !.at = "after", !.open = TRUE]
    /\ UNCHANGED <<instrRing, regRing, requestRing, sdvActive, asimActive, err,
                   sdvVars, regValues, received, fetched, warm, ended>>

\* OpenNext of the instruction ring.
OpenInstr ==
    /\ AsimAt("open")
    /\ asim' = IF NReadSlotsAvailable(InstrEntries, instrRing[asim.cpu]) # 0
               THEN [asim EXCEPT !.at = "after", !.open = TRUE]
               ELSE [asim EXCEPT !.at = "blocked"]
    /\ UNCHANGED <<instrRing, regRing, requestRing, sdvActive, asimActive, err,
                   sdvVars, regValues, received, fetched, warm, ended>>

OpenBlocked_TrustsFlag ==
    /\ AsimAt("blocked")
    /\ asim' = [asim EXCEPT !.at = IF sdvActive THEN "open" ELSE "after",
                            !.open = FALSE]
    /\ UNCHANGED <<instrRing, regRing, requestRing, sdvActive, asimActive, err,
                   sdvVars, regValues, received, fetched, warm, ended>>

\* Blocked: NULL when SoftSDV is no longer active, give up when its process is
\* missing, else try again.
OpenBlocked ==
    /\ AsimAt("blocked")
    /\ asim' = CASE ~sdvActive -> [asim EXCEPT !.at = "after", !.open = FALSE]
                 [] sdvActive /\ ~sdvAlive -> [asim EXCEPT !.at = "stopped"]
                 [] OTHER -> [asim EXCEPT !.at = "open"]
    /\ UNCHANGED <<instrRing, regRing, requestRing, sdvActive, asimActive, err,
                   sdvVars, regValues, received, fetched, warm, ended>>

\* AddInstruction drops the register values nobody used and takes its own.
Older(uids, uid) == {k \in DOMAIN uids : \A j \in 1 .. k : uids[j] < uid}
Remaining(uids, uid) ==
    SubSeq(uids, Cardinality(Older(uids, uid)) + 1, Len(uids))

RegistersTaken_NotAgain == TRUE

\* The second CheckForIncomingRegValues has found nothing more.
RegistersTaken == NReadSlotsAvailable(RegEntries, regRing) = 0

AddInstr ==
    /\ AsimAt("after") /\ asim.open /\ RegistersTaken
    /\ LET c == asim.cpu
           new == Opened(instrRing[c])
           rest == Remaining(regValues[c], new.regs)
       IN /\ received' = [received EXCEPT ![c] = Append(@, new.num)]
          /\ IF new.regs = 0
             THEN UNCHANGED <<regValues, err>>
             ELSE /\ regValues' = [regValues EXCEPT
                        ![c] = SubSeq(rest, 2, Len(rest))]
                  /\ IF rest # <<>> /\ rest[1] = new.regs
                     THEN UNCHANGED err
                     ELSE Fail("Register values arrived out of order.")
          /\ instrRing' = [instrRing EXCEPT ![c] = Released(InstrEntries, @)]
    /\ asim' = [asim EXCEPT !.at = IF asim.left = 1 THEN "request" ELSE "before",
                            !.left = @ - 1, !.open = FALSE]
    /\ UNCHANGED <<regRing, requestRing, sdvActive, asimActive, sdvVars,
                   fetched, warm, ended>>

\* The end of the stream: whatever was read has to do.
NoInstrLeft ==
    /\ AsimAt("after") /\ ~asim.open /\ RegistersTaken
    /\ Return
    /\ UNCHANGED <<instrRing, regRing, requestRing, sdvActive, asimActive, err,
                   sdvVars, regValues, received, fetched, warm, ended>>

\* A new request replaces the chunk just read.
SendRequest ==
    /\ AsimAt("request")
    /\ NWriteSlotsAvailable(RequestEntries, requestRing) # 0
    /\ requestRing' = Published(RequestEntries,
            Filled(requestRing, [cpu |-> asim.cpu, n |-> asim.chunk]))
    /\ Return
    /\ UNCHANGED <<instrRing, regRing, sdvActive, asimActive, err, sdvVars,
                   regValues, received, fetched, warm, ended>>

\* The request ring is full: no request when SoftSDV has left, give up when its
\* process is missing.
SendBlocked ==
    /\ AsimAt("request")
    /\ NWriteSlotsAvailable(RequestEntries, requestRing) = 0
    /\ ~(sdvActive /\ sdvAlive)
    /\ IF sdvActive THEN Goto("stopped") ELSE Return
    /\ UNCHANGED <<instrRing, regRing, requestRing, sdvActive, asimActive, err,
                   sdvVars, regValues, received, fetched, warm, ended>>

\* WarmUp or FetchMacro goes on with the next instruction; ForceThreadExit if
\* there is none, or another thread has ended the simulation.
FetchNext ==
    /\ AsimAt("fetch")
    /\ LET c == asim.cpu
       IN IF Unfetched(c) = 0 \/ simComplete
          THEN /\ ended' = [ended EXCEPT
                    ![c] = IF simComplete THEN "complete" ELSE "stream"]
               /\ UNCHANGED <<fetched, warm>>
          ELSE /\ UNCHANGED ended
               /\ IF warm[c] /\ Kind(c, fetched[c] + 1) # "warm"
                  THEN warm' = [warm EXCEPT ![c] = FALSE] /\ UNCHANGED fetched
                  ELSE fetched' = [fetched EXCEPT ![c] = @ + 1] /\ UNCHANGED warm
    /\ asim' = Idle
    /\ UNCHANGED <<instrRing, regRing, requestRing, sdvActive, asimActive, err,
                   sdvVars, regValues, received>>

\* Exiting: the simulation is over; wait for SoftSDV, then stop it.
StopAsim ==
    /\ AsimAt("model") /\ asimActive
    /\ AsimMayStop \/ \A c \in Cpus : ended[c] # "no"
    /\ asimActive' = FALSE
    /\ Goto("exiting")
    /\ UNCHANGED <<instrRing, regRing, requestRing, sdvActive, err, sdvVars,
                   regValues, received, fetched, warm, ended>>

AsimExits ==
    /\ AsimAt("exiting")
    /\ sdvAlive' = (sdvAlive /\ ~sdvActive)
    /\ Goto("stopped")
    /\ UNCHANGED <<instrRing, regRing, requestRing, sdvActive, asimActive, err,
                   sdv, executed, regsUid, regValues, received, fetched, warm,
                   ended>>

Calls(c) == \E fetch \in BOOLEAN : Call(c, fetch)

Feeder ==
    \/ ReadRegisters \/ RegistersRead \/ OpenInstr \/ OpenBlocked
    \/ AddInstr \/ NoInstrLeft \/ SendRequest \/ SendBlocked \/ FetchNext

Asim == Feeder \/ (\E c \in Cpus : Calls(c)) \/ StopAsim \/ AsimExits

Next == Softsdv \/ Asim \/ SdvDies

Spec == Init /\ [][Next]_vars

\* Both processes are scheduled, and a model that is not finished goes on
\* fetching for every CPU.
Fairness ==
    /\ WF_vars(Softsdv)
    /\ WF_vars(Feeder \/ AsimExits)
    /\ \A c \in Cpus : SF_vars(Call(c, TRUE))
    /\ WF_vars((\A c \in Cpus : ended[c] # "no") /\ StopAsim)

FairSpec == Spec /\ Fairness

-----------------------------------------------------------------------------
(* Properties. *)

Slots(n) == 0 .. n - 1

TypeOK ==
    /\ \A c \in Cpus : instrRing[c] \in
            [reader : Slots(InstrEntries), writer : Slots(InstrEntries),
             payload : [Slots(InstrEntries) -> Instr(c) \cup {NoInstr}]]
    /\ regRing \in [reader : Slots(RegEntries), writer : Slots(RegEntries),
                    payload : [Slots(RegEntries) ->
                                [cpu : Cpus, uid : 0 .. Cardinality(Traps)]]]
    /\ requestRing \in [reader : Slots(RequestEntries), writer : Slots(RequestEntries),
                        payload : [Slots(RequestEntries) -> Request]]
    /\ sdvActive \in BOOLEAN /\ asimActive \in BOOLEAN /\ sdvAlive \in BOOLEAN
    /\ sdv \in [at : {"execute", "blocked", "group", "step", "close", "stopped"},
                cpu : Cpus, remaining : 0 .. WarmupChunk, group : 0 .. WarmupChunk,
                regs : 0 .. Cardinality(Traps)]
    /\ regsUid \in 0 .. Cardinality(Traps)
    /\ asim \in [at : {"model", "before", "open", "blocked", "after", "request",
                       "fetch", "exiting", "stopped"},
                 cpu : Cpus, left : 0 .. WarmupChunk, chunk : 0 .. WarmupChunk,
                 open : BOOLEAN, fetch : BOOLEAN]
    /\ warm \in [Cpus -> BOOLEAN]
    /\ ended \in [Cpus -> {"no", "stream", "complete"}]

\* Every instruction SoftSDV has published is, exactly once and in the order of
\* execution, in the ring or in the replay buffer (the rings of softsdv_io.h,
\* FetchIncomingInstructions).
StreamIntact ==
    \A c \in Cpus :
        LET ring == Contents(InstrEntries, instrRing[c])
            n == Len(received[c])
        IN /\ n + Len(ring) = executed[c]
           /\ \A k \in 1 .. n : received[c][k] = k
           /\ \A k \in 1 .. Len(ring) : ring[k].num = n + k

\* While SoftSDV fills an entry Asim is not looking at it, and while Asim has an
\* entry open SoftSDV does not write to it: the entry being written lies outside
\* the published ones, and publishing it does not make the ring look empty
\* (OpenNext and Close of both sides, "Ring buffer overrun.").
NoSharedEntry ==
    \A c \in Cpus :
        /\ sdv.at = "close" /\ sdv.cpu = c
            => After(InstrEntries, instrRing[c].writer) # instrRing[c].reader
        /\ asim.open /\ asim.cpu = c
            => instrRing[c].reader # instrRing[c].writer

\* None of the assertions fires: a request is only made when the ring has room
\* for it, and the register values an instruction needs are there before it
\* (ExecuteAsim, AddInstruction).
NoLinkError == err = "none"

\* The indices of the rings stay in range and no assertion of either process
\* fires (OpenNext, Close, ExecuteAsim, AddInstruction).
LinkSound == TypeOK /\ NoLinkError

\* The instruction ring of every CPU is a bounded first-in first-out queue.
Queues == INSTANCE BoundedQueue WITH
    Ids <- Cpus,
    Capacity <- InstrEntries - 1,
    Entry <- [c \in Cpus |-> Instr(c)],
    queue <- [c \in Cpus |-> Contents(InstrEntries, instrRing[c])]

RingsAreQueues == Queues!Spec

\* Whatever happens, also when the SoftSDV process disappears or the model stops
\* early, no process waits for the other for ever (Blocked, Exiting).
SimulationEnds ==
    <>(asim.at = "stopped" /\ (sdv.at = "stopped" \/ ~sdvAlive))

=============================================================================
