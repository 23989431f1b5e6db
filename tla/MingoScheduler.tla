--------------------------- MODULE MingoScheduler ---------------------------
(***************************************************************************)
(* The Mingo front end: the application's threads, which run natively and  *)
(* hand the simulator one event at a time through a shared packet          *)
(* (inst/mingo/mingo_pvt.c, mingo_client.c), the software context that     *)
(* turns events into operations for the performance model                  *)
(* (common/sw_context/mingo_sw_context.cpp), and the scheduler that maps   *)
(* software contexts to hardware contexts                                  *)
(* (scheduler/context_sched/mingo_context_sched.cpp).                      *)
(*                                                                         *)
(* The simulator is one thread, the application runs beside it.  It moves  *)
(* between the simulator's calls, while a fetch waits for an event, and in *)
(* the middle of a scheduling decision, which waits a little for an event  *)
(* of each context it considers: of one call of the scheduler there may be *)
(* several outcomes, and its functions are operators from a state to the   *)
(* set of the states it may leave.                                         *)
(***************************************************************************)
EXTENDS Naturals, Sequences, FiniteSets

CONSTANTS
    NThreads,         \* threads of the application, numbered from 1
    Program,          \* Program[t]: the events thread t sends, in order
    NumHwcs,          \* hardware contexts, all added before the first cycle
    MAX_NUM_SWCS,     \* slots of SWContextList
    Polls,            \* what may be due in one cycle: CHECK_RUNNABLE,
                      \* CHECK_NEW_STREAM and INTERVAL_TIMER are periods
    Setups,           \* the simulations of a run, see setup
    MaxTimers,        \* bound: interval timer interrupts in a behaviour
    PromptStart       \* a new thread's first event arrives within the wait

Threads == 1..NThreads
Hwcs == 0..(NumHwcs - 1)
Slots == 0..(MAX_NUM_SWCS - 1)
None == 0

(***************************************************************************)
(* An event: its kind, the anonymous instructions before it (of a timed    *)
(* wait: the cycles to wait), and whether the thread asked for a preferred *)
(* CPU since its last event.                                               *)
(***************************************************************************)
Event == [kind : {"op", "syscall", "wait", "end"}, count : Nat,
          hint : BOOLEAN]

ASSUME MingoAssumption ==
    /\ NThreads \in Nat /\ NumHwcs \in Nat \ {0}
    /\ MAX_NUM_SWCS \in Nat \ {0}
    /\ Setups \subseteq [threads : 0..NThreads, depth : Nat \ {0},
                        unschedule : BOOLEAN]
    /\ MaxTimers \in Nat
    /\ PromptStart \in BOOLEAN
    /\ Polls \subseteq SUBSET {"resumed", "new", "timer"}
    /\ {"resumed", "new"} \in Polls
    /\ \A t \in Threads :
          /\ Program[t] \in Seq(Event) /\ Program[t] # <<>>
          /\ \A i \in 1..Len(Program[t]) :
                (Program[t][i].kind = "end") <=> (i = Len(Program[t]))

VARIABLES
    ipc,     \* the shared packet of each thread
    sent,    \* events each thread has sent
    started, \* threads the application has started
    known,   \* threads the scheduler has been told of (prevThreads)
    list,    \* SWContextList
    nextSWCToTry,
    ctx,     \* the software contexts
    run,     \* the software context each hardware context points to
    pipe,    \* operations in the performance model, oldest first
    asking,  \* the context whose fetch waits for an event, or None
    timers, error,
    setup    \* the threads the application starts, the operations the
             \* performance model holds between fetch and commit, and
             \* TIMED_WAIT_CAUSES_UNSCHEDULE

vars == <<ipc, sent, started, known, list, nextSWCToTry, ctx, run, pipe,
          asking, timers, error, setup>>

-----------------------------------------------------------------------------
(* The shared packet. *)

NewPacket == [state |-> "empty", hint |-> FALSE, pseudo |-> FALSE]

(* MINGO_PVT_Send_Event, and the request for a CPU made before it. *)
Posted(p, e) == [p EXCEPT !.state = "ready", !.hint = e.hint]

(* MINGO_PVT_Recv_Event: a request for a CPU is delivered as a packet of
   its own, in front of the packet that is in the buffer. *)
Received(p) ==
    [state |-> "consumed", hint |-> FALSE, pseudo |-> p.hint]

(* MINGO_PVT_Send_Response. *)
Answered(p) ==
    IF p.pseudo THEN [p EXCEPT !.state = "ready", !.pseudo = FALSE]
                ELSE [p EXCEPT !.state = "ack"]

-----------------------------------------------------------------------------
(* The software context and the scheduler's state, taken together. *)

NewContext ==
    [mapped |-> FALSE, hwc |-> 0, runnable |-> TRUE, deschedule |-> FALSE,
     delete |-> FALSE, timed |-> FALSE, left |-> 0, preceding |-> 0,
     pending |-> FALSE, ended |-> FALSE, outstanding |-> 0,
     switch |-> "none"]

State == [list |-> list, next |-> nextSWCToTry, ctx |-> ctx, run |-> run,
          ipc |-> ipc, sent |-> sent, picked |-> None, error |-> ""]

Becomes(s) ==
    /\ list' = s.list /\ nextSWCToTry' = s.next
    /\ ctx' = s.ctx /\ run' = s.run
    /\ ipc' = s.ipc /\ sent' = s.sent /\ error' = s.error

(* AllowSoftwareThreadProgress: the change of state is refused unless the
   simulator has consumed a packet. *)
Allowed(s, t) ==
    IF s.ipc[t].state = "consumed"
    THEN [s EXCEPT !.ipc[t] = Answered(@)]
    ELSE [s EXCEPT !.error = "Packet response error"]

(* SW_CONTEXT_CLASS::FeederHasEvents. *)
FeederHasEvents(s, t) ==
    /\ ~s.ctx[t].timed
    /\ \/ s.ctx[t].preceding # 0
       \/ s.ctx[t].pending
       \/ s.ipc[t].state = "ready"

(* What Op leaves of any state of S. *)
Then(S, Op(_)) == UNION {Op(s) : s \in S}

(* GetNextSoftwareThreadEvent waits for the event: a thread that runs, or has
   been told to proceed, may post its next one meanwhile. *)
OnItsWay(s, t) ==
    s.ipc[t].state \in {"empty", "ack"} /\ s.sent[t] < Len(Program[t])

MayHaveEvents(s, t) ==
    FeederHasEvents(s, t) \/ (~s.ctx[t].timed /\ OnItsWay(s, t))

Arrived(s, t) ==
    IF FeederHasEvents(s, t) THEN s
    ELSE [s EXCEPT !.ipc[t] = Posted(@, Program[t][s.sent[t] + 1]),
                   !.sent[t] = @ + 1]

Free(s) == {h \in Hwcs : s.run[h] = None}

FindFreeHardwareContext(s) ==
    CHOOSE h \in Free(s) : \A g \in Free(s) : h <= g

Occupied(s) == {i \in Slots : s.list[i] # None}

Active_Mapped(s, checkForEvents) ==
    {i \in Occupied(s) :
        /\ s.ctx[s.list[i]].runnable
        /\ checkForEvents => FeederHasEvents(s, s.list[i])}

(* The slots FindActiveSoftwareContext accepts. *)
Active(s, checkForEvents) ==
    {i \in Occupied(s) :
        /\ s.ctx[s.list[i]].runnable
        /\ ~s.ctx[s.list[i]].mapped
        /\ checkForEvents => FeederHasEvents(s, s.list[i])}

(* The slots FindWaitingSoftwareContext accepts. *)
Waiting(s) ==
    {i \in Occupied(s) : ~s.ctx[s.list[i]].mapped /\ s.ctx[s.list[i]].timed}

After_NoWrap(i) == i + 1
After(i) == (i + 1) % MAX_NUM_SWCS

(* A search goes round the list from nextSWCToTry.  The context it picks is
   made runnable if it is in a timed wait. *)
Distance(s, i) == (i + MAX_NUM_SWCS - s.next) % MAX_NUM_SWCS

Nearest(s, accepted) ==
    CHOOSE i \in accepted : \A j \in accepted : Distance(s, i) <= Distance(s, j)

Pick(s, i) == [s EXCEPT !.next = After(i), !.picked = s.list[i],
                        !.ctx[s.list[i]].runnable = TRUE]

(* FindActiveSoftwareContext asks one context after the other for events.
   It finds one that has an event, or one nearer than those whose event
   comes while it is asked; the others' events may come too late. *)
Found(s) ==
    LET ready == Active(s, TRUE) IN
    {i \in Active(s, FALSE) :
        /\ MayHaveEvents(s, s.list[i])
        /\ \A j \in ready : Distance(s, i) <= Distance(s, j)}

PickActive(s) == {Pick(Arrived(s, s.list[i]), i) : i \in Found(s)}

NoneFound(s) == IF Active(s, TRUE) = {} THEN {s} ELSE {}

RunSoftwareContext(s, t, h) ==
    IF s.ctx[t].mapped \/ s.ctx[t].deschedule \/ ~s.ctx[t].runnable
    THEN [s EXCEPT !.error = "not fit to be scheduled"]
    ELSE [s EXCEPT !.ctx[t].mapped = TRUE, !.ctx[t].hwc = h, !.run[h] = t]

RunIfPicked(s, t, h) ==
    IF s.picked = t THEN RunSoftwareContext(s, t, h) ELSE s

(* TryRunningSoftwareContext of a stream that has just resumed.  It is
   runnable, and the event it has stays until it is fetched: the first search
   finds a context, that of the stream or one it comes to before.  Only
   the stream is run. *)
TryResumed(s, t) ==
    IF Free(s) = {} THEN {s}
    ELSE {RunIfPicked(r, t, FindFreeHardwareContext(s)) : r \in PickActive(s)}

Asleep(s, t) ==
    ~s.ctx[t].mapped /\ ~s.ctx[t].runnable /\ ~s.ctx[t].deschedule

Resumed(s, t) == [Arrived(s, t) EXCEPT !.ctx[t].runnable = TRUE]

(* One turn of CheckStreamResumption: the slot is passed over, its stream has
   no event yet, or it has one. *)
ResumeSlot(s, i) ==
    LET t == s.list[i]
        asked == i \in Occupied(s) /\ Asleep(s, t)
    IN  (IF asked /\ FeederHasEvents(s, t) THEN {} ELSE {s}) \cup
        (IF asked /\ MayHaveEvents(s, t)
         THEN Then({Resumed(s, t)}, LAMBDA r : TryResumed(r, t)) ELSE {})

CheckStreamResumption_FirstOnly(s) == ResumeSlot(s, 0)

CheckStreamResumption(s) ==
    LET upTo[n \in 0..MAX_NUM_SWCS] ==
            IF n = 0 THEN {s}
            ELSE Then(upTo[n - 1], LAMBDA r : ResumeSlot(r, n - 1))
    IN  upTo[MAX_NUM_SWCS]

(* PickSoftwareContext: a runnable context with an event, after the resumed
   streams have been looked for if there is none; else one in a timed wait;
   else any runnable one. *)
PickWithoutEvents(s) ==
    IF Waiting(s) # {} THEN Pick(s, Nearest(s, Waiting(s)))
    ELSE IF Active(s, FALSE) # {} THEN Pick(s, Nearest(s, Active(s, FALSE)))
    ELSE [s EXCEPT !.next = After(s.next), !.picked = None]

PickAfterResumption(s) ==
    PickActive(s) \cup {PickWithoutEvents(r) : r \in NoneFound(s)}

PickSoftwareContext(s) ==
    PickActive(s) \cup
    Then(Then(NoneFound(s), CheckStreamResumption), PickAfterResumption)

TryRunningSoftwareContext(s, t) ==
    IF Free(s) = {} THEN {s}
    ELSE {RunIfPicked(r, t, FindFreeHardwareContext(s)) :
              r \in PickSoftwareContext(s)}

(* The list is searched for an empty slot; a full list drops the context,
   for the test of the slot found is always true. *)
AddSoftwareContext(s, t) ==
    LET free == Slots \ Occupied(s)
        slot == CHOOSE i \in free : \A j \in free : i <= j
    IN  Then({IF free = {} THEN s ELSE [s EXCEPT !.list[slot] = t]},
             LAMBDA r : TryRunningSoftwareContext(r, t))

CheckForNewStream(s) ==
    LET upTo[n \in known..started] ==
            IF n = known THEN {s}
            ELSE Then(upTo[n - 1], LAMBDA r : AddSoftwareContext(r, n))
    IN  upTo[started]

StartDeschedule(c) == [c EXCEPT !.deschedule = TRUE]

(* The context leaves; one that has ended is removed from the list. *)
Unmapped(s, t) ==
    [s EXCEPT !.ctx[t].deschedule = FALSE,
              !.ctx[t].mapped = FALSE, !.ctx[t].hwc = 0,
              !.list = [i \in Slots |->
                 IF s.ctx[t].delete /\ @[i] = t THEN None ELSE @[i]]]

RunPicked(s, h) ==
    IF s.picked # None THEN RunSoftwareContext(s, s.picked, h)
    ELSE [s EXCEPT !.run[h] = None]

ContextSwitchCompleted_FreesFirst(s, t) ==
    LET h == s.ctx[t].hwc IN
    {RunPicked(r, h) :
        r \in PickSoftwareContext([Unmapped(s, t) EXCEPT !.run[h] = None])}

ContextSwitchCompleted_NoPick(s, t) ==
    {[Unmapped(s, t) EXCEPT !.run[s.ctx[t].hwc] = None]}

(* While a successor is picked the hardware context still points to the
   context that is leaving, so it is not taken for a free one. *)
ContextSwitchCompleted(s, t) ==
    IF ~s.ctx[t].mapped \/ ~s.ctx[t].deschedule
    THEN {[s EXCEPT !.error = "context is not being descheduled"]}
    ELSE {RunPicked(r, s.ctx[t].hwc) :
             r \in Then({Unmapped(s, t)}, PickSoftwareContext)}

-----------------------------------------------------------------------------
Init ==
    /\ ipc = [t \in Threads |-> NewPacket]
    /\ sent = [t \in Threads |-> 0]
    /\ started = 0 /\ known = 0
    /\ list = [i \in Slots |-> None]
    /\ nextSWCToTry \in Slots
    /\ ctx = [t \in Threads |-> NewContext]
    /\ run = [h \in Hwcs |-> None]
    /\ pipe = [h \in Hwcs |-> <<>>]
    /\ asking = None
    /\ timers = 0
    /\ error = ""
    /\ setup \in Setups

simulator == <<known, list, nextSWCToTry, ctx, run, pipe, asking, timers, error>>

-----------------------------------------------------------------------------
(* The application's threads. *)

(* MINGO_Thread_Start; under PromptStart the thread's first event follows
   before the simulator looks. *)
ThreadStart ==
    /\ started < setup.threads
    /\ started' = started + 1
    /\ IF PromptStart
       THEN /\ ipc' = [ipc EXCEPT ![started'] =
                          Posted(@, Program[started'][1])]
            /\ sent' = [sent EXCEPT ![started'] = 1]
       ELSE UNCHANGED <<ipc, sent>>
    /\ UNCHANGED <<setup, simulator>>

(* SendMessage: the thread reaches its next event and blocks. *)
SendMessage(t) ==
    /\ t <= started
    /\ ipc[t].state = "empty" /\ sent[t] < Len(Program[t])
    /\ ipc' = [ipc EXCEPT ![t] = Posted(@, Program[t][sent[t] + 1])]
    /\ sent' = [sent EXCEPT ![t] = @ + 1]
    /\ UNCHANGED <<started, setup, simulator>>

(* WaitForASIMResponse returns; after its last event the thread is dead. *)
Proceed(t) ==
    /\ ipc[t].state = "ack"
    /\ ipc' = [ipc EXCEPT ![t].state =
                  IF sent[t] = Len(Program[t]) THEN "dead" ELSE "empty"]
    /\ UNCHANGED <<sent, started, setup, simulator>>

-----------------------------------------------------------------------------
(* The simulator. *)

Idle == asking = None /\ error = ""

(* SW_CONTEXT_CLASS::PrepareToSend. *)
PrepareToSend(c) ==
    IF c.preceding > 0 THEN [c EXCEPT !.preceding = @ - 1]
    ELSE [c EXCEPT !.pending = FALSE, !.outstanding = @ + 1]

Operation(c) == IF c.preceding > 0 THEN "anonymous" ELSE "op"

Feed(t, h, c) ==
    /\ pipe' = [pipe EXCEPT ![h] = Append(@, [op |-> Operation(c), t |-> t])]
    /\ ctx' = [ctx EXCEPT ![t] = PrepareToSend(c)]

(* PrepareContextSwitch. *)
FeedSwitch(t, h, c) ==
    /\ pipe' = [pipe EXCEPT ![h] = Append(@, [op |-> "switch", t |-> t])]
    /\ ctx' = [ctx EXCEPT ![t] = [c EXCEPT !.switch = "sent"]]

Fetching(h) == Idle /\ run[h] # None /\ Len(pipe[h]) < setup.depth

HasBuffered(c) == c.preceding # 0 \/ c.pending

(* Fetch: a context switch was requested, or something is waiting to be
   sent, or an event is asked for, before which the thread is allowed to
   proceed if operations are outstanding. *)
FetchSwitch(h) ==
    /\ Fetching(h)
    /\ ctx[run[h]].switch = "requested"
    /\ FeedSwitch(run[h], h, ctx[run[h]])
    /\ UNCHANGED <<ipc, sent, started, setup, known, list, nextSWCToTry, run, asking,
                   timers, error>>

Feedable(c) == c.switch # "requested" /\ ~c.timed /\ ~c.ended

FetchBuffered(h) ==
    /\ Fetching(h)
    /\ Feedable(ctx[run[h]]) /\ HasBuffered(ctx[run[h]])
    /\ Feed(run[h], h, ctx[run[h]])
    /\ UNCHANGED <<ipc, sent, started, setup, known, list, nextSWCToTry, run, asking,
                   timers, error>>

FetchAsks(h) ==
    /\ Fetching(h)
    /\ Feedable(ctx[run[h]]) /\ ~HasBuffered(ctx[run[h]])
    /\ asking' = run[h]
    /\ Becomes(IF ctx[run[h]].outstanding > 0 THEN Allowed(State, run[h])
                                              ELSE State)
    /\ UNCHANGED <<started, setup, known, pipe, timers>>

(* SoftwareContextPaused, StartTimedWait and SoftwareContextExited. *)
Paused(c) == StartDeschedule([c EXCEPT !.runnable = FALSE])

InTimedWait(c, cycles) == [c EXCEPT !.timed = TRUE, !.left = cycles + 1]

Exited(c) == StartDeschedule([c EXCEPT !.runnable = FALSE, !.delete = TRUE])

(* GetFeederEvent gives up: the context is treated as paused. *)
FetchTimesOut ==
    /\ asking # None /\ error = ""
    /\ ipc[asking].state # "ready"
    /\ FeedSwitch(asking, ctx[asking].hwc, Paused(ctx[asking]))
    /\ asking' = None
    /\ UNCHANGED <<ipc, sent, started, setup, known, list, nextSWCToTry, run,
                   timers, error>>

(* A request for a CPU is not meant for the model: the thread is allowed to
   proceed and the next event is asked for. *)
ReceiveHint(t) ==
    /\ ipc[t].hint
    /\ ipc' = [ipc EXCEPT ![t] = Answered(Received(@))]
    /\ UNCHANGED <<ctx, pipe, asking>>

ReceiveOperation(t, e) ==
    /\ e.kind = "op"
    /\ Feed(t, ctx[t].hwc, [ctx[t] EXCEPT !.preceding = @ + e.count,
                                         !.pending = TRUE])
    /\ ipc' = [ipc EXCEPT ![t] = Received(@)]
    /\ asking' = None

(* HandleWait, HandleTimedWait when it unschedules, and HandleEndThread:
   the context switch is not counted, so the thread proceeds at once.  A
   timed wait that comes in the middle of a context switch is dropped. *)
Left(c, e) ==
    CASE e.kind = "syscall" -> Paused([c EXCEPT !.preceding = @ + e.count])
      [] e.kind = "wait"    -> Paused(InTimedWait(c, e.count))
      [] e.kind = "end"     -> [Exited(c) EXCEPT !.ended = TRUE]

ReceiveLeave(t, e) ==
    /\ e.kind \in {"syscall", "end"} \/ (e.kind = "wait" /\ setup.unschedule)
    /\ IF e.kind = "wait" /\ ctx[t].switch # "none"
       THEN UNCHANGED <<ctx, pipe, asking>>
       ELSE FeedSwitch(t, ctx[t].hwc, Left(ctx[t], e)) /\ asking' = None
    /\ ipc' = [ipc EXCEPT ![t] = Answered(Received(@))]

(* HandleTimedWait when it keeps the context where it is. *)
ReceiveWait(t, e) ==
    /\ e.kind = "wait" /\ ~setup.unschedule
    /\ ctx' = [ctx EXCEPT ![t] = InTimedWait(@, e.count)]
    /\ ipc' = [ipc EXCEPT ![t] = Answered(Received(@))]
    /\ asking' = None
    /\ UNCHANGED pipe

FetchReceives ==
    /\ asking # None /\ error = ""
    /\ ipc[asking].state = "ready"
    /\ LET e == Program[asking][sent[asking]] IN
       \/ ReceiveHint(asking)
       \/ ~ipc[asking].hint /\ ReceiveOperation(asking, e)
       \/ ~ipc[asking].hint /\ ReceiveLeave(asking, e)
       \/ ~ipc[asking].hint /\ ReceiveWait(asking, e)
    /\ UNCHANGED <<sent, started, setup, known, list, nextSWCToTry, run,
                   timers, error>>

(* SW_CONTEXT_CLASS::Commit, and the context switch it may complete. *)
Committed(c, op) ==
    CASE op = "switch"    -> [c EXCEPT !.switch = "committed"]
      [] op = "op"        -> [c EXCEPT !.outstanding = @ - 1]
      [] op = "anonymous" -> c

(* Anonymous instructions are not counted: their commit changes nothing. *)
Settles_CountsAnonymous(c, op) == c.outstanding = 0
Settles(c, op) == op # "anonymous" /\ c.outstanding = 0

Commit(h) ==
    /\ Idle /\ pipe[h] # <<>>
    /\ pipe' = [pipe EXCEPT ![h] = Tail(@)]
    /\ UNCHANGED <<started, setup, known, asking, timers>>
    /\ LET t == pipe[h][1].t
           op == pipe[h][1].op
           c == Committed(ctx[t], op)
           s == [State EXCEPT !.ctx[t] = c]
       IN  \E a \in {IF Settles(c, op) /\ op # "switch" /\ ~c.ended
                     THEN Allowed(s, t) ELSE s} :
           \E r \in IF a.error = "" /\ Settles(c, op) /\ c.switch = "committed"
                    THEN ContextSwitchCompleted(
                            [a EXCEPT !.ctx[t].switch = "none"], t)
                    ELSE {a} :
              Becomes(r)

-----------------------------------------------------------------------------
(* The scheduler's clock. *)

(* UpdateTimedWait. *)
UpdateTimedWait(s) ==
    [s EXCEPT !.ctx = [t \in Threads |->
        IF s.ctx[t].timed /\ \E i \in Occupied(s) : s.list[i] = t
        THEN [s.ctx[t] EXCEPT !.left = @ - 1, !.timed = s.ctx[t].left > 1]
        ELSE s.ctx[t]]]

Polled(s, due) ==
    Then(IF "resumed" \in due THEN Then({s}, CheckStreamResumption) ELSE {s},
         LAMBDA r : IF "new" \in due THEN CheckForNewStream(r) ELSE {r})

(* IntervalTimer of every hardware context that runs something. *)
IntervalTimer(s) ==
    [s EXCEPT !.ctx = [t \in Threads |->
        IF (\E h \in Hwcs : s.run[h] = t) /\ ~@[t].deschedule
        THEN StartDeschedule([@[t] EXCEPT !.switch = "requested"])
        ELSE @[t]]]

Clock(due) ==
    /\ Idle
    /\ "timer" \in due => timers < MaxTimers
    /\ timers' = IF "timer" \in due THEN timers + 1 ELSE timers
    /\ known' = IF "new" \in due THEN started ELSE known
    /\ UNCHANGED <<started, setup, pipe, asking>>
    /\ \E s \in Polled(UpdateTimedWait(State), due) :
       \E r \in {IF "timer" \in due THEN IntervalTimer(s) ELSE s} : Becomes(r)

(* ASIMERROR ends the simulator. *)
Stopped == error # "" /\ UNCHANGED vars

-----------------------------------------------------------------------------
Next ==
    \/ ThreadStart
    \/ \E t \in Threads : SendMessage(t) \/ Proceed(t)
    \/ \E h \in Hwcs : FetchSwitch(h) \/ FetchBuffered(h) \/ FetchAsks(h)
                          \/ Commit(h)
    \/ FetchTimesOut
    \/ FetchReceives
    \/ \E due \in Polls : Clock(due)
    \/ Stopped

Spec == Init /\ [][Next]_vars

(* The application's threads run; the performance model keeps fetching and
   committing, the scheduler is clocked, and both polls are due every so
   many cycles. *)
Fairness ==
    /\ WF_vars(ThreadStart)
    /\ \A t \in Threads : WF_vars(SendMessage(t) \/ Proceed(t))
    /\ \A h \in Hwcs :
          /\ WF_vars(FetchSwitch(h) \/ FetchBuffered(h) \/ FetchAsks(h))
          /\ WF_vars(Commit(h))
    /\ WF_vars(FetchTimesOut \/ FetchReceives)
    /\ WF_vars(Clock({"resumed", "new"}))

FairSpec == Spec /\ Fairness

-----------------------------------------------------------------------------
TypeOK ==
    /\ \A t \in Threads :
          /\ ipc[t] \in [state : {"empty", "ready", "consumed", "ack",
                                  "dead"},
                         hint : BOOLEAN, pseudo : BOOLEAN]
          /\ sent[t] \in 0..Len(Program[t])
          /\ ctx[t].hwc \in Hwcs /\ ctx[t].outstanding \in 0..setup.depth
          /\ ctx[t].switch \in {"none", "requested", "sent", "committed"}
    /\ started \in 0..setup.threads /\ known \in 0..started
    /\ list \in [Slots -> Threads \cup {None}]
    /\ nextSWCToTry \in Slots
    /\ run \in [Hwcs -> Threads \cup {None}]
    /\ setup \in Setups
    /\ \A h \in Hwcs : Len(pipe[h]) <= setup.depth
    /\ asking \in Threads \cup {None}
    /\ timers \in 0..MaxTimers

(* A context that says it is mapped is the one its hardware context points
   to, and a hardware context points only to a context that says so: two
   contexts are never put on one hardware context, whatever nested attempts
   to run resumed streams a scheduling decision makes. *)
MappedOneToOne ==
    /\ \A t \in Threads : ctx[t].mapped => run[ctx[t].hwc] = t
    /\ \A h \in Hwcs : run[h] # None => ctx[run[h]].mapped /\ ctx[run[h]].hwc = h

(* "It will be run eventually" (TryRunningSoftwareContext, of a context it
   passes over beside a free hardware context): then some hardware context
   runs a context, whose switch will pick the one that waits, for neither the
   polls nor the interval timer looks for it. *)
PassedOverIsPickedLater == Free(State) = Hwcs => Active(State, FALSE) = {}

(* The handshake of AllowSoftwareThreadProgress.  No answer is lost: a thread
   that waits for one has an operation that is yet to be fetched or to be
   committed.  When the model holds one operation at a time, no answer
   overtakes a commit: a thread with such an operation waits. *)
AnsweredByCommit ==
    \A t \in Threads :
        LET due == ctx[t].pending \/ ctx[t].outstanding > 0 IN
        /\ ipc[t].state = "consumed" => due
        /\ setup.depth = 1 /\ due => ipc[t].state = "consumed"

(* However events, commits, time-outs and nested decisions interleave, no
   context is run that is mapped, is being descheduled or is not runnable
   (RunSoftwareContext).  When the model holds one operation at a time, no
   packet is answered twice either (AllowSoftwareThreadProgress), and no
   switch completes that was not asked for (ContextSwitchCompleted). *)
SchedulerSound ==
    /\ TypeOK
    /\ error # "not fit to be scheduled"
    /\ setup.depth = 1 => error = ""

(* Every stream ends and leaves its hardware context (ContextSwitchCompleted),
   however late its events are and wherever it sleeps.  An ASIMERROR, which
   several operations in flight may reach, ends the simulation before. *)
AllStreamsEnd ==
    <>(\/ error # ""
       \/ \A t \in 1..setup.threads :
             ipc[t].state = "dead" /\ ctx[t].ended /\ ~ctx[t].mapped)
=============================================================================
