----------------------------- MODULE GambitFeeder -----------------------------
(***************************************************************************)
(* GAMBIT_FEEDER_CLASS (feeders/inst/gambitv3): feeds one CPU of a         *)
(* performance model from a functional reference model.  A fetch on the    *)
(* right path steps the reference, in groups, and notes the instruction in *)
(* the refeed buffer; after a squash the noted instructions are fed again, *)
(* because the reference cannot go back.                                   *)
(*                                                                         *)
(* External: the reference model, which executes Program; the performance  *)
(* model, which follows straight-line code, predicts branches at will,     *)
(* squashes with Kill, and commits in order once a branch is resolved.     *)
(***************************************************************************)
EXTENDS RefeedBuffer, Sequences

CONSTANTS
    Program,     \* the instructions the reference executes, in order: what
                 \* each is, and whether the next address follows it
    GroupSize,   \* EXECUTE_GROUP_SIZE
    OsMode,      \* os_mode
    Window,      \* bound: instructions in flight
    MaxEvents,   \* bound: traps, squashes off the path, skips, switches
    SkipCounts,  \* the n with which the controller calls Skip
    Switches,    \* when the scheduler switches the context before it ends
    LateTraps    \* does an instruction trap after the thread has ended

ASSUME FeederAssumption ==
    /\ Program \in Seq([kind : {"plain", "nop", "mlx", "branch"}, seq : BOOLEAN])
    /\ {GroupSize, Window} \subseteq Nat \ {0}
    /\ Len(Program) % GroupSize = 0
    /\ MaxEvents \in Nat
    /\ SkipCounts \subseteq Nat \ {0}
    /\ Switches \in {"never", "clean", "any"}
    /\ {OsMode, LateTraps} \subseteq BOOLEAN

\* An address: that of instruction i, of the data syllable of a long
\* immediate i, or the one that follows i but is not executed after it.
At(i) == <<i, "at">>
Imm(i) == <<i, "imm">>
Off(i) == <<i, "off">>
Zero == At(0)
Wild == Off(0)
Last == Len(Program)
Addresses == {<<i, k>> : i \in 0 .. Last + 1, k \in {"at", "imm", "off"}}

\* Bundle bits: those of instruction i, or BRANCH_BUNDLE, or NOP.
BranchBits == 0
NopBits == -1
BundleBits == -1 .. Last

\* Enough identities for a fresh one to be left: see FreshUid.
Uids == 1 .. QueueSize + Window + 1

VARIABLES
    q,             \* FEEDER_BUFFER
    nextIP,        \* NEXT_IP
    wrongPath,
    lastControl,   \* LAST_INST_WAS_CONTROL
    lastMLX,       \* LAST_INST_WAS_MLX
    justSkipped,
    position,      \* buffer_position
    stepped,       \* instructions the reference has executed
    ended,         \* ThreadEnd has been called
    pipe,          \* the performance model's instructions, oldest first
    predicted,     \* addresses it may fetch at next
    switching,     \* a context switch is requested (software context)
    events,        \* those of them so far
    retired,       \* place in the program of the last instruction retired
    error          \* ASIMERROR or ASSERT of the feeder itself

flags == <<wrongPath, lastControl, lastMLX, justSkipped>>
reference == <<position, stepped, ended>>
model == <<pipe, predicted, events, retired>>
vars == <<q, nextIP, flags, reference, switching, model, error>>

Kinds == {"plain", "nop", "mlx", "imm", "branch"}
Instr == [uid : Uids, tid : {"good", "wrong", "artificial", "switch"},
          kind : Kinds, bits : BundleBits, pc : Addresses, npc : Addresses]

TypeOK ==
    /\ q \in Queues(Uids, BundleBits, Addresses)
    /\ nextIP \in Addresses
    /\ {wrongPath, lastControl, lastMLX, justSkipped, ended, switching} \subseteq BOOLEAN
    /\ position \in 0 .. GroupSize + 1
    /\ stepped \in 0 .. Last
    /\ pipe \in Seq(Instr)
    /\ predicted \subseteq Addresses
    /\ events \in 0 .. MaxEvents
    /\ retired \in Nat
    /\ error \in {"none", "interrupt", "refeed", "kill", "wrongpathCommit"}

Alive == error = "none" /\ q.fault = "none"

-----------------------------------------------------------------------------
(* Decoding.                                                               *)

\* What the performance model makes of the bits at an address; IsTypeL holds
\* of "imm", the data syllable.
Kind(bits, pc) ==
    CASE bits = BranchBits -> "branch"
      [] bits = NopBits    -> "nop"
      [] OTHER             -> IF Program[bits].kind = "mlx" /\ pc[2] = "imm"
                              THEN "imm" ELSE Program[bits].kind

\* PC.Next(), for an instruction of the program.
SeqNext(bits, pc) ==
    CASE Kind(bits, pc) = "mlx" -> Imm(pc[1])
      [] bits \in 1 .. Last /\ Program[bits].seq -> At(bits + 1)
      [] OTHER -> Off(pc[1])

\* Where an instruction goes on: a branch to its target, the others straight.
GoesTo(e) == IF e.kind = "branch" THEN e.npc ELSE SeqNext(e.bits, e.pc)

\* Identities are never used twice; only their equality matters.
FreshUid ==
    Min(Uids \ ({q.slot[i].uid : i \in Index} \cup {pipe[k].uid : k \in DOMAIN pipe}))

-----------------------------------------------------------------------------
(* CommonVariablesInit, ThreadVariablesInit.  The context starts up with a *)
(* fetch at address 0.                                                     *)

Init ==
    /\ q = NewQueue([uid |-> 0, bits |-> NopBits, pc |-> Zero, npc |-> Zero,
                     nop |-> FALSE, longImm |-> FALSE, valid |-> FALSE])
    /\ nextIP = At(1)
    /\ wrongPath = FALSE /\ lastControl = FALSE /\ lastMLX = FALSE
    /\ justSkipped = FALSE
    /\ position = GroupSize + 1
    /\ stepped = 0
    /\ ended = FALSE
    /\ pipe = <<>>
    /\ predicted = {Zero}
    /\ switching = FALSE
    /\ events = 0
    /\ retired = 1
    /\ error = "none"

-----------------------------------------------------------------------------
(* Fetch.                                                                  *)

\* The model receives the instruction, and predicts where to go on.
Deliver(tid, bits, pc, npc) ==
    LET e == [uid |-> FreshUid, tid |-> tid, kind |-> Kind(bits, pc),
              bits |-> bits, pc |-> pc, npc |-> npc]
    IN  /\ pipe' = Append(pipe, e)
        /\ predicted' = CASE tid = "switch"    -> predicted
                          [] tid = "wrong"     -> {Wild, nextIP}
                          [] e.kind = "branch" -> {npc, Wild}
                          [] OTHER             -> {SeqNext(bits, pc)}
        /\ UNCHANGED <<events, retired>>

\* The scheduler asks the context to leave; from then on every fetch of the
\* software context is for a context switch.
\* A clean request comes between instructions, with none left to feed again.
RequestSwitch ==
    /\ Alive /\ ~switching
    /\ events < MaxEvents
    /\ Switches # "never"
    /\ Switches = "clean" => ~q.left /\ ~lastMLX
    /\ predicted # {Zero}
    /\ switching' = TRUE
    /\ events' = events + 1
    /\ UNCHANGED <<q, nextIP, flags, reference, pipe, predicted, retired, error>>

\* Fabricate_CS: a no-op that stands for the context switch, not noted in the
\* buffer.  More of them behind it would change nothing.
FetchSwitch ==
    /\ Alive /\ switching
    /\ Len(pipe) < Window
    /\ pipe # <<>> => pipe[Len(pipe)].tid # "switch"
    /\ Deliver("switch", NopBits, Wild, Wild)
    /\ lastControl' = FALSE /\ lastMLX' = FALSE
    /\ UNCHANGED <<q, nextIP, wrongPath, justSkipped, reference, switching, error>>

\* The reference has gone elsewhere without a branch.
Interrupted(pc) == ~lastControl /\ ~wrongPath /\ ~lastMLX /\ pc # nextIP

NeedsBranch(pc) == pc = Zero \/ justSkipped \/ Interrupted(pc)

\* Fabricate_Branch: at start-up, after a skip, and on an interrupt.
FetchBranch(pc) ==
    /\ NeedsBranch(pc)
    /\ pc = Zero \/ justSkipped \/ OsMode
    /\ q' = Add(q, FreshUid, BranchBits, pc, nextIP)
    /\ Deliver("artificial", BranchBits, pc, nextIP)
    /\ lastControl' = TRUE /\ lastMLX' = FALSE /\ justSkipped' = FALSE
    /\ UNCHANGED <<nextIP, wrongPath, reference, switching, error>>

\* "You appear to have an interrupt but that should not happen in user mode".
FetchInterruptFails(pc) ==
    /\ NeedsBranch(pc)
    /\ ~(pc = Zero \/ justSkipped \/ OsMode)
    /\ error' = "interrupt"
    /\ UNCHANGED <<q, nextIP, flags, reference, switching, model>>

OnPath_IgnoresFlag(pc) == ~NeedsBranch(pc) /\ pc = nextIP
OnPath(pc) == ~NeedsBranch(pc) /\ pc = nextIP /\ ~wrongPath

GroupUsedUp_Early == ~lastMLX /\ position + 2 >= GroupSize

\* StepExecuteGroup has to step the reference, which is at its end.
GroupUsedUp == ~lastMLX /\ position + 1 >= GroupSize
CannotStep == GroupUsedUp /\ stepped + GroupSize > Last

\* Place in the execute group, and instructions executed, after
\* StepExecuteGroup; the data syllable of a long immediate does not step.
StepPosition == IF lastMLX THEN position ELSE IF GroupUsedUp THEN 0 ELSE position + 1

\* ConvertCorrectPathSpeed.
FetchStep(pc) ==
    /\ OnPath(pc)
    /\ ~q.left
    /\ ~CannotStep
    /\ position' = StepPosition
    /\ stepped' = IF GroupUsedUp THEN stepped + GroupSize ELSE stepped
    /\ LET bits == stepped' - GroupSize + position' + 1
           kind == Kind(bits, pc)
           npc == IF kind = "mlx" THEN Imm(bits) ELSE At(bits + 1)
       IN  /\ q' = Add(Mark(q, kind = "nop", kind = "imm"), FreshUid, bits, pc, npc)
           /\ nextIP' = npc
           /\ lastMLX' = (kind = "mlx")
           /\ lastControl' = (kind = "branch")
           /\ Deliver("good", bits, pc, npc)
    /\ UNCHANGED <<wrongPath, justSkipped, ended, switching, error>>

\* ConvertCorrectPathSpeed at the end of the program: Fabricate_NOP.  Fetch
\* returns false, and the software context asks for a context switch.
FetchEnd(pc) ==
    /\ OnPath(pc)
    /\ ~q.left
    /\ CannotStep
    /\ position' = GroupSize + 1
    /\ ended' = TRUE
    /\ switching' = TRUE
    /\ q' = Add(Mark(q, TRUE, FALSE), FreshUid, NopBits, pc, pc)
    /\ Deliver("artificial", NopBits, pc, pc)
    /\ lastControl' = FALSE /\ lastMLX' = FALSE
    /\ UNCHANGED <<nextIP, wrongPath, justSkipped, stepped, error>>

\* Refeed.
FetchRefeed(pc) ==
    /\ OnPath(pc)
    /\ q.left
    /\ ~NoMispec(q)
    /\ LET e == Mispec(q)
           kind == Kind(e.bits, e.pc)
           m == [q EXCEPT !.slot[q.mispec].nop = @ \/ kind = "nop",
                          !.slot[q.mispec].longImm = @ \/ kind = "imm"]
       IN  /\ q' = Refed(m, FreshUid)
           /\ nextIP' = IF q'.left THEN Mispec(q').pc ELSE e.npc
           /\ lastMLX' = (kind = "mlx")
           /\ lastControl' = (kind = "branch")
           /\ Deliver("good", e.bits, e.pc, e.npc)
    /\ UNCHANGED <<wrongPath, justSkipped, reference, switching, error>>

\* "Invalid Pointer to instruction info on refeed".
FetchRefeedFails(pc) ==
    /\ OnPath(pc)
    /\ q.left
    /\ NoMispec(q)
    /\ error' = "refeed"
    /\ UNCHANGED <<q, nextIP, flags, reference, switching, model>>

\* ConvertWrongPath, or a no-op.
FetchWrongPath(pc) ==
    /\ ~NeedsBranch(pc)
    /\ ~OnPath(pc)
    /\ wrongPath' = TRUE
    /\ Deliver("wrong", NopBits, pc, pc)
    /\ lastControl' = FALSE /\ lastMLX' = FALSE
    /\ UNCHANGED <<q, nextIP, justSkipped, reference, switching, error>>

Fetch ==
    /\ Alive /\ ~switching
    /\ Len(pipe) < Window
    /\ \E pc \in predicted :
          \/ FetchBranch(pc)
          \/ FetchInterruptFails(pc)
          \/ FetchStep(pc)
          \/ FetchEnd(pc)
          \/ FetchRefeed(pc)
          \/ FetchRefeedFails(pc)
          \/ FetchWrongPath(pc)

-----------------------------------------------------------------------------
(* Commit.                                                                 *)

\* Places in the order of execution, long immediates having two.
Place(pc) == 2 * pc[1] + (IF pc[2] = "imm" THEN 1 ELSE 0)

\* The model commits a branch once the right address is fetched after it.
Resolved ==
    /\ pipe # <<>>
    /\ pipe[1].kind = "branch" /\ Len(pipe) > 1 =>
           pipe[2].tid = "switch" \/ pipe[2].pc = pipe[1].npc

Retire(e) ==
    /\ pipe' = Tail(pipe)
    /\ predicted' = CASE e.tid = "switch" -> IF ended THEN {} ELSE {Zero}
                      [] e.kind = "branch" /\ Len(pipe) = 1 -> {e.npc}
                      [] OTHER -> predicted
    /\ switching' = (switching /\ e.tid # "switch")
    /\ retired' = IF e.bits \in 1 .. Last THEN Place(e.pc) ELSE retired

\* "we don't put non-context switch instructions into the refeed buffer": an
\* artificial instruction is looked up only if it changed the context.
InBuffer(e) == e.tid = "good" \/ (e.tid = "artificial" /\ e.kind = "branch")

Commit ==
    /\ Alive
    /\ Resolved
    /\ LET e == Head(pipe)
       IN  /\ q' = IF InBuffer(e) THEN RemoveHeadUid(q, e.uid) ELSE q
           /\ error' = IF e.tid = "wrong" THEN "wrongpathCommit" ELSE error
           /\ Retire(e)
    /\ UNCHANGED <<nextIP, flags, reference, events>>

\* The model retires a no-op or the data of a long immediate by itself.
DropNop ==
    /\ Alive
    /\ Resolved
    /\ Head(pipe).tid = "good" /\ Head(pipe).kind \in {"nop", "imm"}
    /\ Retire(Head(pipe))
    /\ UNCHANGED <<q, nextIP, flags, reference, events, error>>

-----------------------------------------------------------------------------
(* Kill.                                                                   *)

\* On the model's side, instruction k and those behind it, or those behind it.
Squash(k, killMe) ==
    /\ pipe' = SubSeq(pipe, 1, IF killMe THEN k - 1 ELSE k)
    /\ predicted' = {IF killMe THEN pipe[k].pc ELSE GoesTo(pipe[k])}

KillFails(k) ==
    /\ pipe[k].tid = "good"
    /\ q.size = 0 \/ FoundAt(q, pipe[k].uid) = {}

ResumeAt_Unchanged(r) == nextIP
ResumeAt(r) == IF r.left THEN Mispec(r).pc ELSE nextIP

Kill(k, killMe) ==
    /\ pipe[k].tid \in {"good", "artificial"}
    /\ IF KillFails(k)
       THEN /\ error' = "kill"
            /\ UNCHANGED <<q, nextIP, wrongPath>>
       ELSE /\ q' = SetMispec(q, pipe[k].uid, killMe)
            /\ wrongPath' = FALSE
            /\ nextIP' = ResumeAt(q')
            /\ UNCHANGED error
    /\ Squash(k, killMe)
    /\ UNCHANGED <<lastControl, lastMLX, justSkipped, reference, switching, retired>>

Mispredicted(k) ==
    /\ pipe[k].tid # "wrong" /\ pipe[k].kind = "branch"
    /\ k < Len(pipe)
    /\ pipe[k + 1].tid # "switch" /\ pipe[k + 1].pc # pipe[k].npc

\* A branch resolves to another address than the one fetched after it.
Resteer ==
    /\ Alive
    /\ \E k \in DOMAIN pipe : Mispredicted(k) /\ Kill(k, FALSE)
    /\ UNCHANGED events

\* A trap, replay or serialisation squashes from an instruction on, or behind
\* it.  The instruction at address 0 traps on nothing.
Trap ==
    /\ Alive
    /\ events < MaxEvents
    /\ ended => LateTraps
    /\ switching => ended \/ Switches = "any"
    /\ \E k \in DOMAIN pipe, killMe \in BOOLEAN :
          /\ \A j \in 1 .. k - 1 : ~Mispredicted(j)
          /\ pipe[k].tid # "switch" /\ pipe[k].pc # Zero
          /\ Kill(k, killMe)
    /\ events' = events + 1

\* The feeder does nothing when an instruction off the path is squashed.
KillWrongPath ==
    /\ Alive
    /\ events < MaxEvents
    /\ \E k \in DOMAIN pipe :
          /\ pipe[k].tid = "wrong"
          /\ pipe' = SubSeq(pipe, 1, k)
    /\ predicted' = {Wild, nextIP}
    /\ events' = events + 1
    /\ UNCHANGED <<q, nextIP, flags, reference, switching, retired, error>>

-----------------------------------------------------------------------------
(* Skip, called by the controller when nothing is in flight.               *)

Skip(n) ==
    /\ Alive
    /\ ~switching
    /\ pipe = <<>> /\ ~q.left
    /\ stepped' = Min({stepped + n, Last})
    /\ nextIP' = At(stepped' + 1)
    /\ position' = GroupSize
    /\ wrongPath' = FALSE /\ lastControl' = FALSE /\ lastMLX' = FALSE
    /\ justSkipped' = TRUE
    /\ retired' = 2 * stepped' + 1
    /\ events < MaxEvents /\ events' = events + 1
    /\ UNCHANGED <<q, ended, switching, pipe, predicted, error>>

-----------------------------------------------------------------------------

\* The context has left for good.
Gone == ended /\ predicted = {}

\* The process aborted, or the thread ended and its instructions are retired.
Finished ==
    /\ ~Alive \/ Gone
    /\ UNCHANGED vars

Next ==
    \/ RequestSwitch
    \/ FetchSwitch
    \/ Fetch
    \/ Commit
    \/ DropNop
    \/ Resteer
    \/ Trap
    \/ KillWrongPath
    \/ \E n \in SkipCounts : Skip(n)
    \/ Finished

Spec == Init /\ [][Next]_vars

\* The model keeps fetching and resolves its branches, and it commits what it
\* has resolved; each of these is a loop of its clock.
Fairness ==
    /\ WF_vars(Fetch) /\ WF_vars(FetchSwitch)
    /\ WF_vars(Resteer)
    /\ WF_vars(Commit \/ DropNop)

FairSpec == Spec /\ Fairness

-----------------------------------------------------------------------------
(* Safety.                                                                 *)

Noted(e) == e.tid \in {"good", "artificial"}

\* The instructions the model holds are, in order, the last ones fed from the
\* refeed buffer, under the identities the model knows them by; what is in
\* front of them the model retired without a commit.  So a commit finds its
\* instruction at the head behind no-ops, and a kill finds it (add, rename,
\* removehead, set_mispec_pt).
BufferHoldsPipe ==
    LET fed == Fed(q)
        held == SelectSeq(pipe, Noted)
        d == Len(fed) - Len(held)
    IN  Alive =>
          /\ d >= 0
          /\ \A k \in DOMAIN held :
                 /\ fed[d + k].uid = held[k].uid
                 /\ fed[d + k].bits = held[k].bits
                 /\ fed[d + k].pc = held[k].pc
          /\ \A k \in 1 .. d : Kind(fed[k].bits, fed[k].pc) \in {"nop", "imm"}

\* A fetch is declared off the path only behind a branch it does not follow,
\* and an instruction of the reference is delivered only at its own address,
\* behind the one it follows (Fetch, Refeed, Kill).
PathFaithful ==
    \A k \in DOMAIN pipe :
        LET e == pipe[k]
        IN  /\ e.tid = "wrong" =>
                 /\ k > 1
                 /\ \/ pipe[k - 1].tid = "wrong"
                    \/ pipe[k - 1].kind = "branch" /\ pipe[k - 1].npc # e.pc
            /\ e.tid = "good" =>
                 /\ e.bits \in 1 .. Last =>
                       e.pc = IF e.kind = "imm" THEN Imm(e.bits) ELSE At(e.bits)
                 /\ k > 1 /\ Noted(pipe[k - 1]) => e.pc = GoesTo(pipe[k - 1])

\* When the context has left, every instruction of the program has been
\* retired: stepping in groups and feeding again lose none.
NothingLost ==
    Gone => \A i \in 1 .. Last : Place(At(i)) <= retired

\* None of the feeder's and the queue's errors is raised: "buffer queue is
\* full", "Uid of commit does not match buffer head", "Invalid Pointer to
\* instruction info on refeed", "cannot find it in the buffer", "Attempt to
\* commit wrongpath instruction".
NoFeederError == Alive

\* What the feeder keeps true of the refeed queue between any two calls: the
\* queue holds the instructions in flight and the ones to feed again, the model
\* is on the path exactly when its predictions were right, a context that has
\* left has retired its program, and no error is raised (add, Refeed, removehead,
\* set_mispec_ptr, Fetch, Commit, Kill).
FeederInvariant ==
    /\ TypeOK
    /\ BufferHoldsPipe
    /\ PathFaithful
    /\ NothingLost
    /\ NoFeederError

\* The place executed after p: the data syllable of a long immediate, or the
\* next instruction.
NextPlace(p) ==
    IF p % 2 = 0 /\ Program[p \div 2].kind = "mlx" THEN p + 1
    ELSE 2 * (p \div 2) + 2

\* The model retires the program one instruction after the other, each once,
\* whatever was squashed and fed again.
RetiresInOrder ==
    [][retired' # retired /\ pipe' # pipe => retired' = NextPlace(retired)]_vars

-----------------------------------------------------------------------------
(* Liveness.                                                               *)

\* The program is executed to its end: no squash leaves the feeder off the
\* path for good.
ProgramCompletes == <>Gone
===============================================================================
