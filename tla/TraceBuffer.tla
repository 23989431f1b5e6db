----------------------------- MODULE TraceBuffer -----------------------------
(***************************************************************************)
(* TRACE_BUFFER_CLASS (feeders/inst/trace/tracebuffer): the circular       *)
(* buffer between a trace reader and the trace feeder, as operators on a   *)
(* buffer value.  The slots after lastcommit_index up to filled_index      *)
(* hold instructions of the trace; head_index is the next one to be fed,   *)
(* and it moves back when the performance model refetches.                 *)
(*                                                                         *)
(* An instruction is abstracted to its place in the trace, with the two    *)
(* flags of the slot (wrongpath, nop) that survive an end-of-file record.  *)
(***************************************************************************)
EXTENDS Integers, Sequences, FiniteSets

CONSTANTS
    Streams,   \* the stream ids, one per trace file
    Trace,     \* Trace[s]: the instructions of the file, in order
    BufSize    \* length of the buffer (2048 in tracebuffer.h)

\* A trace instruction has an address and a kind.  An "orphan" is a syllable
\* after a taken branch in the same bundle, marked wrongpath in the file; a
\* "nop" stands for no-ops and for the data half of long immediates.
Kinds == {"inst", "nop", "orphan"}

ASSUME TraceAssumption ==
    /\ BufSize \in Nat /\ BufSize >= 2
    /\ DOMAIN Trace = Streams
    /\ \A s \in Streams : Trace[s] \in Seq([pc : Nat \ {0}, kind : Kinds])

Slots == 0 .. BufSize - 1

\* Places in the trace: 0 for a slot never filled, EofPos for any read
\* beyond the last instruction.
EofPos(s) == Len(Trace[s]) + 1
Positions(s) == 0 .. EofPos(s)

Buffers(s) ==
    [head : Slots, lastcommit : Slots, filled : Slots, readPos : Positions(s),
     slot : [Slots -> [pos : Positions(s), wrongpath : BOOLEAN, nop : BOOLEAN]],
     fault : {"none", "overrun", "outOfOrder"}]

Succ_NoWrap(i) == i + 1

Succ(i) == IF i + 1 = BufSize THEN 0 ELSE i + 1

\* Slots from i forward to j.
Dist(i, j) == (j - i + BufSize) % BufSize

-----------------------------------------------------------------------------
(* Reading the trace and filling the buffer.                               *)

\* TRACE_READER_CLASS::GetNextInst into a slot that held old.  Init clears
\* the slot; SetEof sets the eof flag and the pc only, so that the flags of
\* the slot's last instruction stay.
GetNextInst(s, p, old) ==
    IF p >= EofPos(s) THEN [old EXCEPT !.pos = EofPos(s)]
    ELSE [pos |-> p, wrongpath |-> Trace[s][p].kind = "orphan", nop |-> FALSE]

AtMost(m, n) == IF m <= n THEN m ELSE n

FillBuffer_IgnoresCommits(s, b) ==
    [b EXCEPT !.slot = [i \in Slots |->
            IF Dist(b.filled, i) < BufSize - 1
            THEN GetNextInst(s, b.readPos + Dist(b.filled, i), b.slot[i])
            ELSE b.slot[i]],
        !.readPos = AtMost(@ + BufSize - 1, EofPos(s)),
        !.filled = (b.filled + BufSize - 1) % BufSize]

FillBuffer_OverLastCommit(s, b) ==
    LET n == IF b.filled = b.lastcommit THEN 1 ELSE Dist(b.filled, b.lastcommit)
    IN  [b EXCEPT !.slot = [i \in Slots |->
                IF Dist(b.filled, i) < n
                THEN GetNextInst(s, b.readPos + Dist(b.filled, i), b.slot[i])
                ELSE b.slot[i]],
            !.readPos = AtMost(@ + n, EofPos(s)),
            !.filled = (b.filled + n) % BufSize]

\* FillBuffer: from filled_index round to lastcommit_index.
FillBuffer(s, b) ==
    LET n == Dist(b.filled, b.lastcommit)
    IN  IF n = 0 THEN [b EXCEPT !.fault = "overrun"]
        ELSE [b EXCEPT !.slot = [i \in Slots |->
                    IF Dist(b.filled, i) < n
                    THEN GetNextInst(s, b.readPos + Dist(b.filled, i), b.slot[i])
                    ELSE b.slot[i]],
                !.readPos = AtMost(@ + n, EofPos(s)),
                !.filled = b.lastcommit]

\* TRACE_BUFFER_CLASS::Init.  The slots are uninitialised memory: in those
\* into which no instruction is read the flags are arbitrary.
InitialBuffers(s) ==
    LET unread == {i \in Slots : i >= AtMost(Len(Trace[s]), BufSize - 1)}
        empty == [pos |-> 0, wrongpath |-> FALSE, nop |-> FALSE]
    IN  {FillBuffer(s, [head |-> 0, lastcommit |-> BufSize - 1, filled |-> 0,
                        readPos |-> 1, fault |-> "none",
                        slot |-> [i \in Slots |-> IF i \in unread THEN garbage[i]
                                                  ELSE empty]]) :
            garbage \in [unread -> [pos : {0}, wrongpath : BOOLEAN, nop : BOOLEAN]]}

-----------------------------------------------------------------------------
(* Accessors of the instruction at head_index.                             *)

Inst(b) == b.slot[b.head]
IsWrongpath(b) == Inst(b).wrongpath
Eof(s, b) == Inst(b).pos = EofPos(s)

\* SetEof leaves the pc 0.
VirtualPc(s, b) == IF Eof(s, b) THEN 0 ELSE Trace[s][Inst(b).pos].pc

-----------------------------------------------------------------------------
(* Moving the head.                                                        *)

NextInstr(s, b) ==
    LET c == [b EXCEPT !.head = Succ(@)]
    IN  IF c.head = c.filled THEN FillBuffer(s, c) ELSE c

Backup(b, id) == [b EXCEPT !.head = id]

\* Slots from i on, i included, before j: all of them if i is j.
Ahead(i, j) == Dist(Succ(i), j) + 1

\* SkipOverWrongpath: step over the orphans at the head if the instruction
\* after them is the one asked for, or the trace ends there.  Stepping past
\* the last filled slot fills the buffer once; nothing but orphans in the
\* whole of it is an overrun.
SkipOverWrongpath(s, b, lookaheadPc) ==
    LET onPath(c) == {i \in Slots : /\ Dist(b.head, i) < Ahead(b.head, c.filled)
                                    /\ ~c.slot[i].wrongpath}
        c == IF onPath(b) = {} THEN FillBuffer(s, b) ELSE b
        d == Backup(c, CHOOSE i \in onPath(c) :
                           \A j \in onPath(c) : Dist(b.head, i) <= Dist(b.head, j))
    IN  IF onPath(c) = {} THEN [c EXCEPT !.fault = "overrun"]
        ELSE IF VirtualPc(s, d) = lookaheadPc \/ Eof(s, d) THEN d
        ELSE c

-----------------------------------------------------------------------------
(* Committing.                                                             *)

\* Slots CommitInstr passes over before it reaches id: lastcommit_index is
\* advanced once before the first comparison.
Skipped(b, id) == Dist(Succ(b.lastcommit), id)

\* Embedded wrongpath, long immediates and no-ops need no commit of their
\* own; anything else in between is an out of order commit.
CommitInstr(b, id) ==
    LET skippable(i) == b.slot[i].wrongpath \/ b.slot[i].nop
    IN  IF \A i \in Slots : Dist(Succ(b.lastcommit), i) < Skipped(b, id) => skippable(i)
        THEN [b EXCEPT !.lastcommit = id]
        ELSE [b EXCEPT !.fault = "outOfOrder"]

\* CommitAll: start over from what the reader returns next.
CommitAll(s, b) ==
    [FillBuffer(s, [b EXCEPT !.head = 0, !.lastcommit = BufSize - 1, !.filled = 0])
        EXCEPT !.lastcommit = 0]
=============================================================================
