----------------------------- MODULE RefeedBuffer -----------------------------
(***************************************************************************)
(* FEEDER_QUEUE_CLASS (feeders/inst/gambitv3/refeed_buffer): the circular  *)
(* queue in which the Gambit feeder keeps the instructions it has stepped  *)
(* the reference model through, until the performance model commits them.  *)
(* After a squash they are fed again from the mis-speculation point.       *)
(*                                                                         *)
(* A queue is a record with a fault field for the ASIMERRORs.  The issue   *)
(* pointer and the register values are left out: nothing reads them.       *)
(***************************************************************************)
EXTENDS Integers, FiniteSetsExt

CONSTANT QueueSize   \* REFEED_QUEUE_SIZE

ASSUME QueueAssumption == QueueSize \in Nat \ {0, 1}

Index == 0 .. QueueSize - 1

\* FEEDER_QUEUE_CLASS over instruction_feed_info of identity, bundle bits and
\* addresses taken from the given sets.
Queues(Uids, Bits, Addrs) ==
    [slot : [Index -> [uid : Uids \cup {0}, bits : Bits, pc : Addrs, npc : Addrs,
                       nop : BOOLEAN, longImm : BOOLEAN, valid : BOOLEAN]],
     head : Index, tail : Index, size : 0 .. QueueSize,
     mispec : Index, left : BOOLEAN,
     fault : {"none", "full", "empty", "mismatch"}]

\* The constructor; what a slot holds before its first use is never read.
NewQueue(anyEntry) ==
    [slot |-> [i \in Index |-> anyEntry], head |-> 0, tail |-> 0, size |-> 0,
     mispec |-> 0, left |-> FALSE, fault |-> "none"]

Up_NoWrap(i) == i + 1
Up(i) == IF i = QueueSize - 1 THEN 0 ELSE i + 1
Down(i) == IF i = 0 THEN QueueSize - 1 ELSE i - 1

\* The slot k places behind slot i, and how many places slot j is behind i.
Behind(i, k) == (i + k) % QueueSize
Distance(i, j) == (j - i) % QueueSize

\* set_nop, set_longImm: the flags of the slot the next add will fill.  They
\* are only ever set, and add leaves them as they are.
Mark(q, nop, longImm) ==
    [q EXCEPT !.slot[q.tail].nop = @ \/ nop,
              !.slot[q.tail].longImm = @ \/ longImm]

\* add: the check for space comes after the insertion.
Add(q, uid, bits, pc, npc) ==
    LET t == Up(q.tail)
    IN  [q EXCEPT !.slot[q.tail] = [@ EXCEPT !.uid = uid, !.bits = bits, !.pc = pc,
                                              !.npc = npc, !.valid = TRUE],
                  !.size = @ + 1,
                  !.tail = t,
                  !.fault = IF t = q.head THEN "full" ELSE @]

\* One element leaves at the head.
Remove(q) ==
    [q EXCEPT !.slot[q.head].valid = FALSE, !.head = Up(@), !.size = @ - 1]

Leading_None(q, uid) == 0

\* The leading no-ops and long immediates that removehead(Uid) pulls off.
Leading(q, uid) ==
    Min({k \in 0 .. q.size :
           \/ k = q.size
           \/ LET e == q.slot[Behind(q.head, k)]
              IN  e.uid = uid \/ ~(e.nop \/ e.longImm)})

PullOff(q, k) ==
    [q EXCEPT !.slot = [i \in Index |-> IF Distance(q.head, i) < k
                                        THEN [@[i] EXCEPT !.valid = FALSE] ELSE @[i]],
              !.head = Behind(@, k),
              !.size = @ - k]

\* removehead(Uid).
RemoveHeadUid(q, uid) ==
    LET r == PullOff(q, Leading(q, uid))
        e == r.slot[r.head]
    IN  IF r.size = 0 \/ ~e.valid THEN [r EXCEPT !.fault = "empty"]
        ELSE IF e.uid # uid THEN [r EXCEPT !.fault = "mismatch"]
        ELSE Remove(r)

\* getmispec returns no entry.
NoMispec(q) == q.size = 0 \/ ~q.slot[q.mispec].valid

Mispec(q) == q.slot[q.mispec]

Refed_KeepsUid(q, uid) ==
    LET m == Up(q.mispec)
    IN  [q EXCEPT !.mispec = m, !.left = @ /\ m # q.tail]

\* rename, then increment_mispec_pt.
Refed(q, uid) ==
    LET m == Up(q.mispec)
    IN  [q EXCEPT !.slot[q.mispec].uid = uid,
                  !.mispec = m,
                  !.left = @ /\ m # q.tail]

\* How far from the head set_mispec_pt finds uid, looking from the tail back;
\* the head itself is looked at last.
FoundAt(q, uid) ==
    {k \in 0 .. Distance(q.head, Down(q.tail)) : q.slot[Behind(q.head, k)].uid = uid}

SetMispec_AlwaysAfter(q, uid, killMe) ==
    IF q.size = 0 \/ FoundAt(q, uid) = {} THEN q
    ELSE LET i == Behind(q.head, Max(FoundAt(q, uid)))
         IN  IF i = Down(q.tail) THEN [q EXCEPT !.mispec = i, !.left = FALSE]
             ELSE [q EXCEPT !.mispec = Up(i), !.left = TRUE]

\* set_mispec_pt: feed again from uid on if it is to be killed itself, or
\* from the entry behind it, if there is one.
SetMispec(q, uid, killMe) ==
    IF q.size = 0 \/ FoundAt(q, uid) = {} THEN q
    ELSE LET i == Behind(q.head, Max(FoundAt(q, uid)))
         IN  IF killMe THEN [q EXCEPT !.mispec = i, !.left = TRUE]
             ELSE IF i = Down(q.tail) THEN [q EXCEPT !.mispec = i, !.left = FALSE]
             ELSE [q EXCEPT !.mispec = Up(i), !.left = TRUE]

\* The entries that have been fed and not squashed since, oldest first.
Fed(q) == [k \in 1 .. (IF q.left THEN Distance(q.head, q.mispec) ELSE q.size) |->
             q.slot[Behind(q.head, k - 1)]]
===============================================================================
