---------------------------- MODULE ReplayBuffer ----------------------------
(***************************************************************************)
(* SOFTSDV_REPLAY_BUFFER_CLASS (feeders/inst/softsdv/softsdv_replay): the  *)
(* instructions one SoftSDV CPU has sent and the performance model has not *)
(* committed, as a list, with the one to fetch next.                       *)
(*                                                                         *)
(* A buffer is the list of its instructions, the place in it of nextFetch  *)
(* (Null for a NULL pointer), and the last uid given out.  An instruction  *)
(* is its number in the stream; x86 adds no place holders, so the last uid *)
(* is also the number of instructions received.  The free list and the     *)
(* register values are left out.                                           *)
(***************************************************************************)
EXTENDS Naturals, Sequences, SequencesExt

Null == 0
NewBuffer == [list |-> <<>>, next |-> Null, uid |-> 0]

\* The place where an instruction is, Null when it is not in the list.
Place(b, n) == SelectInSeq(b.list, LAMBDA e : e.n = n)

\* GetNext()
After(b, k) == IF k = Len(b.list) THEN Null ELSE k + 1

\* AddInstruction, m times: a new instruction goes to the end of the list,
\* and is to be fetched next when nothing else was.
AddInstructions(b, m) ==
    [b EXCEPT !.list = @ \o [i \in 1 .. m |->
                  [n |-> b.uid + i, uid |-> b.uid + i, implicit |-> FALSE]],
              !.uid = @ + m,
              !.next = IF @ = Null /\ m > 0 THEN Len(b.list) + 1 ELSE @]

NUnfetchedQueuedInstrs(b) ==
    IF b.next = Null THEN 0 ELSE b.uid - b.list[b.next].uid + 1

\* GetNextFetchHandle: b.next is what it returns.
GetNextFetchHandle(b) ==
    [b EXCEPT !.next = IF @ = Null THEN Null ELSE After(b, @)]

SetNextFetch(b, k) == [b EXCEPT !.next = k]
SetImplicitCommit_Not(b, k) == b
SetImplicitCommit(b, k) == [b EXCEPT !.list[k].implicit = TRUE]

\* CommitInstruction takes the instruction off the head, after those before
\* it that commit implicitly; anything else there is "Out of order commit."
CommitInOrder(b, k) ==
    k # Null /\ b.next # k /\ \A j \in 1 .. k - 1 : b.list[j].implicit

CommitInstruction_OneOnly(b, k) ==
    [b EXCEPT !.list = RemoveAt(@, k),
              !.next = IF @ = Null THEN Null ELSE @ - 1]

CommitInstruction(b, k) ==
    [b EXCEPT !.list = SubSeq(@, k + 1, Len(@)),
              !.next = IF @ = Null THEN Null ELSE @ - k]

\* Dropped from the middle of the list; the one before takes over its uid.
\* The one that was next is at the same place afterwards, unless it was last.
DeleteInstruction(b, k) ==
    [b EXCEPT !.list = RemoveAt(IF k = 1 THEN b.list
                                ELSE [b.list EXCEPT ![k - 1].uid = b.list[k].uid], k),
              !.next = CASE b.next = k -> IF k = Len(b.list) THEN Null ELSE k
                         [] b.next > k -> b.next - 1
                         [] OTHER -> b.next]
=============================================================================
