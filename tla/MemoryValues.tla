----------------------------- MODULE MemoryValues -----------------------------
(***************************************************************************)
(* MEMORY_VALUE_MODEL_CLASS (feeders/memory-values): the values each       *)
(* processor of a simulated machine sees in memory.  A store is first      *)
(* visible to its own processor and later to all of them.                  *)
(*                                                                         *)
(* One cell, of CellBytes bytes: cells are found by their address and      *)
(* share nothing.  A cell that has not been made reads like a new one.     *)
(***************************************************************************)
EXTENDS Integers, Sequences, SequencesExt

CONSTANTS
    CellBytes,   \* BYTES_PER_128_BITS
    Cpus,
    Values       \* what a byte may hold; 0 among them

ASSUME CellAssumption ==
    /\ CellBytes \in Nat \ {0} /\ CellBytes % 2 = 0
    /\ 0 \in Values /\ Values \subseteq Nat

Bytes == 0 .. CellBytes - 1
Words == [Bytes -> Values]                     \* UWORD128
Zeros == [b \in Bytes |-> 0]

\* The bytes an access of n bytes at address a covers: index_128b.
Span(a, n) == {(a + i) % CellBytes : i \in 0 .. n - 1}

\* The bytes of the element that UWORD128::setN, getN and set_global_value
\* pick for it: the address itself is the index, not the address over n.
Element(a, n) ==
    LET idx == a % (CellBytes \div n)
    IN  idx * n .. idx * n + n - 1

\* UWORD128::setN on a new word.
Put(a, n, v) == [b \in Bytes |-> IF b \in Element(a, n) THEN v ELSE 0]

Memop_Swapped(id, a, n, val) == [id |-> id, addr |-> n, size |-> a, val |-> val]

\* MVM_MEMOP: id stands for the pointer to it.
Memop(id, a, n, val) == [id |-> id, addr |-> a, size |-> n, val |-> val]
Covers(m, b) == b \in Span(m.addr, m.size)

\* MEM_CELL.
NewCell == [global |-> Zeros, has |-> {}, local |-> [c \in Cpus |-> <<>>]]

\* store_locally_visible_now.  A memop is stamped as it is pushed to the front,
\* so that a list is in the order of the time stamps, latest first.
StoreLocally(cell, c, m) == [cell EXCEPT !.local[c] = <<m>> \o @]

\* list::remove: what is left of the list s without the memops ids points to.
Without(s, ids) ==
    LET kept[i \in 0 .. Len(s)] ==
            IF i = 0 THEN <<>>
            ELSE IF s[i].id \in ids THEN kept[i - 1] ELSE Append(kept[i - 1], s[i])
    IN  kept[Len(s)]

\* killed.
Killed(cell, c, m) == [cell EXCEPT !.local[c] = Without(@, {m.id})]

StoreGlobally_KeepsLocal(cell, c, m) ==
    [cell EXCEPT !.global = [b \in Bytes |-> IF b \in Element(m.addr, m.size)
                                             THEN m.val[b] ELSE @[b]],
                 !.has = @ \cup Element(m.addr, m.size)]

\* store_globally_visible_now, with MEM_CELL::set_global_value.
StoreGlobally(cell, c, m) ==
    [Killed(cell, c, m) EXCEPT
       !.global = [b \in Bytes |-> IF b \in Element(m.addr, m.size)
                                   THEN m.val[b] ELSE @[b]],
       !.has = @ \cup Element(m.addr, m.size)]

\* The places in a list of memops of those that cover byte b.
Covering(s, b) == {i \in DOMAIN s : Covers(s[i], b)}

GlobalBasis_OffByOne(cell) == {b \in cell.has : b < CellBytes \div 2 /\ b # 0}

\* global_basis: its argument has one bit for each byte of half a cell.
GlobalBasis(cell) == {b \in cell.has : b < CellBytes \div 2}

ReadByte_Oldest(cell, c, b) ==
    LET own == Covering(cell.local[c], b)
    IN  IF own = {} THEN cell.global[b] ELSE cell.local[c][Max(own)].val[b]

\* read_value_now: c's own latest store to a byte, or else the global value;
\* the load is bound when each of its bytes has been found.
ReadByte(cell, c, b) ==
    LET own == Covering(cell.local[c], b)
    IN  IF own = {} THEN cell.global[b] ELSE cell.local[c][Min(own)].val[b]

ReadValue(cell, c, a, n) ==
    [b \in Bytes |-> IF b \in Span(a, n) THEN ReadByte(cell, c, b) ELSE cell.global[b]]

Bound(cell, c, a, n) ==
    \A b \in Span(a, n) : b \in GlobalBasis(cell) \/ Covering(cell.local[c], b) # {}
===============================================================================
