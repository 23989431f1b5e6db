--------------------------- MODULE StoreVisibility ----------------------------
(***************************************************************************)
(* The memory value model (MemoryValues) under a performance model that    *)
(* makes stores locally visible, kills them and makes them globally        *)
(* visible, and a reference memory that says what a load has to see.       *)
(*                                                                         *)
(* External: the performance model and the feeder's pointers to its memops *)
(* (held).  Stores of one processor to one byte become globally visible in *)
(* the order in which they were made, and a squash takes the latest.       *)
(***************************************************************************)
EXTENDS MemoryValues

CONSTANTS
    Accesses,   \* address and size in bytes of the stores and loads
    MaxHeld     \* bound: stores of one processor not yet globally visible

ASSUME AccessAssumption ==
    /\ Accesses \subseteq Nat \X (Nat \ {0})
    /\ \A x \in Accesses : x[1] % x[2] = 0 /\ x[1] + x[2] <= CellBytes
    /\ MaxHeld \in Nat

Ids == 1 .. MaxHeld + 1
NoValue == -1

VARIABLES
    cell,    \* the MEM_CELL
    held,    \* by processor: its memops that may become global, oldest first
    memory   \* reference: the value last made globally visible, by byte

vars == <<cell, held, memory>>

Memops == [id : Ids, addr : {x[1] : x \in Accesses}, size : {x[2] : x \in Accesses},
           val : Words]

TypeOK ==
    /\ cell.global \in Words
    /\ cell.has \subseteq Bytes
    /\ DOMAIN cell.local = Cpus
    /\ \A c \in Cpus : /\ cell.local[c] \in Seq(Memops)
                       /\ held[c] \in Seq(Memops)
    /\ memory \in [Bytes -> Values \cup {NoValue}]

Init ==
    /\ cell = NewCell
    /\ held = [c \in Cpus |-> <<>>]
    /\ memory = [b \in Bytes |-> NoValue]

\* A pointer not in use; the value is put as GENABLE_INST's setN does.
NewMemop(c, x, v) ==
    LET used == {held[c][k].id : k \in DOMAIN held[c]}
    IN  Memop(CHOOSE i \in Ids : i \notin used, x[1], x[2], Put(x[1], x[2], v))

Overlap(m, n) == Span(m.addr, m.size) \cap Span(n.addr, n.size) # {}
Written(m, v) == [b \in Bytes |-> IF Covers(m, b) THEN v ELSE memory[b]]

\* The value a store was given: what its element holds.
Given(m) == m.val[CHOOSE b \in Element(m.addr, m.size) : TRUE]

LocallyVisible(c, x, v) ==
    /\ Len(held[c]) < MaxHeld
    /\ LET m == NewMemop(c, x, v)
       IN  /\ cell' = StoreLocally(cell, c, m)
           /\ held' = [held EXCEPT ![c] = Append(@, m)]
    /\ UNCHANGED memory

\* A store that was locally visible before.
GloballyVisible(c, k) ==
    LET m == held[c][k]
    IN  /\ \A j \in 1 .. k - 1 : ~Overlap(held[c][j], m)
        /\ cell' = StoreGlobally(cell, c, m)
        /\ held' = [held EXCEPT ![c] = RemoveAt(@, k)]
        /\ memory' = Written(m, Given(m))

\* A store that never was, as those of semaphores.
DirectlyGlobal(c, x, v) ==
    LET m == NewMemop(c, x, v)
    IN  /\ \A j \in DOMAIN held[c] : ~Overlap(held[c][j], m)
        /\ cell' = StoreGlobally(cell, c, m)
        /\ memory' = Written(m, v)
        /\ UNCHANGED held

Kill(c) ==
    /\ held[c] # <<>>
    /\ cell' = Killed(cell, c, Last(held[c]))
    /\ held' = [held EXCEPT ![c] = Front(@)]
    /\ UNCHANGED memory

Next ==
    \E c \in Cpus :
      \/ \E x \in Accesses, v \in Values : LocallyVisible(c, x, v) \/ DirectlyGlobal(c, x, v)
      \/ \E k \in DOMAIN held[c] : GloballyVisible(c, k)
      \/ Kill(c)

Spec == Init /\ [][Next]_vars

-----------------------------------------------------------------------------
(* Properties.                                                             *)

\* The accesses read_value_now is right about: the element that setN picks is
\* made of the bytes of the access, and global_basis counts those bytes.
ElementsAgree ==
    \A x \in Accesses :
      /\ Element(x[1], x[2]) = Span(x[1], x[2])
      /\ \A b \in Span(x[1], x[2]) : b < CellBytes \div 2

\* What processor c has to see in byte b: its own latest store that is still
\* alive, or the last one that any processor has made globally visible.
Visible(c, b) ==
    LET own == Covering(held[c], b)
    IN  IF own = {} THEN memory[b] ELSE Given(held[c][Max(own)])

\* read_value_now binds every load to the values its processor has to see,
\* whatever stores of whatever sizes have become visible or been killed.
LoadsSeeStores ==
    \A c \in Cpus, x \in Accesses :
      Bound(cell, c, x[1], x[2]) =>
        \A b \in Span(x[1], x[2]) : ReadValue(cell, c, x[1], x[2])[b] = Visible(c, b)

\* A load is bound exactly when each of its bytes has been written by a store
\* its processor can see: read_value_now neither makes up a value nor misses one.
BoundWhenWritten ==
    \A c \in Cpus, x \in Accesses :
      Bound(cell, c, x[1], x[2]) <=> \A b \in Span(x[1], x[2]) : Visible(c, b) # NoValue

\* A cell's list for a processor is the processor's outstanding stores, latest
\* first: no kill and no global store leaves one behind or takes another's.
ListsOutstanding == \A c \in Cpus : cell.local[c] = Reverse(held[c])

\* What the calls of MEMVAL_CLASS keep true of a cell: its lists are the
\* outstanding stores, and global_basis and local_basis say of every access
\* whether it is bound.
CellInvariant ==
    /\ TypeOK
    /\ ListsOutstanding
    /\ BoundWhenWritten
===============================================================================
