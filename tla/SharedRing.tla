----------------------------- MODULE SharedRing -----------------------------
(***************************************************************************)
(* The rings in shared memory over which Asim and SoftSDV exchange         *)
(* instructions, register values and requests (softsdv_io.h).  One process *)
(* writes and one reads.  Each owns its half of the control structure: the *)
(* writer's slot and the payload are written by the writer only, the       *)
(* reader's slot by the reader only, and every access is fenced, so an     *)
(* action of the model may read one slot of the other side and write one   *)
(* of its own.  The number of entries n is a power of two; masking with    *)
(* n - 1 is % n.                                                           *)
(***************************************************************************)
EXTENDS Naturals

NewRing(n, blank) ==
    [reader |-> 0, writer |-> 0, payload |-> [s \in 0 .. n - 1 |-> blank]]

After_NoWrap(n, s) == s + 1

\* Increment: the slot after s.
After(n, s) == (s + 1) % n

NReadSlotsAvailable(n, ring) == ((ring.writer + n) - ring.reader) % n

\* One less than the true number of empty slots, so that equal slots always
\* mean an empty ring.
NWriteSlotsAvailable(n, ring) == ((ring.reader + (n - 1)) - ring.writer) % n

\* The writer's OpenNext resets the entry at its slot, and the caller fills it.
Filled(ring, obj) == [ring EXCEPT !.payload[ring.writer] = obj]

\* The writer's Close makes the entry visible to the reader.
Published(n, ring) == [ring EXCEPT !.writer = After(n, ring.writer)]

\* The entry the reader's OpenNext returns.
Opened(ring) == ring.payload[ring.reader]

Released_All(n, ring) == [ring EXCEPT !.reader = ring.writer]

\* The reader's Close gives the slot back to the writer.
Released(n, ring) == [ring EXCEPT !.reader = After(n, ring.reader)]

\* The entries published and not released, oldest first.
Contents(n, ring) ==
    [i \in 1 .. NReadSlotsAvailable(n, ring) |->
        ring.payload[(ring.reader + (i - 1)) % n]]
=============================================================================
