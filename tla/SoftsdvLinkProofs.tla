-------------------------- MODULE SoftsdvLinkProofs --------------------------
(***************************************************************************)
(* Proofs about the instruction rings of SoftsdvLink, for any number of    *)
(* CPUs, any streams, any ring and chunk sizes, and with the faults: the   *)
(* streams stay intact, no assertion of either process fires, and the      *)
(* rings are bounded queues.                                               *)
(***************************************************************************)
EXTENDS SoftsdvLink, FiniteSetTheorems, SequenceTheorems, WellFoundedInduction, TLAPS

-----------------------------------------------------------------------------
(* Arithmetic of the slots. *)

LEMMA ModValue ==
    ASSUME NEW n \in Nat, n > 0, NEW x \in 0 .. (2 * n - 1)
    PROVE  x % n = IF x < n THEN x ELSE x - n
<1>1. CASE x < n
  BY <1>1, SMTT(30)
<1>2. CASE x >= n
  BY <1>2, SMTT(30)
<1> QED
  BY <1>1, <1>2

RingSlots(n, ring) == ring.reader \in Slots(n) /\ ring.writer \in Slots(n)

\* How full a ring is, and the three ways of asking.
LEMMA RingFill ==
    ASSUME NEW n \in Nat, n > 1, NEW ring, RingSlots(n, ring)
    PROVE  LET used == NReadSlotsAvailable(n, ring)
           IN  /\ used = IF ring.writer >= ring.reader
                         THEN ring.writer - ring.reader
                         ELSE (ring.writer + n) - ring.reader
               /\ used \in 0 .. n - 1
               /\ NWriteSlotsAvailable(n, ring) = n - 1 - used
               /\ used = 0 <=> ring.reader = ring.writer
               /\ used = n - 1 <=> After(n, ring.writer) = ring.reader
<1> DEFINE r == ring.reader
           w == ring.writer
<1>1. r \in 0 .. n - 1 /\ w \in 0 .. n - 1
  BY DEF RingSlots, Slots
<1> HIDE DEF r, w
<1>2. ((w + n) - r) % n = IF w >= r THEN w - r ELSE (w + n) - r
  <2>1. (w + n) - r \in 0 .. (2 * n - 1)
    BY <1>1
  <2> QED
    BY <1>1, <2>1, ModValue
<1>3. ((r + (n - 1)) - w) % n = IF r > w THEN (r - 1) - w ELSE (r + (n - 1)) - w
  <2>1. (r + (n - 1)) - w \in 0 .. (2 * n - 1)
    BY <1>1
  <2> QED
    BY <1>1, <2>1, ModValue
<1>4. (w + 1) % n = IF w + 1 = n THEN 0 ELSE w + 1
  <2>1. w + 1 \in 0 .. (2 * n - 1)
    BY <1>1
  <2> QED
    BY <1>1, <2>1, ModValue
<1>5. /\ NReadSlotsAvailable(n, ring) = IF w >= r THEN w - r ELSE (w + n) - r
      /\ NWriteSlotsAvailable(n, ring) =
            IF r > w THEN (r - 1) - w ELSE (r + (n - 1)) - w
      /\ After(n, ring.writer) = IF w + 1 = n THEN 0 ELSE w + 1
  BY <1>2, <1>3, <1>4 DEF r, w, NReadSlotsAvailable, NWriteSlotsAvailable, After
<1>6. ring.reader = r /\ ring.writer = w
  BY DEF r, w
<1> QED
  BY <1>1, <1>5, <1>6

\* The k-th of the entries waiting in a ring.
At(n, ring, k) == (ring.reader + (k - 1)) % n

\* The entries waiting are not the one the writer may write, which comes next.
LEMMA RingEntries ==
    ASSUME NEW n \in Nat, n > 1, NEW ring, RingSlots(n, ring)
    PROVE  LET used == NReadSlotsAvailable(n, ring)
           IN  /\ \A k \in 1 .. used : /\ At(n, ring, k) \in Slots(n)
                                       /\ At(n, ring, k) # ring.writer
               /\ At(n, ring, used + 1) = ring.writer
<1> DEFINE r == ring.reader
           w == ring.writer
           used == NReadSlotsAvailable(n, ring)
<1>1. r \in 0 .. n - 1 /\ w \in 0 .. n - 1
  BY DEF RingSlots, Slots
<1>2. used = (IF w >= r THEN w - r ELSE (w + n) - r) /\ used \in 0 .. n - 1
  BY RingFill
<1> HIDE DEF r, w, used
<1>3. ASSUME NEW k \in 1 .. used + 1
      PROVE  (r + (k - 1)) % n = IF r + (k - 1) < n THEN r + (k - 1) ELSE (r + (k - 1)) - n
  <2>1. r + (k - 1) \in 0 .. (2 * n - 1)
    BY <1>1, <1>2, <1>3
  <2> QED
    BY <2>1, ModValue
<1>4. ASSUME NEW k \in 1 .. used
      PROVE  (r + (k - 1)) % n \in 0 .. n - 1 /\ (r + (k - 1)) % n # w
  BY <1>1, <1>2, <1>3, <1>4
<1>5. (r + ((used + 1) - 1)) % n = w
  BY <1>1, <1>2, <1>3
<1> QED
  BY <1>4, <1>5 DEF At, Slots, r, w, used

\* Publishing an entry of a ring that is not full adds the writer's entry.
LEMMA RingPublish ==
    ASSUME NEW n \in Nat, n > 1, NEW ring, RingSlots(n, ring),
           After(n, ring.writer) # ring.reader,
           NEW new, new.reader = ring.reader, new.writer = After(n, ring.writer)
    PROVE  /\ RingSlots(n, new)
           /\ NReadSlotsAvailable(n, new) = NReadSlotsAvailable(n, ring) + 1
<1>1. ring.reader \in 0 .. n - 1 /\ ring.writer \in 0 .. n - 1
  BY DEF RingSlots, Slots
<1>2. After(n, ring.writer) = IF ring.writer + 1 = n THEN 0 ELSE ring.writer + 1
  <2>1. ring.writer + 1 \in 0 .. (2 * n - 1)
    BY <1>1
  <2> QED
    BY <1>1, <2>1, ModValue DEF After
<1>3. RingSlots(n, new)
  BY <1>1, <1>2 DEF RingSlots, Slots
<1>4. NReadSlotsAvailable(n, new) = NReadSlotsAvailable(n, ring) + 1
  BY <1>1, <1>2, <1>3, RingFill
<1> QED
  BY <1>3, <1>4

\* Releasing the oldest entry of a ring that is not empty moves the others up.
LEMMA RingRelease ==
    ASSUME NEW n \in Nat, n > 1, NEW ring, RingSlots(n, ring),
           ring.reader # ring.writer,
           NEW new, new.writer = ring.writer, new.reader = After(n, ring.reader)
    PROVE  /\ RingSlots(n, new)
           /\ NReadSlotsAvailable(n, new) = NReadSlotsAvailable(n, ring) - 1
           /\ \A k \in 1 .. NReadSlotsAvailable(n, new) :
                At(n, new, k) = At(n, ring, k + 1)
<1> DEFINE r == ring.reader
           w == ring.writer
           used == NReadSlotsAvailable(n, ring)
<1>1. r \in 0 .. n - 1 /\ w \in 0 .. n - 1
  BY DEF RingSlots, Slots
<1>2. After(n, r) = IF r + 1 = n THEN 0 ELSE r + 1
  <2>1. r + 1 \in 0 .. (2 * n - 1)
    BY <1>1
  <2> QED
    BY <1>1, <2>1, ModValue DEF After
<1>3. RingSlots(n, new)
  BY <1>1, <1>2 DEF RingSlots, Slots
<1>4. used \in 0 .. n - 1 /\ NReadSlotsAvailable(n, new) = used - 1
  BY <1>1, <1>2, <1>3, RingFill
<1>5. ASSUME NEW k \in 1 .. used - 1 PROVE At(n, new, k) = At(n, ring, k + 1)
  <2> HIDE DEF r, w, used
  <2>1. After(n, r) + (k - 1) \in 0 .. (2 * n - 1) /\ r + k \in 0 .. (2 * n - 1)
    BY <1>1, <1>2, <1>4, <1>5
  <2>2. (After(n, r) + (k - 1)) % n = (r + k) % n
    BY <1>1, <1>2, <1>4, <1>5, <2>1, ModValue
  <2>3. r + ((k + 1) - 1) = r + k
    BY <1>1, <1>5
  <2> QED
    BY <2>2, <2>3 DEF At, r
<1> QED
  BY <1>3, <1>4, <1>5

RingRecords(n) ==
    [reader : Slots(n), writer : Slots(n),
     payload : [Slots(n) -> [num : Nat, regs : Nat]]]

\* The entries waiting in a ring are the instructions len + 1 to e.
Waits(n, ring, len, e) ==
    LET used == NReadSlotsAvailable(n, ring)
    IN  /\ len + used = e
        /\ \A k \in 1 .. used : ring.payload[At(n, ring, k)].num = len + k

\* Writing the entry at the writer's slot disturbs none of those waiting.
LEMMA FillKeeps ==
    ASSUME NEW n \in Nat, n > 1, NEW ring \in RingRecords(n), NEW len, NEW e, NEW x,
           Waits(n, ring, len, e), NEW new, new.reader = ring.reader,
           new.writer = ring.writer,
           new.payload = [ring.payload EXCEPT ![ring.writer] = x]
    PROVE  Waits(n, new, len, e)
<1>1. NReadSlotsAvailable(n, new) = NReadSlotsAvailable(n, ring)
  BY DEF NReadSlotsAvailable
<1>2. \A k : At(n, new, k) = At(n, ring, k)
  BY DEF At
<1>3. RingSlots(n, ring) /\ ring.payload \in [Slots(n) -> [num : Nat, regs : Nat]]
  BY DEF RingRecords, RingSlots
<1>4. \A k \in 1 .. NReadSlotsAvailable(n, ring) :
        new.payload[At(n, ring, k)] = ring.payload[At(n, ring, k)]
  BY <1>3, RingEntries
<1> QED
  BY <1>1, <1>2, <1>4 DEF Waits

\* Publishing the next instruction adds it at the end.
LEMMA PublishAdds ==
    ASSUME NEW n \in Nat, n > 1, NEW ring \in RingRecords(n), NEW len \in Nat,
           NEW e \in Nat, Waits(n, ring, len, e),
           After(n, ring.writer) # ring.reader,
           ring.payload[ring.writer].num = e + 1,
           NEW new, new.reader = ring.reader, new.payload = ring.payload,
           new.writer = After(n, ring.writer)
    PROVE  Waits(n, new, len, e + 1)
<1> DEFINE used == NReadSlotsAvailable(n, ring)
<1>1. RingSlots(n, ring)
  BY DEF RingRecords, RingSlots
<1>2. /\ NReadSlotsAvailable(n, new) = used + 1
      /\ \A k : At(n, new, k) = At(n, ring, k)
  <2>1. NReadSlotsAvailable(n, new) = used + 1
    BY <1>1, RingPublish
  <2>2. \A k : At(n, new, k) = At(n, ring, k)
    BY DEF At
  <2> QED
    BY <2>1, <2>2
<1>3. used \in Nat /\ At(n, ring, used + 1) = ring.writer
  <2>1. used \in Nat
    BY <1>1, RingFill
  <2>2. At(n, ring, used + 1) = ring.writer
    BY <1>1, RingEntries
  <2> QED
    BY <2>1, <2>2
<1>4. len + used = e /\ \A k \in 1 .. used : ring.payload[At(n, ring, k)].num = len + k
  BY DEF Waits
<1> HIDE DEF used
<1>5. ASSUME NEW k \in 1 .. used + 1
      PROVE  new.payload[At(n, new, k)].num = len + k
  <2>1. CASE k = used + 1
    <3>1. new.payload[At(n, new, k)].num = e + 1
      BY <1>2, <1>3, <2>1
    <3> QED
      BY <1>3, <1>4, <2>1, <3>1
  <2>2. CASE k # used + 1
    <3>1. k \in 1 .. used
      BY <1>3, <1>5, <2>2
    <3> QED
      BY <1>2, <1>4, <3>1
  <2> QED
    BY <2>1, <2>2
<1>6. len + (used + 1) = e + 1
  BY <1>3, <1>4
<1> QED
  BY <1>2, <1>5, <1>6 DEF Waits

\* Releasing the oldest entry takes the next instruction away.
LEMMA ReleaseTakes ==
    ASSUME NEW n \in Nat, n > 1, NEW ring \in RingRecords(n), NEW len \in Nat,
           NEW e \in Nat, Waits(n, ring, len, e), ring.reader # ring.writer,
           NEW new, new.writer = ring.writer, new.payload = ring.payload,
           new.reader = After(n, ring.reader)
    PROVE  /\ ring.payload[ring.reader].num = len + 1
           /\ Waits(n, new, len + 1, e)
<1> DEFINE used == NReadSlotsAvailable(n, ring)
<1>1. RingSlots(n, ring) /\ ring.reader \in 0 .. n - 1
  BY DEF RingRecords, RingSlots, Slots
<1>2. /\ NReadSlotsAvailable(n, new) = used - 1
      /\ \A k \in 1 .. used - 1 : At(n, new, k) = At(n, ring, k + 1)
  BY <1>1, RingRelease
<1>3. used \in Nat /\ used # 0
  BY <1>1, RingFill
<1>4. At(n, ring, 1) = ring.reader
  BY <1>1, ModValue DEF At
<1>5. len + used = e /\ \A k \in 1 .. used : ring.payload[At(n, ring, k)].num = len + k
  BY DEF Waits
<1> HIDE DEF used
<1>6. ring.payload[ring.reader].num = len + 1
  <2>1. 1 \in 1 .. used
    BY <1>3
  <2> QED
    BY <1>4, <1>5, <2>1
<1>7. ASSUME NEW k \in 1 .. used - 1
      PROVE  new.payload[At(n, new, k)].num = (len + 1) + k
  <2>1. k + 1 \in 1 .. used /\ len + (k + 1) = (len + 1) + k
    BY <1>3, <1>7
  <2>2. new.payload[At(n, new, k)].num = len + (k + 1)
    BY <1>2, <1>5, <1>7, <2>1
  <2> QED
    BY <2>1, <2>2
<1>8. (len + 1) + (used - 1) = e
  BY <1>3, <1>5
<1> QED
  BY <1>2, <1>6, <1>7, <1>8 DEF Waits

-----------------------------------------------------------------------------
(* The inductive invariant.  NoSharedEntry keeps the entry being written   *)
(* apart from those waiting, so that filling it changes none of them, and  *)
(* publishing it never makes a full ring look empty; Written says that it  *)
(* is the next instruction; Waiting is StreamIntact, entry by entry.       *)

LinkTypes ==
    /\ instrRing \in [Cpus -> RingRecords(InstrEntries)]
    /\ requestRing \in [reader : Slots(RequestEntries),
                        writer : Slots(RequestEntries),
                        payload : [Slots(RequestEntries) -> Request]]
    /\ sdv = [at |-> sdv.at, cpu |-> sdv.cpu, remaining |-> sdv.remaining,
              group |-> sdv.group, regs |-> sdv.regs]
    /\ sdv.cpu \in Cpus /\ sdv.regs \in Nat
    /\ asim \in [at : {"model", "before", "open", "blocked", "after", "request",
                       "fetch", "exiting", "stopped"},
                 cpu : Cpus, left : Int, chunk : {0, WarmupChunk, ExecuteChunk},
                 open : BOOLEAN, fetch : BOOLEAN]
    /\ asim.at \in {"before", "open", "blocked", "after", "request"} => asim.chunk # 0
    /\ regsUid \in Nat
    /\ executed \in [Cpus -> Nat]
    /\ received \in [Cpus -> Seq(Nat)]

Written ==
    sdv.at = "close" =>
        instrRing[sdv.cpu].payload[instrRing[sdv.cpu].writer].num
            = executed[sdv.cpu] + 1

Waiting ==
    \A c \in Cpus :
        /\ Waits(InstrEntries, instrRing[c], Len(received[c]), executed[c])
        /\ \A k \in 1 .. Len(received[c]) : received[c][k] = k

LInv == LinkTypes /\ NoSharedEntry /\ Written /\ Waiting

LEMMA Sizes ==
    /\ InstrEntries \in Nat /\ InstrEntries > 1
    /\ RequestEntries \in Nat /\ RequestEntries > 1
    /\ WarmupChunk \in Nat \ {0} /\ ExecuteChunk \in Nat \ {0}
    /\ Cardinality(Cpus) \in Nat /\ Cardinality(Cpus) >= 1
<1>1. Cardinality(Cpus) \in Nat /\ Cardinality(Cpus) # 0
  BY LinkAssumption, FS_CardinalityType, FS_EmptySet
<1>2. InstrEntries \div 2 \in Int
  BY LinkAssumption
<1> QED
  BY <1>1, <1>2, LinkAssumption

\* Waiting is StreamIntact.
LEMMA WaitingIsIntact == LInv => StreamIntact
<1> SUFFICES ASSUME LInv, NEW c \in Cpus
             PROVE  LET ring == Contents(InstrEntries, instrRing[c])
                        n == Len(received[c])
                    IN /\ n + Len(ring) = executed[c]
                       /\ \A k \in 1 .. n : received[c][k] = k
                       /\ \A k \in 1 .. Len(ring) : ring[k].num = n + k
  BY DEF StreamIntact
<1> DEFINE used == NReadSlotsAvailable(InstrEntries, instrRing[c])
<1>1. used \in Nat
  <2>1. RingSlots(InstrEntries, instrRing[c])
    BY DEF LInv, LinkTypes, RingRecords, RingSlots
  <2> QED
    BY <2>1, Sizes, RingFill
<1>2. Contents(InstrEntries, instrRing[c]) =
        [i \in 1 .. used |-> instrRing[c].payload[At(InstrEntries, instrRing[c], i)]]
  BY DEF Contents, At
<1>3. Len(Contents(InstrEntries, instrRing[c])) = used
  <2> HIDE DEF used
  <2> QED BY <1>1, <1>2
<1> QED
  BY <1>2, <1>3, ZenonT(30) DEF LInv, Waiting, Waits

LEMMA InitLInv == Init => LInv
<1> SUFFICES ASSUME Init PROVE LInv
  OBVIOUS
<1>0. (CHOOSE c \in Cpus : TRUE) \in Cpus
  BY LinkAssumption
<1>1. \A n \in Nat : n > 1 => 0 \in Slots(n)
  BY DEF Slots
<1>2. \A c \in Cpus :
        /\ instrRing[c].reader = 0 /\ instrRing[c].writer = 0
        /\ instrRing[c] \in RingRecords(InstrEntries)
  BY <1>1, Sizes DEF Init, NewRing, NoInstr, Slots, RingRecords
<1>3. requestRing \in [reader : Slots(RequestEntries), writer : Slots(RequestEntries),
                       payload : [Slots(RequestEntries) -> Request]]
  <2>1. PICK order \in [1 .. Cardinality(Cpus) -> Cpus] :
            requestRing = InitialRequests(order)
    BY DEF Init
  <2>2. Cardinality(Cpus) \in Slots(RequestEntries) /\ 0 \in Slots(RequestEntries)
    BY Sizes, LinkAssumption DEF Slots
  <2>3. \A s \in Slots(RequestEntries) : s < Cardinality(Cpus) => order[s + 1] \in Cpus
    BY Sizes DEF Slots
  <2>4. order[1] \in Cpus
    BY Sizes
  <2> DEFINE first == NewRing(RequestEntries, [cpu |-> order[1], n |-> WarmupChunk])
             pay == [s \in DOMAIN first.payload |->
                        IF s < Cardinality(Cpus)
                        THEN [cpu |-> order[s + 1], n |-> WarmupChunk]
                        ELSE first.payload[s]]
  <2>5. requestRing = [first EXCEPT !.writer = Cardinality(Cpus), !.payload = pay]
    BY <2>1 DEF InitialRequests
  <2>6. /\ first = [reader |-> 0, writer |-> 0, payload |->
                        [s \in Slots(RequestEntries) |->
                            [cpu |-> order[1], n |-> WarmupChunk]]]
    BY DEF NewRing, Slots
  <2>7. pay \in [Slots(RequestEntries) -> Request]
    BY <2>3, <2>4, <2>6 DEF Request
  <2> HIDE DEF pay, first
  <2> QED
    BY <2>2, <2>5, <2>6, <2>7
<1>4. LinkTypes
  <2>1. instrRing \in [Cpus -> RingRecords(InstrEntries)]
    BY <1>2 DEF Init
  <2>2. received \in [Cpus -> Seq(Nat)]
    BY DEF Init
  <2> QED
    BY <1>0, <1>3, <2>1, <2>2 DEF Init, LinkTypes, Idle
<1>5. NoSharedEntry /\ Written
  BY DEF Init, NoSharedEntry, Written, Idle
<1>6. Waiting
  <2> SUFFICES ASSUME NEW c \in Cpus
               PROVE  /\ received[c] = <<>> /\ executed[c] = 0
                      /\ NReadSlotsAvailable(InstrEntries, instrRing[c]) = 0
    BY DEF Waiting, Waits
  <2>1. RingSlots(InstrEntries, instrRing[c])
    BY <1>1, <1>2, Sizes DEF RingSlots
  <2> QED
    BY <1>2, <2>1, Sizes, RingFill DEF Init
<1> QED
  BY <1>4, <1>5, <1>6 DEF LInv

\* A step of SoftSDV that does not touch the instruction rings and leaves no
\* entry half written.
LEMMA SdvElsewhere ==
    ASSUME LInv, UNCHANGED <<instrRing, executed, received, asim>>,
           LinkTypes', sdv'.at # "close"
    PROVE  LInv'
  BY DEF LInv, NoSharedEntry, Written, Waiting

\* A step of Asim that does not touch the instruction rings, and opens at most
\* an entry that waits.
LEMMA AsimElsewhere ==
    ASSUME LInv, UNCHANGED <<instrRing, executed, received, sdv>>, LinkTypes',
           asim'.open => \/ asim.open /\ asim'.cpu = asim.cpu
                         \/ instrRing[asim'.cpu].reader # instrRing[asim'.cpu].writer
    PROVE  LInv'
  BY DEF LInv, NoSharedEntry, Written, Waiting

\* Taking and sending requests keep the ring of requests typed.
LEMMA RequestTypes ==
    ASSUME LInv
    PROVE  /\ Opened(requestRing) \in Request
           /\ \A q \in Request :
                Published(RequestEntries, Filled(requestRing, q)) \in
                    [reader : Slots(RequestEntries), writer : Slots(RequestEntries),
                     payload : [Slots(RequestEntries) -> Request]]
           /\ Released(RequestEntries, requestRing) \in
                    [reader : Slots(RequestEntries), writer : Slots(RequestEntries),
                     payload : [Slots(RequestEntries) -> Request]]
<1>1. \A s \in Slots(RequestEntries) : After(RequestEntries, s) \in Slots(RequestEntries)
  BY Sizes DEF After, Slots
<1> QED
  BY <1>1 DEF LInv, LinkTypes, Opened, Filled, Published, Released

LEMMA TakeRequestLInv == LInv /\ TakeRequest => LInv'
<1> SUFFICES ASSUME LInv, TakeRequest PROVE LInv'
  OBVIOUS
<1>1. requestRing' = Released(RequestEntries, requestRing) /\ Opened(requestRing) \in Request
  BY RequestTypes DEF TakeRequest
<1>2. LinkTypes'
  BY <1>1, RequestTypes, Sizes DEF TakeRequest, asimVars, LInv, LinkTypes, Request
<1> QED
  BY <1>2, SdvElsewhere DEF TakeRequest, asimVars, LInv, LinkTypes

\* A group begins: nothing is in the ring yet.
LEMMA GroupLInv == LInv /\ (Group \/ GroupWithRegisters) => LInv'
<1> SUFFICES ASSUME LInv, Group \/ GroupWithRegisters PROVE LInv'
  OBVIOUS
<1>1. ASSUME NEW regs \in Nat, BeginGroup(regs), regsUid' \in Nat
      PROVE  LInv'
  <2>1. LinkTypes' /\ sdv'.at # "close"
    BY <1>1 DEF BeginGroup, asimVars, LInv, LinkTypes
  <2> QED
    BY <1>1, <2>1, SdvElsewhere DEF BeginGroup, asimVars
<1>2. regsUid \in Nat /\ regsUid + 1 \in Nat /\ 0 \in Nat
  <2>1. regsUid \in Nat
    BY DEF LInv, LinkTypes
  <2> QED
    BY <2>1
<1>3. CASE Group
  BY <1>1, <1>2, <1>3 DEF Group
<1>4. CASE GroupWithRegisters /\ NWriteSlotsAvailable(RegEntries, regRing) # 0
  BY <1>1, <1>2, <1>4 DEF GroupWithRegisters
<1>5. CASE GroupWithRegisters /\ NWriteSlotsAvailable(RegEntries, regRing) = 0
  <2>1. UNCHANGED <<instrRing, requestRing, sdv, executed, regsUid, asimVars>>
    BY <1>5 DEF GroupWithRegisters
  <2> QED
    BY <2>1 DEF asimVars, LInv, LinkTypes, NoSharedEntry, Written, Waiting
<1> QED
  BY <1>3, <1>4, <1>5

\* The steps of SoftSDV before and after a group.
LEMMA SdvWaitsLInv ==
    LInv /\ (AwaitRequest \/ RequestBlocked \/ EndOfWorkload \/ SdvDies) => LInv'
<1> SUFFICES ASSUME LInv, AwaitRequest \/ RequestBlocked \/ EndOfWorkload \/ SdvDies
             PROVE  LInv'
  OBVIOUS
<1>1. CASE SdvDies
  BY <1>1 DEF SdvDies, asimVars, LInv, LinkTypes, NoSharedEntry, Written, Waiting
<1>2. CASE AwaitRequest \/ RequestBlocked \/ EndOfWorkload
  <2>1. LinkTypes' /\ sdv'.at # "close"
    BY <1>2 DEF AwaitRequest, RequestBlocked, EndOfWorkload, asimVars, LInv, LinkTypes
  <2> QED
    BY <1>2, <2>1, SdvElsewhere
    DEF AwaitRequest, RequestBlocked, EndOfWorkload, asimVars
<1> QED
  BY <1>1, <1>2

\* Filling the writer's entry.
LEMMA FillInstrLInv == LInv /\ FillInstr => LInv'
<1> SUFFICES ASSUME LInv, FillInstr PROVE LInv'
  OBVIOUS
<1>1. PICK n \in Nat : n = InstrEntries /\ n > 1
  BY Sizes
<1>2. PICK c \in Cpus : c = sdv.cpu
  BY DEF LInv, LinkTypes
<1>3. PICK ring \in RingRecords(n) : ring = instrRing[c]
  BY <1>1 DEF LInv, LinkTypes
<1>4. PICK e \in Nat : e = executed[c]
  BY DEF LInv, LinkTypes
<1>5. PICK x \in [num : Nat, regs : Nat] : x = [num |-> e + 1, regs |-> sdv.regs]
  <2>1. sdv.regs \in Nat
    BY DEF LInv, LinkTypes
  <2>2. [num |-> e + 1, regs |-> sdv.regs] \in [num : Nat, regs : Nat]
    BY <2>1
  <2> QED
    BY <2>2
<1>6. PICK new : new = [ring EXCEPT !.payload[ring.writer] = x]
  OBVIOUS
<1>7. /\ instrRing' = [instrRing EXCEPT ![c] = new]
      /\ sdv' = [sdv EXCEPT !.at = "close"]
      /\ UNCHANGED <<requestRing, executed, regsUid, asim, received>>
      /\ NWriteSlotsAvailable(n, ring) # 0
  BY <1>1, <1>2, <1>3, <1>4, <1>5, <1>6 DEF FillInstr, Filled, asimVars
<1>8. /\ sdv'.cpu = c /\ sdv'.at = "close" /\ sdv'.regs = sdv.regs
      /\ sdv' = [at |-> sdv'.at, cpu |-> sdv'.cpu, remaining |-> sdv'.remaining,
                 group |-> sdv'.group, regs |-> sdv'.regs]
  BY <1>2, <1>7 DEF LInv, LinkTypes
<1>9. /\ new.reader = ring.reader /\ new.writer = ring.writer
      /\ new.payload = [ring.payload EXCEPT ![ring.writer] = x]
      /\ new.payload[new.writer] = x /\ new \in RingRecords(n)
  <2>1. /\ new.reader = ring.reader /\ new.writer = ring.writer
        /\ new.payload = [ring.payload EXCEPT ![ring.writer] = x]
    BY <1>6 DEF RingRecords
  <2>2. ring.writer \in Slots(n) /\ ring.payload \in [Slots(n) -> [num : Nat, regs : Nat]]
    BY DEF RingRecords
  <2>3. new.payload \in [Slots(n) -> [num : Nat, regs : Nat]] /\ new.payload[new.writer] = x
    BY <2>1, <2>2
  <2>4. new \in RingRecords(n)
    BY <1>6, <2>2, <2>3 DEF RingRecords
  <2> QED
    BY <2>1, <2>3, <2>4
<1>10. /\ instrRing'[c] = new /\ \A d \in Cpus : d # c => instrRing'[d] = instrRing[d]
       /\ instrRing' \in [Cpus -> RingRecords(n)]
  BY <1>1, <1>7, <1>9 DEF LInv, LinkTypes
<1>11. After(n, ring.writer) # ring.reader
  <2>1. RingSlots(n, ring)
    BY DEF RingRecords, RingSlots
  <2> QED
    BY <1>1, <1>7, <2>1, RingFill
<1>12. LinkTypes'
  BY <1>1, <1>2, <1>7, <1>8, <1>10 DEF LInv, LinkTypes
<1>13. NoSharedEntry'
  BY <1>1, <1>2, <1>3, <1>7, <1>8, <1>9, <1>10, <1>11 DEF LInv, NoSharedEntry
<1>14. Written'
  <2>1. instrRing'[c].payload[instrRing'[c].writer].num = e + 1 /\ executed'[c] = e
    <3>1. x.num = e + 1
      BY <1>5
    <3>2. instrRing'[c].payload[instrRing'[c].writer] = x
      BY <1>9, <1>10
    <3> QED
      BY <1>4, <1>7, <3>1, <3>2
  <2> QED
    BY <1>8, <2>1 DEF Written
<1>15. Waiting'
  <2>1. Waits(n, ring, Len(received[c]), e)
    BY <1>1, <1>3, <1>4 DEF LInv, Waiting
  <2>2. Waits(n, new, Len(received[c]), e)
    BY <1>1, <1>9, <2>1, FillKeeps
  <2> QED
    BY <1>1, <1>4, <1>7, <1>10, <2>2 DEF LInv, Waiting
<1> QED
  BY <1>12, <1>13, <1>14, <1>15 DEF LInv

\* Publishing it.
LEMMA CloseInstrLInv == LInv /\ CloseInstr => LInv'
<1> SUFFICES ASSUME LInv, CloseInstr PROVE LInv'
  OBVIOUS
<1>1. PICK n \in Nat : n = InstrEntries /\ n > 1
  BY Sizes
<1>2. PICK c \in Cpus : c = sdv.cpu
  BY DEF LInv, LinkTypes
<1>3. PICK ring \in RingRecords(n) : ring = instrRing[c]
  BY <1>1 DEF LInv, LinkTypes
<1>4. PICK e \in Nat : e = executed[c]
  BY DEF LInv, LinkTypes
<1>5. PICK new : new = [ring EXCEPT !.writer = After(n, ring.writer)]
  OBVIOUS
<1>6. /\ instrRing' = [instrRing EXCEPT ![c] = new]
      /\ executed' = [executed EXCEPT ![c] = e + 1]
      /\ UNCHANGED <<requestRing, regsUid, asim, received>>
      /\ sdv.at = "close"
  BY <1>1, <1>2, <1>3, <1>4, <1>5 DEF CloseInstr, SdvAt, Published, asimVars
<1>7. /\ sdv'.at # "close" /\ sdv'.cpu = c /\ sdv'.regs = 0
      /\ sdv' = [at |-> sdv'.at, cpu |-> sdv'.cpu, remaining |-> sdv'.remaining,
                 group |-> sdv'.group, regs |-> sdv'.regs]
  BY <1>2 DEF CloseInstr, LInv, LinkTypes
<1>8. /\ After(n, ring.writer) # ring.reader
      /\ ring.payload[ring.writer].num = e + 1
  BY <1>1, <1>2, <1>3, <1>4, <1>6 DEF LInv, NoSharedEntry, Written
<1>9. /\ new.reader = ring.reader /\ new.writer = After(n, ring.writer)
      /\ new.payload = ring.payload /\ new \in RingRecords(n)
  <2>1. After(n, ring.writer) \in Slots(n)
    <3>1. ring.writer \in 0 .. n - 1
      BY DEF RingRecords, Slots
    <3> QED
      BY <1>1, <3>1 DEF After, Slots
  <2> QED
    BY <1>5, <2>1 DEF RingRecords
<1>10. /\ instrRing'[c] = new /\ \A d \in Cpus : d # c => instrRing'[d] = instrRing[d]
       /\ executed'[c] = e + 1 /\ \A d \in Cpus : d # c => executed'[d] = executed[d]
       /\ instrRing' \in [Cpus -> RingRecords(n)]
       /\ executed' \in [Cpus -> Nat]
  BY <1>1, <1>6, <1>9 DEF LInv, LinkTypes
<1>11. LinkTypes'
  BY <1>1, <1>6, <1>7, <1>10 DEF LInv, LinkTypes
<1>12. NoSharedEntry'
  BY <1>1, <1>6, <1>7, <1>8, <1>9, <1>10 DEF LInv, NoSharedEntry
<1>13. Written'
  BY <1>7 DEF Written
<1>14. Waiting'
  <2>1. Waits(n, ring, Len(received[c]), e) /\ Len(received[c]) \in Nat
    BY <1>1, <1>3, <1>4 DEF LInv, Waiting, LinkTypes
  <2>2. Waits(n, new, Len(received[c]), e + 1)
    BY <1>1, <1>8, <1>9, <2>1, PublishAdds
  <2> QED
    BY <1>1, <1>6, <1>10, <2>2 DEF LInv, Waiting
<1> QED
  BY <1>11, <1>12, <1>13, <1>14 DEF LInv

\* Taking the oldest entry over into the replay buffer.
LEMMA AddInstrLInv == LInv /\ AddInstr => LInv'
<1> SUFFICES ASSUME LInv, AddInstr PROVE LInv'
  OBVIOUS
<1>1. PICK n \in Nat : n = InstrEntries /\ n > 1
  BY Sizes
<1>2. PICK c \in Cpus : c = asim.cpu
  BY DEF LInv, LinkTypes
<1>3. PICK ring \in RingRecords(n) : ring = instrRing[c]
  BY <1>1 DEF LInv, LinkTypes
<1>4. PICK e \in Nat : e = executed[c]
  BY DEF LInv, LinkTypes
<1>5. PICK got \in Seq(Nat) : got = received[c]
  BY DEF LInv, LinkTypes
<1>6. PICK new : new = [ring EXCEPT !.reader = After(n, ring.reader)]
  OBVIOUS
<1>7. /\ instrRing' = [instrRing EXCEPT ![c] = new]
      /\ received' = [received EXCEPT ![c] = Append(got, ring.payload[ring.reader].num)]
      /\ asim.open
      /\ asim' = [asim EXCEPT !.at = IF asim.left = 1 THEN "request" ELSE "before",
                              !.left = @ - 1, !.open = FALSE]
      /\ UNCHANGED <<requestRing, regsUid, sdv, executed>>
  BY <1>1, <1>2, <1>3, <1>5, <1>6 DEF AddInstr, Released, Opened, sdvVars
<1>8. ring.reader # ring.writer
  BY <1>2, <1>3, <1>7 DEF LInv, NoSharedEntry
<1>9. /\ new.reader = After(n, ring.reader) /\ new.writer = ring.writer
      /\ new.payload = ring.payload /\ new \in RingRecords(n)
  <2>1. After(n, ring.reader) \in Slots(n)
    <3>1. ring.reader \in 0 .. n - 1
      BY DEF RingRecords, Slots
    <3> QED
      BY <1>1, <3>1 DEF After, Slots
  <2> QED
    BY <1>6, <2>1 DEF RingRecords
<1>10. Waits(n, ring, Len(got), e) /\ Len(got) \in Nat /\ \A k \in 1 .. Len(got) : got[k] = k
  BY <1>1, <1>3, <1>4, <1>5 DEF LInv, Waiting
<1>11. ring.payload[ring.reader].num = Len(got) + 1 /\ Waits(n, new, Len(got) + 1, e)
  BY <1>1, <1>8, <1>9, <1>10, ReleaseTakes
<1>12. PICK all : all = Append(got, Len(got) + 1)
  OBVIOUS
<1>13. /\ all \in Seq(Nat) /\ Len(all) = Len(got) + 1
       /\ \A k \in 1 .. Len(all) : all[k] = k
  BY <1>10, <1>12
<1>14. /\ instrRing'[c] = new /\ \A d \in Cpus : d # c => instrRing'[d] = instrRing[d]
       /\ received'[c] = all /\ \A d \in Cpus : d # c => received'[d] = received[d]
       /\ instrRing' \in [Cpus -> RingRecords(n)]
       /\ received' \in [Cpus -> Seq(Nat)]
  BY <1>1, <1>7, <1>9, <1>11, <1>12, <1>13 DEF LInv, LinkTypes
<1>15. LinkTypes'
  <2>1. asim' \in [at : {"model", "before", "open", "blocked", "after", "request",
                         "fetch", "exiting", "stopped"},
                   cpu : Cpus, left : Int, chunk : {0, WarmupChunk, ExecuteChunk},
                   open : BOOLEAN, fetch : BOOLEAN]
    <3>1. asim \in [at : {"model", "before", "open", "blocked", "after", "request",
                          "fetch", "exiting", "stopped"},
                    cpu : Cpus, left : Int, chunk : {0, WarmupChunk, ExecuteChunk},
                    open : BOOLEAN, fetch : BOOLEAN]
      BY DEF LInv, LinkTypes
    <3>2. asim.left - 1 \in Int
      BY <3>1
    <3>3. PICK at \in {"request", "before"} :
            asim' = [asim EXCEPT !.at = at, !.left = asim.left - 1, !.open = FALSE]
      BY <1>7
    <3> QED
      BY <3>1, <3>2, <3>3
  <2>2. asim'.chunk # 0
    <3>1. asim'.chunk = asim.chunk /\ asim.at = "after"
      BY <1>7 DEF AddInstr, AsimAt, LInv, LinkTypes
    <3> QED
      BY <3>1 DEF LInv, LinkTypes
  <2> QED
    BY <1>1, <1>7, <1>14, <2>1, <2>2 DEF LInv, LinkTypes
<1>16. NoSharedEntry'
  <2>1. ASSUME sdv.at = "close", sdv.cpu = c PROVE After(n, new.writer) # new.reader
    <3>1. After(n, ring.writer) # ring.reader
      BY <1>1, <1>3, <2>1 DEF LInv, NoSharedEntry
    <3>2. RingSlots(n, ring) /\ RingSlots(n, new)
      BY <1>9 DEF RingRecords, RingSlots
    <3>3. /\ NReadSlotsAvailable(n, ring) \in 0 .. n - 1
          /\ NReadSlotsAvailable(n, new) = NReadSlotsAvailable(n, ring) - 1
      BY <1>1, <1>8, <1>9, <3>2, RingFill, RingRelease
    <3>4. NReadSlotsAvailable(n, new) # n - 1
      BY <3>3
    <3> QED
      BY <1>1, <3>2, <3>4, RingFill
  <2>2. ~asim'.open
    BY <1>7 DEF LInv, LinkTypes
  <2> QED
    BY <1>1, <1>7, <1>14, <2>1, <2>2 DEF LInv, NoSharedEntry
<1>17. Written'
  <2>1. \A d \in Cpus : /\ instrRing'[d].writer = instrRing[d].writer
                        /\ instrRing'[d].payload = instrRing[d].payload
    BY <1>3, <1>9, <1>14
  <2>2. sdv.cpu \in Cpus
    BY DEF LInv, LinkTypes
  <2> QED
    BY <1>7, <2>1, <2>2 DEF LInv, Written
<1>18. Waiting'
  BY <1>1, <1>4, <1>7, <1>11, <1>13, <1>14 DEF LInv, Waiting
<1> QED
  BY <1>15, <1>16, <1>17, <1>18 DEF LInv

\* The steps of Asim that leave the instruction rings alone.
LEMMA AsimLInv ==
    ASSUME LInv,
           \/ \E c \in Cpus : Calls(c)
           \/ ReadRegisters \/ RegistersRead \/ OpenInstr \/ OpenBlocked
           \/ NoInstrLeft \/ SendRequest \/ SendBlocked \/ FetchNext
           \/ StopAsim \/ AsimExits
    PROVE  LInv'
<1> DEFINE AsimTypes ==
        /\ asim' \in [at : {"model", "before", "open", "blocked", "after", "request",
                            "fetch", "exiting", "stopped"},
                      cpu : Cpus, left : Int, chunk : {0, WarmupChunk, ExecuteChunk},
                      open : BOOLEAN, fetch : BOOLEAN]
        /\ asim'.at \in {"before", "open", "blocked", "after", "request"}
                => asim'.chunk # 0
<1>0. /\ asim \in [at : {"model", "before", "open", "blocked", "after", "request",
                         "fetch", "exiting", "stopped"},
                   cpu : Cpus, left : Int, chunk : {0, WarmupChunk, ExecuteChunk},
                   open : BOOLEAN, fetch : BOOLEAN]
      /\ asim.at \in {"before", "open", "blocked", "after", "request"}
                => asim.chunk # 0
  BY DEF LInv, LinkTypes
<1>1. /\ UNCHANGED <<instrRing, executed, received, sdv, regsUid>>
      /\ requestRing' = requestRing \/ SendRequest
  BY DEF Calls, Call, ReadRegisters, RegistersRead, OpenInstr, OpenBlocked,
         NoInstrLeft, SendRequest, SendBlocked, FetchNext, StopAsim, AsimExits,
         sdvVars
<1>2. ASSUME AsimTypes,
             asim'.open => \/ asim.open /\ asim'.cpu = asim.cpu
                           \/ instrRing[asim'.cpu].reader # instrRing[asim'.cpu].writer
      PROVE  LInv'
  <2>1. requestRing' \in [reader : Slots(RequestEntries), writer : Slots(RequestEntries),
                          payload : [Slots(RequestEntries) -> Request]]
    <3>1. CASE requestRing' = requestRing
      BY <3>1 DEF LInv, LinkTypes
    <3>2. CASE SendRequest
      <4>1. [cpu |-> asim.cpu, n |-> asim.chunk] \in Request
        BY <1>0, <3>2 DEF SendRequest, AsimAt, Request
      <4> QED
        BY <3>2, <4>1, RequestTypes DEF SendRequest
    <3> QED
      BY <1>1, <3>1, <3>2
  <2>2. LinkTypes'
    BY <1>1, <1>2, <2>1 DEF LInv, LinkTypes
  <2> QED
    BY <1>1, <1>2, <2>2, AsimElsewhere
<1>3. PICK c0 \in Cpus : Idle = [at |-> "model", cpu |-> c0, left |-> 0, chunk |-> 0,
                                 open |-> FALSE, fetch |-> FALSE]
  BY LinkAssumption DEF Idle
<1>4. CASE \E c \in Cpus : Calls(c)
  <2>1. PICK c \in Cpus, fetch \in BOOLEAN : Call(c, fetch)
    BY <1>4 DEF Calls
  <2>2. ChunkOf(c) \in {WarmupChunk, ExecuteChunk} /\ ChunkOf(c) \in Nat \ {0}
    BY Sizes DEF ChunkOf
  <2>3. CASE asim' = [at |-> "before", cpu |-> c, left |-> ChunkOf(c),
                      chunk |-> ChunkOf(c), open |-> FALSE, fetch |-> fetch]
    <3>1. AsimTypes /\ ~asim'.open
      BY <2>2, <2>3
    <3> QED
      BY <1>2, <3>1
  <2>4. CASE asim' = [Idle EXCEPT !.at = "fetch", !.cpu = c]
    <3>1. asim' = [at |-> "fetch", cpu |-> c, left |-> 0, chunk |-> 0,
                   open |-> FALSE, fetch |-> FALSE]
      BY <1>3, <2>4
    <3>2. AsimTypes /\ ~asim'.open
      BY <3>1
    <3> QED
      BY <1>2, <3>2
  <2> QED
    BY <2>1, <2>3, <2>4 DEF Call
<1>5. CASE ReadRegisters
  <2>1. asim' = asim
    BY <1>5 DEF ReadRegisters
  <2> QED
    BY <1>0, <1>2, <2>1
<1>6. CASE RegistersRead
  <2>1. AsimTypes /\ asim'.open = asim.open /\ asim'.cpu = asim.cpu
    BY <1>0, <1>6 DEF RegistersRead, AsimAt, Goto
  <2> QED
    BY <1>2, <2>1
<1>7. CASE OpenInstr
  <2>1. AsimTypes /\ asim'.cpu = asim.cpu
    BY <1>0, <1>7 DEF OpenInstr, AsimAt
  <2>2. asim'.open => asim.open \/ NReadSlotsAvailable(InstrEntries, instrRing[asim.cpu]) # 0
    BY <1>0, <1>7 DEF OpenInstr
  <2>3. RingSlots(InstrEntries, instrRing[asim.cpu])
    BY <1>0 DEF LInv, LinkTypes, RingRecords, RingSlots
  <2>4. NReadSlotsAvailable(InstrEntries, instrRing[asim.cpu]) # 0
            => instrRing[asim.cpu].reader # instrRing[asim.cpu].writer
    BY <2>3, Sizes, RingFill
  <2> QED
    BY <1>2, <2>1, <2>2, <2>4
<1>8. CASE OpenBlocked
  <2>1. AsimTypes /\ asim'.cpu = asim.cpu /\ (asim'.open => asim.open)
    BY <1>0, <1>8 DEF OpenBlocked, AsimAt
  <2> QED
    BY <1>2, <2>1
<1>9. CASE NoInstrLeft \/ SendRequest \/ SendBlocked
  <2>1. \/ asim' = Idle
        \/ asim' = [asim EXCEPT !.at = "fetch"]
        \/ asim' = [asim EXCEPT !.at = "stopped"]
    BY <1>9 DEF NoInstrLeft, SendRequest, SendBlocked, Return, Goto
  <2>2. AsimTypes /\ (asim'.open => asim.open /\ asim'.cpu = asim.cpu)
    <3>1. CASE asim' = Idle
      BY <1>3, <3>1
    <3>2. CASE asim' = [asim EXCEPT !.at = "fetch"] \/ asim' = [asim EXCEPT !.at = "stopped"]
      BY <1>0, <3>2
    <3> QED
      BY <2>1, <3>1, <3>2
  <2> QED
    BY <1>2, <2>2
<1>10. CASE FetchNext
  <2>1. AsimTypes /\ ~asim'.open
    BY <1>3, <1>10 DEF FetchNext
  <2> QED
    BY <1>2, <2>1
<1>11. CASE StopAsim \/ AsimExits
  <2>1. AsimTypes /\ asim'.open = asim.open /\ asim'.cpu = asim.cpu
    BY <1>0, <1>11 DEF StopAsim, AsimExits, AsimAt, Goto
  <2> QED
    BY <1>2, <2>1
<1> QED
  BY <1>4, <1>5, <1>6, <1>7, <1>8, <1>9, <1>10, <1>11

LEMMA NextLInv == LInv /\ [Next]_vars => LInv'
<1> SUFFICES ASSUME LInv, [Next]_vars PROVE LInv'
  OBVIOUS
<1>1. CASE UNCHANGED vars
  BY <1>1 DEF vars, sdvVars, asimVars, LInv, LinkTypes, NoSharedEntry, Written, Waiting
<1>2. CASE Softsdv \/ SdvDies
  BY <1>2, TakeRequestLInv, SdvWaitsLInv, GroupLInv, FillInstrLInv, CloseInstrLInv
  DEF Softsdv
<1>3. CASE Asim
  BY <1>3, AsimLInv, AddInstrLInv DEF Asim, Feeder
<1> QED
  BY <1>1, <1>2, <1>3 DEF Next

\* LInv is an invariant of the link.
THEOREM LinkInvariant == Spec => []LInv
  BY InitLInv, NextLInv, PTL DEF Spec

\* The two processes never touch the same entry of an instruction ring, and a
\* full ring never looks empty, for any sizes and with the faults.
THEOREM EntriesAreNotShared == Spec => []NoSharedEntry
<1>1. LInv => NoSharedEntry
  BY DEF LInv
<1> QED
  BY <1>1, LinkInvariant, PTL

\* Every instruction SoftSDV has published is once, and in order, in the ring of
\* its CPU or in the replay buffer.
THEOREM StreamsStayIntact == Spec => []StreamIntact
  BY WaitingIsIntact, LinkInvariant, PTL

-----------------------------------------------------------------------------
(* A ring as the sequence of its entries.                                  *)

\* Rings whose entries are in S.
RingsOf(n, S) == [reader : Slots(n), writer : Slots(n), payload : [Slots(n) -> S]]

LEMMA ContentsEntries ==
    ASSUME NEW n \in Nat, n > 1, NEW S, NEW ring \in RingsOf(n, S)
    PROVE  LET q == Contents(n, ring)
           IN  /\ q \in Seq(S)
               /\ Len(q) = NReadSlotsAvailable(n, ring) /\ Len(q) \in 0 .. n - 1
               /\ \A k \in 1 .. Len(q) : q[k] = ring.payload[At(n, ring, k)]
<1> DEFINE used == NReadSlotsAvailable(n, ring)
<1>1. RingSlots(n, ring) /\ ring.payload \in [Slots(n) -> S]
  BY DEF RingsOf, RingSlots
<1>2. used \in 0 .. n - 1
  BY <1>1, RingFill
<1>3. \A k \in 1 .. used : At(n, ring, k) \in Slots(n)
  BY <1>1, RingEntries
<1>4. Contents(n, ring) = [k \in 1 .. used |-> ring.payload[At(n, ring, k)]]
  BY DEF Contents, At
<1> HIDE DEF used
<1>5. Contents(n, ring) \in Seq(S) /\ Len(Contents(n, ring)) = used
  <2>1. \A k \in 1 .. used : ring.payload[At(n, ring, k)] \in S
    BY <1>1, <1>3
  <2>2. used \in Nat
    BY <1>2
  <2> QED
    BY <1>4, <2>1, <2>2
<1> QED
  BY <1>2, <1>4, <1>5 DEF used

\* Filling the writer's entry leaves the entries that wait alone.
LEMMA ContentsFilled ==
    ASSUME NEW n \in Nat, n > 1, NEW S, NEW ring \in RingsOf(n, S), NEW x \in S
    PROVE  LET new == Filled(ring, x)
           IN  /\ new \in RingsOf(n, S)
               /\ new.reader = ring.reader /\ new.writer = ring.writer
               /\ new.payload = [ring.payload EXCEPT ![ring.writer] = x]
               /\ Contents(n, new) = Contents(n, ring)
<1> DEFINE new == Filled(ring, x)
<1>1. /\ new.reader = ring.reader /\ new.writer = ring.writer
      /\ new.payload = [ring.payload EXCEPT ![ring.writer] = x]
      /\ new \in RingsOf(n, S)
  BY DEF Filled, RingsOf
<1>2. /\ NReadSlotsAvailable(n, new) = NReadSlotsAvailable(n, ring)
      /\ \A k : At(n, new, k) = At(n, ring, k)
  BY <1>1 DEF NReadSlotsAvailable, At
<1>3. RingSlots(n, ring) /\ ring.payload \in [Slots(n) -> S]
  BY DEF RingsOf, RingSlots
<1>4. \A k \in 1 .. NReadSlotsAvailable(n, ring) :
        new.payload[At(n, new, k)] = ring.payload[At(n, ring, k)]
  BY <1>1, <1>2, <1>3, RingEntries
<1> HIDE DEF new
<1>5. Contents(n, new) = Contents(n, ring)
  BY <1>2, <1>4 DEF Contents, At
<1> QED
  BY <1>1, <1>5 DEF new

\* Publishing the writer's entry appends it.
LEMMA ContentsPublished ==
    ASSUME NEW n \in Nat, n > 1, NEW S, NEW ring \in RingsOf(n, S),
           After(n, ring.writer) # ring.reader
    PROVE  LET new == Published(n, ring)
           IN  /\ new \in RingsOf(n, S)
               /\ new.reader = ring.reader /\ new.payload = ring.payload
               /\ new.writer = After(n, ring.writer)
               /\ Contents(n, new) = Append(Contents(n, ring), ring.payload[ring.writer])
<1> DEFINE new == Published(n, ring)
           q == Contents(n, ring)
           r == Contents(n, new)
           x == ring.payload[ring.writer]
<1>1. RingSlots(n, ring) /\ ring.payload \in [Slots(n) -> S] /\ x \in S
  BY DEF RingsOf, RingSlots
<1>2. /\ new.reader = ring.reader /\ new.writer = After(n, ring.writer)
      /\ new.payload = ring.payload
      /\ new = [reader |-> new.reader, writer |-> new.writer, payload |-> new.payload]
  BY DEF Published, RingsOf
<1>3. /\ RingSlots(n, new)
      /\ NReadSlotsAvailable(n, new) = NReadSlotsAvailable(n, ring) + 1
  BY <1>1, <1>2, RingPublish
<1>4. new \in RingsOf(n, S)
  BY <1>1, <1>2, <1>3 DEF RingsOf, RingSlots
<1>5. /\ q \in Seq(S) /\ Len(q) = NReadSlotsAvailable(n, ring) /\ Len(q) \in Nat
      /\ \A k \in 1 .. Len(q) : q[k] = ring.payload[At(n, ring, k)]
  BY ContentsEntries
<1>6. /\ r \in Seq(S) /\ Len(r) = NReadSlotsAvailable(n, new)
      /\ \A k \in 1 .. Len(r) : r[k] = new.payload[At(n, new, k)]
  BY <1>4, ContentsEntries
<1>7. \A k : At(n, new, k) = At(n, ring, k)
  BY <1>2 DEF At
<1>8. At(n, ring, Len(q) + 1) = ring.writer
  BY <1>1, <1>5, RingEntries
<1> HIDE DEF new, q, r, x
<1>9. r = Append(q, x)
  <2>1. /\ Append(q, x) \in Seq(S) /\ Len(Append(q, x)) = Len(q) + 1
        /\ \A k \in 1 .. Len(q) : Append(q, x)[k] = q[k]
        /\ Append(q, x)[Len(q) + 1] = x
    BY <1>1, <1>5, AppendProperties
  <2>2. Len(r) = Len(q) + 1
    BY <1>3, <1>5, <1>6
  <2>3. ASSUME NEW k \in 1 .. Len(r) PROVE r[k] = Append(q, x)[k]
    <3>1. CASE k = Len(q) + 1
      BY <1>2, <1>6, <1>7, <1>8, <2>1, <2>2, <3>1 DEF x
    <3>2. CASE k # Len(q) + 1
      <4>1. k \in 1 .. Len(q)
        BY <1>5, <2>2, <3>2
      <4> QED
        BY <1>2, <1>5, <1>6, <1>7, <2>1, <4>1
    <3> QED
      BY <3>1, <3>2
  <2> QED
    BY <1>6, <2>1, <2>2, <2>3, SeqEqual
<1> QED
  BY <1>2, <1>4, <1>9 DEF new, q, r, x

\* Releasing the oldest entry, the one the reader has opened, drops it.
LEMMA ContentsReleased ==
    ASSUME NEW n \in Nat, n > 1, NEW S, NEW ring \in RingsOf(n, S),
           ring.reader # ring.writer
    PROVE  LET new == Released(n, ring)
               q == Contents(n, ring)
           IN  /\ new \in RingsOf(n, S)
               /\ new.writer = ring.writer /\ new.payload = ring.payload
               /\ new.reader = After(n, ring.reader)
               /\ q # <<>> /\ q[1] = Opened(ring) /\ Len(q) >= 1
               /\ Contents(n, new) = Tail(q)
<1> DEFINE new == Released(n, ring)
           q == Contents(n, ring)
           r == Contents(n, new)
<1>1. RingSlots(n, ring) /\ ring.payload \in [Slots(n) -> S] /\ ring.reader \in 0 .. n - 1
  BY DEF RingsOf, RingSlots, Slots
<1>2. /\ new.writer = ring.writer /\ new.reader = After(n, ring.reader)
      /\ new.payload = ring.payload
      /\ new = [reader |-> new.reader, writer |-> new.writer, payload |-> new.payload]
  BY DEF Released, RingsOf
<1>3. /\ RingSlots(n, new)
      /\ NReadSlotsAvailable(n, new) = NReadSlotsAvailable(n, ring) - 1
      /\ \A k \in 1 .. NReadSlotsAvailable(n, new) : At(n, new, k) = At(n, ring, k + 1)
  BY <1>1, <1>2, RingRelease
<1>4. new \in RingsOf(n, S)
  BY <1>1, <1>2, <1>3 DEF RingsOf, RingSlots
<1>5. /\ q \in Seq(S) /\ Len(q) = NReadSlotsAvailable(n, ring) /\ Len(q) \in Nat
      /\ \A k \in 1 .. Len(q) : q[k] = ring.payload[At(n, ring, k)]
  BY ContentsEntries
<1>6. /\ r \in Seq(S) /\ Len(r) = NReadSlotsAvailable(n, new)
      /\ \A k \in 1 .. Len(r) : r[k] = new.payload[At(n, new, k)]
  BY <1>4, ContentsEntries
<1>7. Len(q) # 0 /\ At(n, ring, 1) = ring.reader
  <2>1. NReadSlotsAvailable(n, ring) # 0
    BY <1>1, RingFill
  <2>2. At(n, ring, 1) = ring.reader
    BY <1>1, ModValue DEF At
  <2> QED
    BY <1>5, <2>1, <2>2
<1>8. q[1] = Opened(ring)
  <2>1. 1 \in 1 .. Len(q)
    BY <1>5, <1>7
  <2> QED
    BY <1>5, <1>7, <2>1 DEF Opened
<1> HIDE DEF new, q, r
<1>9. q # <<>> /\ Len(q) >= 1
  BY <1>5, <1>7
<1>10. r = Tail(q)
  <2>1. /\ Tail(q) \in Seq(S) /\ Len(Tail(q)) = Len(q) - 1
        /\ \A k \in 1 .. Len(Tail(q)) : Tail(q)[k] = q[k + 1]
    BY <1>5, <1>9, HeadTailProperties
  <2>2. Len(r) = Len(q) - 1
    BY <1>3, <1>5, <1>6
  <2>3. ASSUME NEW k \in 1 .. Len(r) PROVE r[k] = Tail(q)[k]
    <3>1. k + 1 \in 1 .. Len(q) /\ k \in 1 .. Len(Tail(q))
      BY <1>5, <2>1, <2>2
    <3> QED
      BY <1>2, <1>3, <1>5, <1>6, <2>1, <3>1
  <2> QED
    BY <1>6, <2>1, <2>2, <2>3, SeqEqual
<1> QED
  BY <1>2, <1>4, <1>8, <1>9, <1>10 DEF new, q, r

-----------------------------------------------------------------------------
(* The inductive invariant, on top of LInv.                                *)

InGroup == sdv.at \in {"step", "close"}
Serving == sdv.at \in {"group", "step", "close"}
Reading == asim.at \in {"before", "open", "blocked", "after", "request"}

\* A group lies within its request and its stream, starts at a trap exactly
\* when register values were sent for it, and has no trap further on.
GroupFits ==
    /\ \A c \in Cpus : executed[c] <= Len(Stream[c])
    /\ Serving => sdv.remaining >= 1
    /\ InGroup =>
        LET c == sdv.cpu
            e == executed[c]
        IN  /\ sdv.group \in 1 .. sdv.remaining
            /\ e + sdv.group <= Len(Stream[c])
            /\ sdv.regs # 0 <=> Kind(c, e + 1) = "trap"
            /\ \A k \in e + 2 .. e + sdv.group : Kind(c, k) # "trap"

\* Register values are numbered by the traps executed or being executed.
Begun(c) == executed[c] + (IF InGroup /\ sdv.cpu = c THEN 1 ELSE 0)
Sent == {p \in Traps : p[2] <= Begun(p[1])}
UidsCount == regsUid = Cardinality(Sent)

\* Register values of c with number u are waiting in vals, or in the ring.
Present(vals, ring, c, u) ==
    \/ \E k \in 1 .. Len(vals) : vals[k] = u
    \/ \E k \in 1 .. Len(ring) : ring[k] = [cpu |-> c, uid |-> u]

RegQueue == Contents(RegEntries, regRing)
InstrQueue(c) == Contents(InstrEntries, instrRing[c])

\* Register values come in the order of their numbers: those of the ring after
\* all that were taken from it.
RingInOrder(ring, last) ==
    /\ \A k \in 1 .. Len(ring) : ring[k].uid \in 1 .. last
    /\ \A j, k \in 1 .. Len(ring) : j < k => ring[j].uid < ring[k].uid

ValsInOrder(vals, ring, last) ==
    /\ vals \in Seq(1 .. last)
    /\ \A j, k \in 1 .. Len(vals) : j < k => vals[j] < vals[k]
    /\ \A j \in 1 .. Len(vals), k \in 1 .. Len(ring) : vals[j] < ring[k].uid

ValuesInOrder ==
    /\ DOMAIN regValues = Cpus
    /\ RingInOrder(RegQueue, regsUid)
    /\ \A c \in Cpus : ValsInOrder(regValues[c], RegQueue, regsUid)

\* The instructions of a ring need register values in the order of their
\* numbers, and none of these is lost.
Needs(q, vals, ring, c, last) ==
    /\ \A k \in 1 .. Len(q) :
        /\ q[k].regs \in 0 .. last
        /\ q[k].regs # 0 => Present(vals, ring, c, q[k].regs)
    /\ \A j, k \in 1 .. Len(q) :
        j < k /\ q[j].regs # 0 /\ q[k].regs # 0 => q[j].regs < q[k].regs

NeedsInOrder ==
    /\ \A c \in Cpus : Needs(InstrQueue(c), regValues[c], RegQueue, c, regsUid)
    /\ InGroup /\ sdv.regs # 0 =>
        /\ sdv.regs = regsUid
        /\ Present(regValues[sdv.cpu], RegQueue, sdv.cpu, sdv.regs)
        /\ \A k \in 1 .. Len(InstrQueue(sdv.cpu)) : InstrQueue(sdv.cpu)[k].regs < sdv.regs
    /\ sdv.at = "close" =>
        instrRing[sdv.cpu].payload[instrRing[sdv.cpu].writer].regs = sdv.regs

\* Instructions asked for by the requests for c that SoftSDV has not taken.
Occupied(n, ring) == {At(n, ring, k) : k \in 1 .. NReadSlotsAvailable(n, ring)}
Asked(ring, c) ==
    {p \in Slots(RequestEntries) \X (1 .. WarmupChunk) :
        /\ p[1] \in Occupied(RequestEntries, ring)
        /\ ring.payload[p[1]].cpu = c
        /\ p[2] <= ring.payload[p[1]].n}

\* The room paid for: what waits in the ring, was asked for, is being executed,
\* or has been read and not yet paid back, is at most one chunk.
Executing(c) == IF Serving /\ sdv.cpu = c THEN sdv.remaining ELSE 0
Unpaid(c) == IF Reading /\ asim.cpu = c THEN asim.chunk - asim.left ELSE 0
Credits ==
    \A c \in Cpus :
        ((NReadSlotsAvailable(InstrEntries, instrRing[c])
            + Cardinality(Asked(requestRing, c))) + Executing(c)) + Unpaid(c)
                <= WarmupChunk

ReadsChunk ==
    /\ asim.left \in 0 .. asim.chunk
    /\ asim.at \in {"before", "open", "blocked", "after"} => asim.left >= 1
    /\ asim.at = "request" => asim.left = 0

SInv ==
    /\ TypeOK /\ NoLinkError
    /\ GroupFits /\ UidsCount /\ ValuesInOrder /\ NeedsInOrder
    /\ Credits /\ ReadsChunk
-----------------------------------------------------------------------------
(* The room paid for.                                                      *)

LEMMA SoundSizes ==
    /\ RegEntries \in Nat /\ RegEntries > 1
    /\ WarmupChunk <= InstrEntries - 1
    /\ ExecuteChunk <= WarmupChunk
    /\ \A c \in Cpus : Len(Stream[c]) \in Nat /\ DOMAIN Stream[c] = 1 .. Len(Stream[c])
<1>1. PICK h \in Int : h = InstrEntries \div 2 /\ h <= InstrEntries - 1
  <2>1. InstrEntries \in Nat /\ InstrEntries > 1
    BY LinkAssumption
  <2>2. InstrEntries \div 2 \in Int /\ InstrEntries \div 2 <= InstrEntries - 1
    BY <2>1
  <2> QED
    BY <2>2
<1>2. WarmupChunk <= InstrEntries - 1
  BY <1>1, LinkAssumption
<1>3. \A c \in Cpus : Len(Stream[c]) \in Nat /\ DOMAIN Stream[c] = 1 .. Len(Stream[c])
  BY LinkAssumption, LenProperties
<1> QED
  BY <1>2, <1>3, LinkAssumption

\* Publishing takes the writer's slot, releasing gives the reader's back.
LEMMA OccupiedPublished ==
    ASSUME NEW n \in Nat, n > 1, NEW S, NEW ring \in RingsOf(n, S),
           After(n, ring.writer) # ring.reader
    PROVE  /\ Occupied(n, Published(n, ring)) = Occupied(n, ring) \cup {ring.writer}
           /\ ring.writer \notin Occupied(n, ring)
           /\ Occupied(n, ring) \subseteq Slots(n)
<1> DEFINE new == Published(n, ring)
           used == NReadSlotsAvailable(n, ring)
<1>1. RingSlots(n, ring)
  BY DEF RingsOf, RingSlots
<1>2. new.reader = ring.reader /\ new.writer = After(n, ring.writer)
  BY ContentsPublished
<1>3. NReadSlotsAvailable(n, new) = used + 1 /\ used \in Nat
  BY <1>1, <1>2, RingPublish, RingFill
<1>4. \A k : At(n, new, k) = At(n, ring, k)
  BY <1>2 DEF At
<1>5. /\ \A k \in 1 .. used : At(n, ring, k) \in Slots(n) /\ At(n, ring, k) # ring.writer
      /\ At(n, ring, used + 1) = ring.writer
  BY <1>1, RingEntries
<1> HIDE DEF new, used
<1>6. Occupied(n, new) = {At(n, ring, k) : k \in 1 .. used + 1}
  BY <1>3, <1>4 DEF Occupied
<1>7. Occupied(n, ring) = {At(n, ring, k) : k \in 1 .. used}
  BY DEF Occupied, used
<1>8. \A k \in 1 .. used + 1 : k \in 1 .. used \/ k = used + 1
  BY <1>3
<1>9. used + 1 \in 1 .. used + 1 /\ \A k \in 1 .. used : k \in 1 .. used + 1
  BY <1>3
<1>10. Occupied(n, new) = Occupied(n, ring) \cup {ring.writer}
  BY <1>5, <1>6, <1>7, <1>8, <1>9
<1> QED
  BY <1>5, <1>7, <1>10 DEF new

LEMMA OccupiedReleased ==
    ASSUME NEW n \in Nat, n > 1, NEW S, NEW ring \in RingsOf(n, S),
           ring.reader # ring.writer
    PROVE  /\ Occupied(n, Released(n, ring)) = Occupied(n, ring) \ {ring.reader}
           /\ ring.reader \in Occupied(n, ring)
<1> DEFINE new == Released(n, ring)
           used == NReadSlotsAvailable(n, ring)
<1>1. RingSlots(n, ring) /\ ring.reader \in 0 .. n - 1
  BY DEF RingsOf, RingSlots, Slots
<1>2. new.writer = ring.writer /\ new.reader = After(n, ring.reader)
  BY ContentsReleased
<1>3. /\ NReadSlotsAvailable(n, new) = used - 1
      /\ \A k \in 1 .. used - 1 : At(n, new, k) = At(n, ring, k + 1)
  BY <1>1, <1>2, RingRelease
<1>4. used \in 1 .. n - 1
  <2>1. used \in 0 .. n - 1 /\ used # 0
    BY <1>1, RingFill
  <2> QED
    BY <2>1
<1>5. At(n, ring, 1) = ring.reader
  BY <1>1, ModValue DEF At
<1> HIDE DEF new, used
<1>6. ASSUME NEW k \in 2 .. used PROVE At(n, ring, k) # ring.reader
  <2>1. ring.reader + (k - 1) \in 0 .. 2 * n - 1
    BY <1>1, <1>4, <1>6
  <2>2. PICK m : m = ring.reader + (k - 1)
    OBVIOUS
  <2>3. At(n, ring, k) = IF m < n THEN m ELSE m - n
    BY <2>1, <2>2, ModValue DEF At
  <2> QED
    BY <1>1, <1>4, <1>6, <2>1, <2>2, <2>3
<1>7. Occupied(n, new) = {At(n, ring, k + 1) : k \in 1 .. used - 1}
  BY <1>3 DEF Occupied
<1>8. Occupied(n, ring) = {At(n, ring, k) : k \in 1 .. used}
  BY DEF Occupied, used
<1>9. \A k \in 1 .. used - 1 : k + 1 \in 2 .. used /\ k + 1 \in 1 .. used
  BY <1>4
<1>10. \A k \in 1 .. used : k = 1 \/ (k - 1 \in 1 .. used - 1 /\ (k - 1) + 1 = k)
  BY <1>4
<1>11. 1 \in 1 .. used
  BY <1>4
<1>12. Occupied(n, new) = Occupied(n, ring) \ {ring.reader}
  <2>1. ASSUME NEW x \in Occupied(n, new) PROVE x \in Occupied(n, ring) \ {ring.reader}
    <3>1. PICK k \in 1 .. used - 1 : x = At(n, ring, k + 1)
      BY <1>7, <2>1
    <3> QED
      BY <1>6, <1>8, <1>9, <3>1
  <2>2. ASSUME NEW x \in Occupied(n, ring) \ {ring.reader} PROVE x \in Occupied(n, new)
    <3>1. PICK k \in 1 .. used : x = At(n, ring, k)
      BY <1>8, <2>2
    <3>2. k # 1
      BY <1>5, <2>2, <3>1
    <3>3. k - 1 \in 1 .. used - 1 /\ (k - 1) + 1 = k
      BY <1>10, <3>2
    <3> QED
      BY <1>7, <3>1, <3>3
  <2> QED
    BY <2>1, <2>2
<1> QED
  BY <1>5, <1>8, <1>11, <1>12 DEF new

RequestRings == RingsOf(RequestEntries, Request)

LEMMA AskedFinite ==
    ASSUME NEW ring, NEW c
    PROVE  IsFiniteSet(Asked(ring, c)) /\ Cardinality(Asked(ring, c)) \in Nat
<1> DEFINE All == Slots(RequestEntries) \X (1 .. WarmupChunk)
<1>1. IsFiniteSet(Slots(RequestEntries)) /\ IsFiniteSet(1 .. WarmupChunk)
  BY Sizes, FS_Interval DEF Slots
<1>2. IsFiniteSet(All)
  BY <1>1, FS_Product
<1>3. Asked(ring, c) \in SUBSET All
  BY DEF Asked
<1> HIDE DEF All
<1>4. IsFiniteSet(Asked(ring, c))
  BY <1>2, <1>3, FS_Subset
<1> QED
  BY <1>4, FS_CardinalityType

\* The instructions one request asks for.
LEMMA RequestSize ==
    ASSUME NEW s \in Slots(RequestEntries), NEW m \in {WarmupChunk, ExecuteChunk}
    PROVE  LET T == {s} \X (1 .. m)
           IN  /\ IsFiniteSet(T) /\ Cardinality(T) = m
               /\ T = {p \in Slots(RequestEntries) \X (1 .. WarmupChunk) :
                            p[1] = s /\ p[2] <= m}
<1>1. m \in Nat /\ 1 <= m /\ m <= WarmupChunk /\ WarmupChunk \in Nat
  BY Sizes, SoundSizes
<1>2. IsFiniteSet(1 .. m) /\ Cardinality(1 .. m) = m
  BY <1>1, FS_Interval
<1>3. IsFiniteSet({s}) /\ Cardinality({s}) = 1
  BY FS_Singleton
<1>4. IsFiniteSet({s} \X (1 .. m)) /\ Cardinality({s} \X (1 .. m)) = 1 * m
  BY <1>2, <1>3, FS_Product, ZenonT(30)
<1>5. 1 * m = m
  BY <1>1
<1>6. \A k : k \in 1 .. m <=> k \in 1 .. WarmupChunk /\ k <= m
  BY <1>1
<1>7. {s} \X (1 .. m) = {p \in Slots(RequestEntries) \X (1 .. WarmupChunk) :
                            p[1] = s /\ p[2] <= m}
  BY <1>6
<1> QED
  BY <1>4, <1>5, <1>7

\* SoftSDV takes a request.
LEMMA AskedTaken ==
    ASSUME NEW ring \in RequestRings, ring.reader # ring.writer, NEW c
    PROVE  LET new == Released(RequestEntries, ring)
               m == Opened(ring).n
           IN  Cardinality(Asked(new, c)) =
                    IF Opened(ring).cpu = c THEN Cardinality(Asked(ring, c)) - m
                    ELSE Cardinality(Asked(ring, c))
<1> DEFINE new == Released(RequestEntries, ring)
           m == Opened(ring).n
           s == ring.reader
           A == Asked(ring, c)
           B == Asked(new, c)
           T == {s} \X (1 .. m)
<1>1. s \in Slots(RequestEntries) /\ Opened(ring) \in Request
      /\ Opened(ring) = ring.payload[s]
  BY DEF RequestRings, RingsOf, Opened
<1>2. /\ IsFiniteSet(T) /\ Cardinality(T) = m
      /\ T = {p \in Slots(RequestEntries) \X (1 .. WarmupChunk) : p[1] = s /\ p[2] <= m}
  <2>1. m \in {WarmupChunk, ExecuteChunk}
    BY <1>1 DEF Request
  <2> QED
    BY <1>1, <2>1, RequestSize
<1>3. new.payload = ring.payload
  BY Sizes, ContentsReleased DEF RequestRings
<1>4. /\ Occupied(RequestEntries, new) = Occupied(RequestEntries, ring) \ {s}
      /\ s \in Occupied(RequestEntries, ring)
  BY Sizes, OccupiedReleased DEF RequestRings
<1>5. IsFiniteSet(A) /\ Cardinality(A) \in Nat
  BY AskedFinite
<1> HIDE DEF new, m, s, T
<1>6. CASE Opened(ring).cpu = c
  <2>1. A \cap T = T /\ B = A \ T
    <3>1. ring.payload[s].cpu = c /\ ring.payload[s].n = m
      BY <1>1, <1>6 DEF m
    <3> QED
      BY <1>2, <1>3, <1>4, <3>1 DEF Asked
  <2>2. Cardinality(A \ T) = Cardinality(A) - Cardinality(A \cap T)
    BY <1>5, FS_Difference
  <2> QED
    BY <1>2, <1>6, <2>1, <2>2 DEF new, m
<1>7. CASE Opened(ring).cpu # c
  <2>1. B = A
    <3>1. ring.payload[s].cpu # c
      BY <1>1, <1>7
    <3> QED
      BY <1>3, <1>4, <3>1 DEF Asked
  <2> QED
    BY <1>7, <2>1 DEF new, m
<1> QED
  BY <1>6, <1>7

\* Asim sends one.
LEMMA AskedSent ==
    ASSUME NEW ring \in RequestRings, After(RequestEntries, ring.writer) # ring.reader,
           NEW x \in Request, NEW c
    PROVE  LET new == Published(RequestEntries, Filled(ring, x))
           IN  /\ new \in RequestRings
               /\ Cardinality(Asked(new, c)) =
                    IF x.cpu = c THEN Cardinality(Asked(ring, c)) + x.n
                    ELSE Cardinality(Asked(ring, c))
<1> DEFINE n == RequestEntries
           mid == Filled(ring, x)
           new == Published(n, mid)
           m == x.n
           s == ring.writer
           A == Asked(ring, c)
           B == Asked(new, c)
           T == {s} \X (1 .. m)
<1>0. n \in Nat /\ n > 1 /\ ring \in RingsOf(n, Request) /\ s \in Slots(n)
  BY Sizes DEF RequestRings, RingsOf
<1>1. /\ mid \in RingsOf(n, Request) /\ mid.reader = ring.reader /\ mid.writer = s
      /\ mid.payload = [ring.payload EXCEPT ![s] = x]
  BY <1>0, ContentsFilled
<1>2. /\ IsFiniteSet(T) /\ Cardinality(T) = m /\ m \in Nat
      /\ T = {p \in Slots(RequestEntries) \X (1 .. WarmupChunk) : p[1] = s /\ p[2] <= m}
  <2>1. m \in {WarmupChunk, ExecuteChunk}
    BY DEF Request
  <2> QED
    BY <1>0, <2>1, Sizes, RequestSize
<1>3. new.payload = mid.payload /\ new \in RingsOf(n, Request)
  BY <1>0, <1>1, ContentsPublished
<1>4. /\ Occupied(n, new) = Occupied(n, mid) \cup {s}
      /\ s \notin Occupied(n, mid) /\ Occupied(n, mid) \subseteq Slots(n)
  BY <1>0, <1>1, OccupiedPublished
<1>5. Occupied(n, mid) = Occupied(n, ring)
  BY <1>1 DEF Occupied, At, NReadSlotsAvailable
<1>6. IsFiniteSet(A) /\ Cardinality(A) \in Nat
  BY AskedFinite
<1>7. /\ new.payload[s] = x
      /\ \A r \in Occupied(n, ring) : new.payload[r] = ring.payload[r]
  <2>1. ring.payload \in [Slots(n) -> Request]
    BY <1>0 DEF RingsOf
  <2> QED
    BY <1>0, <1>1, <1>3, <1>4, <1>5, <2>1
<1> HIDE DEF mid, new, m, s, T
<1>8. CASE x.cpu = c
  <2>1. A \cap T = {} /\ B = A \cup T
    BY <1>2, <1>4, <1>5, <1>7, <1>8 DEF Asked, m
  <2>2. Cardinality(A \cup T) = Cardinality(A) + Cardinality(T) - Cardinality(A \cap T)
    BY <1>2, <1>6, FS_Union
  <2>3. Cardinality(A \cap T) = 0
    BY <2>1, FS_EmptySet
  <2> QED
    BY <1>2, <1>3, <1>6, <1>8, <2>1, <2>2, <2>3 DEF new, mid, m, RequestRings
<1>9. CASE x.cpu # c
  <2>1. B = A
    BY <1>4, <1>5, <1>7, <1>9 DEF Asked
  <2> QED
    BY <1>3, <1>9, <2>1 DEF new, mid, RequestRings
<1> QED
  BY <1>8, <1>9
-----------------------------------------------------------------------------
(* Register values, on sequences.                                          *)

RegValue(last) == [cpu : Cpus, uid : 0 .. last]

\* The next register values are sent.
LEMMA ValuesSent ==
    ASSUME NEW last \in Nat, NEW M \in Nat, NEW ring \in Seq(RegValue(M)),
           NEW d \in Cpus, last + 1 <= M, RingInOrder(ring, last)
    PROVE  LET new == Append(ring, [cpu |-> d, uid |-> last + 1])
           IN  /\ RingInOrder(new, last + 1)
               /\ \A vals : ValsInOrder(vals, ring, last)
                                => ValsInOrder(vals, new, last + 1)
               /\ \A q, vals, c : Needs(q, vals, ring, c, last)
                                => Needs(q, vals, new, c, last + 1)
               /\ \A vals : Present(vals, new, d, last + 1)
<1> DEFINE x == [cpu |-> d, uid |-> last + 1]
           new == Append(ring, x)
<1>1. /\ Len(new) = Len(ring) + 1 /\ Len(ring) \in Nat
      /\ \A k \in 1 .. Len(ring) : new[k] = ring[k]
      /\ new[Len(ring) + 1] = x
  <2>1. x \in RegValue(M)
    BY DEF RegValue
  <2> QED
    BY <2>1, AppendProperties, LenProperties
<1>2. x.uid = last + 1
  OBVIOUS
<1> HIDE DEF x, new
<1>3. \A k \in 1 .. Len(new) : k \in 1 .. Len(ring) \/ k = Len(ring) + 1
  BY <1>1
<1>4. \A k \in 1 .. Len(ring) : ring[k].uid \in 1 .. last
  BY DEF RingInOrder
<1>5. RingInOrder(new, last + 1)
  <2>1. ASSUME NEW k \in 1 .. Len(new) PROVE new[k].uid \in 1 .. last + 1
    BY <1>1, <1>2, <1>3, <1>4
  <2>2. ASSUME NEW j \in 1 .. Len(new), NEW k \in 1 .. Len(new), j < k
        PROVE  new[j].uid < new[k].uid
    <3>1. j \in 1 .. Len(ring)
      BY <1>1, <2>2
    <3>2. CASE k \in 1 .. Len(ring)
      BY <1>1, <2>2, <3>1, <3>2 DEF RingInOrder
    <3>3. CASE k = Len(ring) + 1
      BY <1>1, <1>2, <1>4, <3>1, <3>3
    <3> QED
      BY <1>3, <3>2, <3>3
  <2> QED
    BY <2>1, <2>2 DEF RingInOrder
<1>6. ASSUME NEW vals, ValsInOrder(vals, ring, last)
      PROVE  ValsInOrder(vals, new, last + 1)
  <2>1. vals \in Seq(1 .. last) /\ vals \in Seq(1 .. last + 1)
    <3>1. 1 .. last \subseteq 1 .. last + 1
      OBVIOUS
    <3> QED
      BY <1>6, <3>1, SeqMonotonic DEF ValsInOrder
  <2>2. ASSUME NEW j \in 1 .. Len(vals), NEW k \in 1 .. Len(new)
        PROVE  vals[j] < new[k].uid
    <3>1. vals[j] \in 1 .. last
      BY <2>1, ElementOfSeq
    <3>2. CASE k \in 1 .. Len(ring)
      BY <1>1, <1>6, <3>2 DEF ValsInOrder
    <3>3. CASE k = Len(ring) + 1
      BY <1>1, <1>2, <3>1, <3>3
    <3> QED
      BY <1>3, <3>2, <3>3
  <2> QED
    BY <1>6, <2>1, <2>2 DEF ValsInOrder
<1>7. \A vals, c, u : Present(vals, ring, c, u) => Present(vals, new, c, u)
  BY <1>1 DEF Present
<1>8. ASSUME NEW q, NEW vals, NEW c, Needs(q, vals, ring, c, last)
      PROVE  Needs(q, vals, new, c, last + 1)
  <2>1. \A m : m \in 0 .. last => m \in 0 .. last + 1
    OBVIOUS
  <2> QED
    BY <1>7, <1>8, <2>1 DEF Needs
<1>9. ASSUME NEW vals PROVE Present(vals, new, d, last + 1)
  <2>1. Len(ring) + 1 \in 1 .. Len(new)
    BY <1>1
  <2> QED
    BY <1>1, <2>1 DEF Present, x
<1> QED
  BY <1>5, <1>6, <1>8, <1>9 DEF new, x

\* Asim takes the oldest register values from the ring.
LEMMA ValuesRead ==
    ASSUME NEW last \in Nat, NEW M \in Nat, NEW ring \in Seq(RegValue(M)),
           ring # <<>>, RingInOrder(ring, last)
    PROVE  LET d == ring[1].cpu
               u == ring[1].uid
               Next1(c, vals) == IF c = d THEN Append(vals, u) ELSE vals
           IN  /\ RingInOrder(Tail(ring), last)
               /\ \A c, vals : ValsInOrder(vals, ring, last)
                                => ValsInOrder(Next1(c, vals), Tail(ring), last)
               /\ \A c, vals, v : ValsInOrder(vals, ring, last) /\ Present(vals, ring, c, v)
                                => Present(Next1(c, vals), Tail(ring), c, v)
<1> DEFINE d == ring[1].cpu
           u == ring[1].uid
           Next1(c, vals) == IF c = d THEN Append(vals, u) ELSE vals
           new == Tail(ring)
<1>1. /\ Len(new) = Len(ring) - 1 /\ Len(ring) \in Nat /\ Len(ring) >= 1
      /\ \A k \in 1 .. Len(new) : new[k] = ring[k + 1]
  BY HeadTailProperties, EmptySeq, LenProperties
<1>2. /\ 1 \in 1 .. Len(ring)
      /\ \A k \in 1 .. Len(new) : k + 1 \in 1 .. Len(ring) /\ 1 < k + 1
  BY <1>1
<1>3. u \in 1 .. last
  BY <1>2 DEF RingInOrder
<1>4. ring[1] = [cpu |-> d, uid |-> u]
  <2>1. ring[1] \in RegValue(M)
    BY <1>2, ElementOfSeq
  <2> QED
    BY <2>1 DEF RegValue
<1> HIDE DEF d, u, new
<1>5. RingInOrder(new, last)
  <2>1. ASSUME NEW k \in 1 .. Len(new) PROVE new[k].uid \in 1 .. last
    BY <1>1, <1>2 DEF RingInOrder
  <2>2. ASSUME NEW j \in 1 .. Len(new), NEW k \in 1 .. Len(new), j < k
        PROVE  new[j].uid < new[k].uid
    <3>1. j + 1 < k + 1 /\ j + 1 \in 1 .. Len(ring) /\ k + 1 \in 1 .. Len(ring)
      BY <1>2, <2>2
    <3> QED
      BY <1>1, <3>1 DEF RingInOrder
  <2> QED
    BY <2>1, <2>2 DEF RingInOrder
<1>6. \A k \in 1 .. Len(new) : u < new[k].uid
  BY <1>1, <1>2 DEF RingInOrder, u
<1>7. ASSUME NEW c, NEW vals, ValsInOrder(vals, ring, last)
      PROVE  ValsInOrder(Next1(c, vals), new, last)
  <2>1. vals \in Seq(1 .. last) /\ Len(vals) \in Nat
    BY <1>7, LenProperties DEF ValsInOrder
  <2>2. \A j \in 1 .. Len(vals), k \in 1 .. Len(new) : vals[j] < new[k].uid
    BY <1>1, <1>2, <1>7 DEF ValsInOrder
  <2>3. \A j \in 1 .. Len(vals) : vals[j] < u
    BY <1>2, <1>7 DEF ValsInOrder, u
  <2>4. ValsInOrder(vals, new, last)
    BY <1>7, <2>2 DEF ValsInOrder
  <2>5. ValsInOrder(Append(vals, u), new, last)
    <3>1. PICK all : all = Append(vals, u)
      OBVIOUS
    <3>2. /\ all \in Seq(1 .. last) /\ Len(all) = Len(vals) + 1
          /\ \A k \in 1 .. Len(vals) : all[k] = vals[k]
          /\ all[Len(vals) + 1] = u
      BY <1>3, <2>1, <3>1, AppendProperties
    <3>3. \A k \in 1 .. Len(all) : k \in 1 .. Len(vals) \/ k = Len(vals) + 1
      BY <2>1, <3>2
    <3>4. ASSUME NEW j \in 1 .. Len(all), NEW k \in 1 .. Len(all), j < k
          PROVE  all[j] < all[k]
      <4>1. j \in 1 .. Len(vals)
        BY <2>1, <3>2, <3>4
      <4>2. CASE k \in 1 .. Len(vals)
        BY <1>7, <3>2, <3>4, <4>1, <4>2 DEF ValsInOrder
      <4>3. CASE k = Len(vals) + 1
        BY <2>3, <3>2, <4>1, <4>3
      <4> QED
        BY <3>3, <4>2, <4>3
    <3>5. \A j \in 1 .. Len(all), k \in 1 .. Len(new) : all[j] < new[k].uid
      BY <1>6, <2>2, <3>2, <3>3
    <3>6. ValsInOrder(all, new, last)
      BY <3>2, <3>4, <3>5 DEF ValsInOrder
    <3> QED
      BY <3>1, <3>6
  <2> QED
    BY <2>4, <2>5
<1>8. ASSUME NEW c, NEW vals, NEW v, ValsInOrder(vals, ring, last),
             Present(vals, ring, c, v)
      PROVE  Present(Next1(c, vals), new, c, v)
  <2>1. vals \in Seq(1 .. last) /\ Len(vals) \in Nat
    BY <1>8, LenProperties DEF ValsInOrder
  <2>2. /\ Len(Append(vals, u)) = Len(vals) + 1
        /\ \A k \in 1 .. Len(vals) : Append(vals, u)[k] = vals[k]
        /\ Append(vals, u)[Len(vals) + 1] = u
    BY <1>3, <2>1, AppendProperties
  <2>3. CASE \E k \in 1 .. Len(vals) : vals[k] = v
    <3>1. \E k \in 1 .. Len(Next1(c, vals)) : Next1(c, vals)[k] = v
      BY <2>1, <2>2, <2>3
    <3> QED
      BY <3>1 DEF Present
  <2>4. CASE \E k \in 1 .. Len(ring) : ring[k] = [cpu |-> c, uid |-> v]
    <3>1. PICK k \in 1 .. Len(ring) : ring[k] = [cpu |-> c, uid |-> v]
      BY <2>4
    <3>2. CASE k = 1
      <4>1. c = d /\ u = v
        BY <1>4, <3>1, <3>2
      <4>2. Len(vals) + 1 \in 1 .. Len(Append(vals, u))
        BY <2>1, <2>2
      <4> QED
        BY <2>2, <4>1, <4>2 DEF Present
    <3>3. CASE k # 1
      <4>1. k - 1 \in 1 .. Len(new) /\ (k - 1) + 1 = k
        BY <1>1, <3>3
      <4>2. new[k - 1] = [cpu |-> c, uid |-> v]
        BY <1>1, <3>1, <4>1
      <4> QED
        BY <4>1, <4>2 DEF Present
    <3> QED
      BY <3>2, <3>3
  <2> QED
    BY <1>8, <2>3, <2>4 DEF Present
<1> QED
  BY <1>5, <1>7, <1>8 DEF d, u, new

\* The register values AddInstruction keeps.
Kept(vals, u) == SubSeq(Remaining(vals, u), 2, Len(Remaining(vals, u)))

\* AddInstruction finds the register values it needs at the front, once the
\* older ones are dropped, and keeps the younger ones.
LEMMA ValuesTaken ==
    ASSUME NEW last \in Nat, NEW vals, ValsInOrder(vals, <<>>, last),
           NEW i \in 1 .. Len(vals)
    PROVE  /\ Remaining(vals, vals[i]) # <<>> /\ Remaining(vals, vals[i])[1] = vals[i]
           /\ ValsInOrder(Kept(vals, vals[i]), <<>>, last)
           /\ Len(Kept(vals, vals[i])) = Len(vals) - i
           /\ \A k \in i + 1 .. Len(vals) : Kept(vals, vals[i])[k - i] = vals[k]
<1>1. /\ vals \in Seq(1 .. last) /\ Len(vals) \in Nat
      /\ vals \in [1 .. Len(vals) -> 1 .. last] /\ DOMAIN vals = 1 .. Len(vals)
      /\ \A j, k \in 1 .. Len(vals) : j < k => vals[j] < vals[k]
  BY LenProperties DEF ValsInOrder
<1>2. Older(vals, vals[i]) = 1 .. i - 1
  <2>1. ASSUME NEW k \in Older(vals, vals[i]) PROVE k \in 1 .. i - 1
    <3>1. k \in 1 .. Len(vals) /\ \A j \in 1 .. k : vals[j] < vals[i]
      BY <1>1, <2>1 DEF Older
    <3>2. ~(i <= k)
      <4>1. i <= k => i \in 1 .. k
        BY <3>1
      <4>2. vals[i] \in Int
        BY <1>1
      <4> QED
        BY <3>1, <4>1, <4>2
    <3> QED
      BY <3>1, <3>2
  <2>2. ASSUME NEW k \in 1 .. i - 1 PROVE k \in Older(vals, vals[i])
    <3>1. k \in 1 .. Len(vals) /\ \A j \in 1 .. k : j \in 1 .. Len(vals) /\ j < i
      BY <1>1
    <3> QED
      BY <1>1, <3>1 DEF Older
  <2> QED
    BY <2>1, <2>2
<1>3. Cardinality(1 .. i - 1) = i - 1
  <2>1. i - 1 \in Int /\ 1 \in Int
    OBVIOUS
  <2>2. Cardinality(1 .. i - 1) = IF 1 > i - 1 THEN 0 ELSE (i - 1) - 1 + 1
    BY <2>1, FS_Interval
  <2> QED
    BY <2>2
<1>4. PICK rest : rest = SubSeq(vals, i, Len(vals))
  OBVIOUS
<1>5. Remaining(vals, vals[i]) = rest
  <2>1. (i - 1) + 1 = i
    OBVIOUS
  <2> QED
    BY <1>2, <1>3, <1>4, <2>1 DEF Remaining
<1>6. /\ rest \in Seq(1 .. last) /\ Len(rest) = (Len(vals) - i) + 1
      /\ \A k \in 1 .. Len(rest) : rest[k] = vals[(i + k) - 1]
  <2>1. \A k \in i .. Len(vals) : vals[k] \in 1 .. last
    BY <1>1
  <2>2. i \in Int /\ Len(vals) \in Int /\ i <= Len(vals)
    BY <1>1
  <2> QED
    BY <1>4, <2>1, <2>2, SubSeqProperties
<1>7. PICK new : new = SubSeq(rest, 2, Len(rest))
  OBVIOUS
<1>8. /\ new \in Seq(1 .. last) /\ Len(new) = Len(vals) - i
      /\ \A k \in 1 .. Len(new) : new[k] = rest[k + 1]
  <2>1. Len(rest) \in Nat /\ rest \in [1 .. Len(rest) -> 1 .. last]
    BY <1>6, LenProperties
  <2>2. \A k \in 2 .. Len(rest) : rest[k] \in 1 .. last
    BY <2>1
  <2>3. /\ new \in Seq(1 .. last)
        /\ Len(new) = IF 2 <= Len(rest) THEN Len(rest) - 2 + 1 ELSE 0
        /\ \A k \in 1 .. Len(rest) - 2 + 1 : new[k] = rest[2 + k - 1]
    BY <1>7, <2>1, <2>2, SubSeqProperties
  <2>4. Len(new) = Len(vals) - i
    <3>0. Len(vals) \in Nat /\ Len(rest) \in Nat /\ i \in Nat /\ i <= Len(vals)
      BY <1>1, <2>1
    <3>1. PICK l \in Nat, r \in Nat, j \in Nat :
            l = Len(vals) /\ r = Len(rest) /\ j = i /\ j <= l
      BY <3>0, Zenon
    <3>2. r = (l - j) + 1
      BY <1>6, <3>1
    <3>3. Len(new) = IF 2 <= r THEN r - 2 + 1 ELSE 0
      BY <2>3, <3>1
    <3>4. Len(new) = l - j
      BY <3>1, <3>2, <3>3
    <3> QED
      BY <3>1, <3>4
  <2>5. \A k \in 1 .. Len(new) : k \in 1 .. Len(rest) - 2 + 1 /\ 2 + k - 1 = k + 1
    BY <1>1, <1>6, <2>4
  <2> QED
    BY <2>3, <2>4, <2>5
<1>9. \A k \in 1 .. Len(new) : new[k] = vals[i + k] /\ i + k \in 1 .. Len(vals)
  <2>1. \A k \in 1 .. Len(new) : k + 1 \in 1 .. Len(rest) /\ (i + (k + 1)) - 1 = i + k
    BY <1>1, <1>6, <1>8
  <2>2. \A k \in 1 .. Len(new) : i + k \in 1 .. Len(vals)
    BY <1>1, <1>8
  <2> QED
    BY <1>6, <1>8, <2>1, <2>2
<1>10. ValsInOrder(new, <<>>, last)
  <2>1. ASSUME NEW j \in 1 .. Len(new), NEW k \in 1 .. Len(new), j < k
        PROVE  new[j] < new[k]
    <3>1. i + j < i + k
      BY <2>1
    <3> QED
      BY <1>1, <1>9, <3>1
  <2>2. 1 .. Len(<<>>) = {}
    OBVIOUS
  <2> QED
    BY <1>8, <2>1, <2>2 DEF ValsInOrder
<1>11. rest # <<>> /\ rest[1] = vals[i]
  <2>1. 1 \in 1 .. Len(rest) /\ (i + 1) - 1 = i
    BY <1>1, <1>6
  <2> QED
    BY <1>6, <2>1
<1>12. \A k \in i + 1 .. Len(vals) : new[k - i] = vals[k]
  <2>1. \A k \in i + 1 .. Len(vals) : k - i \in 1 .. Len(new) /\ i + (k - i) = k
    BY <1>1, <1>8
  <2> QED
    BY <1>9, <2>1
<1>13. Kept(vals, vals[i]) = new
  BY <1>5, <1>7 DEF Kept
<1> QED
  BY <1>5, <1>8, <1>10, <1>11, <1>12, <1>13
\* Publishing an instruction whose register values are the last ones sent.
LEMMA NeedsPublished ==
    ASSUME NEW last \in Nat, NEW S, NEW q \in Seq(S), NEW vals, NEW ring, NEW c,
           Needs(q, vals, ring, c, last), NEW x \in S, x.regs \in 0 .. last,
           x.regs # 0 => /\ Present(vals, ring, c, x.regs)
                         /\ \A k \in 1 .. Len(q) : q[k].regs < x.regs
    PROVE  Needs(Append(q, x), vals, ring, c, last)
<1>1. PICK new : new = Append(q, x)
  OBVIOUS
<1>2. /\ Len(new) = Len(q) + 1 /\ Len(q) \in Nat
      /\ \A k \in 1 .. Len(q) : new[k] = q[k]
      /\ new[Len(q) + 1] = x
  BY <1>1, AppendProperties, LenProperties
<1>3. \A k \in 1 .. Len(new) : k \in 1 .. Len(q) \/ k = Len(q) + 1
  BY <1>2
<1>4. ASSUME NEW k \in 1 .. Len(new)
      PROVE  /\ new[k].regs \in 0 .. last
             /\ new[k].regs # 0 => Present(vals, ring, c, new[k].regs)
  <2>1. CASE k \in 1 .. Len(q)
    BY <1>2, <2>1 DEF Needs
  <2>2. CASE k = Len(q) + 1
    BY <1>2, <2>2
  <2> QED
    BY <1>3, <2>1, <2>2
<1>5. ASSUME NEW j \in 1 .. Len(new), NEW k \in 1 .. Len(new), j < k,
             new[j].regs # 0, new[k].regs # 0
      PROVE  new[j].regs < new[k].regs
  <2>1. j \in 1 .. Len(q)
    BY <1>2, <1>5
  <2>2. CASE k \in 1 .. Len(q)
    BY <1>2, <1>5, <2>1, <2>2 DEF Needs
  <2>3. CASE k = Len(q) + 1
    BY <1>2, <1>5, <2>1, <2>3
  <2> QED
    BY <1>3, <2>2, <2>3
<1>6. Needs(new, vals, ring, c, last)
  BY <1>4, <1>5 DEF Needs
<1> QED
  BY <1>1, <1>6

\* Taking an instruction and its register values over.
LEMMA NeedsTaken ==
    ASSUME NEW last \in Nat, NEW S, NEW q \in Seq(S), q # <<>>, NEW vals, NEW c,
           Needs(q, vals, <<>>, c, last), ValsInOrder(vals, <<>>, last)
    PROVE  LET u == q[1].regs
               new == Kept(vals, u)
           IN  /\ u = 0 => Needs(Tail(q), vals, <<>>, c, last)
               /\ u # 0 => /\ Remaining(vals, u) # <<>> /\ Remaining(vals, u)[1] = u
                           /\ ValsInOrder(new, <<>>, last)
                           /\ Needs(Tail(q), new, <<>>, c, last)
                           /\ \A v \in Int : v > u /\ Present(vals, <<>>, c, v)
                                => Present(new, <<>>, c, v)
<1> DEFINE u == q[1].regs
           rest == Remaining(vals, u)
           new == Kept(vals, u)
<1>1. PICK t : t = Tail(q)
  OBVIOUS
<1>2. /\ Len(t) = Len(q) - 1 /\ Len(q) \in Nat /\ Len(q) >= 1
      /\ \A k \in 1 .. Len(t) : t[k] = q[k + 1]
  BY <1>1, HeadTailProperties, EmptySeq, LenProperties
<1>3. /\ 1 \in 1 .. Len(q)
      /\ \A k \in 1 .. Len(t) : k + 1 \in 1 .. Len(q) /\ 1 < k + 1
  BY <1>2
<1>4. /\ \A k \in 1 .. Len(q) : /\ q[k].regs \in 0 .. last
                                /\ q[k].regs # 0 => Present(vals, <<>>, c, q[k].regs)
      /\ \A j, k \in 1 .. Len(q) :
            j < k /\ q[j].regs # 0 /\ q[k].regs # 0 => q[j].regs < q[k].regs
  BY DEF Needs
<1>5. ASSUME NEW j \in 1 .. Len(t), NEW k \in 1 .. Len(t), j < k,
             t[j].regs # 0, t[k].regs # 0
      PROVE  t[j].regs < t[k].regs
  <2>1. j + 1 < k + 1
    BY <1>5
  <2> QED
    BY <1>2, <1>3, <1>4, <1>5, <2>1
<1>6. Needs(t, vals, <<>>, c, last)
  BY <1>2, <1>3, <1>4, <1>5 DEF Needs
<1>7. ASSUME u # 0
      PROVE  /\ rest # <<>> /\ rest[1] = u
             /\ ValsInOrder(new, <<>>, last)
             /\ Needs(t, new, <<>>, c, last)
             /\ \A v \in Int : v > u /\ Present(vals, <<>>, c, v)
                    => Present(new, <<>>, c, v)
  <2>1. 1 .. Len(<<>>) = {}
    OBVIOUS
  <2>2. PICK i \in 1 .. Len(vals) : vals[i] = u
    BY <1>3, <1>4, <1>7, <2>1 DEF Present
  <2>3. /\ rest # <<>> /\ rest[1] = u /\ ValsInOrder(new, <<>>, last)
        /\ Len(new) = Len(vals) - i
        /\ \A k \in i + 1 .. Len(vals) : new[k - i] = vals[k]
    BY <2>2, ValuesTaken
  <2>4. /\ Len(vals) \in Nat /\ vals \in [1 .. Len(vals) -> 1 .. last]
        /\ \A j, k \in 1 .. Len(vals) : j < k => vals[j] < vals[k]
    BY LenProperties DEF ValsInOrder
  <2> HIDE DEF u, rest, new
  <2>5. ASSUME NEW v \in Int, v > u, Present(vals, <<>>, c, v)
        PROVE  Present(new, <<>>, c, v)
    <3>1. PICK k \in 1 .. Len(vals) : vals[k] = v
      BY <2>1, <2>5 DEF Present
    <3>2. ~(k < i) /\ k # i
      <4>1. u \in Int
        BY <2>2, <2>4
      <4> QED
        BY <2>2, <2>4, <2>5, <3>1, <4>1
    <3>3. k \in i + 1 .. Len(vals) /\ k - i \in 1 .. Len(new)
      BY <2>3, <2>4, <3>2
    <3> QED
      BY <2>3, <3>1, <3>3 DEF Present
  <2>6. ASSUME NEW k \in 1 .. Len(t), t[k].regs # 0
        PROVE  Present(new, <<>>, c, t[k].regs)
    <3>1. k + 1 \in 1 .. Len(q) /\ 1 < k + 1 /\ t[k] = q[k + 1]
      BY <1>2, <1>3
    <3>2. q[k + 1].regs > u /\ q[k + 1].regs \in Int
      BY <1>3, <1>4, <1>7, <2>6, <3>1 DEF u
    <3> QED
      BY <1>4, <2>5, <2>6, <3>1, <3>2
  <2>7. Needs(t, new, <<>>, c, last)
    BY <1>6, <2>6 DEF Needs
  <2> QED
    BY <2>3, <2>5, <2>7
<1> QED
  BY <1>1, <1>6, <1>7

-----------------------------------------------------------------------------
(* Groups and traps.                                                       *)

LEMMA LeastOfNats ==
    ASSUME NEW T \in SUBSET Nat, T # {}
    PROVE  \E m \in T : \A k \in T : m <= k
<1>1. PICK m \in T : \A y \in T : ~(<<y, m>> \in OpToRel(<, Nat))
  BY WFMin, NatLessThanWellFounded
<1>2. ASSUME NEW k \in T PROVE m <= k
  <2>1. ~(<<k, m>> \in OpToRel(<, Nat))
    BY <1>1
  <2>2. ~(k < m)
    BY <2>1 DEF OpToRel
  <2> QED
    BY <2>2
<1> QED
  BY <1>1, <1>2

\* step_reference ends the group within the request and the program, before
\* the next trap.
LEMMA GroupSizeFits ==
    ASSUME NEW c \in Cpus, NEW e \in Nat, e = executed[c], e < Len(Stream[c]),
           NEW m \in Nat, m >= 1
    PROVE  \E g \in 1 .. m :
            /\ GroupSize(c, m) = e + g
            /\ e + g <= Len(Stream[c])
            /\ \A k \in e + 2 .. e + g : Kind(c, k) # "trap"
<1> DEFINE len == Len(Stream[c])
           Ends(k) == k = e + m \/ k = len \/ Kind(c, k + 1) = "trap"
           T == {k \in e + 1 .. e + m : Ends(k)}
<1>1. len \in Nat
  BY SoundSizes
<1> HIDE DEF len
<1>2. T \in SUBSET Nat /\ e + m \in T
  BY DEF T
<1>3. PICK k0 \in T : \A k \in T : k0 <= k
  <2> HIDE DEF T
  <2> QED
    BY <1>2, LeastOfNats
<1>4. k0 \in e + 1 .. e + m /\ Ends(k0) /\ \A j \in e + 1 .. k0 - 1 : ~Ends(j)
  BY <1>3
<1>5. GroupSize(c, m) =
        CHOOSE k \in e + 1 .. e + m : Ends(k) /\ \A j \in e + 1 .. k - 1 : ~Ends(j)
  BY DEF GroupSize, len
<1>6. PICK k1 : k1 = GroupSize(c, m)
  OBVIOUS
<1>7. k1 \in e + 1 .. e + m /\ \A j \in e + 1 .. k1 - 1 : ~Ends(j)
  <2> HIDE DEF Ends
  <2> QED
    BY <1>4, <1>5, <1>6
<1>8. k1 <= len
  <2>1. len \in e + 1 .. k1 - 1 \/ k1 <= len
    BY <1>1, <1>7 DEF len
  <2> QED
    BY <1>7, <2>1
<1>9. ASSUME NEW k \in e + 2 .. k1 PROVE Kind(c, k) # "trap"
  <2>1. k - 1 \in e + 1 .. k1 - 1 /\ (k - 1) + 1 = k
    BY <1>7
  <2> QED
    BY <1>7, <2>1
<1>10. PICK g : g = k1 - e
  OBVIOUS
<1>11. g \in 1 .. m /\ k1 = e + g
  BY <1>7, <1>10
<1> QED
  BY <1>6, <1>8, <1>9, <1>11 DEF len

LEMMA TrapsFinite ==
    /\ IsFiniteSet(Traps) /\ Cardinality(Traps) \in Nat
    /\ \A p : p \in Traps <=> \E c \in Cpus : \E k \in 1 .. Len(Stream[c]) :
                                p = <<c, k>> /\ Kind(c, k) = "trap"
<1> DEFINE Of == [c \in Cpus |-> {c} \X DOMAIN Stream[c]]
           All == {{c} \X DOMAIN Stream[c] : c \in Cpus}
<1>1. \A c \in Cpus : IsFiniteSet({c} \X DOMAIN Stream[c])
  <2> TAKE c \in Cpus
  <2>1. IsFiniteSet({c}) /\ IsFiniteSet(1 .. Len(Stream[c]))
    <3>1. 1 \in Int /\ Len(Stream[c]) \in Int
      BY SoundSizes
    <3> QED
      BY <3>1, FS_Singleton, FS_Interval
  <2> QED
    BY <2>1, SoundSizes, FS_Product
<1>2. IsFiniteSet(All)
  <2>1. Of \in Surjection(Cpus, All)
    BY DEF Surjection
  <2> QED
    BY <2>1, LinkAssumption, FS_Surjection
<1>3. IsFiniteSet(UNION All)
  <2>1. \A T \in All : IsFiniteSet(T)
    BY <1>1
  <2> HIDE DEF All
  <2> QED
    BY <1>2, <2>1, FS_UNION
<1>4. Traps \in SUBSET UNION All
  BY DEF Traps
<1> HIDE DEF All
<1>5. IsFiniteSet(Traps)
  BY <1>3, <1>4, FS_Subset
<1>6. Cardinality(Traps) \in Nat
  BY <1>5, FS_CardinalityType
<1>7. \A p : p \in Traps <=> \E c \in Cpus : \E k \in 1 .. Len(Stream[c]) :
                                p = <<c, k>> /\ Kind(c, k) = "trap"
  BY SoundSizes DEF Traps
<1> QED
  BY <1>5, <1>6, <1>7
-----------------------------------------------------------------------------
(* The steps.                                                              *)

InstrRings(c) == RingsOf(InstrEntries, Instr(c) \cup {NoInstr})
NTraps == Cardinality(Traps)

\* What the type invariants say of the rings.
LEMMA RingFacts ==
    ASSUME LInv, SInv
    PROVE  /\ regRing \in RingsOf(RegEntries, RegValue(NTraps))
           /\ RegQueue \in Seq(RegValue(NTraps))
           /\ requestRing \in RequestRings
           /\ \A c \in Cpus :
                /\ instrRing[c] \in InstrRings(c)
                /\ InstrQueue(c) \in Seq(Instr(c) \cup {NoInstr})
                /\ Len(InstrQueue(c)) = NReadSlotsAvailable(InstrEntries, instrRing[c])
                /\ NReadSlotsAvailable(InstrEntries, instrRing[c]) \in Nat
           /\ instrRing \in [Cpus -> RingRecords(InstrEntries)]
           /\ NTraps \in Nat
<1>1. /\ regRing \in RingsOf(RegEntries, RegValue(NTraps))
      /\ requestRing \in RequestRings
      /\ \A c \in Cpus : instrRing[c] \in InstrRings(c)
  BY DEF SInv, TypeOK, RingsOf, RegValue, NTraps, RequestRings, InstrRings
<1>2. RegQueue \in Seq(RegValue(NTraps))
  BY <1>1, SoundSizes, ContentsEntries DEF RegQueue
<1>3. ASSUME NEW c \in Cpus
      PROVE  /\ InstrQueue(c) \in Seq(Instr(c) \cup {NoInstr})
             /\ Len(InstrQueue(c)) = NReadSlotsAvailable(InstrEntries, instrRing[c])
             /\ NReadSlotsAvailable(InstrEntries, instrRing[c]) \in Nat
  <2>1. PICK S : S = Instr(c) \cup {NoInstr}
    OBVIOUS
  <2>2. instrRing[c] \in RingsOf(InstrEntries, S)
    BY <1>1, <2>1 DEF InstrRings
  <2>3. /\ InstrQueue(c) \in Seq(S)
        /\ Len(InstrQueue(c)) = NReadSlotsAvailable(InstrEntries, instrRing[c])
        /\ Len(InstrQueue(c)) \in 0 .. InstrEntries - 1
    BY <2>2, Sizes, ContentsEntries DEF InstrQueue
  <2> QED
    BY <2>1, <2>3, Sizes
<1>4. instrRing \in [Cpus -> RingRecords(InstrEntries)]
  BY DEF LInv, LinkTypes
<1> QED
  BY <1>1, <1>2, <1>3, <1>4, TrapsFinite DEF NTraps

LEMMA Frames ==
    ASSUME SInv
    PROVE  /\ UNCHANGED <<executed, sdv>> => GroupFits'
           /\ UNCHANGED <<executed, sdv, regsUid>> => UidsCount'
           /\ UNCHANGED <<regRing, regValues, regsUid>> => ValuesInOrder'
           /\ UNCHANGED <<regRing, regValues, regsUid, instrRing, sdv>> => NeedsInOrder'
           /\ UNCHANGED <<instrRing, requestRing, sdv, asim>> => Credits'
           /\ UNCHANGED asim => ReadsChunk'
           /\ UNCHANGED err => NoLinkError'
<1>1. UNCHANGED <<executed, sdv>> => GroupFits'
  BY DEF SInv, GroupFits, InGroup, Serving
<1>2. UNCHANGED <<executed, sdv, regsUid>> => UidsCount'
  BY DEF SInv, UidsCount, Sent, Begun, InGroup
<1>3. UNCHANGED <<regRing, regValues, regsUid>> => ValuesInOrder'
  BY DEF SInv, ValuesInOrder, RegQueue
<1>4. UNCHANGED <<regRing, regValues, regsUid, instrRing, sdv>> => NeedsInOrder'
  BY DEF SInv, NeedsInOrder, RegQueue, InstrQueue, InGroup
<1>5. UNCHANGED <<instrRing, requestRing, sdv, asim>> => Credits'
  BY DEF SInv, Credits, Executing, Unpaid, Serving, Reading
<1>6. UNCHANGED asim => ReadsChunk'
  BY DEF SInv, ReadsChunk
<1>7. UNCHANGED err => NoLinkError'
  BY DEF SInv, NoLinkError
<1> QED
  BY <1>1, <1>2, <1>3, <1>4, <1>5, <1>6, <1>7

\* The four terms of a CPU's account are integers.
LEMMA CreditTypes ==
    ASSUME LInv, SInv, NEW c \in Cpus
    PROVE  /\ NReadSlotsAvailable(InstrEntries, instrRing[c]) \in Nat
           /\ Cardinality(Asked(requestRing, c)) \in Nat
           /\ Executing(c) \in Nat /\ Unpaid(c) \in Nat
           /\ ((NReadSlotsAvailable(InstrEntries, instrRing[c])
                + Cardinality(Asked(requestRing, c))) + Executing(c)) + Unpaid(c)
                <= WarmupChunk
<1>1. Executing(c) \in Nat
  BY Sizes DEF SInv, TypeOK, Executing
<1>2. Unpaid(c) \in Nat
  <2>1. asim.chunk \in Nat /\ asim.left \in 0 .. asim.chunk
    BY Sizes DEF LInv, LinkTypes, SInv, ReadsChunk
  <2>2. asim.chunk - asim.left \in Nat
    BY <2>1
  <2> QED
    BY <2>2 DEF Unpaid
<1> QED
  BY <1>1, <1>2, RingFacts, AskedFinite DEF SInv, Credits

LEMMA TakeRequestSInv == LInv /\ SInv /\ TakeRequest => SInv'
<1> SUFFICES ASSUME LInv, SInv, TakeRequest PROVE SInv'
  OBVIOUS
<1>1. PICK request \in Request : request = Opened(requestRing)
  BY RingFacts DEF RequestRings, RingsOf, Opened
<1>2. request.cpu \in Cpus /\ request.n \in 1 .. WarmupChunk /\ WarmupChunk \in Nat
  BY Sizes, SoundSizes DEF Request
<1>3. /\ sdv.at = "execute"
      /\ sdv' = [sdv EXCEPT !.at = "group", !.cpu = request.cpu, !.remaining = request.n]
      /\ requestRing' = Released(RequestEntries, requestRing)
      /\ UNCHANGED <<instrRing, regRing, sdvActive, asimActive, err, sdvAlive, executed,
                     regsUid, asim, regValues, warm, ended>>
  BY <1>1 DEF TakeRequest, SdvAt, asimVars
<1>4. requestRing.reader # requestRing.writer
  <2>1. RingSlots(RequestEntries, requestRing)
    BY RingFacts DEF RequestRings, RingsOf, RingSlots
  <2> QED
    BY <2>1, Sizes, RingFill DEF TakeRequest
<1>5. requestRing' \in RequestRings
  BY <1>3, <1>4, RingFacts, Sizes, ContentsReleased DEF RequestRings
<1>6. /\ sdv'.at = "group" /\ sdv'.cpu = request.cpu /\ sdv'.remaining = request.n
      /\ sdv' \in [at : {"execute", "blocked", "group", "step", "close", "stopped"},
                   cpu : Cpus, remaining : 0 .. WarmupChunk, group : 0 .. WarmupChunk,
                   regs : 0 .. Cardinality(Traps)]
  <2>1. sdv \in [at : {"execute", "blocked", "group", "step", "close", "stopped"},
                 cpu : Cpus, remaining : 0 .. WarmupChunk, group : 0 .. WarmupChunk,
                 regs : 0 .. Cardinality(Traps)]
    BY DEF SInv, TypeOK
  <2>2. request.n \in 0 .. WarmupChunk
    BY <1>2
  <2> QED
    BY <1>2, <1>3, <2>1, <2>2
<1>7. TypeOK'
  BY <1>3, <1>5, <1>6 DEF SInv, TypeOK, RequestRings, RingsOf
<1>8. GroupFits'
  BY <1>2, <1>3, <1>6 DEF SInv, GroupFits, InGroup, Serving
<1>9. UidsCount'
  <2>1. \A c : Begun(c)' = Begun(c)
    BY <1>3, <1>6 DEF Begun, InGroup
  <2> QED
    BY <1>3, <2>1 DEF SInv, UidsCount, Sent
<1>10. NeedsInOrder'
  BY <1>3, <1>6 DEF SInv, NeedsInOrder, InGroup, RegQueue, InstrQueue
<1>11. Credits'
  <2> SUFFICES ASSUME NEW c \in Cpus
               PROVE  ((NReadSlotsAvailable(InstrEntries, instrRing[c])
                        + Cardinality(Asked(requestRing', c))) + Executing(c)')
                        + Unpaid(c) <= WarmupChunk
    BY <1>3 DEF Credits, Unpaid, Reading
  <2>1. Cardinality(Asked(requestRing', c)) =
            IF request.cpu = c THEN Cardinality(Asked(requestRing, c)) - request.n
            ELSE Cardinality(Asked(requestRing, c))
    BY <1>1, <1>3, <1>4, RingFacts, AskedTaken
  <2>2. Executing(c) = 0
    BY <1>3 DEF Executing, Serving
  <2>3. Executing(c)' = IF request.cpu = c THEN request.n ELSE 0
    BY <1>6 DEF Executing, Serving
  <2> QED
    BY <1>2, <2>1, <2>2, <2>3, CreditTypes
<1> QED
  BY <1>3, <1>7, <1>8, <1>9, <1>10, <1>11, Frames DEF SInv

\* Waiting, giving up, dying: no request is being served afterwards, or nothing
\* of the state of SoftSDV changes.
LEMMA SdvStopsSInv ==
    ASSUME LInv, SInv, sdvActive' \in BOOLEAN, sdvAlive' \in BOOLEAN,
           UNCHANGED <<instrRing, regRing, requestRing, asimActive, err, executed,
                       regsUid, asimVars>>,
           \/ sdv' = sdv
           \/ \E place \in {"execute", "blocked", "stopped"} :
                ~InGroup /\ sdv' = [sdv EXCEPT !.at = place]
    PROVE  SInv'
<1>1. CASE sdv' = sdv
  BY <1>1, Frames DEF SInv, TypeOK, asimVars
<1>2. ASSUME NEW place \in {"execute", "blocked", "stopped"},
             ~InGroup, sdv' = [sdv EXCEPT !.at = place]
      PROVE  SInv'
  <2>1. /\ sdv'.at = place /\ sdv'.cpu = sdv.cpu
        /\ sdv' \in [at : {"execute", "blocked", "group", "step", "close", "stopped"},
                     cpu : Cpus, remaining : 0 .. WarmupChunk, group : 0 .. WarmupChunk,
                     regs : 0 .. Cardinality(Traps)]
    BY <1>2 DEF SInv, TypeOK
  <2>2. TypeOK'
    BY <2>1 DEF SInv, TypeOK, asimVars
  <2>3. GroupFits'
    BY <1>2, <2>1 DEF SInv, GroupFits, InGroup, Serving
  <2>4. UidsCount'
    <3>1. \A c : Begun(c)' = Begun(c)
      BY <1>2, <2>1 DEF Begun, InGroup
    <3> QED
      BY <3>1 DEF SInv, UidsCount, Sent
  <2>5. NeedsInOrder'
    BY <2>1 DEF SInv, NeedsInOrder, InGroup, RegQueue, InstrQueue, asimVars
  <2>6. Credits'
    <3> SUFFICES ASSUME NEW c \in Cpus
                 PROVE  ((NReadSlotsAvailable(InstrEntries, instrRing[c])
                          + Cardinality(Asked(requestRing, c))) + Executing(c)')
                          + Unpaid(c) <= WarmupChunk
      BY DEF Credits, Unpaid, Reading, asimVars
    <3>1. Executing(c)' = 0
      BY <2>1 DEF Executing, Serving
    <3>2. WarmupChunk \in Nat
      BY Sizes
    <3> QED
      BY <3>1, <3>2, CreditTypes
  <2> QED
    BY <2>2, <2>3, <2>4, <2>5, <2>6, Frames DEF SInv, asimVars
<1> QED
  BY <1>1, <1>2
SdvPlaces == {"execute", "blocked", "group", "step", "close", "stopped"}
SdvType(s) ==
    s \in [at : SdvPlaces, cpu : Cpus, remaining : 0 .. WarmupChunk,
           group : 0 .. WarmupChunk, regs : 0 .. Cardinality(Traps)]

\* What a group's beginning leaves true whatever its registers: it fits, and
\* the instruction ring has room for the request.
LEMMA BeginGroupFits ==
    ASSUME LInv, SInv, sdv.at = "group", executed[sdv.cpu] < Len(Stream[sdv.cpu]),
           NEW regs \in 0 .. Cardinality(Traps), BeginGroup(regs),
           regs # 0 <=> NeedsRegisters(sdv.cpu)
    PROVE  /\ SdvType(sdv') /\ sdv'.at = "step" /\ sdv'.cpu = sdv.cpu /\ sdv'.regs = regs
           /\ GroupFits' /\ Credits' /\ err' = err
<1>1. PICK c \in Cpus : c = sdv.cpu
  BY DEF SInv, TypeOK
<1>2. PICK e \in Nat : e = executed[c]
  BY DEF LInv, LinkTypes
<1>3. PICK m \in 1 .. WarmupChunk : m = sdv.remaining
  <2>1. sdv.remaining \in 0 .. WarmupChunk /\ sdv.remaining >= 1
    BY DEF SInv, TypeOK, GroupFits, Serving
  <2> QED
    BY <2>1, Sizes
<1>4. PICK g \in 1 .. m : /\ GroupSize(c, m) = e + g
                          /\ e + g <= Len(Stream[c])
                          /\ \A k \in e + 2 .. e + g : Kind(c, k) # "trap"
  <2>1. m \in Nat /\ m >= 1
    BY <1>3, Sizes
  <2> QED
    BY <1>1, <1>2, <2>1, GroupSizeFits, ZenonT(30)
<1>5. sdv' = [sdv EXCEPT !.at = "step", !.regs = regs, !.group = g]
  <2>1. (e + g) - e = g
    BY <1>4
  <2> QED
    BY <1>1, <1>2, <1>3, <1>4, <2>1 DEF BeginGroup
<1>6. /\ SdvType(sdv') /\ sdv'.at = "step" /\ sdv'.cpu = c /\ sdv'.regs = regs
      /\ sdv'.group = g /\ sdv'.remaining = m
  <2>1. SdvType(sdv)
    BY DEF SInv, TypeOK, SdvType, SdvPlaces
  <2>2. g \in 0 .. WarmupChunk
    BY <1>3, <1>4, Sizes
  <2> QED
    BY <1>1, <1>3, <1>5, <2>1, <2>2 DEF SdvType, SdvPlaces
<1>7. UNCHANGED <<instrRing, requestRing, executed, asim>>
  BY DEF BeginGroup, asimVars
<1>8. GroupFits'
  <2>1. sdv'.remaining >= 1
    BY <1>3, <1>6
  <2>2. regs # 0 <=> Kind(c, e + 1) = "trap"
    BY <1>1, <1>2 DEF NeedsRegisters
  <2>3. executed' = executed /\ \A d \in Cpus : executed[d] <= Len(Stream[d])
    BY <1>7 DEF SInv, GroupFits
  <2>4. sdv'.group \in 1 .. sdv'.remaining
    BY <1>4, <1>6
  <2> QED
    BY <1>2, <1>4, <1>6, <2>1, <2>2, <2>3, <2>4 DEF GroupFits, InGroup
<1>9. Credits'
  <2>1. \A d : Executing(d)' = Executing(d)
    BY <1>1, <1>3, <1>6 DEF Executing, Serving
  <2> QED
    BY <1>7, <2>1 DEF SInv, Credits, Unpaid, Reading
<1>10. err' = err
  <2>1. PICK used \in Nat : /\ used = NReadSlotsAvailable(InstrEntries, instrRing[c])
                            /\ used + m <= WarmupChunk
    <3>1. Executing(c) = m
      BY <1>1, <1>3 DEF Executing, Serving
    <3> QED
      BY <1>3, <3>1, CreditTypes, Sizes, SMTT(30)
  <2>2. NWriteSlotsAvailable(InstrEntries, instrRing[c]) = InstrEntries - 1 - used
    <3>1. RingSlots(InstrEntries, instrRing[c])
      BY RingFacts DEF InstrRings, RingsOf, RingSlots
    <3> QED
      BY <2>1, <3>1, Sizes, RingFill
  <2>3. ~(NWriteSlotsAvailable(InstrEntries, instrRing[c]) < m)
    BY <1>3, <2>1, <2>2, Sizes, SoundSizes
  <2> QED
    BY <1>1, <1>3, <2>3 DEF BeginGroup
<1> QED
  BY <1>1, <1>6, <1>8, <1>9, <1>10

\* A group that starts without a trap.
LEMMA GroupSInv == LInv /\ SInv /\ Group => SInv'
<1> SUFFICES ASSUME LInv, SInv, Group PROVE SInv'
  OBVIOUS
<1>1. /\ sdv.at = "group" /\ executed[sdv.cpu] < Len(Stream[sdv.cpu])
      /\ ~NeedsRegisters(sdv.cpu) /\ BeginGroup(0)
      /\ UNCHANGED <<instrRing, regRing, requestRing, sdvActive, asimActive, sdvAlive,
                     executed, regsUid, asim, regValues, warm, ended>>
  BY DEF Group, SdvAt, BeginGroup, asimVars
<1>2. /\ SdvType(sdv') /\ sdv'.at = "step" /\ sdv'.cpu = sdv.cpu /\ sdv'.regs = 0
      /\ GroupFits' /\ Credits' /\ err' = err
  <2>1. 0 \in 0 .. Cardinality(Traps)
    BY TrapsFinite
  <2> QED
    BY <1>1, <2>1, BeginGroupFits
<1>3. TypeOK'
  BY <1>1, <1>2 DEF SInv, TypeOK, SdvType, SdvPlaces
<1>4. UidsCount'
  <2>1. ASSUME NEW p \in Traps PROVE p[2] <= Begun(p[1])' <=> p[2] <= Begun(p[1])
    <3>0. PICK d \in Cpus : \E k \in 1 .. Len(Stream[d]) : p = <<d, k>> /\ Kind(d, k) = "trap"
      BY <2>1, TrapsFinite
    <3>1. PICK k \in 1 .. Len(Stream[d]) : p = <<d, k>> /\ Kind(d, k) = "trap"
      BY <3>0
    <3>2. p[1] = d /\ p[2] = k /\ k \in Nat /\ executed[d] \in Nat
      BY <3>1, SoundSizes DEF LInv, LinkTypes
    <3>3. d = sdv.cpu => k # executed[d] + 1
      BY <1>1, <3>1 DEF NeedsRegisters
    <3>4. Begun(d) = executed[d] /\ Begun(d)' = IF d = sdv.cpu THEN executed[d] + 1 ELSE executed[d]
      BY <1>1, <1>2, <3>2 DEF Begun, InGroup
    <3> QED
      BY <3>2, <3>3, <3>4
  <2> QED
    BY <1>1, <2>1 DEF SInv, UidsCount, Sent
<1>5. NeedsInOrder'
  BY <1>1, <1>2 DEF SInv, NeedsInOrder, InGroup, RegQueue, InstrQueue
<1> QED
  BY <1>1, <1>2, <1>3, <1>4, <1>5, Frames DEF SInv

\* A group that starts with a trap, and the register values sent for it.
LEMMA GroupWithRegistersSInv == LInv /\ SInv /\ GroupWithRegisters => SInv'
<1> SUFFICES ASSUME LInv, SInv, GroupWithRegisters PROVE SInv'
  OBVIOUS
<1>1. CASE NWriteSlotsAvailable(RegEntries, regRing) = 0
  <2>1. /\ sdvAlive' = FALSE /\ sdvActive' = sdvActive /\ sdv' = sdv
        /\ UNCHANGED <<instrRing, regRing, requestRing, asimActive, err, executed,
                       regsUid, asimVars>>
    BY <1>1 DEF GroupWithRegisters
  <2>2. sdvActive \in BOOLEAN
    BY DEF SInv, TypeOK
  <2> QED
    BY <2>1, <2>2, SdvStopsSInv
<1>2. CASE NWriteSlotsAvailable(RegEntries, regRing) # 0
  <2>1. PICK c \in Cpus : c = sdv.cpu
    BY DEF SInv, TypeOK
  <2>2. PICK e \in Nat : e = executed[c]
    BY DEF LInv, LinkTypes
  <2>3. PICK u \in Nat : u = regsUid
    BY DEF LInv, LinkTypes
  <2>4. PICK x : x = [cpu |-> c, uid |-> u + 1]
    OBVIOUS
  <2>5. /\ sdv.at = "group" /\ e < Len(Stream[c])
        /\ NeedsRegisters(c) /\ BeginGroup(u + 1) /\ regsUid' = u + 1
        /\ regRing' = Published(RegEntries, Filled(regRing, x))
        /\ UNCHANGED <<instrRing, requestRing, sdvActive, asimActive, sdvAlive,
                       executed, asim, regValues, warm, ended>>
    BY <1>2, <2>1, <2>2, <2>3, <2>4 DEF GroupWithRegisters, SdvAt, BeginGroup, asimVars
  <2>6. /\ <<c, e + 1>> \in Traps /\ <<c, e + 1>> \notin Sent
        /\ Sent \subseteq Traps
    <3>1. e + 1 \in 1 .. Len(Stream[c]) /\ Kind(c, e + 1) = "trap"
      BY <2>2, <2>5, SoundSizes DEF NeedsRegisters
    <3>2. Begun(c) = e
      BY <2>2, <2>5 DEF Begun, InGroup
    <3>3. ~(e + 1 <= e)
      OBVIOUS
    <3> QED
      BY <3>1, <3>2, <3>3, TrapsFinite DEF Sent
  <2>7. PICK more : more = Sent \cup {<<c, e + 1>>}
    OBVIOUS
  <2>8. Cardinality(more) = u + 1 /\ u + 1 <= NTraps /\ NTraps \in Nat
    <3>1. IsFiniteSet(Sent)
      BY <2>6, TrapsFinite, FS_Subset
    <3>2. Cardinality(more) = Cardinality(Sent) + 1
      BY <2>6, <2>7, <3>1, FS_AddElement
    <3>3. Cardinality(more) <= Cardinality(Traps)
      BY <2>6, <2>7, TrapsFinite, FS_Subset
    <3>4. Cardinality(Sent) = u
      BY <2>3 DEF SInv, UidsCount
    <3> QED
      BY <3>2, <3>3, <3>4, TrapsFinite DEF NTraps
  <2>9. /\ SdvType(sdv') /\ sdv'.at = "step" /\ sdv'.cpu = c /\ sdv'.regs = u + 1
        /\ GroupFits' /\ Credits' /\ err' = err
    <3>1. u + 1 \in 0 .. Cardinality(Traps) /\ u + 1 # 0
      BY <2>8 DEF NTraps
    <3> QED
      BY <2>1, <2>2, <2>5, <3>1, BeginGroupFits
  <2>10. /\ regRing' \in RingsOf(RegEntries, RegValue(NTraps))
         /\ RegQueue' = Append(RegQueue, x)
    <3>1. PICK n \in Nat : n = RegEntries /\ n > 1
      BY SoundSizes
    <3>2. PICK mid : mid = Filled(regRing, x)
      OBVIOUS
    <3>3. x \in RegValue(NTraps)
      BY <2>4, <2>8 DEF RegValue
    <3>4. /\ mid \in RingsOf(n, RegValue(NTraps)) /\ mid.reader = regRing.reader
          /\ mid.writer = regRing.writer /\ Contents(n, mid) = RegQueue
          /\ mid.payload = [regRing.payload EXCEPT ![regRing.writer] = x]
      BY <3>1, <3>2, <3>3, RingFacts, ContentsFilled DEF RegQueue
    <3>5. mid.payload[mid.writer] = x
      BY <3>4, <3>1, RingFacts DEF RingsOf
    <3>6. After(n, mid.writer) # mid.reader
      <4>1. RingSlots(n, regRing)
        BY <3>1, RingFacts DEF RingsOf, RingSlots
      <4> QED
        BY <1>2, <3>1, <3>4, <4>1, RingFill
    <3>7. /\ Published(n, mid) \in RingsOf(n, RegValue(NTraps))
          /\ Contents(n, Published(n, mid)) = Append(Contents(n, mid), mid.payload[mid.writer])
      BY <3>1, <3>4, <3>6, ContentsPublished, ZenonT(30)
    <3> QED
      BY <2>5, <3>1, <3>2, <3>4, <3>5, <3>7 DEF RegQueue
  <2>11. /\ RingInOrder(RegQueue', u + 1)
         /\ \A vals : ValsInOrder(vals, RegQueue, u) => ValsInOrder(vals, RegQueue', u + 1)
         /\ \A q, vals, d : Needs(q, vals, RegQueue, d, u)
                                => Needs(q, vals, RegQueue', d, u + 1)
         /\ \A vals : Present(vals, RegQueue', c, u + 1)
    <3>1. RingInOrder(RegQueue, u) /\ RegQueue \in Seq(RegValue(NTraps))
      BY <2>3, RingFacts DEF SInv, ValuesInOrder
    <3>2. PICK rq : rq = RegQueue
      OBVIOUS
    <3> QED
      BY <2>4, <2>8, <2>10, <3>1, <3>2, ValuesSent
  <2>12. TypeOK'
    <3>1. regsUid' \in 0 .. Cardinality(Traps)
      BY <2>5, <2>8 DEF NTraps
    <3> QED
      BY <2>5, <2>9, <2>10, <3>1 DEF SInv, TypeOK, SdvType, SdvPlaces, RingsOf, RegValue, NTraps
  <2>13. UidsCount'
    <3>1. Sent' = more
      <4>1. ASSUME NEW p \in Traps
            PROVE  p[2] <= Begun(p[1])' <=> p[2] <= Begun(p[1]) \/ p = <<c, e + 1>>
        <5>0. PICK d \in Cpus : \E k \in 1 .. Len(Stream[d]) : p = <<d, k>>
          BY <4>1, TrapsFinite
        <5>1. PICK k \in 1 .. Len(Stream[d]) : p = <<d, k>>
          BY <5>0
        <5>2. p[1] = d /\ p[2] = k /\ k \in Nat /\ executed[d] \in Nat
          BY <5>1, SoundSizes DEF LInv, LinkTypes
        <5>3. Begun(d) = executed[d] /\ Begun(d)' = IF d = c THEN e + 1 ELSE executed[d]
          BY <2>1, <2>2, <2>5, <2>9, <5>2 DEF Begun, InGroup
        <5>4. p = <<c, e + 1>> <=> d = c /\ k = e + 1
          BY <5>1
        <5> QED
          BY <2>2, <5>2, <5>3, <5>4
      <4> QED
        BY <2>6, <2>7, <4>1 DEF Sent
    <3> QED
      BY <2>5, <2>8, <3>1 DEF UidsCount
  <2>14. ValuesInOrder'
    BY <2>3, <2>5, <2>11 DEF SInv, ValuesInOrder
  <2>15. NeedsInOrder'
    <3>1. \A d \in Cpus : Needs(InstrQueue(d)', regValues'[d], RegQueue', d, regsUid')
      BY <2>3, <2>5, <2>11 DEF SInv, NeedsInOrder, InstrQueue
    <3>2. \A k \in 1 .. Len(InstrQueue(c)) : InstrQueue(c)[k].regs < u + 1
      <4>1. \A k \in 1 .. Len(InstrQueue(c)) : InstrQueue(c)[k].regs \in 0 .. u
        BY <2>3 DEF SInv, NeedsInOrder, Needs
      <4> QED
        BY <4>1
    <3> QED
      BY <2>5, <2>9, <2>11, <3>1, <3>2 DEF NeedsInOrder, InstrQueue
  <2> QED
    BY <2>5, <2>9, <2>12, <2>13, <2>14, <2>15, Frames DEF SInv
<1> QED
  BY <1>1, <1>2
\* SoftSDV writes the next instruction.
LEMMA FillInstrSInv == LInv /\ SInv /\ FillInstr => SInv'
<1> SUFFICES ASSUME LInv, SInv, FillInstr PROVE SInv'
  OBVIOUS
<1>1. PICK c \in Cpus : c = sdv.cpu
  BY DEF SInv, TypeOK
<1>2. PICK e \in Nat : e = executed[c]
  BY DEF LInv, LinkTypes
<1>3. PICK x : x = [num |-> e + 1, regs |-> sdv.regs]
  OBVIOUS
<1>4. /\ sdv.at = "step" /\ sdv' = [sdv EXCEPT !.at = "close"]
      /\ instrRing' = [instrRing EXCEPT ![c] = Filled(instrRing[c], x)]
      /\ UNCHANGED <<regRing, requestRing, sdvActive, asimActive, err, sdvAlive,
                     executed, regsUid, asim, regValues, warm, ended>>
  BY <1>1, <1>2, <1>3 DEF FillInstr, SdvAt, asimVars
<1>5. x \in Instr(c) /\ x.regs = sdv.regs
  <2>1. e + sdv.group <= Len(Stream[c]) /\ sdv.group \in 1 .. sdv.remaining
        /\ sdv.remaining \in Nat
    BY <1>1, <1>2, <1>4 DEF SInv, GroupFits, InGroup, TypeOK
  <2>2. e + 1 \in 1 .. Len(Stream[c])
    BY <2>1, SoundSizes
  <2>3. sdv.regs \in 0 .. Cardinality(Traps)
    BY DEF SInv, TypeOK
  <2> QED
    BY <1>3, <2>2, <2>3 DEF Instr
<1>6. PICK new : new = Filled(instrRing[c], x)
  OBVIOUS
<1>7. /\ new \in InstrRings(c)
      /\ new.reader = instrRing[c].reader /\ new.writer = instrRing[c].writer
      /\ new.payload[new.writer] = x
      /\ Contents(InstrEntries, new) = InstrQueue(c)
  <2>1. PICK S : S = Instr(c) \cup {NoInstr} /\ x \in S
    BY <1>5
  <2>2. instrRing[c] \in RingsOf(InstrEntries, S)
    BY <2>1, RingFacts DEF InstrRings
  <2>3. /\ new \in RingsOf(InstrEntries, S)
        /\ new.reader = instrRing[c].reader /\ new.writer = instrRing[c].writer
        /\ new.payload = [instrRing[c].payload EXCEPT ![instrRing[c].writer] = x]
        /\ Contents(InstrEntries, new) = Contents(InstrEntries, instrRing[c])
    BY <1>6, <2>1, <2>2, Sizes, ContentsFilled
  <2>4. new.payload[new.writer] = x
    BY <2>2, <2>3 DEF RingsOf
  <2> QED
    BY <2>1, <2>3, <2>4 DEF InstrRings, InstrQueue
<1>8. /\ instrRing'[c] = new /\ \A d \in Cpus : d # c => instrRing'[d] = instrRing[d]
  BY <1>4, <1>6, RingFacts
<1>9. SdvType(sdv') /\ sdv'.at = "close" /\ sdv'.cpu = c /\ sdv'.regs = sdv.regs
      /\ sdv'.group = sdv.group /\ sdv'.remaining = sdv.remaining
  BY <1>1, <1>4 DEF SInv, TypeOK, SdvType, SdvPlaces
<1>10. /\ \A d \in Cpus : InstrQueue(d)' = InstrQueue(d)
       /\ \A d \in Cpus : instrRing'[d] \in InstrRings(d)
       /\ \A d \in Cpus : NReadSlotsAvailable(InstrEntries, instrRing'[d])
                            = NReadSlotsAvailable(InstrEntries, instrRing[d])
  <2>1. \A d \in Cpus : InstrQueue(d)' = InstrQueue(d)
    BY <1>7, <1>8 DEF InstrQueue
  <2>2. \A d \in Cpus : instrRing'[d] \in InstrRings(d)
    BY <1>7, <1>8, RingFacts
  <2>3. \A d \in Cpus : NReadSlotsAvailable(InstrEntries, instrRing'[d])
                            = NReadSlotsAvailable(InstrEntries, instrRing[d])
    BY <1>7, <1>8 DEF NReadSlotsAvailable
  <2> QED
    BY <2>1, <2>2, <2>3
<1>11. TypeOK'
  BY <1>4, <1>9, <1>10 DEF SInv, TypeOK, SdvType, SdvPlaces, InstrRings, RingsOf
<1>12. GroupFits'
  BY <1>1, <1>4, <1>9 DEF SInv, GroupFits, InGroup, Serving
<1>13. UidsCount'
  <2>1. \A d : Begun(d)' = Begun(d)
    BY <1>1, <1>4, <1>9 DEF Begun, InGroup
  <2> QED
    BY <1>4, <2>1 DEF SInv, UidsCount, Sent
<1>14. NeedsInOrder'
  <2>1. RegQueue' = RegQueue
    BY <1>4 DEF RegQueue
  <2>2. instrRing'[c].payload[instrRing'[c].writer].regs = sdv.regs
    BY <1>5, <1>7, <1>8
  <2> QED
    BY <1>1, <1>4, <1>9, <1>10, <2>1, <2>2 DEF SInv, NeedsInOrder, InGroup
<1>15. Credits'
  <2>1. \A d : Executing(d)' = Executing(d)
    BY <1>1, <1>4, <1>9 DEF Executing, Serving
  <2> QED
    BY <1>4, <1>10, <2>1 DEF SInv, Credits, Unpaid, Reading
<1> QED
  BY <1>4, <1>11, <1>12, <1>13, <1>14, <1>15, Frames DEF SInv

\* SoftSDV publishes it.
LEMMA CloseInstrSInv == LInv /\ SInv /\ CloseInstr => SInv'
<1> SUFFICES ASSUME LInv, SInv, CloseInstr PROVE SInv'
  OBVIOUS
<1>1. PICK c \in Cpus : c = sdv.cpu
  BY DEF SInv, TypeOK
<1>2. PICK e \in Nat : e = executed[c]
  BY DEF LInv, LinkTypes
<1>3. PICK m \in Nat, g \in Nat : m = sdv.remaining /\ g = sdv.group
  BY DEF SInv, TypeOK
<1>4. PICK place \in {"step", "execute", "group"} :
        place = IF g > 1 THEN "step" ELSE IF m - 1 = 0 THEN "execute" ELSE "group"
  OBVIOUS
<1>5. /\ sdv.at = "close"
      /\ sdv' = [sdv EXCEPT !.at = place, !.remaining = m - 1, !.group = g - 1, !.regs = 0]
      /\ instrRing' = [instrRing EXCEPT ![c] = Published(InstrEntries, instrRing[c])]
      /\ executed' = [executed EXCEPT ![c] = e + 1]
      /\ UNCHANGED <<regRing, requestRing, sdvActive, asimActive, err, sdvAlive,
                     regsUid, asim, regValues, warm, ended>>
  BY <1>1, <1>2, <1>3, <1>4 DEF CloseInstr, SdvAt, asimVars
<1>6. /\ g \in 1 .. m /\ m <= WarmupChunk /\ g <= WarmupChunk
      /\ e + g <= Len(Stream[c]) /\ Len(Stream[c]) \in Nat
      /\ (sdv.regs # 0 <=> Kind(c, e + 1) = "trap")
      /\ \A k \in e + 2 .. e + g : Kind(c, k) # "trap"
  <2>1. /\ g \in 1 .. m
        /\ e + g <= Len(Stream[c]) /\ Len(Stream[c]) \in Nat
        /\ (sdv.regs # 0 <=> Kind(c, e + 1) = "trap")
        /\ \A k \in e + 2 .. e + g : Kind(c, k) # "trap"
    BY <1>1, <1>2, <1>3, <1>5, SoundSizes DEF SInv, GroupFits, InGroup
  <2>2. m <= WarmupChunk /\ WarmupChunk \in Nat
    BY <1>3, Sizes DEF SInv, TypeOK
  <2> QED
    BY <2>1, <2>2
<1>7. /\ SdvType(sdv') /\ sdv'.at = place /\ sdv'.cpu = c /\ sdv'.regs = 0
      /\ sdv'.group = g - 1 /\ sdv'.remaining = m - 1
  <2>1. SdvType(sdv)
    BY DEF SInv, TypeOK, SdvType, SdvPlaces
  <2>2. m - 1 \in 0 .. WarmupChunk /\ g - 1 \in 0 .. WarmupChunk
    BY <1>6, Sizes
  <2>3. 0 \in 0 .. Cardinality(Traps)
    BY TrapsFinite
  <2> QED
    BY <1>1, <1>5, <2>1, <2>2, <2>3 DEF SdvType, SdvPlaces
<1>8. executed'[c] = e + 1 /\ \A d \in Cpus : d # c => executed'[d] = executed[d]
  BY <1>5 DEF LInv, LinkTypes
<1>9. PICK new : new = Published(InstrEntries, instrRing[c])
  OBVIOUS
<1>10. PICK x \in Instr(c) \cup {NoInstr} :
        x = instrRing[c].payload[instrRing[c].writer] /\ x.regs = sdv.regs
  <2>1. instrRing[c].payload[instrRing[c].writer] \in Instr(c) \cup {NoInstr}
    BY RingFacts DEF InstrRings, RingsOf
  <2> QED
    BY <1>1, <1>5, <2>1 DEF SInv, NeedsInOrder
<1>11. /\ new \in InstrRings(c)
       /\ Contents(InstrEntries, new) = Append(InstrQueue(c), x)
       /\ NReadSlotsAvailable(InstrEntries, new)
            = NReadSlotsAvailable(InstrEntries, instrRing[c]) + 1
  <2>1. After(InstrEntries, instrRing[c].writer) # instrRing[c].reader
    BY <1>1, <1>5 DEF LInv, NoSharedEntry
  <2>2. PICK S : S = Instr(c) \cup {NoInstr}
    OBVIOUS
  <2>3. instrRing[c] \in RingsOf(InstrEntries, S)
    BY <2>2, RingFacts DEF InstrRings
  <2>4. /\ new \in RingsOf(InstrEntries, S) /\ new.reader = instrRing[c].reader
        /\ new.writer = After(InstrEntries, instrRing[c].writer)
        /\ Contents(InstrEntries, new) = Append(InstrQueue(c), x)
    BY <1>9, <1>10, <2>1, <2>3, Sizes, ContentsPublished DEF InstrQueue
  <2>5. RingSlots(InstrEntries, instrRing[c])
    BY <2>3 DEF RingsOf, RingSlots
  <2> QED
    BY <2>1, <2>2, <2>4, <2>5, Sizes, RingPublish DEF InstrRings
<1>12. instrRing'[c] = new /\ \A d \in Cpus : d # c => instrRing'[d] = instrRing[d]
  BY <1>5, <1>9, RingFacts
<1>13. TypeOK'
  <2>1. \A d \in Cpus : instrRing'[d] \in InstrRings(d)
    BY <1>11, <1>12, RingFacts
  <2> QED
    BY <1>5, <1>7, <2>1 DEF SInv, TypeOK, SdvType, SdvPlaces, InstrRings, RingsOf
<1>14. place = "step" => Kind(c, e + 2) # "trap"
  <2>1. g > 1 => e + 2 \in e + 2 .. e + g
    BY <1>6
  <2> QED
    BY <1>4, <1>6, <2>1
<1>15. GroupFits'
  <2>1. \A d \in Cpus : executed'[d] <= Len(Stream[d])
    BY <1>6, <1>8 DEF SInv, GroupFits
  <2>2. place \in {"step", "group"} => m - 1 >= 1
    BY <1>4, <1>6
  <2>3. ASSUME place = "step"
        PROVE  /\ g - 1 \in 1 .. m - 1
               /\ (e + 1) + (g - 1) <= Len(Stream[c])
               /\ Kind(c, (e + 1) + 1) # "trap"
               /\ \A k \in (e + 1) + 2 .. (e + 1) + (g - 1) : Kind(c, k) # "trap"
    <3>1. g > 1 /\ (e + 1) + 1 = e + 2
      BY <1>4, <2>3
    <3>2. \A k \in (e + 1) + 2 .. (e + 1) + (g - 1) : k \in e + 2 .. e + g
      BY <1>6
    <3>3. g - 1 \in 1 .. m - 1 /\ (e + 1) + (g - 1) <= Len(Stream[c])
      BY <1>6, <3>1
    <3> QED
      BY <1>6, <1>14, <2>3, <3>1, <3>2, <3>3
  <2> QED
    BY <1>7, <1>8, <2>1, <2>2, <2>3 DEF GroupFits, InGroup, Serving
<1>16. UidsCount'
  <2>1. ASSUME NEW p \in Traps PROVE p[2] <= Begun(p[1])' <=> p[2] <= Begun(p[1])
    <3>0. PICK d \in Cpus : \E k \in 1 .. Len(Stream[d]) : p = <<d, k>> /\ Kind(d, k) = "trap"
      BY <2>1, TrapsFinite
    <3>1. PICK k \in 1 .. Len(Stream[d]) : p = <<d, k>> /\ Kind(d, k) = "trap"
      BY <3>0
    <3>2. p[1] = d /\ p[2] = k /\ k \in Nat /\ executed[d] \in Nat
      BY <3>1, SoundSizes DEF LInv, LinkTypes
    <3>3. CASE d = c
      <4>1. Begun(d) = e + 1
        BY <1>1, <1>2, <1>5, <3>3 DEF Begun, InGroup
      <4>2. Begun(d)' = IF place = "step" THEN e + 2 ELSE e + 1
        BY <1>7, <1>8, <3>3 DEF Begun, InGroup
      <4>3. place = "step" => k # e + 2
        BY <1>14, <3>1, <3>3
      <4> QED
        BY <3>2, <4>1, <4>2, <4>3
    <3>4. CASE d # c
      BY <1>1, <1>7, <1>8, <3>2, <3>4 DEF Begun, InGroup
    <3> QED
      BY <3>3, <3>4
  <2> QED
    BY <1>5, <2>1 DEF SInv, UidsCount, Sent
<1>17. NeedsInOrder'
  <2>1. RegQueue' = RegQueue
    BY <1>5 DEF RegQueue
  <2>2. Needs(Append(InstrQueue(c), x), regValues[c], RegQueue, c, regsUid)
    <3>1. PICK S : S = Instr(c) \cup {NoInstr} /\ x \in S
      OBVIOUS
    <3>2. InstrQueue(c) \in Seq(S)
      BY <3>1, RingFacts
    <3>3. regsUid \in Nat /\ Needs(InstrQueue(c), regValues[c], RegQueue, c, regsUid)
      BY DEF LInv, LinkTypes, SInv, NeedsInOrder
    <3>4. x.regs # 0 => /\ x.regs = regsUid /\ Present(regValues[c], RegQueue, c, x.regs)
                        /\ \A k \in 1 .. Len(InstrQueue(c)) : InstrQueue(c)[k].regs < x.regs
      BY <1>1, <1>5, <1>10 DEF SInv, NeedsInOrder, InGroup
    <3>5. x.regs \in 0 .. regsUid
      BY <3>3, <3>4
    <3> QED
      BY <3>1, <3>2, <3>3, <3>4, <3>5, NeedsPublished
  <2>3. \A d \in Cpus : Needs(InstrQueue(d)', regValues[d], RegQueue, d, regsUid)
    <3>1. InstrQueue(c)' = Append(InstrQueue(c), x)
      BY <1>11, <1>12 DEF InstrQueue
    <3>2. \A d \in Cpus : d # c => InstrQueue(d)' = InstrQueue(d)
      BY <1>12 DEF InstrQueue
    <3> QED
      BY <2>2, <3>1, <3>2 DEF SInv, NeedsInOrder
  <2> QED
    BY <1>5, <1>7, <2>1, <2>3 DEF NeedsInOrder
<1>18. Credits'
  <2> SUFFICES ASSUME NEW d \in Cpus
               PROVE  ((NReadSlotsAvailable(InstrEntries, instrRing'[d])
                        + Cardinality(Asked(requestRing, d))) + Executing(d)')
                        + Unpaid(d) <= WarmupChunk
    BY <1>5 DEF Credits, Unpaid, Reading
  <2>1. CASE d = c
    <3>1. Executing(d) = m
      BY <1>1, <1>3, <1>5, <2>1 DEF Executing, Serving
    <3>2. Executing(d)' = m - 1
      BY <1>4, <1>6, <1>7, <2>1 DEF Executing, Serving
    <3> QED
      BY <1>11, <1>12, <2>1, <3>1, <3>2, CreditTypes, Sizes, SMTT(30)
  <2>2. CASE d # c
    <3>1. Executing(d)' = Executing(d)
      BY <1>1, <1>7, <2>2 DEF Executing
    <3> QED
      BY <1>12, <2>2, <3>1, CreditTypes
  <2> QED
    BY <2>1, <2>2
<1> QED
  BY <1>5, <1>13, <1>15, <1>16, <1>17, <1>18, Frames DEF SInv

\* A step of Asim that leaves the rings and the register values alone, and owes
\* no more than before.
LEMMA AsimMoves ==
    ASSUME LInv, SInv, LInv', ReadsChunk',
           UNCHANGED <<instrRing, regRing, requestRing, sdvActive, err, sdv, executed,
                       regsUid, regValues>>,
           asimActive' \in BOOLEAN, sdvAlive' \in BOOLEAN,
           warm' \in [Cpus -> BOOLEAN],
           ended' \in [Cpus -> {"no", "stream", "complete"}],
           \/ ~Reading'
           \/ asim'.left = asim'.chunk
           \/ /\ Reading /\ asim'.cpu = asim.cpu /\ asim'.left = asim.left
              /\ asim'.chunk = asim.chunk
    PROVE  SInv'
<1>1. /\ asim'.left \in 0 .. asim'.chunk /\ asim'.chunk \in {0, WarmupChunk, ExecuteChunk}
      /\ asim' \in [at : {"model", "before", "open", "blocked", "after", "request",
                          "fetch", "exiting", "stopped"},
                    cpu : Cpus, left : Int, chunk : {0, WarmupChunk, ExecuteChunk},
                    open : BOOLEAN, fetch : BOOLEAN]
  BY DEF LInv, LinkTypes, ReadsChunk
<1>2. asim'.left \in 0 .. WarmupChunk /\ asim'.chunk \in 0 .. WarmupChunk
  BY <1>1, Sizes, SoundSizes
<1>3. asim' \in [at : {"model", "before", "open", "blocked", "after", "request",
                       "fetch", "exiting", "stopped"},
                 cpu : Cpus, left : 0 .. WarmupChunk, chunk : 0 .. WarmupChunk,
                 open : BOOLEAN, fetch : BOOLEAN]
  BY <1>1, <1>2
<1>4. TypeOK'
  BY <1>3 DEF SInv, TypeOK
<1>5. Credits'
  <2> SUFFICES ASSUME NEW c \in Cpus
               PROVE  ((NReadSlotsAvailable(InstrEntries, instrRing[c])
                        + Cardinality(Asked(requestRing, c))) + Executing(c))
                        + Unpaid(c)' <= WarmupChunk
    BY DEF Credits, Executing, Serving
  <2>1. Unpaid(c)' = 0 \/ Unpaid(c)' = Unpaid(c)
    <3>1. asim'.left = asim'.chunk => asim'.chunk - asim'.left = 0
      BY <1>2
    <3> QED
      BY <3>1 DEF Unpaid
  <2> QED
    BY <2>1, CreditTypes, Sizes
<1> QED
  BY <1>4, <1>5, Frames DEF SInv

LEMMA AsimMovesSInv ==
    ASSUME LInv, SInv, LInv',
           \/ \E c \in Cpus : Calls(c)
           \/ RegistersRead \/ OpenInstr \/ OpenBlocked
           \/ NoInstrLeft \/ SendBlocked \/ FetchNext
           \/ StopAsim \/ AsimExits
    PROVE  SInv'
<1>1. /\ asim \in [at : {"model", "before", "open", "blocked", "after", "request",
                         "fetch", "exiting", "stopped"},
                   cpu : Cpus, left : 0 .. WarmupChunk, chunk : 0 .. WarmupChunk,
                   open : BOOLEAN, fetch : BOOLEAN]
      /\ asimActive \in BOOLEAN /\ sdvAlive \in BOOLEAN /\ sdvActive \in BOOLEAN
      /\ warm \in [Cpus -> BOOLEAN] /\ ended \in [Cpus -> {"no", "stream", "complete"}]
      /\ ReadsChunk
  BY DEF SInv, TypeOK
<1>2. Idle.at = "model" /\ Idle.left = 0 /\ Idle.chunk = 0
  BY DEF Idle
<1>3. CASE \E c \in Cpus : Calls(c)
  <2>1. PICK c \in Cpus, fetch \in BOOLEAN : Call(c, fetch)
    BY <1>3 DEF Calls
  <2>2. /\ UNCHANGED <<instrRing, regRing, requestRing, sdvActive, err, sdv, executed,
                       regsUid, regValues, asimActive, sdvAlive, warm, ended>>
    BY <2>1 DEF Call, sdvVars
  <2>3. ChunkOf(c) \in Nat /\ ChunkOf(c) >= 1
    BY Sizes DEF ChunkOf
  <2>4. CASE ReadsAhead(c, ChunkOf(c))
    <3>1. PICK m \in Nat : m = ChunkOf(c) /\ m >= 1
      BY <2>3
    <3>2. asim'.at = "before" /\ asim'.left = m /\ asim'.chunk = m
      BY <2>1, <2>4, <3>1 DEF Call
    <3>3. ReadsChunk'
      BY <3>1, <3>2 DEF ReadsChunk
    <3> QED
      BY <1>1, <2>2, <3>2, <3>3, AsimMoves
  <2>5. CASE ~ReadsAhead(c, ChunkOf(c))
    <3>2. asim'.at = "fetch" /\ asim'.left = 0 /\ asim'.chunk = 0
      BY <2>1, <2>5 DEF Call, Idle
    <3>3. ReadsChunk'
      BY <3>2 DEF ReadsChunk
    <3> QED
      BY <1>1, <2>2, <3>2, <3>3, AsimMoves
  <2> QED
    BY <2>4, <2>5
<1>4. CASE RegistersRead \/ OpenInstr \/ OpenBlocked
  <2>1. UNCHANGED <<instrRing, regRing, requestRing, sdvActive, err, sdv, executed,
                    regsUid, regValues, asimActive, sdvAlive, warm, ended>>
    BY <1>4 DEF RegistersRead, OpenInstr, OpenBlocked, sdvVars
  <2>2. /\ asim.at \in {"before", "open", "blocked", "after"}
        /\ asim'.at \in {"open", "after", "blocked", "stopped"}
        /\ asim'.cpu = asim.cpu /\ asim'.left = asim.left /\ asim'.chunk = asim.chunk
    <3>1. CASE RegistersRead
      BY <1>1, <3>1 DEF RegistersRead, AsimAt, Goto
    <3>2. CASE OpenInstr
      BY <1>1, <3>2 DEF OpenInstr, AsimAt
    <3>3. CASE OpenBlocked
      BY <1>1, <3>3 DEF OpenBlocked, AsimAt
    <3> QED
      BY <1>4, <3>1, <3>2, <3>3
  <2>3. ReadsChunk'
    BY <1>1, <2>2 DEF ReadsChunk
  <2> QED
    BY <1>1, <2>1, <2>2, <2>3, AsimMoves DEF Reading
<1>5. CASE NoInstrLeft \/ SendBlocked \/ FetchNext \/ StopAsim \/ AsimExits
  <2>1. UNCHANGED <<instrRing, regRing, requestRing, sdvActive, err, sdv, executed,
                    regsUid, regValues>>
    BY <1>5 DEF NoInstrLeft, SendBlocked, FetchNext, StopAsim, AsimExits, sdvVars
  <2>2. asimActive' \in BOOLEAN
    BY <1>1, <1>5 DEF NoInstrLeft, SendBlocked, FetchNext, StopAsim, AsimExits
  <2>3. sdvAlive' \in BOOLEAN
    BY <1>1, <1>5, Zenon DEF NoInstrLeft, SendBlocked, FetchNext, StopAsim, AsimExits, sdvVars
  <2>4. warm' \in [Cpus -> BOOLEAN]
    BY <1>1, <1>5 DEF NoInstrLeft, SendBlocked, FetchNext, StopAsim, AsimExits
  <2>5. ended' \in [Cpus -> {"no", "stream", "complete"}]
    BY <1>1, <1>5 DEF NoInstrLeft, SendBlocked, FetchNext, StopAsim, AsimExits
  <2>6. /\ asim'.at \in {"model", "fetch", "exiting", "stopped"}
        /\ \/ asim'.left = 0 /\ asim'.chunk = 0
           \/ asim'.left = asim.left /\ asim'.chunk = asim.chunk
    BY <1>1, <1>2, <1>5 DEF NoInstrLeft, SendBlocked, FetchNext, StopAsim, AsimExits,
                            Return, Goto
  <2>7. ReadsChunk'
    <3>1. 0 \in 0 .. 0
      OBVIOUS
    <3> QED
      BY <1>1, <2>6, <3>1 DEF ReadsChunk
  <2> QED
    BY <2>1, <2>2, <2>3, <2>4, <2>5, <2>6, <2>7, AsimMoves DEF Reading
<1> QED
  BY <1>3, <1>4, <1>5

\* CheckForIncomingRegValues moves the oldest register values of the ring.
LEMMA ReadRegistersSInv == LInv /\ SInv /\ ReadRegisters => SInv'
<1> SUFFICES ASSUME LInv, SInv, ReadRegisters PROVE SInv'
  OBVIOUS
<1>1. PICK x : x = Opened(regRing)
  OBVIOUS
<1>2. /\ regValues' = [regValues EXCEPT ![x.cpu] = Append(regValues[x.cpu], x.uid)]
      /\ regRing' = Released(RegEntries, regRing)
      /\ UNCHANGED <<instrRing, requestRing, sdvActive, asimActive, err, sdvAlive, sdv,
                     executed, regsUid, asim, warm, ended>>
  BY <1>1 DEF ReadRegisters, sdvVars
<1>3. PICK last \in Nat : last = regsUid
  BY DEF LInv, LinkTypes
<1>4. /\ RegQueue \in Seq(RegValue(NTraps)) /\ NTraps \in Nat
      /\ regRing \in RingsOf(RegEntries, RegValue(NTraps))
  BY RingFacts
<1>5. regRing.reader # regRing.writer
  <2>1. RingSlots(RegEntries, regRing)
    BY <1>4 DEF RingsOf, RingSlots
  <2> QED
    BY <2>1, SoundSizes, RingFill DEF ReadRegisters
<1>6. /\ regRing' \in RingsOf(RegEntries, RegValue(NTraps))
      /\ RegQueue # <<>> /\ RegQueue[1] = x /\ RegQueue' = Tail(RegQueue)
  BY <1>1, <1>2, <1>4, <1>5, SoundSizes, ContentsReleased DEF RegQueue
<1>7. PICK ring \in Seq(RegValue(NTraps)) : ring = RegQueue
  BY <1>4
<1>8. PICK tail : tail = Tail(ring)
  OBVIOUS
<1>9. DOMAIN regValues = Cpus /\ RingInOrder(ring, last)
      /\ \A c \in Cpus : ValsInOrder(regValues[c], ring, last)
  BY <1>3, <1>7 DEF SInv, ValuesInOrder
<1>10. \A c \in Cpus : regValues'[c] = IF c = x.cpu THEN Append(regValues[c], x.uid)
                                                 ELSE regValues[c]
  BY <1>2, <1>9
<1>11. /\ RingInOrder(tail, last)
       /\ \A c \in Cpus : ValsInOrder(regValues'[c], tail, last)
       /\ \A c \in Cpus : \A v : Present(regValues[c], ring, c, v)
                                => Present(regValues'[c], tail, c, v)
  <2>1. LET d == ring[1].cpu
            u == ring[1].uid
            Next1(c, vals) == IF c = d THEN Append(vals, u) ELSE vals
        IN  /\ RingInOrder(Tail(ring), last)
            /\ \A c, vals : ValsInOrder(vals, ring, last)
                                => ValsInOrder(Next1(c, vals), Tail(ring), last)
            /\ \A c, vals, v : ValsInOrder(vals, ring, last) /\ Present(vals, ring, c, v)
                                => Present(Next1(c, vals), Tail(ring), c, v)
    BY <1>4, <1>6, <1>7, <1>9, ValuesRead
  <2>2. ring[1] = x
    BY <1>6, <1>7
  <2>3. ASSUME NEW c \in Cpus
        PROVE  /\ ValsInOrder(regValues'[c], tail, last)
               /\ \A v : Present(regValues[c], ring, c, v)
                                => Present(regValues'[c], tail, c, v)
    <3>1. CASE c = x.cpu
      <4>1. regValues'[c] = Append(regValues[c], x.uid)
        BY <1>10, <3>1
      <4> QED
        BY <1>8, <1>9, <2>1, <2>2, <3>1, <4>1
    <3>2. CASE c # x.cpu
      <4>1. regValues'[c] = regValues[c]
        BY <1>10, <3>2
      <4> QED
        BY <1>8, <1>9, <2>1, <2>2, <3>2, <4>1
    <3> QED
      BY <3>1, <3>2
  <2> QED
    BY <1>8, <2>1, <2>3
<1>12. RegQueue' = tail
  BY <1>6, <1>7, <1>8
<1>13. TypeOK'
  BY <1>2, <1>6, SMTT(30) DEF SInv, TypeOK, RingsOf, RegValue, NTraps
<1>14. ValuesInOrder'
  <2>1. DOMAIN regValues' = Cpus
    BY <1>2, <1>9
  <2> QED
    BY <1>2, <1>3, <1>11, <1>12, <2>1 DEF ValuesInOrder
<1>15. NeedsInOrder'
  <2>1. ASSUME NEW c \in Cpus
        PROVE  Needs(InstrQueue(c)', regValues'[c], RegQueue', c, regsUid')
    <3>1. Needs(InstrQueue(c), regValues[c], ring, c, last)
      BY <1>3, <1>7 DEF SInv, NeedsInOrder
    <3>2. Needs(InstrQueue(c), regValues'[c], tail, c, last)
      BY <1>11, <3>1 DEF Needs
    <3> QED
      BY <1>2, <1>3, <1>12, <3>2 DEF InstrQueue
  <2>2. InGroup /\ sdv.regs # 0 =>
            Present(regValues'[sdv.cpu], tail, sdv.cpu, sdv.regs)
    <3>1. sdv.cpu \in Cpus
      BY DEF LInv, LinkTypes
    <3> QED
      BY <1>7, <1>11, <3>1 DEF SInv, NeedsInOrder
  <2> QED
    BY <1>2, <1>12, <2>1, <2>2 DEF SInv, NeedsInOrder, InstrQueue, InGroup
<1> QED
  BY <1>2, <1>13, <1>14, <1>15, Frames DEF SInv

\* A new request pays for the chunk that was read.
LEMMA SendRequestSInv == LInv /\ SInv /\ LInv' /\ SendRequest => SInv'
<1> SUFFICES ASSUME LInv, SInv, LInv', SendRequest PROVE SInv'
  OBVIOUS
<1>1. PICK x : x = [cpu |-> asim.cpu, n |-> asim.chunk]
  OBVIOUS
<1>2. /\ asim.at = "request"
      /\ requestRing' = Published(RequestEntries, Filled(requestRing, x))
      /\ UNCHANGED <<instrRing, regRing, sdvActive, asimActive, err, sdvAlive, sdv,
                     executed, regsUid, regValues, warm, ended>>
  BY <1>1 DEF SendRequest, AsimAt, sdvVars
<1>3. x \in Request /\ x.n \in Nat /\ asim.left = 0
  <2>1. asim.cpu \in Cpus /\ asim.chunk \in {WarmupChunk, ExecuteChunk}
    BY <1>2 DEF LInv, LinkTypes
  <2>2. asim.left = 0
    BY <1>2 DEF SInv, ReadsChunk
  <2> QED
    BY <1>1, <2>1, <2>2, Sizes DEF Request
<1>4. After(RequestEntries, requestRing.writer) # requestRing.reader
  <2>1. RingSlots(RequestEntries, requestRing)
    BY RingFacts DEF RequestRings, RingsOf, RingSlots
  <2>2. NWriteSlotsAvailable(RequestEntries, requestRing) # 0
    BY DEF SendRequest
  <2> QED
    BY <2>1, <2>2, Sizes, RingFill
<1>5. /\ requestRing' \in RequestRings
      /\ \A c : Cardinality(Asked(requestRing', c)) =
                    IF x.cpu = c THEN Cardinality(Asked(requestRing, c)) + x.n
                    ELSE Cardinality(Asked(requestRing, c))
  BY <1>2, <1>3, <1>4, RingFacts, AskedSent
<1>6. /\ asim'.at \in {"model", "fetch"}
      /\ asim'.left \in 0 .. WarmupChunk /\ asim'.chunk \in 0 .. WarmupChunk
      /\ ReadsChunk'
  <2>1. asim \in [at : {"model", "before", "open", "blocked", "after", "request",
                        "fetch", "exiting", "stopped"},
                  cpu : Cpus, left : 0 .. WarmupChunk, chunk : 0 .. WarmupChunk,
                  open : BOOLEAN, fetch : BOOLEAN] /\ ReadsChunk
    BY DEF SInv, TypeOK
  <2>2. CASE asim.fetch
    <3>1. asim' = [asim EXCEPT !.at = "fetch"]
      BY <2>2 DEF SendRequest, Return, Goto
    <3>2. asim'.at = "fetch" /\ asim'.left = asim.left /\ asim'.chunk = asim.chunk
      BY <2>1, <3>1
    <3> QED
      BY <2>1, <3>2 DEF ReadsChunk
  <2>3. CASE ~asim.fetch
    <3>1. asim'.at = "model" /\ asim'.left = 0 /\ asim'.chunk = 0
      BY <2>3 DEF SendRequest, Return, Idle
    <3>2. 0 \in 0 .. WarmupChunk /\ 0 \in 0 .. 0
      BY Sizes
    <3> QED
      BY <3>1, <3>2 DEF ReadsChunk
  <2> QED
    BY <2>2, <2>3
<1>7. asim' \in [at : {"model", "before", "open", "blocked", "after", "request",
                       "fetch", "exiting", "stopped"},
                 cpu : Cpus, left : 0 .. WarmupChunk, chunk : 0 .. WarmupChunk,
                 open : BOOLEAN, fetch : BOOLEAN]
  BY <1>6 DEF LInv, LinkTypes
<1>8. TypeOK'
  BY <1>2, <1>5, <1>7 DEF SInv, TypeOK, RequestRings, RingsOf
<1>9. Credits'
  <2> SUFFICES ASSUME NEW c \in Cpus
               PROVE  ((NReadSlotsAvailable(InstrEntries, instrRing[c])
                        + Cardinality(Asked(requestRing', c))) + Executing(c))
                        + 0 <= WarmupChunk
    BY <1>2, <1>6 DEF Credits, Executing, Serving, Unpaid, Reading
  <2>1. PICK a \in Nat, b \in Nat, e \in Nat, u \in Nat :
          /\ a = NReadSlotsAvailable(InstrEntries, instrRing[c])
          /\ b = Cardinality(Asked(requestRing, c)) /\ e = Executing(c) /\ u = Unpaid(c)
          /\ ((a + b) + e) + u <= WarmupChunk
    BY CreditTypes
  <2>2. CASE asim.cpu = c
    <3>1. u = x.n
      BY <1>1, <1>2, <1>3, <2>1, <2>2 DEF Unpaid, Reading
    <3>2. Cardinality(Asked(requestRing', c)) = b + x.n
      BY <1>1, <1>5, <2>1, <2>2
    <3> QED
      BY <1>3, <2>1, <3>1, <3>2, Sizes
  <2>3. CASE asim.cpu # c
    <3>1. Cardinality(Asked(requestRing', c)) = b
      BY <1>1, <1>5, <2>1, <2>3
    <3> QED
      BY <2>1, <3>1, Sizes
  <2> QED
    BY <2>2, <2>3
<1> QED
  BY <1>2, <1>6, <1>8, <1>9, Frames DEF SInv

\* AddInstruction takes the oldest instruction over, with its register values.
LEMMA AddInstrSInv == LInv /\ SInv /\ AddInstr => SInv'
<1> SUFFICES ASSUME LInv, SInv, AddInstr PROVE SInv'
  OBVIOUS
<1>1. PICK c \in Cpus : c = asim.cpu
  BY DEF LInv, LinkTypes
<1>2. PICK u : u = Opened(instrRing[c]).regs
  OBVIOUS
<1>3. PICK last \in Nat : last = regsUid
  BY DEF LInv, LinkTypes
<1>4. PICK q \in Seq(Instr(c) \cup {NoInstr}) : q = InstrQueue(c)
  BY RingFacts
<1>5. /\ instrRing' = [instrRing EXCEPT ![c] = Released(InstrEntries, instrRing[c])]
      /\ asim.at = "after" /\ asim.open
      /\ UNCHANGED <<regRing, requestRing, sdvActive, asimActive, sdvAlive, sdv, executed,
                     regsUid, warm, ended>>
  BY <1>1 DEF AddInstr, AsimAt, sdvVars
<1>6. instrRing[c].reader # instrRing[c].writer
  BY <1>1, <1>5 DEF LInv, NoSharedEntry
<1>7. PICK new : new = Released(InstrEntries, instrRing[c])
  OBVIOUS
<1>8. /\ new \in InstrRings(c)
      /\ new.writer = instrRing[c].writer /\ new.payload = instrRing[c].payload
      /\ q # <<>> /\ q[1].regs = u /\ Contents(InstrEntries, new) = Tail(q)
      /\ NReadSlotsAvailable(InstrEntries, new)
            = NReadSlotsAvailable(InstrEntries, instrRing[c]) - 1
  <2>1. PICK S : S = Instr(c) \cup {NoInstr}
    OBVIOUS
  <2>2. instrRing[c] \in RingsOf(InstrEntries, S)
    BY <2>1, RingFacts DEF InstrRings
  <2>3. /\ new \in RingsOf(InstrEntries, S)
        /\ new.writer = instrRing[c].writer /\ new.payload = instrRing[c].payload
        /\ new.reader = After(InstrEntries, instrRing[c].reader)
        /\ q # <<>> /\ q[1] = Opened(instrRing[c])
        /\ Contents(InstrEntries, new) = Tail(q)
    BY <1>4, <1>6, <1>7, <2>2, Sizes, ContentsReleased DEF InstrQueue
  <2>4. RingSlots(InstrEntries, instrRing[c])
    BY <2>2 DEF RingsOf, RingSlots
  <2>5. NReadSlotsAvailable(InstrEntries, new)
            = NReadSlotsAvailable(InstrEntries, instrRing[c]) - 1
    BY <1>6, <2>3, <2>4, Sizes, RingRelease
  <2> QED
    BY <1>2, <2>1, <2>3, <2>5 DEF InstrRings
<1>9. instrRing'[c] = new /\ \A d \in Cpus : d # c => instrRing'[d] = instrRing[d]
  BY <1>5, <1>7, RingFacts
<1>10. RegQueue = <<>> /\ RegQueue' = <<>>
  <2>1. NReadSlotsAvailable(RegEntries, regRing) = 0
    BY DEF AddInstr, RegistersTaken
  <2>2. RegQueue \in Seq(RegValue(NTraps))
        /\ Len(RegQueue) = NReadSlotsAvailable(RegEntries, regRing)
    BY RingFacts, SoundSizes, ContentsEntries DEF RegQueue
  <2>3. RegQueue = <<>>
    BY <2>1, <2>2, EmptySeq
  <2> QED
    BY <1>5, <2>3 DEF RegQueue
<1>11. DOMAIN regValues = Cpus /\ \A d \in Cpus : ValsInOrder(regValues[d], <<>>, last)
  BY <1>3, <1>10 DEF SInv, ValuesInOrder
<1>12. PICK vals : vals = regValues[c]
  OBVIOUS
<1>13. /\ u = 0 => Needs(Tail(q), vals, <<>>, c, last)
       /\ u # 0 => /\ Remaining(vals, u) # <<>> /\ Remaining(vals, u)[1] = u
                   /\ ValsInOrder(Kept(vals, u), <<>>, last)
                   /\ Needs(Tail(q), Kept(vals, u), <<>>, c, last)
                   /\ \A v \in Int : v > u /\ Present(vals, <<>>, c, v)
                                        => Present(Kept(vals, u), <<>>, c, v)
  <2>1. Needs(q, vals, <<>>, c, last) /\ ValsInOrder(vals, <<>>, last)
    BY <1>3, <1>4, <1>10, <1>11, <1>12 DEF SInv, NeedsInOrder
  <2>2. PICK S : S = Instr(c) \cup {NoInstr}
    OBVIOUS
  <2>3. q \in Seq(S)
    BY <2>2
  <2> QED
    BY <1>8, <2>1, <2>3, NeedsTaken
<1>14. PICK kept : kept = IF u = 0 THEN vals ELSE Kept(vals, u)
  OBVIOUS
<1>15. /\ err' = err
       /\ DOMAIN regValues' = Cpus
       /\ \A d \in Cpus : regValues'[d] = IF d = c THEN kept ELSE regValues[d]
  <2>1. CASE u = 0
    <3>1. UNCHANGED <<regValues, err>>
      BY <1>1, <1>2, <2>1 DEF AddInstr
    <3> QED
      BY <1>11, <1>12, <1>14, <2>1, <3>1
  <2>2. CASE u # 0
    <3>1. /\ regValues' = [regValues EXCEPT ![c] = Kept(vals, u)]
          /\ Remaining(vals, u) # <<>> /\ Remaining(vals, u)[1] = u => UNCHANGED err
      BY <1>1, <1>2, <1>12, <2>2 DEF AddInstr, Kept
    <3> QED
      BY <1>11, <1>13, <1>14, <2>2, <3>1
  <2> QED
    BY <2>1, <2>2
<1>16. /\ ValsInOrder(kept, <<>>, last) /\ Needs(Tail(q), kept, <<>>, c, last)
       /\ \A v \in Int : v > u /\ Present(vals, <<>>, c, v) => Present(kept, <<>>, c, v)
  BY <1>11, <1>12, <1>13, <1>14
<1>17. PICK m \in Nat, l \in Nat : m = asim.chunk /\ l = asim.left /\ l \in 1 .. m
  <2>1. asim.chunk \in Nat
    BY Sizes, SMTT(30) DEF LInv, LinkTypes
  <2>2. asim.left \in 0 .. asim.chunk /\ asim.left >= 1
    BY <1>5 DEF SInv, ReadsChunk
  <2> QED
    BY <2>1, <2>2
<1>18. /\ asim'.at = (IF l = 1 THEN "request" ELSE "before")
       /\ asim'.cpu = c /\ asim'.left = l - 1 /\ asim'.chunk = m
       /\ asim' \in [at : {"model", "before", "open", "blocked", "after", "request",
                           "fetch", "exiting", "stopped"},
                     cpu : Cpus, left : 0 .. WarmupChunk, chunk : 0 .. WarmupChunk,
                     open : BOOLEAN, fetch : BOOLEAN]
  <2>1. /\ asim \in [at : {"model", "before", "open", "blocked", "after", "request",
                           "fetch", "exiting", "stopped"},
                     cpu : Cpus, left : 0 .. WarmupChunk, chunk : 0 .. WarmupChunk,
                     open : BOOLEAN, fetch : BOOLEAN]
    BY DEF SInv, TypeOK
  <2>2. asim' = [asim EXCEPT !.at = IF l = 1 THEN "request" ELSE "before",
                             !.left = l - 1, !.open = FALSE]
    BY <1>17 DEF AddInstr
  <2>3. l - 1 \in 0 .. WarmupChunk
    BY <1>17, <2>1, Sizes
  <2> QED
    BY <1>1, <1>17, <2>1, <2>2, <2>3
<1>19. TypeOK'
  <2>1. \A d \in Cpus : instrRing'[d] \in InstrRings(d)
    BY <1>8, <1>9, RingFacts
  <2> QED
    BY <1>5, <1>18, <2>1 DEF SInv, TypeOK, InstrRings, RingsOf
<1>20. ValuesInOrder'
  <2>1. \A d \in Cpus : ValsInOrder(regValues'[d], <<>>, last)
    BY <1>11, <1>15, <1>16
  <2>2. RingInOrder(<<>>, last)
    BY <1>3, <1>10 DEF SInv, ValuesInOrder
  <2> QED
    BY <1>3, <1>5, <1>10, <1>15, <2>1, <2>2 DEF ValuesInOrder
<1>21. NeedsInOrder'
  <2>1. ASSUME NEW d \in Cpus
        PROVE  Needs(InstrQueue(d)', regValues'[d], <<>>, d, last)
    <3>1. CASE d = c
      BY <1>8, <1>9, <1>15, <1>16, <3>1 DEF InstrQueue
    <3>2. CASE d # c
      BY <1>3, <1>9, <1>10, <1>15, <3>2 DEF SInv, NeedsInOrder, InstrQueue
    <3> QED
      BY <3>1, <3>2
  <2>2. PICK s \in Cpus : s = sdv.cpu /\ sdv.regs \in Int
    BY DEF LInv, LinkTypes
  <2>3. ASSUME InGroup, sdv.regs # 0
        PROVE  /\ sdv.regs = regsUid
               /\ Present(regValues'[s], <<>>, s, sdv.regs)
               /\ \A k \in 1 .. Len(InstrQueue(s)') :
                    InstrQueue(s)'[k].regs < sdv.regs
    <3>1. /\ sdv.regs = regsUid
          /\ Present(regValues[s], <<>>, s, sdv.regs)
          /\ \A k \in 1 .. Len(InstrQueue(s)) : InstrQueue(s)[k].regs < sdv.regs
      BY <1>10, <2>2, <2>3 DEF SInv, NeedsInOrder
    <3>2. CASE s = c
      <4>1. PICK t : t = Tail(q)
        OBVIOUS
      <4>2. /\ Len(t) = Len(q) - 1 /\ Len(q) \in Nat /\ Len(q) >= 1
            /\ \A k \in 1 .. Len(t) : t[k] = q[k + 1]
        BY <1>8, <4>1, HeadTailProperties, EmptySeq, LenProperties
      <4>3. 1 \in 1 .. Len(q) /\ \A k \in 1 .. Len(t) : k + 1 \in 1 .. Len(q)
        BY <4>2
      <4>4. InstrQueue(c)' = t
        BY <1>8, <1>9, <4>1 DEF InstrQueue
      <4>5. \A k \in 1 .. Len(t) : t[k].regs < sdv.regs
        BY <1>4, <3>1, <3>2, <4>2, <4>3
      <4>6. u < sdv.regs
        BY <1>4, <1>8, <3>1, <3>2, <4>3
      <4>7. u \in Int
        <5>1. q[1].regs \in 0 .. regsUid
          BY <1>4, <4>3 DEF SInv, NeedsInOrder, Needs
        <5> QED
          BY <1>8, <5>1
      <4>8. Present(regValues'[c], <<>>, c, sdv.regs)
        BY <1>12, <1>15, <1>16, <2>2, <3>1, <3>2, <4>6, <4>7
      <4> QED
        BY <3>1, <3>2, <4>4, <4>5, <4>8
    <3>3. CASE s # c
      BY <1>9, <1>15, <2>2, <3>1, <3>3 DEF InstrQueue
    <3> QED
      BY <3>2, <3>3
  <2>4. sdv.at = "close" =>
            instrRing'[sdv.cpu].payload[instrRing'[sdv.cpu].writer].regs = sdv.regs
    BY <1>8, <1>9, <2>2 DEF SInv, NeedsInOrder
  <2>5. InGroup' = InGroup
    BY <1>5 DEF InGroup
  <2> QED
    BY <1>3, <1>5, <1>10, <2>1, <2>2, <2>3, <2>4, <2>5 DEF NeedsInOrder, InstrQueue
<1>22. ReadsChunk'
  <2>1. l - 1 \in 0 .. m /\ (l = 1 => l - 1 = 0) /\ (l # 1 => l - 1 >= 1)
    BY <1>17
  <2> QED
    BY <1>18, <2>1 DEF ReadsChunk
<1>23. Credits'
  <2> SUFFICES ASSUME NEW d \in Cpus
               PROVE  ((NReadSlotsAvailable(InstrEntries, instrRing'[d])
                        + Cardinality(Asked(requestRing, d))) + Executing(d))
                        + Unpaid(d)' <= WarmupChunk
    BY <1>5 DEF Credits, Executing, Serving
  <2>1. PICK a \in Nat, b \in Nat, e \in Nat, p \in Nat :
          /\ a = NReadSlotsAvailable(InstrEntries, instrRing[d])
          /\ b = Cardinality(Asked(requestRing, d)) /\ e = Executing(d) /\ p = Unpaid(d)
          /\ ((a + b) + e) + p <= WarmupChunk
    BY CreditTypes
  <2>2. CASE d = c
    <3>1. p = m - l
      BY <1>1, <1>5, <1>17, <2>1, <2>2 DEF Unpaid, Reading
    <3>2. Unpaid(d)' = m - (l - 1)
      BY <1>18, <2>2 DEF Unpaid, Reading
    <3>3. NReadSlotsAvailable(InstrEntries, instrRing'[d]) = a - 1
      BY <1>8, <1>9, <2>1, <2>2
    <3>4. WarmupChunk \in Nat /\ ((a + b) + e) + (m - l) <= WarmupChunk
      BY <2>1, <3>1, Sizes
    <3>5. (((a - 1) + b) + e) + (m - (l - 1)) <= WarmupChunk
      BY <3>4
    <3> QED
      BY <2>1, <3>2, <3>3, <3>5
  <2>3. CASE d # c
    <3>1. p = 0 /\ Unpaid(d)' = 0
      BY <1>1, <1>18, <2>1, <2>3 DEF Unpaid
    <3>2. NReadSlotsAvailable(InstrEntries, instrRing'[d]) = a
      BY <1>9, <2>1, <2>3
    <3> QED
      BY <2>1, <3>1, <3>2, Sizes
  <2> QED
    BY <2>2, <2>3
<1> QED
  BY <1>5, <1>15, <1>19, <1>20, <1>21, <1>22, <1>23, Frames DEF SInv

-----------------------------------------------------------------------------
(* The initial state.                                                      *)

\* A new ring is empty.
LEMMA NewRingEmpty ==
    ASSUME NEW n \in Nat, n > 1, NEW S, NEW x \in S
    PROVE  /\ NewRing(n, x) \in RingsOf(n, S)
           /\ NReadSlotsAvailable(n, NewRing(n, x)) = 0
           /\ Contents(n, NewRing(n, x)) = <<>>
<1>1. PICK ring : ring = NewRing(n, x)
  OBVIOUS
<1>2. 0 \in Slots(n) /\ 0 .. n - 1 = Slots(n)
  BY DEF Slots
<1>3. ring \in RingsOf(n, S) /\ ring.reader = ring.writer
  BY <1>1, <1>2 DEF NewRing, RingsOf
<1>4. RingSlots(n, ring)
  BY <1>3 DEF RingsOf, RingSlots
<1>5. NReadSlotsAvailable(n, ring) = 0
  BY <1>3, <1>4, RingFill
<1>6. Contents(n, ring) \in Seq(S) /\ Len(Contents(n, ring)) = 0
  BY <1>3, <1>5, ContentsEntries
<1>7. Contents(n, ring) = <<>>
  BY <1>6, EmptySeq
<1> QED
  BY <1>1, <1>3, <1>5, <1>7

\* WarmUpClientInfo asks for one chunk for every CPU.
LEMMA InitialCredits ==
    ASSUME LInv, NEW order \in [1 .. Cardinality(Cpus) -> Cpus],
           {order[k] : k \in DOMAIN order} = Cpus,
           requestRing = InitialRequests(order), NEW c \in Cpus
    PROVE  Cardinality(Asked(requestRing, c)) <= WarmupChunk
<1>1. PICK N \in Nat : N = Cardinality(Cpus) /\ N >= 1 /\ N < RequestEntries
  BY Sizes, LinkAssumption
<1>2. PICK n \in Nat : n = RequestEntries /\ n > 1
  BY Sizes
<1>3. order \in Injection(1 .. N, Cpus)
  <2>1. IsFiniteSet(1 .. N) /\ Cardinality(1 .. N) = N
    BY <1>1, FS_Interval
  <2>2. order \in Surjection(1 .. N, Cpus)
    BY <1>1 DEF Surjection
  <2> QED
    BY <1>1, <2>1, <2>2, FS_SurjSameCardinalityImpliesInj
<1>4. PICK s \in 0 .. N - 1 : order[s + 1] = c
  <2>1. PICK k \in 1 .. N : order[k] = c
    BY <1>1
  <2>2. k - 1 \in 0 .. N - 1 /\ (k - 1) + 1 = k
    BY <1>1, <2>1
  <2> QED
    BY <2>1, <2>2
<1>5. /\ requestRing.reader = 0 /\ requestRing.writer = N
      /\ \A t \in 0 .. N - 1 : requestRing.payload[t] = [cpu |-> order[t + 1], n |-> WarmupChunk]
  <2> DEFINE first == NewRing(n, [cpu |-> order[1], n |-> WarmupChunk])
             pay == [t \in DOMAIN first.payload |->
                        IF t < N THEN [cpu |-> order[t + 1], n |-> WarmupChunk]
                        ELSE first.payload[t]]
  <2>1. requestRing = [first EXCEPT !.writer = N, !.payload = pay]
    BY <1>1, <1>2 DEF InitialRequests
  <2>2. first = [reader |-> 0, writer |-> 0, payload |->
                    [t \in 0 .. n - 1 |-> [cpu |-> order[1], n |-> WarmupChunk]]]
    BY DEF NewRing
  <2>3. \A t \in 0 .. N - 1 : t \in 0 .. n - 1 /\ t < N
    BY <1>1, <1>2
  <2>4. \A t \in 0 .. N - 1 : pay[t] = [cpu |-> order[t + 1], n |-> WarmupChunk]
    BY <2>2, <2>3
  <2> HIDE DEF first, pay
  <2> QED
    BY <2>1, <2>2, <2>4
<1>6. Occupied(n, requestRing) \subseteq 0 .. N - 1
  <2>1. requestRing \in RingsOf(n, Request)
    BY <1>2 DEF LInv, LinkTypes, RingsOf
  <2>2. NReadSlotsAvailable(n, requestRing) = N
    <3>1. RingSlots(n, requestRing)
      BY <2>1 DEF RingsOf, RingSlots
    <3> QED
      BY <1>1, <1>2, <1>5, <3>1, RingFill
  <2>3. ASSUME NEW k \in 1 .. N PROVE At(n, requestRing, k) \in 0 .. N - 1
    <3>1. requestRing.reader + (k - 1) = k - 1 /\ k - 1 \in 0 .. 2 * n - 1 /\ k - 1 < n
          /\ k - 1 \in 0 .. N - 1
      BY <1>1, <1>2, <1>5
    <3>2. At(n, requestRing, k) = k - 1
      BY <1>2, <3>1, ModValue DEF At
    <3> QED
      BY <3>1, <3>2
  <2> QED
    BY <2>2, <2>3 DEF Occupied
<1>7. s \in Slots(RequestEntries) /\ WarmupChunk \in {WarmupChunk, ExecuteChunk}
  BY <1>1, <1>2, <1>4 DEF Slots
<1>8. PICK T : /\ IsFiniteSet(T) /\ Cardinality(T) = WarmupChunk
               /\ T = {p \in Slots(RequestEntries) \X (1 .. WarmupChunk) :
                            p[1] = s /\ p[2] <= WarmupChunk}
  BY <1>7, RequestSize
<1>9. ASSUME NEW p \in Asked(requestRing, c) PROVE p \in T
  <2>1. /\ p \in Slots(RequestEntries) \X (1 .. WarmupChunk)
        /\ p[1] \in 0 .. N - 1 /\ requestRing.payload[p[1]].cpu = c
    BY <1>2, <1>6, <1>9 DEF Asked
  <2>2. p[2] <= WarmupChunk
    BY <2>1, Sizes
  <2>3. PICK k \in 0 .. N - 1 : k = p[1]
    BY <2>1
  <2>4. order[k + 1] = order[s + 1]
    <3>1. requestRing.payload[k] = [cpu |-> order[k + 1], n |-> WarmupChunk]
      BY <1>5
    <3>2. requestRing.payload[k].cpu = c
      BY <2>1, <2>3
    <3>3. order[k + 1] = c
      BY <3>1, <3>2
    <3> QED
      BY <1>4, <3>3
  <2>5. k + 1 \in 1 .. N /\ s + 1 \in 1 .. N
    BY <1>1, <1>4, <2>3
  <2>6. k + 1 = s + 1
    <3>1. \A a, b \in 1 .. N : order[a] = order[b] => a = b
      BY <1>3 DEF Injection, IsInjective
    <3> QED
      BY <2>4, <2>5, <3>1
  <2>7. p[1] = s
    BY <1>4, <2>3, <2>6
  <2> QED
    BY <1>8, <2>1, <2>2, <2>7
<1>10. Asked(requestRing, c) \in SUBSET T
  BY <1>9
<1> QED
  BY <1>8, <1>10, FS_Subset

LEMMA InitSInv == Init => SInv
<1> SUFFICES ASSUME Init PROVE SInv
  OBVIOUS
<1>1. LInv
  BY InitLInv
<1>2. PICK c0 \in Cpus : c0 = CHOOSE c \in Cpus : TRUE
  BY LinkAssumption
<1>3. NTraps \in Nat /\ 0 \in 0 .. NTraps /\ 0 \in 0 .. WarmupChunk
  BY TrapsFinite, Sizes DEF NTraps
<1>4. \A c \in Cpus : /\ instrRing[c] \in InstrRings(c) /\ InstrQueue(c) = <<>>
                      /\ NReadSlotsAvailable(InstrEntries, instrRing[c]) = 0
  <2> TAKE c \in Cpus
  <2>1. PICK S : S = Instr(c) \cup {NoInstr}
    OBVIOUS
  <2>2. NoInstr \in S
    BY <2>1
  <2>3. instrRing[c] = NewRing(InstrEntries, NoInstr)
    BY DEF Init
  <2>4. /\ NewRing(InstrEntries, NoInstr) \in RingsOf(InstrEntries, S)
        /\ NReadSlotsAvailable(InstrEntries, NewRing(InstrEntries, NoInstr)) = 0
        /\ Contents(InstrEntries, NewRing(InstrEntries, NoInstr)) = <<>>
    BY <2>2, Sizes, NewRingEmpty
  <2> QED
    BY <2>1, <2>3, <2>4 DEF InstrRings, InstrQueue
<1>5. regRing \in RingsOf(RegEntries, RegValue(NTraps)) /\ RegQueue = <<>>
  <2>1. PICK x : x = [cpu |-> c0, uid |-> 0]
    OBVIOUS
  <2>2. x \in RegValue(NTraps)
    BY <1>2, <1>3, <2>1 DEF RegValue
  <2>3. regRing = NewRing(RegEntries, x)
    BY <1>2, <2>1 DEF Init
  <2> QED
    BY <2>2, <2>3, SoundSizes, NewRingEmpty DEF RegQueue
<1>6. requestRing \in RequestRings
  BY <1>1 DEF LInv, LinkTypes, RequestRings, RingsOf
<1>7. /\ sdv.at = "execute" /\ asim.at = "model" /\ asim.left = 0 /\ asim.chunk = 0
      /\ regsUid = 0 /\ regValues = [c \in Cpus |-> <<>>] /\ executed = [c \in Cpus |-> 0]
  BY DEF Init, Idle
<1>8. TypeOK
  <2>1. sdv \in [at : {"execute", "blocked", "group", "step", "close", "stopped"},
                 cpu : Cpus, remaining : 0 .. WarmupChunk, group : 0 .. WarmupChunk,
                 regs : 0 .. Cardinality(Traps)]
    BY <1>2, <1>3 DEF Init, NTraps
  <2>2. asim \in [at : {"model", "before", "open", "blocked", "after", "request",
                        "fetch", "exiting", "stopped"},
                  cpu : Cpus, left : 0 .. WarmupChunk, chunk : 0 .. WarmupChunk,
                  open : BOOLEAN, fetch : BOOLEAN]
    BY <1>2, <1>3 DEF Init, Idle
  <2>3. sdvActive \in BOOLEAN /\ asimActive \in BOOLEAN /\ sdvAlive \in BOOLEAN
    BY DEF Init
  <2>4. warm \in [Cpus -> BOOLEAN]
    BY DEF Init
  <2>5. ended \in [Cpus -> {"no", "stream", "complete"}]
    BY DEF Init
  <2>6. regsUid \in 0 .. Cardinality(Traps)
    BY <1>3, <1>7 DEF NTraps
  <2> QED
    BY <1>4, <1>5, <1>6, <2>1, <2>2, <2>3, <2>4, <2>5, <2>6
    DEF TypeOK, InstrRings, RingsOf, RequestRings, RegValue, NTraps
<1>9. NoLinkError
  BY DEF Init, NoLinkError
<1>10. GroupFits
  BY <1>7, SoundSizes DEF GroupFits, InGroup, Serving
<1>11. UidsCount
  <2>1. ASSUME NEW p \in Traps PROVE ~(p[2] <= Begun(p[1]))
    <3>0. PICK d \in Cpus : \E k \in 1 .. Len(Stream[d]) : p = <<d, k>>
      BY <2>1, TrapsFinite
    <3>1. PICK k \in 1 .. Len(Stream[d]) : p = <<d, k>>
      BY <3>0
    <3>2. Begun(p[1]) = 0
      BY <1>7, <3>1 DEF Begun, InGroup
    <3> QED
      BY <3>1, <3>2, SoundSizes
  <2>2. Sent = {}
    BY <2>1 DEF Sent
  <2> QED
    BY <1>7, <2>2, FS_EmptySet DEF UidsCount
<1>12. ValuesInOrder
  <2>1. Len(<<>>) = 0 /\ 1 .. 0 = {} /\ <<>> \in Seq(1 .. 0)
    OBVIOUS
  <2> QED
    BY <1>5, <1>7, <2>1 DEF ValuesInOrder, RingInOrder, ValsInOrder
<1>13. NeedsInOrder
  <2>1. Len(<<>>) = 0 /\ 1 .. 0 = {}
    OBVIOUS
  <2> QED
    BY <1>4, <1>7, <2>1 DEF NeedsInOrder, Needs, InGroup
<1>14. Credits
  <2> SUFFICES ASSUME NEW c \in Cpus
               PROVE  ((0 + Cardinality(Asked(requestRing, c))) + 0) + 0 <= WarmupChunk
    BY <1>4, <1>7 DEF Credits, Executing, Unpaid, Serving, Reading
  <2>1. PICK order \in [1 .. Cardinality(Cpus) -> Cpus] :
            {order[k] : k \in DOMAIN order} = Cpus /\ requestRing = InitialRequests(order)
    BY DEF Init
  <2>2. Cardinality(Asked(requestRing, c)) <= WarmupChunk
    BY <1>1, <2>1, InitialCredits
  <2> QED
    BY <2>2, AskedFinite, Sizes
<1>15. ReadsChunk
  BY <1>7 DEF ReadsChunk
<1> QED
  BY <1>8, <1>9, <1>10, <1>11, <1>12, <1>13, <1>14, <1>15 DEF SInv

-----------------------------------------------------------------------------
(* The theorems.                                                           *)

LEMMA NextSInv == LInv /\ SInv /\ [Next]_vars => SInv'
<1> SUFFICES ASSUME LInv, SInv, [Next]_vars PROVE SInv'
  OBVIOUS
<1>0. LInv'
  BY NextLInv
<1>1. CASE UNCHANGED vars
  <2>1. TypeOK'
    BY <1>1 DEF SInv, TypeOK, vars, sdvVars, asimVars
  <2> QED
    BY <1>1, <2>1, Frames DEF SInv, vars, sdvVars, asimVars
<1>2. CASE AwaitRequest \/ RequestBlocked \/ EndOfWorkload \/ SdvDies
  <2>1. sdvActive \in BOOLEAN /\ sdvAlive \in BOOLEAN
    BY DEF SInv, TypeOK
  <2>2. sdvActive' \in BOOLEAN /\ sdvAlive' \in BOOLEAN
    BY <1>2, <2>1, Zenon DEF AwaitRequest, RequestBlocked, EndOfWorkload, SdvDies
  <2>3. UNCHANGED <<instrRing, regRing, requestRing, asimActive, err, executed,
                    regsUid, asimVars>>
    BY <1>2 DEF AwaitRequest, RequestBlocked, EndOfWorkload, SdvDies
  <2>4. \/ sdv' = sdv
        \/ \E place \in {"execute", "blocked", "stopped"} :
                ~InGroup /\ sdv' = [sdv EXCEPT !.at = place]
    BY <1>2 DEF AwaitRequest, RequestBlocked, EndOfWorkload, SdvDies, SdvAt, InGroup
  <2> QED
    BY <2>2, <2>3, <2>4, SdvStopsSInv
<1>3. CASE TakeRequest \/ Group \/ GroupWithRegisters \/ FillInstr \/ CloseInstr
  BY <1>3, TakeRequestSInv, GroupSInv, GroupWithRegistersSInv, FillInstrSInv, CloseInstrSInv
<1>4. CASE Asim
  BY <1>0, <1>4, AsimMovesSInv, ReadRegistersSInv, SendRequestSInv, AddInstrSInv
  DEF Asim, Feeder
<1> QED
  BY <1>1, <1>2, <1>3, <1>4 DEF Next, Softsdv

\* LInv and SInv are invariants of the link.
THEOREM SoundInvariant == Spec => [](LInv /\ SInv)
<1>1. Init => LInv /\ SInv
  BY InitLInv, InitSInv
<1>2. (LInv /\ SInv) /\ [Next]_vars => (LInv /\ SInv)'
  BY NextLInv, NextSInv
<1> QED
  BY <1>1, <1>2, PTL DEF Spec

\* The indices of the rings stay in range, SoftSDV never finds an instruction
\* ring without room for its request, and every instruction finds the register
\* values it needs: no assertion of either process fires.
THEOREM LinkIsSound == Spec => []LinkSound
<1>1. SInv => LinkSound
  BY DEF SInv, LinkSound
<1> QED
  BY <1>1, SoundInvariant, PTL

\* A step of the link is a step of its queues.
LEMMA QueuesStep ==
    ASSUME LInv, SInv, [Next]_vars
    PROVE  [Queues!Next]_([c \in Cpus |-> Contents(InstrEntries, instrRing[c])])
<1> DEFINE queue == [c \in Cpus |-> Contents(InstrEntries, instrRing[c])]
<1>1. ASSUME \A c \in Cpus : InstrQueue(c)' = InstrQueue(c) PROVE UNCHANGED queue
  BY <1>1 DEF InstrQueue
<1> HIDE DEF queue
<1>2. ASSUME FillInstr PROVE UNCHANGED queue
  <2>0. PICK c \in Cpus : c = sdv.cpu
    BY DEF LInv, LinkTypes
  <2>1. PICK x : x = [num |-> executed[c] + 1, regs |-> sdv.regs]
    OBVIOUS
  <2>2. instrRing' = [instrRing EXCEPT ![c] = Filled(instrRing[c], x)]
    BY <1>2, <2>0, <2>1 DEF FillInstr
  <2>3. instrRing'[c] = Filled(instrRing[c], x)
        /\ \A d \in Cpus : d # c => instrRing'[d] = instrRing[d]
    BY <2>2, RingFacts
  <2>4. Contents(InstrEntries, Filled(instrRing[c], x)) = InstrQueue(c)
    <3>1. PICK S : x \in S /\ instrRing[c] \in RingsOf(InstrEntries, S)
      <4>1. PICK S : S = (Instr(c) \cup {NoInstr}) \cup {x}
        OBVIOUS
      <4>2. instrRing[c] \in RingsOf(InstrEntries, S) /\ x \in S
        BY <4>1, RingFacts DEF InstrRings, RingsOf
      <4> QED
        BY <4>2
    <3>2. PICK new : new = Filled(instrRing[c], x)
      OBVIOUS
    <3>3. /\ new \in RingsOf(InstrEntries, S)
          /\ new.reader = instrRing[c].reader /\ new.writer = instrRing[c].writer
          /\ new.payload = [instrRing[c].payload EXCEPT ![instrRing[c].writer] = x]
          /\ Contents(InstrEntries, new) = Contents(InstrEntries, instrRing[c])
      BY <3>1, <3>2, Sizes, ContentsFilled
    <3> QED
      BY <3>2, <3>3 DEF InstrQueue
  <2>5. \A d \in Cpus : InstrQueue(d)' = InstrQueue(d)
    BY <2>3, <2>4 DEF InstrQueue
  <2> QED
    BY <1>1, <2>5
<1> USE DEF queue
<1>3. ASSUME CloseInstr PROVE Queues!Next
  <2>1. PICK c \in Cpus : c = sdv.cpu
    BY DEF LInv, LinkTypes
  <2>2. PICK x : x = instrRing[c].payload[instrRing[c].writer]
    OBVIOUS
  <2>3. sdv.at = "close"
        /\ instrRing' = [instrRing EXCEPT ![c] = Published(InstrEntries, instrRing[c])]
    BY <1>3, <2>1 DEF CloseInstr, SdvAt
  <2>4. After(InstrEntries, instrRing[c].writer) # instrRing[c].reader
        /\ x.num = executed[c] + 1 /\ executed[c] \in Nat
    BY <2>1, <2>2, <2>3 DEF LInv, NoSharedEntry, Written, LinkTypes
  <2>5. x \in Instr(c)
    <3>1. x \in Instr(c) \cup {NoInstr}
      BY <2>2, RingFacts DEF InstrRings, RingsOf
    <3>2. x # NoInstr
      BY <2>4 DEF NoInstr
    <3> QED
      BY <3>1, <3>2
  <2>6. /\ Contents(InstrEntries, Published(InstrEntries, instrRing[c]))
            = Append(queue[c], x)
        /\ Len(queue[c]) < InstrEntries - 1
    <3>1. PICK S : S = Instr(c) \cup {NoInstr}
      OBVIOUS
    <3>2. instrRing[c] \in RingsOf(InstrEntries, S)
      BY <3>1, RingFacts DEF InstrRings
    <3>3. RingSlots(InstrEntries, instrRing[c])
      BY <3>2 DEF RingsOf, RingSlots
    <3>4. /\ NReadSlotsAvailable(InstrEntries, instrRing[c]) # InstrEntries - 1
          /\ NReadSlotsAvailable(InstrEntries, instrRing[c]) \in 0 .. InstrEntries - 1
      BY <2>4, <3>3, Sizes, RingFill
    <3>5. Len(queue[c]) = NReadSlotsAvailable(InstrEntries, instrRing[c])
      BY RingFacts DEF InstrQueue
    <3>6. Contents(InstrEntries, Published(InstrEntries, instrRing[c]))
            = Append(queue[c], x)
      BY <2>2, <2>4, <3>2, Sizes, ContentsPublished
    <3> QED
      BY <3>4, <3>5, <3>6, Sizes
  <2>7. queue' = [queue EXCEPT ![c] = Append(queue[c], x)]
    <3>1. /\ instrRing'[c] = Published(InstrEntries, instrRing[c])
          /\ \A d \in Cpus : d # c => instrRing'[d] = instrRing[d]
      BY <2>3, RingFacts
    <3> QED
      BY <2>6, <3>1
  <2>8. x \in [d \in Cpus |-> Instr(d)][c]
    BY <2>5
  <2> HIDE DEF queue
  <2>9. Queues!Put(c, x)
    BY <2>6, <2>7 DEF Queues!Put, queue
  <2> QED
    BY <2>8, <2>9 DEF Queues!Next
<1>4. ASSUME AddInstr PROVE Queues!Next
  <2>1. PICK c \in Cpus : c = asim.cpu
    BY DEF LInv, LinkTypes
  <2>2. asim.open
        /\ instrRing' = [instrRing EXCEPT ![c] = Released(InstrEntries, instrRing[c])]
    BY <1>4, <2>1 DEF AddInstr
  <2>3. instrRing[c].reader # instrRing[c].writer
    BY <2>1, <2>2 DEF LInv, NoSharedEntry
  <2>4. /\ Contents(InstrEntries, Released(InstrEntries, instrRing[c])) = Tail(queue[c])
        /\ queue[c] # <<>>
    <3>1. PICK S : S = Instr(c) \cup {NoInstr}
      OBVIOUS
    <3>2. instrRing[c] \in RingsOf(InstrEntries, S)
      BY <3>1, RingFacts DEF InstrRings
    <3> QED
      BY <2>3, <3>2, Sizes, ContentsReleased
  <2>5. queue' = [queue EXCEPT ![c] = Tail(queue[c])]
    <3>1. /\ instrRing'[c] = Released(InstrEntries, instrRing[c])
          /\ \A d \in Cpus : d # c => instrRing'[d] = instrRing[d]
      BY <2>2, RingFacts
    <3> QED
      BY <2>4, <3>1
  <2> HIDE DEF queue
  <2>6. Queues!Take(c)
    BY <2>4, <2>5 DEF Queues!Take, queue
  <2> QED
    BY <2>6 DEF Queues!Next
<1>5. ASSUME UNCHANGED instrRing PROVE UNCHANGED queue
  BY <1>5
<1>6. UNCHANGED instrRing \/ FillInstr \/ CloseInstr \/ AddInstr
  BY DEF Next, Softsdv, Asim, Feeder, Calls, Call, vars,
         TakeRequest, AwaitRequest, RequestBlocked, Group, GroupWithRegisters, BeginGroup,
         EndOfWorkload, SdvDies, ReadRegisters, RegistersRead, OpenInstr, OpenBlocked,
         NoInstrLeft, SendRequest, SendBlocked, FetchNext, StopAsim, AsimExits
<1> QED
  BY <1>2, <1>3, <1>4, <1>5, <1>6

\* The instruction rings are bounded first-in first-out queues: entries are
\* appended whole, never change while they wait, and leave in order.
THEOREM RingsImplementQueues == Spec => RingsAreQueues
<1>1. Init => Queues!Init
  <2> SUFFICES ASSUME Init PROVE Queues!Init
    OBVIOUS
  <2>1. \A c \in Cpus : Contents(InstrEntries, instrRing[c]) = <<>>
    <3> TAKE c \in Cpus
    <3>1. instrRing[c] = NewRing(InstrEntries, NoInstr) /\ NoInstr \in {NoInstr}
      BY DEF Init
    <3> QED
      BY <3>1, Sizes, NewRingEmpty
  <2> QED
    BY <2>1 DEF Queues!Init
<1>2. (LInv /\ SInv) /\ [Next]_vars
        => [Queues!Next]_([c \in Cpus |-> Contents(InstrEntries, instrRing[c])])
  BY QueuesStep
<1> QED
  BY <1>1, <1>2, SoundInvariant, PTL DEF Spec, RingsAreQueues, Queues!Spec
=============================================================================
