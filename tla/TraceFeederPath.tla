--------------------------- MODULE TraceFeederPath ---------------------------
(***************************************************************************)
(* On regular instances the trace feeder keeps to the path, for any trace, *)
(* buffer and window: the invariants of TraceFeeder beyond its types, and  *)
(* the order in which the model retires.                                   *)
(*                                                                         *)
(* FeedInv of TraceFeederProofs speaks of the slots of one buffer.  Here   *)
(* every slot gets its place in the trace (Content, At), counted from the  *)
(* place c of the last commit, so that the instructions in flight are      *)
(* those of an interval of the trace without its orphans (Tracks, Line).   *)
(* What lies in flight has an order of its own (Chain), and PathInv says   *)
(* besides that the feeder's flags and the address the model goes on at    *)
(* agree with both (Signals, Stands, Settled).                             *)
(*                                                                         *)
(* First what the buffer's calls do to Tracks, then what each step does to *)
(* the rest, and the theorems at the end.                                  *)
(***************************************************************************)
EXTENDS TraceFeederProofs

-----------------------------------------------------------------------------
(* The places of the trace that the slots hold.                            *)

Holds(s, x, v) ==
    /\ v \in 1 .. Len(Trace[s]) => /\ x.pos = v
                                   /\ x.wrongpath = IsOrphan(s, v)
                                   /\ x.nop => Trace[s][v].kind = "nop"
    /\ v > Len(Trace[s]) =>
          /\ x.pos = EofPos(s)
          /\ v - BufSize \in 1 .. Len(Trace[s]) => x.wrongpath = IsOrphan(s, v - BufSize)

\* The place of slot i when c is the place of the last commit.
Place(b, c, i) == IF Off(b, i) < Limit(b) THEN c + Off(b, i) ELSE c + Off(b, i) - BufSize

Content(s, b, c) ==
    /\ c \in Nat
    /\ \A i \in Slots : Holds(s, b.slot[i], Place(b, c, i))
    /\ b.readPos = AtMost(c + Limit(b), EofPos(s))

\* The place of the head.
At(b, c) == c + Off(b, b.head)

LEMMA OrphanIs ==
    ASSUME NEW s \in Streams, NEW p \in 1 .. Len(Trace[s])
    PROVE  IsOrphan(s, p) = (Trace[s][p].kind = "orphan") /\ IsOrphan(s, p) \in BOOLEAN
<1>1. p <= Len(Trace[s])
  BY Places
<1> QED
  BY <1>1 DEF IsOrphan

\* A slot of the buffer, by its place.
LEMMA AtPlace ==
    ASSUME NEW s \in Streams, NEW b \in Buffers(s), NEW c, Content(s, b, c),
           NEW v \in Nat, v >= 1, v >= c, v < c + Limit(b)
    PROVE  \E i \in Slots :
             /\ Off(b, i) = v - c /\ Off(b, i) \in Nat /\ Off(b, i) < Limit(b)
             /\ v <= Len(Trace[s]) => /\ b.slot[i].pos = v
                                      /\ b.slot[i].wrongpath = IsOrphan(s, v)
                                      /\ b.slot[i].nop => Trace[s][v].kind = "nop"
             /\ v > Len(Trace[s]) =>
                   /\ b.slot[i].pos = EofPos(s)
                   /\ v - BufSize \in 1 .. Len(Trace[s]) =>
                         b.slot[i].wrongpath = IsOrphan(s, v - BufSize)
<1>1. c \in Nat /\ b.lastcommit \in Slots
  BY Members DEF Content
<1>2. /\ Limit(b) \in Nat /\ Limit(b) <= BufSize /\ BufSize \in Nat
      /\ \A i \in Slots : Off(b, i) \in Nat
  BY Offsets, Sizes
<1>3. PICK o \in Nat : o = v - c /\ o < Limit(b) /\ o < BufSize /\ c + o = v
  BY <1>1, <1>2
<1>4. PICK i \in Slots : Off(b, i) = o
  BY <1>1, <1>3, RingOnto DEF Off
<1>5. Place(b, c, i) = v
  BY <1>3, <1>4 DEF Place
<1>6. Holds(s, b.slot[i], v)
  BY <1>5 DEF Content
<1>7. v <= Len(Trace[s]) => v \in 1 .. Len(Trace[s])
  BY Places
<1> QED
  BY <1>3, <1>4, <1>6, <1>7 DEF Holds

LEMMA OfSlot ==
    ASSUME NEW s \in Streams, NEW b \in Buffers(s), NEW c, Content(s, b, c),
           NEW i \in Slots, Off(b, i) < Limit(b), NEW v, v = c + Off(b, i), v >= 1
    PROVE  /\ v \in Nat
           /\ v <= Len(Trace[s]) => /\ b.slot[i].pos = v
                                    /\ b.slot[i].wrongpath = IsOrphan(s, v)
                                    /\ b.slot[i].nop => Trace[s][v].kind = "nop"
           /\ v > Len(Trace[s]) =>
                 /\ b.slot[i].pos = EofPos(s)
                 /\ v - BufSize \in 1 .. Len(Trace[s]) =>
                       b.slot[i].wrongpath = IsOrphan(s, v - BufSize)
<1>1. c \in Nat /\ Off(b, i) \in Nat
  BY Offsets DEF Content
<1>2. Holds(s, b.slot[i], v)
  BY DEF Content, Place
<1>3. v \in Nat
  BY <1>1
<1>4. v <= Len(Trace[s]) => v \in 1 .. Len(Trace[s])
  BY <1>3, Places
<1> QED
  BY <1>2, <1>3, <1>4 DEF Holds

\* What a read leaves in a slot.
LEMMA ReadIs ==
    ASSUME NEW s \in Streams, NEW p \in Nat, NEW old \in Cells(s)
    PROVE  /\ p <= Len(Trace[s]) =>
                 /\ GetNextInst(s, p, old).pos = p
                 /\ GetNextInst(s, p, old).wrongpath = (Trace[s][p].kind = "orphan")
                 /\ GetNextInst(s, p, old).nop = FALSE
           /\ p > Len(Trace[s]) =>
                 /\ GetNextInst(s, p, old).pos = EofPos(s)
                 /\ GetNextInst(s, p, old).wrongpath = old.wrongpath
<1>1. Len(Trace[s]) \in Nat /\ EofPos(s) = Len(Trace[s]) + 1
  BY Places
<1>2. CASE p > Len(Trace[s])
  <2>1. GetNextInst(s, p, old) = [old EXCEPT !.pos = EofPos(s)]
    BY <1>1, <1>2 DEF GetNextInst
  <2>2. ~(p <= Len(Trace[s]))
    BY <1>1, <1>2
  <2> QED
    BY <2>1, <2>2 DEF Cells
<1>3. CASE p <= Len(Trace[s])
  <2>1. ~(p >= EofPos(s)) /\ ~(p > Len(Trace[s]))
    BY <1>1, <1>3
  <2>2. GetNextInst(s, p, old) =
           [pos |-> p, wrongpath |-> Trace[s][p].kind = "orphan", nop |-> FALSE]
    BY <2>1 DEF GetNextInst
  <2> QED
    BY <2>1, <2>2
<1> QED
  BY <1>1, <1>2, <1>3

\* A read that fills a slot, at the place it gets.
LEMMA ReadHolds ==
    ASSUME NEW s \in Streams, NEW v \in Nat, v >= 1, NEW old \in Cells(s),
           v >= BufSize => Holds(s, old, v - BufSize),
           NEW p \in Nat, p = v \/ (p > Len(Trace[s]) /\ v > Len(Trace[s])),
           NEW x, x = GetNextInst(s, p, old)
    PROVE  Holds(s, x, v)
<1>1. Len(Trace[s]) \in Nat /\ BufSize \in Nat
  BY Places, Sizes
<1>2. /\ p <= Len(Trace[s]) =>
            /\ x.pos = p
            /\ x.wrongpath = (Trace[s][p].kind = "orphan")
            /\ x.nop = FALSE
      /\ p > Len(Trace[s]) => x.pos = EofPos(s) /\ x.wrongpath = old.wrongpath
  BY ReadIs
<1>3. CASE v <= Len(Trace[s])
  <2>1. p = v /\ v \in 1 .. Len(Trace[s]) /\ ~(v > Len(Trace[s]))
    BY <1>1, <1>3
  <2>2. x.pos = v /\ x.wrongpath = (Trace[s][v].kind = "orphan") /\ x.nop = FALSE
    BY <1>2, <1>3, <2>1
  <2>3. x.wrongpath = IsOrphan(s, v)
    BY <2>1, <2>2, OrphanIs
  <2> QED
    BY <2>1, <2>2, <2>3 DEF Holds
<1>4. CASE v > Len(Trace[s])
  <2>1. p > Len(Trace[s]) /\ v \notin 1 .. Len(Trace[s])
    BY <1>1, <1>4
  <2>2. x.pos = EofPos(s) /\ x.wrongpath = old.wrongpath
    BY <1>2, <2>1
  <2>3. ASSUME v - BufSize \in 1 .. Len(Trace[s])
        PROVE  x.wrongpath = IsOrphan(s, v - BufSize)
    <3>1. v >= BufSize
      BY <1>1, <2>3
    <3>2. old.wrongpath = IsOrphan(s, v - BufSize)
      BY <2>3, <3>1 DEF Holds
    <3> QED
      BY <2>2, <3>2
  <2> QED
    BY <2>1, <2>2, <2>3 DEF Holds
<1> QED
  BY <1>1, <1>3, <1>4

LEMMA FillContent ==
    ASSUME NEW s \in Streams, NEW b \in Buffers(s), NEW c, Content(s, b, c),
           b.filled # b.lastcommit, NEW f, f = FillBuffer(s, b)
    PROVE  Content(s, f, c)
<1>1. /\ c \in Nat /\ b.readPos = AtMost(c + Limit(b), EofPos(s))
      /\ \A i \in Slots : Holds(s, b.slot[i], Place(b, c, i))
  BY DEF Content
<1>2. /\ f \in Buffers(s) /\ f.lastcommit = b.lastcommit
      /\ f.readPos = AtMost(b.readPos + (BufSize - Limit(b)), EofPos(s))
      /\ \A i \in Slots :
            f.slot[i] = IF Off(b, i) < Limit(b) THEN b.slot[i]
                        ELSE GetNextInst(s, b.readPos + (Off(b, i) - Limit(b)), b.slot[i])
      /\ f.filled = b.lastcommit
  BY FillIs
<1>3. /\ Limit(b) \in Nat /\ Limit(b) >= 1 /\ Limit(b) <= BufSize /\ BufSize \in Nat
      /\ \A i \in Slots : Off(b, i) \in Nat /\ Off(b, i) < BufSize /\ Off(f, i) = Off(b, i)
      /\ Limit(f) = BufSize
  <2>1. Limit(f) = BufSize
    BY <1>2 DEF Limit
  <2>2. \A i \in Slots : Off(f, i) = Off(b, i)
    BY <1>2 DEF Off
  <2> QED
    BY <2>1, <2>2, Offsets, Sizes
<1>4. EofPos(s) = Len(Trace[s]) + 1 /\ Len(Trace[s]) \in Nat /\ EofPos(s) \in Nat
  BY Places
<1>5. f.readPos = AtMost(c + Limit(f), EofPos(s))
  <2>2. PICK l \in Nat, n \in Nat, e \in Nat : l = Limit(b) /\ n = BufSize /\ e = EofPos(s)
    BY <1>3, <1>4
  <2>3. b.readPos = IF c + l <= e THEN c + l ELSE e
    BY <1>1, <2>2 DEF AtMost
  <2>4. f.readPos = IF b.readPos + (n - l) <= e THEN b.readPos + (n - l) ELSE e
    BY <1>2, <2>2 DEF AtMost
  <2>5. l <= n
    BY <1>3, <2>2
  <2>6. f.readPos = IF c + n <= e THEN c + n ELSE e
    BY <1>1, <2>3, <2>4, <2>5
  <2> QED
    BY <1>3, <2>2, <2>6 DEF AtMost
<1>6. ASSUME NEW i \in Slots PROVE Holds(s, f.slot[i], Place(f, c, i))
  <2>1. Place(f, c, i) = c + Off(b, i)
    BY <1>3 DEF Place
  <2>2. CASE Off(b, i) < Limit(b)
    <3>1. f.slot[i] = b.slot[i] /\ Place(b, c, i) = c + Off(b, i)
      BY <1>2, <2>2 DEF Place
    <3> QED
      BY <1>1, <2>1, <3>1
  <2>3. CASE ~(Off(b, i) < Limit(b))
    <3>1. PICK v \in Nat : v = c + Off(b, i)
      BY <1>1, <1>3
    <3>2. v >= 1
      BY <1>1, <1>3, <2>3, <3>1
    <3>3. b.slot[i] \in Cells(s)
      BY Members
    <3>4. v >= BufSize => Holds(s, b.slot[i], v - BufSize)
      <4>1. Place(b, c, i) = c + Off(b, i) - BufSize
        BY <2>3 DEF Place
      <4>2. Place(b, c, i) = v - BufSize
        BY <1>1, <1>3, <3>1, <4>1
      <4> QED
        BY <1>1, <4>2
    <3>5. PICK p \in Nat : p = b.readPos + (Off(b, i) - Limit(b))
      <4>1. b.readPos \in Nat
        BY Members
      <4> QED
        BY <1>3, <2>3, <4>1
    <3>6. p = v \/ (p > Len(Trace[s]) /\ v > Len(Trace[s]))
      <4>1. b.readPos = IF c + Limit(b) <= EofPos(s) THEN c + Limit(b) ELSE EofPos(s)
        BY <1>1 DEF AtMost
      <4> QED
        BY <1>1, <1>3, <1>4, <2>3, <3>1, <3>5, <4>1
    <3>7. f.slot[i] = GetNextInst(s, p, b.slot[i])
      BY <1>2, <2>3, <3>5
    <3>8. Holds(s, f.slot[i], v)
      BY <3>2, <3>3, <3>4, <3>6, <3>7, ReadHolds
    <3> QED
      BY <2>1, <3>1, <3>8
  <2> QED
    BY <2>2, <2>3
<1> QED
  BY <1>1, <1>5, <1>6 DEF Content

\* Content depends on neither head nor fault, and a commit shifts it.
LEMMA SameContent ==
    ASSUME NEW s \in Streams, NEW b, NEW c, Content(s, b, c), NEW d,
           d.lastcommit = b.lastcommit, d.filled = b.filled, d.readPos = b.readPos,
           d.slot = b.slot
    PROVE  Content(s, d, c)
<1>1. Limit(d) = Limit(b) /\ \A i \in Slots : Off(d, i) = Off(b, i)
  BY DEF Limit, Off
<1>2. \A i \in Slots : Place(d, c, i) = Place(b, c, i)
  BY <1>1 DEF Place
<1> QED
  BY <1>1, <1>2 DEF Content

LEMMA CommitContent ==
    ASSUME NEW s \in Streams, NEW b \in Buffers(s), NEW c, Content(s, b, c),
           NEW d \in Buffers(s), d.filled = b.filled, d.readPos = b.readPos, d.slot = b.slot,
           NEW o, o = Off(b, d.lastcommit), o < Limit(b)
    PROVE  Content(s, d, c + o)
<1>1. /\ o \in Nat
      /\ Limit(d) = Limit(b) - o
      /\ \A i \in Slots : Off(d, i) = IF o <= Off(b, i) THEN Off(b, i) - o
                                      ELSE (Off(b, i) - o) + BufSize
  BY CommitShifts
<1>2. /\ Limit(b) \in Nat /\ Limit(b) <= BufSize /\ BufSize \in Nat /\ c \in Nat
      /\ \A i \in Slots : Off(b, i) \in Nat /\ Off(b, i) < BufSize
  BY Offsets, Sizes DEF Content
<1>3. ASSUME NEW i \in Slots PROVE Place(d, c + o, i) = Place(b, c, i)
  <2>1. PICK x \in Nat : x = Off(b, i) /\ x < BufSize
    BY <1>2
  <2>2. Off(d, i) = IF o <= x THEN x - o ELSE (x - o) + BufSize
    BY <1>1, <2>1
  <2>3. PICK l \in Nat, n \in Nat : l = Limit(b) /\ n = BufSize /\ l <= n
    BY <1>2
  <2>4. Place(b, c, i) = IF x < l THEN c + x ELSE c + x - n
    BY <2>1, <2>3 DEF Place
  <2>5. Place(d, c + o, i) = IF Off(d, i) < l - o THEN (c + o) + Off(d, i)
                             ELSE (c + o) + Off(d, i) - n
    BY <1>1, <2>3 DEF Place
  <2>6. CASE o <= x
    BY <1>1, <1>2, <2>2, <2>4, <2>5, <2>6
  <2>7. CASE ~(o <= x)
    <3>1. Off(d, i) = (x - o) + n /\ x < l
      BY <1>1, <1>2, <2>1, <2>2, <2>3, <2>7
    <3>2. ~(Off(d, i) < l - o)
      BY <1>1, <2>3, <3>1
    <3>3. Place(d, c + o, i) = (c + o) + ((x - o) + n) - n
      BY <2>5, <3>1, <3>2
    <3> QED
      BY <1>1, <1>2, <2>4, <3>1, <3>3
  <2> QED
    BY <2>6, <2>7
<1>4. c + o \in Nat /\ (c + o) + Limit(d) = c + Limit(b)
  BY <1>1, <1>2
<1> QED
  BY <1>3, <1>4 DEF Content

-----------------------------------------------------------------------------
(* The instructions in flight lie on the trace's path.                     *)

\* No instruction of the trace between a and h, neither included.
Clear(s, a, h) ==
    \A p \in Nat : a < p /\ p < h /\ p <= Len(Trace[s]) => IsOrphan(s, p)

LEMMA ClearNext ==
    ASSUME NEW s \in Streams, NEW a \in Nat, a <= Len(Trace[s]), NEW v \in Nat, a < v,
           Clear(s, a, v), v <= Len(Trace[s]) => ~IsOrphan(s, v)
    PROVE  /\ v <= Len(Trace[s]) =>
                 /\ NextOnPath(s, a) = v /\ NextPc(s, a) = Trace[s][v].pc
                 /\ NextPc(s, a) \in Nat \ {0} /\ v # EofPos(s)
           /\ v > Len(Trace[s]) => NextOnPath(s, a) = EofPos(s) /\ NextPc(s, a) = AnyPc
<1>1. Len(Trace[s]) \in Nat /\ EofPos(s) = Len(Trace[s]) + 1
  BY Places
<1>2. PICK q \in Nat : /\ q = NextOnPath(s, a) /\ q >= a + 1 /\ q <= EofPos(s)
                       /\ ~IsOrphan(s, q)
                       /\ \A p \in a + 1 .. q - 1 : IsOrphan(s, p)
                       /\ NextPc(s, a) = IF q = EofPos(s) THEN AnyPc ELSE Trace[s][q].pc
  BY OnPath
<1>3. CASE v <= Len(Trace[s])
  <2>1. ~(q < v)
    BY <1>1, <1>2, <1>3 DEF Clear
  <2>2. ~(v < q)
    <3>1. v < q => v \in a + 1 .. q - 1
      BY <1>2
    <3> QED
      BY <1>2, <1>3, <3>1
  <2>3. q = v /\ q # EofPos(s) /\ q \in 1 .. Len(Trace[s])
    BY <1>1, <1>3, <2>1, <2>2
  <2>4. Trace[s][q].pc \in Nat \ {0}
    BY <2>3, Places
  <2> QED
    BY <1>1, <1>2, <1>3, <2>3, <2>4
<1>4. CASE v > Len(Trace[s])
  <2>1. q = EofPos(s)
    <3>1. q <= Len(Trace[s]) => IsOrphan(s, q)
      BY <1>1, <1>2, <1>4 DEF Clear
    <3> QED
      BY <1>1, <1>2, <3>1
  <2> QED
    BY <1>1, <1>2, <1>4, <2>1
<1> QED
  BY <1>1, <1>3, <1>4

Reals(P) == {j \in DOMAIN P : P[j].kind = "real"}

\* The instructions of the trace in flight are those between r and h, in order.
Line(s, P, r, h) ==
    /\ r \in Nat /\ h \in Nat /\ r < h /\ r <= Len(Trace[s])
    /\ \A j \in Reals(P) : /\ P[j].pos \in Nat /\ r < P[j].pos /\ P[j].pos < h
                           /\ P[j].pos <= Len(Trace[s]) /\ ~IsOrphan(s, P[j].pos)
    /\ \A i, j \in Reals(P) : i < j => P[i].pos < P[j].pos
    /\ \A p \in Nat : r < p /\ p < h /\ p <= Len(Trace[s]) /\ ~IsOrphan(s, p) =>
          \E j \in Reals(P) : P[j].pos = p

\* The first instruction of the trace in flight is the one after r.
LEMMA LineFirst ==
    ASSUME NEW s \in Streams, NEW P, DOMAIN P \subseteq Nat, NEW r, NEW h, Line(s, P, r, h),
           NEW i \in Reals(P), \A j \in Reals(P) : ~(j < i)
    PROVE  NextOnPath(s, r) = P[i].pos /\ NextPc(s, r) = Trace[s][P[i].pos].pc
           /\ P[i].pos # EofPos(s)
<1>1. /\ r \in Nat /\ h \in Nat /\ r <= Len(Trace[s])
      /\ P[i].pos \in Nat /\ r < P[i].pos /\ P[i].pos < h
      /\ P[i].pos <= Len(Trace[s]) /\ ~IsOrphan(s, P[i].pos)
  BY DEF Line
<1>2. ASSUME NEW p \in Nat, r < p, p < P[i].pos, p <= Len(Trace[s]), ~IsOrphan(s, p)
      PROVE  FALSE
  <2>1. PICK j \in Reals(P) : P[j].pos = p
    <3>1. p < h
      BY <1>1, <1>2
    <3> QED
      BY <1>2, <3>1 DEF Line
  <2>2. i \in Nat /\ j \in Nat
    BY DEF Reals
  <2>3. CASE i = j
    BY <1>1, <1>2, <2>1, <2>3
  <2>4. CASE i < j
    <3>1. P[i].pos < P[j].pos
      BY <2>4 DEF Line
    <3> QED
      BY <1>1, <1>2, <2>1, <3>1
  <2> QED
    BY <2>2, <2>3, <2>4
<1>3. Clear(s, r, P[i].pos)
  BY <1>2 DEF Clear
<1>4. PICK v \in Nat : v = P[i].pos
  BY <1>1
<1> QED
  BY <1>1, <1>3, <1>4, ClearNext

\* Two of them with none in between are neighbours in the trace.
LEMMA LineNext ==
    ASSUME NEW s \in Streams, NEW P, DOMAIN P \subseteq Nat, NEW r, NEW h, Line(s, P, r, h),
           NEW d \in Reals(P), NEW i \in Reals(P), d < i,
           \A j \in Reals(P) : ~(d < j /\ j < i)
    PROVE  NextOnPath(s, P[d].pos) = P[i].pos
<1>1. /\ r \in Nat /\ h \in Nat /\ r <= Len(Trace[s])
      /\ P[i].pos \in Nat /\ P[i].pos < h
      /\ P[i].pos <= Len(Trace[s]) /\ ~IsOrphan(s, P[i].pos)
      /\ P[d].pos \in Nat /\ r < P[d].pos /\ P[d].pos < P[i].pos
      /\ P[d].pos <= Len(Trace[s])
  BY DEF Line
<1>2. ASSUME NEW p \in Nat, P[d].pos < p, p < P[i].pos, p <= Len(Trace[s]), ~IsOrphan(s, p)
      PROVE  FALSE
  <2>1. PICK j \in Reals(P) : P[j].pos = p
    <3>1. p < h /\ r < p
      BY <1>1, <1>2
    <3> QED
      BY <1>2, <3>1 DEF Line
  <2>2. i \in Nat /\ j \in Nat /\ d \in Nat
    BY DEF Reals
  <2>3. CASE i = j \/ d = j
    BY <1>1, <1>2, <2>1, <2>3
  <2>4. CASE i < j
    <3>1. P[i].pos < P[j].pos
      BY <2>4 DEF Line
    <3> QED
      BY <1>1, <1>2, <2>1, <3>1
  <2>5. CASE j < d
    <3>1. P[j].pos < P[d].pos
      BY <2>5 DEF Line
    <3> QED
      BY <1>1, <1>2, <2>1, <3>1
  <2> QED
    BY <2>2, <2>3, <2>4, <2>5
<1>3. Clear(s, P[d].pos, P[i].pos)
  BY <1>2 DEF Clear
<1>4. PICK v \in Nat : v = P[i].pos
  BY <1>1
<1>5. PICK a \in Nat : a = P[d].pos
  BY <1>1
<1> QED
  BY <1>1, <1>3, <1>4, <1>5, ClearNext

\* Nothing lies between the last of them, or r, and h.
LEMMA LineLast ==
    ASSUME NEW s \in Streams, NEW P, DOMAIN P \subseteq Nat, NEW r, NEW h, Line(s, P, r, h)
    PROVE  /\ Reals(P) = {} => Clear(s, r, h)
           /\ \A d \in Reals(P) : (\A j \in Reals(P) : ~(d < j)) => Clear(s, P[d].pos, h)
<1>1. ASSUME NEW d \in Reals(P), \A j \in Reals(P) : ~(d < j),
             NEW p \in Nat, P[d].pos < p, p < h, p <= Len(Trace[s]), ~IsOrphan(s, p)
      PROVE  FALSE
  <2>1. r \in Nat /\ P[d].pos \in Nat /\ r < P[d].pos
    BY DEF Line
  <2>2. PICK j \in Reals(P) : P[j].pos = p
    <3>1. r < p
      BY <1>1, <2>1
    <3> QED
      BY <1>1, <3>1 DEF Line
  <2>3. d \in Nat /\ j \in Nat
    BY DEF Reals
  <2>4. CASE d = j
    BY <1>1, <2>1, <2>2, <2>4
  <2>5. CASE j < d
    <3>1. P[j].pos < P[d].pos
      BY <2>5 DEF Line
    <3> QED
      BY <1>1, <2>1, <2>2, <3>1
  <2> QED
    BY <1>1, <2>3, <2>4, <2>5
<1> QED
  BY <1>1 DEF Clear, Line

-----------------------------------------------------------------------------
(* A buffer, the instructions in flight and the last one retired.          *)

\* The head has passed slot i: its instruction is an orphan, a no-op retired
\* without a commit, or in flight.
Accounted(b, P, r, i) ==
    \/ b.slot[i].wrongpath
    \/ b.slot[i].nop /\ b.slot[i].pos <= r
    \/ \E j \in Reals(P) : P[j].id = i

Proper(s, b, r, e) ==
    /\ r < e.pos
    /\ Trace[s][e.pos].kind # "orphan"
    /\ Trace[s][e.pos].kind = "nop" => b.slot[e.id].nop
    /\ e.pc = Trace[s][e.pos].pc

\* A head beyond the end of the trace is not taken for an orphan.
Tracks(s, b, c, P, r) ==
    /\ Content(s, b, c)
    /\ r <= Len(Trace[s]) /\ r < At(b, c)
    /\ \A p \in Nat : r < p /\ p <= c /\ p < At(b, c) /\ p <= Len(Trace[s]) => IsOrphan(s, p)
    /\ c > Len(Trace[s]) \/ At(b, c) > Len(Trace[s]) + 1 => ~IsWrongpath(b)
    /\ \A i \in Slots : Off(b, i) >= 1 /\ Off(b, i) < Off(b, b.head) => Accounted(b, P, r, i)
    /\ \A j \in Reals(P) : Proper(s, b, r, P[j])
    /\ \A j \in DOMAIN P :
          P[j].kind = "pad" /\ b.slot[P[j].id].pos = EofPos(s) =>
             P[j].id = b.head /\ ~IsWrongpath(b)

Feeds(s, b, c, P, r, over) ==
    /\ b \in Buffers(s) /\ b.fault = "none" /\ r \in Nat
    /\ Ordered(s, P, over) /\ Held(b, P) /\ Within(b, P, over)
    /\ Tracks(s, b, c, P, r)

LEMMA FeedsFacts ==
    ASSUME NEW s \in Streams, NEW b, NEW c, NEW P, NEW r, NEW over, Feeds(s, b, c, P, r, over)
    PROVE  /\ b \in Buffers(s) /\ b.head \in Slots /\ c \in Nat /\ r \in Nat /\ Content(s, b, c)
           /\ Len(Trace[s]) \in Nat /\ EofPos(s) = Len(Trace[s]) + 1
           /\ BufSize \in Nat /\ BufSize >= 2
           /\ At(b, c) \in Nat /\ At(b, c) = c + Off(b, b.head) /\ c <= At(b, c)
           /\ Off(b, b.head) \in Nat /\ Limit(b) \in Nat /\ Off(b, b.head) < Limit(b)
           /\ Limit(b) <= BufSize /\ \A i \in Slots : Off(b, i) \in Nat /\ Off(b, i) < BufSize
           /\ P \in Seq(Instr(s)) /\ Len(P) \in Nat /\ DOMAIN P = 1 .. Len(P)
           /\ DOMAIN P \subseteq Nat /\ Reals(P) \subseteq DOMAIN P
<1>1. /\ b \in Buffers(s) /\ c \in Nat /\ r \in Nat /\ Content(s, b, c)
      /\ P \in Seq(Instr(s))
  BY DEF Feeds, Tracks, Content, Ordered
<1>2. b.head \in Slots
  BY <1>1, Members
<1>3. /\ \A i \in Slots : Off(b, i) \in Nat /\ Off(b, i) < BufSize
      /\ Limit(b) \in Nat /\ Limit(b) <= BufSize
  BY <1>1, Offsets
<1>4. Off(b, b.head) < Limit(b)
  BY DEF Feeds, Within
<1>5. At(b, c) \in Nat /\ At(b, c) = c + Off(b, b.head) /\ c <= At(b, c)
  BY <1>1, <1>2, <1>3 DEF At
<1>6. Len(P) \in Nat /\ DOMAIN P = 1 .. Len(P) /\ DOMAIN P \subseteq Nat
  BY <1>1
<1>7. Reals(P) \subseteq DOMAIN P
  BY DEF Reals
<1> QED
  BY <1>1, <1>2, <1>3, <1>4, <1>5, <1>6, <1>7, Places, Sizes

\* The place of an instruction of the trace in flight.
LEMMA RealPlace ==
    ASSUME NEW s \in Streams, NEW b, NEW c, NEW P, NEW r, NEW over, Feeds(s, b, c, P, r, over),
           NEW j \in Reals(P)
    PROVE  /\ P[j].id \in Slots /\ P[j].pos = c + Off(b, P[j].id) /\ P[j].pos \in Nat
           /\ Off(b, P[j].id) >= 1 /\ Off(b, P[j].id) < Off(b, b.head)
           /\ P[j].pos < At(b, c) /\ P[j].pos <= Len(Trace[s]) /\ c < P[j].pos
           /\ b.slot[P[j].id].pos = P[j].pos
           /\ P[j].pos \in 1 .. Len(Trace[s])
           /\ Trace[s][P[j].pos].kind # "orphan" /\ ~IsOrphan(s, P[j].pos) /\ r < P[j].pos
<1>1. j \in DOMAIN P /\ P[j].kind = "real" /\ IsPlaced(P[j])
  BY DEF Reals, IsPlaced
<1>2. Typed(s, P[j]) /\ P[j].id \in Slots /\ P[j].pos \in 1 .. Len(Trace[s])
  BY <1>1 DEF Feeds, Ordered, Typed
<1>3. Off(b, P[j].id) >= 1 /\ Off(b, P[j].id) < Off(b, b.head)
  BY <1>1 DEF Feeds, Within
<1>4. b.slot[P[j].id].pos = P[j].pos
  BY <1>1 DEF Feeds, Held
<1>5. PICK i \in Slots : i = P[j].id
  BY <1>2
<1>6. /\ Off(b, i) \in Nat /\ Off(b, i) < Limit(b) /\ c \in Nat /\ Len(Trace[s]) \in Nat
      /\ Limit(b) \in Nat /\ Off(b, b.head) \in Nat /\ EofPos(s) = Len(Trace[s]) + 1
      /\ b \in Buffers(s) /\ Content(s, b, c) /\ At(b, c) = c + Off(b, b.head)
  BY <1>3, <1>5, FeedsFacts
<1>7. PICK v \in Nat : v = c + Off(b, i) /\ v >= 1
  BY <1>3, <1>5, <1>6
<1>8. /\ v <= Len(Trace[s]) => b.slot[i].pos = v
      /\ v > Len(Trace[s]) => b.slot[i].pos = EofPos(s)
  BY <1>6, <1>7, OfSlot
<1>9. P[j].pos = v
  BY <1>2, <1>4, <1>5, <1>6, <1>7, <1>8
<1>10. Proper(s, b, r, P[j])
  BY DEF Feeds, Tracks
<1>11. Trace[s][P[j].pos].kind # "orphan" /\ r < P[j].pos
  BY <1>10 DEF Proper
<1>12. ~IsOrphan(s, P[j].pos)
  BY <1>11 DEF IsOrphan
<1>13. P[j].pos < At(b, c) /\ c < P[j].pos
  BY <1>3, <1>5, <1>6, <1>7, <1>9
<1> QED
  BY <1>2, <1>3, <1>4, <1>5, <1>7, <1>9, <1>11, <1>12, <1>13

\* What the head has passed and r has not is in flight, but for orphans.
LEMMA Covered ==
    ASSUME NEW s \in Streams, NEW b, NEW c, NEW P, NEW r, NEW over, Feeds(s, b, c, P, r, over),
           NEW p \in Nat, r < p \/ Trace[s][p].kind = "inst",
           r < p \/ c < p, p < At(b, c), p <= Len(Trace[s]), ~IsOrphan(s, p)
    PROVE  \E j \in Reals(P) : P[j].pos = p
<1>1. /\ b \in Buffers(s) /\ c \in Nat /\ Content(s, b, c) /\ Limit(b) \in Nat /\ r \in Nat
      /\ Off(b, b.head) \in Nat /\ Off(b, b.head) < Limit(b) /\ At(b, c) = c + Off(b, b.head)
  BY FeedsFacts
<1>2. c < p
  BY <1>1 DEF Feeds, Tracks
<1>3. p >= 1 /\ p >= c /\ p < c + Limit(b)
  BY <1>1, <1>2
<1>4. PICK i \in Slots : /\ Off(b, i) = p - c /\ Off(b, i) \in Nat
                         /\ b.slot[i].pos = p
                         /\ b.slot[i].wrongpath = IsOrphan(s, p)
                         /\ b.slot[i].nop => Trace[s][p].kind = "nop"
  BY <1>1, <1>3, AtPlace
<1>5. Off(b, i) >= 1 /\ Off(b, i) < Off(b, b.head)
  BY <1>1, <1>2, <1>4
<1>6. Accounted(b, P, r, i)
  BY <1>5 DEF Feeds, Tracks
<1>7. ~b.slot[i].wrongpath
  BY <1>4
<1>8. ~(b.slot[i].nop /\ b.slot[i].pos <= r)
  BY <1>1, <1>4
<1>9. PICK j \in Reals(P) : P[j].id = i
  BY <1>6, <1>7, <1>8 DEF Accounted
<1>10. b.slot[P[j].id].pos = P[j].pos
  BY RealPlace
<1> QED
  BY <1>4, <1>9, <1>10

LEMMA LineIs ==
    ASSUME NEW s \in Streams, NEW b, NEW c, NEW P, NEW r, NEW over, Feeds(s, b, c, P, r, over)
    PROVE  Line(s, P, r, At(b, c))
<1>1. /\ At(b, c) \in Nat /\ r \in Nat /\ c \in Nat /\ DOMAIN P \subseteq Nat
      /\ \A i \in Slots : Off(b, i) \in Nat
  BY FeedsFacts
<1>2. r < At(b, c) /\ r <= Len(Trace[s])
  BY DEF Feeds, Tracks
<1>3. \A j \in Reals(P) : /\ P[j].pos \in Nat /\ r < P[j].pos /\ P[j].pos < At(b, c)
                          /\ P[j].pos <= Len(Trace[s]) /\ ~IsOrphan(s, P[j].pos)
  BY RealPlace
<1>4. ASSUME NEW i \in Reals(P), NEW j \in Reals(P), i < j PROVE P[i].pos < P[j].pos
  <2>1. /\ i \in DOMAIN P /\ j \in DOMAIN P /\ IsPlaced(P[i]) /\ IsPlaced(P[j])
    BY DEF Reals, IsPlaced
  <2>2. Off(b, P[i].id) < Off(b, P[j].id)
    BY <1>4, <2>1 DEF Feeds, Within
  <2>3. /\ P[i].id \in Slots /\ P[i].pos = c + Off(b, P[i].id)
        /\ P[j].id \in Slots /\ P[j].pos = c + Off(b, P[j].id)
    BY RealPlace
  <2> QED
    BY <1>1, <2>2, <2>3
<1>5. ASSUME NEW p \in Nat, r < p, p < At(b, c), p <= Len(Trace[s]), ~IsOrphan(s, p)
      PROVE  \E j \in Reals(P) : P[j].pos = p
  BY <1>5, Covered
<1> QED
  BY <1>1, <1>2, <1>3, <1>4, <1>5 DEF Line

-----------------------------------------------------------------------------
(* SkipOverWrongpath.                                                      *)

\* The head's flag.
LEMMA HeadFlag ==
    ASSUME NEW s \in Streams, NEW b \in Buffers(s)
    PROVE  /\ IsWrongpath(b) = b.slot[b.head].wrongpath
           /\ IsWrongpath(b) \in BOOLEAN
           /\ Inst(b) = b.slot[b.head]
BY Members DEF IsWrongpath, Inst

\* The head moves on over slots that are flagged.
Advances(s, b, c, g) ==
    /\ Grown(s, b, g) /\ g.fault = "none" /\ g.readPos >= 1 /\ Content(s, g, c)
    /\ Off(b, b.head) <= Off(g, g.head) /\ Off(g, g.head) < Limit(g)
    /\ \A i \in Slots : Off(b, b.head) <= Off(g, i) /\ Off(g, i) < Off(g, g.head) =>
          g.slot[i].wrongpath
    /\ g.head # b.head => IsWrongpath(b) /\ ~IsWrongpath(g)

LEMMA AdvanceFeeds ==
    ASSUME NEW s \in Streams, NEW b, NEW c, NEW P, NEW r, NEW over, Feeds(s, b, c, P, r, over),
           NEW g, Advances(s, b, c, g)
    PROVE  Feeds(s, g, c, P, r, over)
<1>1. /\ b \in Buffers(s) /\ b.head \in Slots /\ c \in Nat /\ r \in Nat
      /\ Len(Trace[s]) \in Nat /\ EofPos(s) = Len(Trace[s]) + 1
      /\ At(b, c) \in Nat /\ At(b, c) = c + Off(b, b.head)
      /\ Off(b, b.head) \in Nat /\ Limit(b) \in Nat /\ Off(b, b.head) < Limit(b)
      /\ \A i \in Slots : Off(b, i) \in Nat
  BY FeedsFacts
<1>2. /\ g \in Buffers(s) /\ \A i \in Slots : Off(g, i) = Off(b, i)
      /\ \A i \in Slots : Off(b, i) < Limit(b) => g.slot[i] = b.slot[i]
      /\ g.fault = "none" /\ Content(s, g, c)
      /\ Off(b, b.head) <= Off(g, g.head) /\ Off(g, g.head) < Limit(g)
  BY DEF Advances, Grown
<1>3. g.head \in Slots /\ At(g, c) = c + Off(g, g.head) /\ Off(g, g.head) \in Nat
  BY <1>1, <1>2, Members DEF At
<1>4. Ordered(s, P, over) /\ Within(b, P, over) /\ Held(b, P) /\ Grown(s, b, g)
  BY DEF Feeds, Advances
<1>5. Held(g, P)
  BY <1>1, <1>4, GrowKeeps
<1>6. Within(g, P, over)
  <2>1. g.readPos >= 1
    BY DEF Advances
  <2> QED
    BY <1>1, <1>2, <1>4, <2>1, GrowKeeps
<1>7. g.slot[b.head] = b.slot[b.head]
  BY <1>1, <1>2
<1>8. r <= Len(Trace[s]) /\ r < At(g, c)
  BY <1>1, <1>2, <1>3 DEF Feeds, Tracks
<1>9. ASSUME NEW p \in Nat, r < p, p <= c, p < At(g, c), p <= Len(Trace[s])
      PROVE  IsOrphan(s, p)
  <2>1. CASE p < At(b, c)
    BY <1>9, <2>1 DEF Feeds, Tracks
  <2>2. CASE ~(p < At(b, c))
    <3>1. p = c /\ Off(b, b.head) = 0 /\ Off(b, b.head) < Off(g, g.head)
      BY <1>1, <1>3, <1>9, <2>2
    <3>2. g.slot[b.head].wrongpath
      BY <1>1, <1>2, <3>1 DEF Advances
    <3>3. p >= 1 /\ p = c + Off(b, b.head)
      BY <1>1, <1>9, <3>1
    <3>4. b.slot[b.head].wrongpath = IsOrphan(s, p)
      <4>1. Content(s, b, c)
        BY DEF Feeds, Tracks
      <4> QED
        BY <1>1, <1>9, <3>3, <4>1, OfSlot
    <3> QED
      BY <1>7, <3>2, <3>4
  <2> QED
    BY <2>1, <2>2
<1>10. ASSUME c > Len(Trace[s]) \/ At(g, c) > Len(Trace[s]) + 1 PROVE ~IsWrongpath(g)
  <2>1. CASE g.head # b.head
    BY <2>1 DEF Advances
  <2>2. CASE g.head = b.head
    <3>1. At(g, c) = At(b, c)
      BY <1>1, <1>2, <1>3, <2>2
    <3>2. ~IsWrongpath(b)
      BY <1>10, <3>1 DEF Feeds, Tracks
    <3>3. Inst(g) = Inst(b)
      BY <1>7, <2>2 DEF Inst
    <3> QED
      BY <3>2, <3>3 DEF IsWrongpath
  <2> QED
    BY <2>1, <2>2
<1>11. ASSUME NEW i \in Slots, Off(g, i) >= 1, Off(g, i) < Off(g, g.head)
       PROVE  Accounted(g, P, r, i)
  <2>1. CASE Off(b, i) < Off(b, b.head)
    <3>1. Accounted(b, P, r, i)
      BY <1>2, <1>11, <2>1 DEF Feeds, Tracks
    <3>2. g.slot[i] = b.slot[i]
      BY <1>1, <1>2, <2>1
    <3> QED
      BY <3>1, <3>2 DEF Accounted
  <2>2. CASE ~(Off(b, i) < Off(b, b.head))
    <3>1. Off(b, b.head) <= Off(g, i)
      BY <1>1, <1>2, <2>2
    <3>2. g.slot[i].wrongpath
      BY <1>11, <3>1 DEF Advances
    <3> QED
      BY <3>2 DEF Accounted
  <2> QED
    BY <2>1, <2>2
<1>12. ASSUME NEW j \in Reals(P) PROVE Proper(s, g, r, P[j])
  <2>1. Proper(s, b, r, P[j])
    BY DEF Feeds, Tracks
  <2>2. P[j].id \in Slots /\ Off(b, P[j].id) < Off(b, b.head)
    BY RealPlace
  <2>3. g.slot[P[j].id] = b.slot[P[j].id]
    BY <1>1, <1>2, <2>2
  <2> QED
    BY <2>1, <2>3 DEF Proper
<1>13. ASSUME NEW j \in DOMAIN P, P[j].kind = "pad", g.slot[P[j].id].pos = EofPos(s)
       PROVE  P[j].id = g.head /\ ~IsWrongpath(g)
  <2>1. IsPlaced(P[j])
    BY <1>13 DEF IsPlaced
  <2>2. P[j].id \in Slots /\ Off(b, P[j].id) < Limit(b)
    BY <1>1, <1>4, <2>1, Placed
  <2>3. b.slot[P[j].id].pos = EofPos(s)
    BY <1>2, <1>13, <2>2
  <2>4. P[j].id = b.head /\ ~IsWrongpath(b)
    BY <1>13, <2>3 DEF Feeds, Tracks
  <2>5. g.head = b.head
    BY <2>4 DEF Advances
  <2>6. Inst(g) = Inst(b)
    BY <1>7, <2>5 DEF Inst
  <2> QED
    BY <2>4, <2>5, <2>6 DEF IsWrongpath
<1>14. Tracks(s, g, c, P, r)
  BY <1>2, <1>8, <1>9, <1>10, <1>11, <1>12, <1>13 DEF Tracks
<1> QED
  BY <1>1, <1>2, <1>4, <1>5, <1>6, <1>14 DEF Feeds

LEMMA FillFeeds ==
    ASSUME NEW s \in Streams, NEW b, NEW c, NEW P, NEW r, NEW over, Feeds(s, b, c, P, r, over),
           b.filled # b.lastcommit, NEW g, g = FillBuffer(s, b)
    PROVE  Feeds(s, g, c, P, r, over) /\ Limit(g) = BufSize /\ g.head = b.head
           /\ At(g, c) = At(b, c) /\ Off(g, g.head) = Off(b, b.head)
<1>1. b \in Buffers(s) /\ b.fault = "none" /\ b.readPos >= 1 /\ Content(s, b, c) /\ b.head \in Slots
  BY FeedsFacts DEF Feeds, Within
<1>2. /\ Grown(s, b, g) /\ g.readPos >= 1 /\ g.head = b.head
      /\ Limit(g) = BufSize /\ g.fault = "none"
  BY <1>1, FillGrows
<1>3. Content(s, g, c)
  BY <1>1, FillContent
<1>4. /\ \A i \in Slots : Off(g, i) = Off(b, i)
      /\ Off(b, b.head) \in Nat /\ Off(b, b.head) < Limit(b) /\ Limit(b) <= BufSize
      /\ Limit(b) \in Nat /\ BufSize \in Nat /\ \A i \in Slots : Off(b, i) \in Nat
  BY <1>2, FeedsFacts DEF Grown
<1>5. Off(g, g.head) = Off(b, b.head)
  BY <1>1, <1>2, <1>4
<1>6. Advances(s, b, c, g)
  <2>1. Off(b, b.head) <= Off(g, g.head) /\ Off(g, g.head) < Limit(g)
    BY <1>2, <1>4, <1>5
  <2>2. \A i \in Slots : ~(Off(b, b.head) <= Off(g, i) /\ Off(g, i) < Off(g, g.head))
    BY <1>4, <1>5
  <2> QED
    BY <1>2, <1>3, <2>1, <2>2 DEF Advances
<1>7. At(g, c) = At(b, c)
  BY <1>5 DEF At
<1> QED
  BY <1>2, <1>5, <1>6, <1>7, AdvanceFeeds

LEMMA InstsIn ==
    ASSUME NEW s \in Streams, NEW lo, NEW hi, NEW q \in Insts(s, lo, hi), lo \in Nat, hi \in Int
    PROVE  /\ q \in Nat /\ lo <= q /\ q <= hi /\ q <= Len(Trace[s])
           /\ Trace[s][q].kind = "inst" /\ ~IsOrphan(s, q)
BY DEF Insts, IsOrphan

\* The instructions the head has passed are in flight, and so not many.
LEMMA InstsFit ==
    ASSUME NEW s \in Streams, NEW b, NEW c, NEW P, NEW r, NEW over, Feeds(s, b, c, P, r, over),
           NEW hi \in Int, \A q \in Insts(s, c + 1, hi) : q < At(b, c)
    PROVE  Cardinality(Insts(s, c + 1, hi)) <= Len(P)
<1> DEFINE D == 1 .. Len(P)
           T == {P[j].pos : j \in D}
           f == [j \in D |-> P[j].pos]
<1>1. c \in Nat /\ r \in Nat /\ Len(P) \in Nat /\ Reals(P) \subseteq D
  BY FeedsFacts
<1>2. f \in Surjection(D, T)
  BY DEF Surjection
<1>3. IsFiniteSet(D) /\ Cardinality(D) = Len(P)
  <2>1. 1 \in Int /\ Len(P) \in Int
    BY <1>1
  <2>2. IsFiniteSet(1 .. Len(P)) /\ Cardinality(1 .. Len(P)) = IF 1 > Len(P) THEN 0 ELSE Len(P) - 1 + 1
    BY <2>1, FS_Interval
  <2> QED
    BY <1>1, <2>2
<1>4. IsFiniteSet(T) /\ Cardinality(T) <= Cardinality(D)
  <2> HIDE DEF D, T, f
  <2> QED
    BY <1>2, <1>3, FS_Surjection
<1>5. Insts(s, c + 1, hi) \subseteq T
  <2> SUFFICES ASSUME NEW q \in Insts(s, c + 1, hi) PROVE q \in T
    OBVIOUS
  <2>1. /\ q \in Nat /\ c + 1 <= q /\ q <= Len(Trace[s]) /\ Trace[s][q].kind = "inst"
        /\ ~IsOrphan(s, q)
    BY <1>1, InstsIn
  <2>2. q < At(b, c) /\ c < q
    BY <1>1, <2>1
  <2>3. PICK j \in Reals(P) : P[j].pos = q
    BY <2>1, <2>2, Covered
  <2> QED
    BY <1>1, <2>3
<1>6. Cardinality(Insts(s, c + 1, hi)) <= Cardinality(T) /\ Cardinality(T) \in Nat
      /\ Cardinality(Insts(s, c + 1, hi)) \in Nat
  <2> HIDE DEF T
  <2>1. IsFiniteSet(Insts(s, c + 1, hi))
        /\ Cardinality(Insts(s, c + 1, hi)) <= Cardinality(T)
    BY <1>4, <1>5, FS_Subset
  <2> QED
    BY <1>4, <2>1, FS_CardinalityType
<1> HIDE DEF D, T, f
<1> QED
  BY <1>1, <1>3, <1>4, <1>6

\* A full buffer holds an instruction at or after the head that is no orphan.
LEMMA SomeOnPath ==
    ASSUME NEW s \in Streams, NEW b, NEW c, NEW P, NEW r, NEW over, Feeds(s, b, c, P, r, over),
           TraceFits(s), Len(P) < Window, Limit(b) = BufSize
    PROVE  ~AllFlagged(b, Off(b, b.head))
<1> SUFFICES ASSUME AllFlagged(b, Off(b, b.head)) PROVE FALSE
  OBVIOUS
<1>1. /\ b \in Buffers(s) /\ b.head \in Slots /\ c \in Nat /\ Content(s, b, c)
      /\ Len(Trace[s]) \in Nat /\ BufSize \in Nat /\ BufSize >= 2
      /\ At(b, c) \in Nat /\ At(b, c) = c + Off(b, b.head) /\ Len(P) \in Nat
      /\ Off(b, b.head) \in Nat /\ Off(b, b.head) < Limit(b)
      /\ \A i \in Slots : Off(b, i) \in Nat
  BY FeedsFacts
<1>1a. At(b, c) >= 1 /\ Len(Trace[s]) >= BufSize
  <2>1. r < At(b, c) /\ r \in Nat
    BY DEF Feeds, Tracks
  <2> QED
    BY <1>1, <2>1 DEF TraceFits
<1>1b. b \in Buffers(s) /\ Content(s, b, c)
  BY <1>1
<1>2. \A i \in Slots : Off(b, b.head) <= Off(b, i) /\ Off(b, i) < Limit(b) => b.slot[i].wrongpath = TRUE
  BY DEF AllFlagged
<1>3. IsWrongpath(b)
  <2>1. b.slot[b.head].wrongpath = TRUE
    BY <1>1, <1>2
  <2> QED
    BY <1>1, <2>1, HeadFlag
<1>4. c <= Len(Trace[s]) /\ At(b, c) <= Len(Trace[s]) + 1
  <2>1. ~(c > Len(Trace[s]) \/ At(b, c) > Len(Trace[s]) + 1)
    BY <1>3 DEF Feeds, Tracks
  <2> QED
    BY <1>1, <2>1
<1>5. c \in 0 .. Len(Trace[s])
  BY <1>1, <1>4
<1>6. CASE Cardinality(Insts(s, c + 1, c + BufSize - 2)) >= Window
  <2>1. ASSUME NEW q \in Insts(s, c + 1, c + BufSize - 2), ~(q < At(b, c)) PROVE FALSE
    <3>1. /\ q \in Nat /\ c + 1 <= q /\ q <= c + BufSize - 2 /\ q <= Len(Trace[s])
          /\ ~IsOrphan(s, q)
      BY <1>1, InstsIn
    <3>2. q >= 1 /\ q >= c /\ q < c + Limit(b)
      BY <1>1, <3>1
    <3>3. PICK i \in Slots : /\ Off(b, i) = q - c /\ Off(b, i) < Limit(b)
                             /\ q <= Len(Trace[s]) => /\ b.slot[i].pos = q
                                                      /\ b.slot[i].wrongpath = IsOrphan(s, q)
      BY <1>1b, <3>1, <3>2, AtPlace
    <3>4. Off(b, b.head) <= Off(b, i)
      BY <1>1, <2>1, <3>1, <3>3
    <3> QED
      BY <1>2, <3>1, <3>3, <3>4
  <2>2. c + BufSize - 2 \in Int
    BY <1>1
  <2>3. Cardinality(Insts(s, c + 1, c + BufSize - 2)) <= Len(P)
    BY <2>1, <2>2, InstsFit
  <2>4. IsFiniteSet(Insts(s, c + 1, c + BufSize - 2))
    <3>1. IsFiniteSet(c + 1 .. c + BufSize - 2)
      <4>1. c + 1 \in Int /\ c + BufSize - 2 \in Int
        BY <1>1
      <4> QED
        BY <4>1, FS_Interval
    <3>2. Insts(s, c + 1, c + BufSize - 2) \subseteq c + 1 .. c + BufSize - 2
      BY DEF Insts
    <3> QED
      BY <3>1, <3>2, FS_Subset
  <2>5. Cardinality(Insts(s, c + 1, c + BufSize - 2)) \in Nat /\ Window \in Nat
    BY <2>4, FS_CardinalityType, FeederAssumption
  <2> QED
    BY <1>1, <1>6, <2>3, <2>5
<1>7. CASE \E v \in Len(Trace[s]) + 1 .. c + BufSize - 2 : ~IsOrphan(s, v - BufSize)
  <2>1. PICK v \in Nat : /\ Len(Trace[s]) + 1 <= v /\ v <= c + BufSize - 2
                         /\ ~IsOrphan(s, v - BufSize)
    BY <1>1, <1>7
  <2>2. v >= 1 /\ v >= c /\ v < c + Limit(b) /\ v > Len(Trace[s])
    BY <1>1, <1>4, <2>1
  <2>3. v - BufSize \in 1 .. Len(Trace[s])
    BY <1>1, <1>1a, <1>4, <2>1
  <2>4. PICK i \in Slots : /\ Off(b, i) = v - c /\ Off(b, i) < Limit(b)
                           /\ v > Len(Trace[s]) =>
                                 /\ b.slot[i].pos = EofPos(s)
                                 /\ v - BufSize \in 1 .. Len(Trace[s]) =>
                                       b.slot[i].wrongpath = IsOrphan(s, v - BufSize)
    BY <1>1b, <2>2, AtPlace
  <2>5. Off(b, b.head) <= Off(b, i)
    BY SMTT(30), <1>1, <1>4, <2>1, <2>4
  <2> QED
    BY <1>2, <2>1, <2>2, <2>3, <2>4, <2>5
<1> QED
  BY <1>5, <1>6, <1>7 DEF TraceFits

\* Where SkipOverWrongpath looks: v is the place of the next instruction that
\* is no orphan, or lies beyond the end of the trace.  The head is there
\* afterwards, or it has not moved and the instruction at v has another
\* address.
Lands(s, h, v, pc, g, c) ==
    /\ v \in Nat /\ h <= v
    /\ \A p \in Nat : h <= p /\ p < v /\ p <= Len(Trace[s]) => IsOrphan(s, p)
    /\ v <= Len(Trace[s]) => ~IsOrphan(s, v)
    /\ \/ At(g, c) = v /\ ~IsWrongpath(g)
       \/ At(g, c) = h /\ v <= Len(Trace[s]) /\ Trace[s][v].pc # pc

LEMMA LandFeeds ==
    ASSUME NEW s \in Streams, NEW b, NEW c, NEW P, NEW r, NEW over, Feeds(s, b, c, P, r, over),
           NEW d, NEW pc, NEW g, SkipsTo(s, b, b, d, pc, g)
    PROVE  Feeds(s, g, c, P, r, over) /\ \E v : Lands(s, At(b, c), v, pc, g, c)
<1>1. /\ b \in Buffers(s) /\ b.head \in Slots /\ c \in Nat /\ Content(s, b, c) /\ r \in Nat
      /\ Len(Trace[s]) \in Nat /\ EofPos(s) = Len(Trace[s]) + 1
      /\ At(b, c) \in Nat /\ At(b, c) = c + Off(b, b.head)
      /\ Off(b, b.head) \in Nat /\ Off(b, b.head) < Limit(b) /\ Limit(b) \in Nat
      /\ \A i \in Slots : Off(b, i) \in Nat
  BY FeedsFacts
<1>2. /\ d \in Slots /\ Off(b, b.head) <= Off(b, d) /\ Off(b, d) < Limit(b)
      /\ b.slot[d].wrongpath = FALSE
      /\ \A i \in Slots : Off(b, b.head) <= Off(b, i) /\ Off(b, i) < Off(b, d) =>
            b.slot[i].wrongpath = TRUE
  BY DEF SkipsTo, First
<1>3. PICK v \in Nat : v = c + Off(b, d)
  BY <1>1, <1>2
<1>4. At(b, c) <= v /\ v >= 1 /\ At(b, c) >= 1
  <2>1. r < At(b, c)
    BY DEF Feeds, Tracks
  <2> QED
    BY <1>1, <1>2, <1>3, <2>1
<1>5. ASSUME NEW p \in Nat, At(b, c) <= p, p < v, p <= Len(Trace[s]) PROVE IsOrphan(s, p)
  <2>1. p >= 1 /\ p >= c /\ p < c + Limit(b)
    BY <1>1, <1>2, <1>3, <1>4, <1>5
  <2>2. PICK i \in Slots : Off(b, i) = p - c /\ b.slot[i].wrongpath = IsOrphan(s, p)
    BY SMTT(30), <1>1, <1>5, <2>1, AtPlace
  <2>3. Off(b, b.head) <= Off(b, i) /\ Off(b, i) < Off(b, d)
    BY <1>1, <1>2, <1>3, <1>5, <2>2
  <2> QED
    BY <1>2, <2>2, <2>3
<1>6. /\ v <= Len(Trace[s]) => b.slot[d].pos = v /\ ~IsOrphan(s, v)
      /\ v > Len(Trace[s]) => b.slot[d].pos = EofPos(s)
  <2>1. /\ v <= Len(Trace[s]) => b.slot[d].pos = v /\ b.slot[d].wrongpath = IsOrphan(s, v)
        /\ v > Len(Trace[s]) => b.slot[d].pos = EofPos(s)
    BY SMTT(30), <1>1, <1>2, <1>3, <1>4, OfSlot
  <2> QED
    BY <1>2, <2>1
<1>7. CASE Landing(s, b, d, pc)
  <2>1. g = [b EXCEPT !.head = d]
    BY <1>7 DEF SkipsTo, Backup
  <2>2. /\ Grown(s, b, g) /\ g.head = d /\ g.readPos = b.readPos
        /\ g.fault = b.fault /\ Limit(g) = Limit(b) /\ g.filled = b.filled
        /\ g.slot = b.slot
    BY <1>1, <1>2, <2>1, GrownSame
  <2>3. g.lastcommit = b.lastcommit /\ \A i \in Slots : Off(g, i) = Off(b, i)
    BY <2>2 DEF Grown
  <2>4. Content(s, g, c)
    BY <1>1, <2>2, <2>3, SameContent
  <2>5. ~IsWrongpath(g)
    BY <1>2, <2>2 DEF IsWrongpath, Inst
  <2>6. g.head # b.head => IsWrongpath(b)
    <3>1. g.head # b.head => Off(b, b.head) # Off(b, d)
      BY <1>1, <1>2, <2>2, Offsets
    <3>2. g.head # b.head => b.slot[b.head].wrongpath = TRUE
      BY <1>1, <1>2, <3>1
    <3> QED
      BY <3>2 DEF IsWrongpath, Inst
  <2>7. b.readPos >= 1 /\ b.fault = "none"
    BY DEF Feeds, Within
  <2>8. Advances(s, b, c, g)
    BY <1>2, <2>2, <2>3, <2>4, <2>5, <2>6, <2>7 DEF Advances
  <2>9. Feeds(s, g, c, P, r, over)
    BY <2>8, AdvanceFeeds
  <2>10. At(g, c) = v
    BY <1>2, <1>3, <2>2, <2>3 DEF At
  <2>11. Lands(s, At(b, c), v, pc, g, c)
    BY <1>4, <1>5, <1>6, <2>5, <2>10 DEF Lands
  <2> QED
    BY <2>9, <2>11
<1>8. CASE ~Landing(s, b, d, pc)
  <2>1. g = b
    BY <1>8 DEF SkipsTo
  <2>2. Inst(Backup(b, d)) = b.slot[d]
    BY <1>1 DEF Inst, Backup, Buffers
  <2>3. b.slot[d].pos # EofPos(s)
    BY <1>8, <2>2 DEF Landing, Eof
  <2>4. v <= Len(Trace[s]) /\ b.slot[d].pos = v
    BY <1>1, <1>6, <2>3
  <2>5. VirtualPc(s, Backup(b, d)) = Trace[s][v].pc
    BY <2>2, <2>3, <2>4 DEF VirtualPc, Eof
  <2>6. Trace[s][v].pc # pc
    BY <1>8, <2>5 DEF Landing
  <2>7. Lands(s, At(b, c), v, pc, g, c)
    BY <1>4, <1>5, <1>6, <2>1, <2>4, <2>6 DEF Lands
  <2> QED
    BY <2>1, <2>7
<1> QED
  BY <1>7, <1>8

LEMMA SkipFeeds ==
    ASSUME NEW s \in Streams, NEW b, NEW c, NEW P, NEW r, NEW over, Feeds(s, b, c, P, r, over),
           TraceFits(s), Len(P) < Window, NEW pc, NEW g, g = SkipOverWrongpath(s, b, pc)
    PROVE  Feeds(s, g, c, P, r, over) /\ \E v : Lands(s, At(b, c), v, pc, g, c)
<1>1. b \in Buffers(s) /\ b.readPos >= 1 /\ Off(b, b.head) < Limit(b)
  BY FeedsFacts DEF Feeds, Within
<1>2. PICK f : f = FillBuffer(s, b)
  OBVIOUS
<1>3. \/ \E d : SkipsTo(s, b, b, d, pc, g)
      \/ /\ AllFlagged(b, Off(b, b.head))
         /\ \/ \E d : SkipsTo(s, b, f, d, pc, g)
            \/ AllFlagged(f, Off(b, b.head))
  BY <1>1, <1>2, SkipIs
<1>4. CASE \E d : SkipsTo(s, b, b, d, pc, g)
  <2>1. PICK d : SkipsTo(s, b, b, d, pc, g)
    BY <1>4
  <2> QED
    BY <2>1, LandFeeds
<1>5. CASE AllFlagged(b, Off(b, b.head))
  <2>1. b.filled # b.lastcommit
    <3>1. b.filled = b.lastcommit => Limit(b) = BufSize
      BY DEF Limit
    <3> QED
      BY <1>5, <3>1, SomeOnPath
  <2>2. /\ Feeds(s, f, c, P, r, over) /\ Limit(f) = BufSize /\ f.head = b.head
        /\ At(f, c) = At(b, c) /\ Off(f, f.head) = Off(b, b.head)
    BY <1>2, <2>1, FillFeeds
  <2>3. ~AllFlagged(f, Off(f, f.head))
    BY <2>2, SomeOnPath
  <2>4. CASE \E d : SkipsTo(s, b, f, d, pc, g)
    <3>1. PICK d : SkipsTo(s, b, f, d, pc, g)
      BY <2>4
    <3>2. SkipsTo(s, f, f, d, pc, g)
      BY <2>2, <3>1 DEF SkipsTo
    <3>3. Feeds(s, g, c, P, r, over) /\ \E v : Lands(s, At(f, c), v, pc, g, c)
      BY <2>2, <3>2, LandFeeds
    <3> QED
      BY <2>2, <3>3
  <2>5. CASE \E d : SkipsTo(s, b, b, d, pc, g)
    BY <1>4, <2>5
  <2> QED
    BY <1>3, <2>2, <2>3, <2>4, <2>5
<1> QED
  BY <1>3, <1>4, <1>5

-----------------------------------------------------------------------------
(* Steps that leave the buffer alone, and the commits.                     *)

\* The instructions in flight become Q and the last one retired q: those that
\* leave are no-ops retired without a commit.
Leaves(s, b, P, r, Q, q) ==
    /\ q \in Nat /\ r <= q /\ q <= Len(Trace[s])
    /\ \A j \in Reals(Q) : \E i \in Reals(P) : Q[j] = P[i] /\ q < P[i].pos
    /\ \A i \in Reals(P) : \/ \E j \in Reals(Q) : Q[j] = P[i]
                           \/ b.slot[P[i].id].nop /\ P[i].pos <= q
    /\ \A j \in DOMAIN Q : Q[j].kind = "pad" =>
          \/ \E i \in DOMAIN P : Q[j] = P[i]
          \/ Q[j].id = b.head /\ (Eof(s, b) => ~IsWrongpath(b))

LEMMA LeaveTracks ==
    ASSUME NEW s \in Streams, NEW b, NEW c, NEW P, NEW r, NEW over, Feeds(s, b, c, P, r, over),
           NEW Q, NEW q, Leaves(s, b, P, r, Q, q), q < At(b, c)
    PROVE  Tracks(s, b, c, Q, q)
<1>1. /\ b \in Buffers(s) /\ c \in Nat /\ r \in Nat /\ q \in Nat /\ r <= q /\ q <= Len(Trace[s])
      /\ Content(s, b, c) /\ At(b, c) \in Nat
  BY FeedsFacts DEF Leaves
<1>2. ASSUME NEW p \in Nat, q < p, p <= c, p < At(b, c), p <= Len(Trace[s])
      PROVE  IsOrphan(s, p)
  <2>1. r < p
    BY <1>1, <1>2
  <2> QED
    BY <1>2, <2>1 DEF Feeds, Tracks
<1>3. c > Len(Trace[s]) \/ At(b, c) > Len(Trace[s]) + 1 => ~IsWrongpath(b)
  BY DEF Feeds, Tracks
<1>4. ASSUME NEW i \in Slots, Off(b, i) >= 1, Off(b, i) < Off(b, b.head)
      PROVE  Accounted(b, Q, q, i)
  <2>1. Accounted(b, P, r, i)
    BY <1>4 DEF Feeds, Tracks
  <2>2. CASE b.slot[i].wrongpath
    BY <2>2 DEF Accounted
  <2>3. CASE b.slot[i].nop /\ b.slot[i].pos <= r
    <3>1. b.slot[i].pos \in Nat
      BY <1>1, Members
    <3>2. b.slot[i].pos <= q
      BY <1>1, <2>3, <3>1
    <3> QED
      BY <2>3, <3>2 DEF Accounted
  <2>4. CASE \E j \in Reals(P) : P[j].id = i
    <3>1. PICK j \in Reals(P) : P[j].id = i
      BY <2>4
    <3>2. b.slot[P[j].id].pos = P[j].pos
      BY RealPlace
    <3>3. CASE \E k \in Reals(Q) : Q[k] = P[j]
      <4>1. \E k \in Reals(Q) : Q[k].id = i
        BY <3>1, <3>3
      <4> QED
        BY <4>1 DEF Accounted
    <3>4. CASE b.slot[P[j].id].nop /\ P[j].pos <= q
      <4>1. b.slot[i].nop /\ b.slot[i].pos <= q
        BY <3>1, <3>2, <3>4
      <4> QED
        BY <4>1 DEF Accounted
    <3> QED
      BY <3>3, <3>4 DEF Leaves
  <2> QED
    BY <2>1, <2>2, <2>3, <2>4 DEF Accounted
<1>5. ASSUME NEW j \in Reals(Q) PROVE Proper(s, b, q, Q[j])
  <2>1. PICK i \in Reals(P) : Q[j] = P[i] /\ q < P[i].pos
    BY DEF Leaves
  <2>2. Proper(s, b, r, P[i])
    BY DEF Feeds, Tracks
  <2> QED
    BY <2>1, <2>2 DEF Proper
<1>6. ASSUME NEW j \in DOMAIN Q, Q[j].kind = "pad", b.slot[Q[j].id].pos = EofPos(s)
      PROVE  Q[j].id = b.head /\ ~IsWrongpath(b)
  <2>1. CASE \E i \in DOMAIN P : Q[j] = P[i]
    <3>1. PICK i \in DOMAIN P : Q[j] = P[i]
      BY <2>1
    <3> QED
      BY <1>6, <3>1 DEF Feeds, Tracks
  <2>2. CASE Q[j].id = b.head /\ (Eof(s, b) => ~IsWrongpath(b))
    <3>1. Eof(s, b)
      BY <1>6, <2>2 DEF Eof, Inst
    <3> QED
      BY <2>2, <3>1
  <2> QED
    BY <1>6, <2>1, <2>2 DEF Leaves
<1> QED
  BY <1>1, <1>2, <1>3, <1>4, <1>5, <1>6 DEF Tracks

\* CommitInstr reaches its slot: what is in between is skippable.
Skippable(b, id) ==
    \A i \in Slots : Off(b, i) >= 1 /\ Off(b, i) < Off(b, id) =>
        b.slot[i].wrongpath \/ b.slot[i].nop

LEMMA CommitReaches ==
    ASSUME NEW s \in Streams, NEW b \in Buffers(s), b.fault = "none",
           NEW id \in Slots, Off(b, id) >= 1, Skippable(b, id), NEW d, d = CommitInstr(b, id)
    PROVE  /\ d \in Buffers(s) /\ d.fault = "none" /\ d.lastcommit = id
           /\ d.head = b.head /\ d.filled = b.filled /\ d.readPos = b.readPos /\ d.slot = b.slot
<1>1. b.lastcommit \in Slots /\ BufSize \in Nat /\ BufSize >= 2
  BY Members, Sizes
<1>2. Succ(b.lastcommit) \in Slots /\ Off(b, Succ(b.lastcommit)) = 1
  <2>1. Dist(b.lastcommit, b.lastcommit) = 0
    BY <1>1, Ring
  <2> QED
    BY <1>1, <2>1, RingSucc DEF Off
<1>3. \A i \in Slots : Off(b, i) \in Nat /\ Off(b, i) < BufSize
  BY Offsets
<1>4. ASSUME NEW i \in Slots
      PROVE  Dist(Succ(b.lastcommit), i) = IF 1 <= Off(b, i) THEN Off(b, i) - 1
                                           ELSE (Off(b, i) - 1) + BufSize
  BY <1>1, <1>2, Ring DEF Off
<1>5. ASSUME NEW i \in Slots, Dist(Succ(b.lastcommit), i) < Skipped(b, id)
      PROVE  b.slot[i].wrongpath \/ b.slot[i].nop
  <2>1. Skipped(b, id) = Off(b, id) - 1 /\ Off(b, id) \in Nat /\ Off(b, id) < BufSize
    BY <1>3, <1>4 DEF Skipped
  <2>2. Off(b, i) >= 1 /\ Off(b, i) < Off(b, id)
    <3>1. Off(b, i) \in Nat
      BY <1>3
    <3>2. 1 <= Off(b, i)
      BY <1>1, <1>4, <1>5, <2>1, <3>1
    <3> QED
      BY <1>1, <1>4, <1>5, <2>1, <3>1, <3>2
  <2> QED
    BY <2>2 DEF Skippable
<1>6. d = [b EXCEPT !.lastcommit = id]
  BY <1>5 DEF CommitInstr
<1> QED
  BY <1>6 DEF Buffers

\* The instructions in flight up to slot id are committed; Q is left, and q is
\* the last one retired.
Passes(s, b, c, P, r, id, Q, q) ==
    /\ id \in Slots /\ Off(b, id) >= 1 /\ Off(b, id) <= Off(b, b.head)
    /\ q \in Nat /\ r <= q /\ q <= Len(Trace[s]) /\ q < At(b, c)
    /\ \A j \in Reals(Q) : \E i \in Reals(P) : Q[j] = P[i] /\ q < P[i].pos
    /\ \A i \in Reals(P) : (\E j \in Reals(Q) : Q[j] = P[i]) \/ P[i].id = id
    /\ \A j \in DOMAIN Q : Q[j].kind = "pad" => \E i \in DOMAIN P : Q[j] = P[i]
    /\ \A p \in Nat : q < p /\ p <= c + Off(b, id) /\ p < At(b, c) /\ p <= Len(Trace[s]) =>
          IsOrphan(s, p)
    /\ c + Off(b, id) > Len(Trace[s]) => ~IsWrongpath(b)

LEMMA PassTracks ==
    ASSUME NEW s \in Streams, NEW b, NEW c, NEW P, NEW r, NEW over, Feeds(s, b, c, P, r, over),
           NEW id, NEW Q, NEW q, Passes(s, b, c, P, r, id, Q, q),
           NEW d \in Buffers(s), d.lastcommit = id, d.head = b.head, d.filled = b.filled,
           d.readPos = b.readPos, d.slot = b.slot
    PROVE  Tracks(s, d, c + Off(b, id), Q, q)
<1>1. /\ b \in Buffers(s) /\ b.head \in Slots /\ c \in Nat /\ r \in Nat
      /\ Content(s, b, c) /\ At(b, c) \in Nat /\ At(b, c) = c + Off(b, b.head)
      /\ Off(b, b.head) \in Nat /\ Limit(b) \in Nat /\ Off(b, b.head) < Limit(b)
      /\ \A i \in Slots : Off(b, i) \in Nat
      /\ Len(Trace[s]) \in Nat /\ BufSize \in Nat
  BY FeedsFacts
<1>2. PICK o \in Nat : o = Off(b, id)
  BY <1>1 DEF Passes
<1>3. o >= 1 /\ o <= Off(b, b.head) /\ o < Limit(b) /\ id \in Slots
  BY <1>1, <1>2 DEF Passes
<1>4. Content(s, d, c + o)
  BY <1>1, <1>2, <1>3, CommitContent
<1>5. \A i \in Slots : Off(d, i) = IF o <= Off(b, i) THEN Off(b, i) - o
                                   ELSE (Off(b, i) - o) + BufSize
  BY SMTT(30), <1>1, <1>2, <1>3, CommitShifts
<1>6. Off(d, d.head) = Off(b, b.head) - o
  BY <1>1, <1>3, <1>5
<1>7. At(d, c + o) = At(b, c)
  BY <1>1, <1>2, <1>6 DEF At
<1>8. /\ q \in Nat /\ r <= q /\ q <= Len(Trace[s]) /\ q < At(b, c)
      /\ \A j \in Reals(Q) : \E i \in Reals(P) : Q[j] = P[i] /\ q < P[i].pos
      /\ \A i \in Reals(P) : (\E j \in Reals(Q) : Q[j] = P[i]) \/ P[i].id = id
      /\ \A j \in DOMAIN Q : Q[j].kind = "pad" => \E i \in DOMAIN P : Q[j] = P[i]
      /\ \A p \in Nat : q < p /\ p <= c + o /\ p < At(b, c) /\ p <= Len(Trace[s]) =>
            IsOrphan(s, p)
      /\ c + o > Len(Trace[s]) => ~IsWrongpath(b)
  BY <1>2 DEF Passes
<1>9. IsWrongpath(d) = IsWrongpath(b)
  BY DEF IsWrongpath, Inst
<1>10. c + o > Len(Trace[s]) \/ At(b, c) > Len(Trace[s]) + 1 => ~IsWrongpath(d)
  <2>1. At(b, c) > Len(Trace[s]) + 1 => ~IsWrongpath(b)
    BY DEF Feeds, Tracks
  <2> QED
    BY <1>8, <1>9, <2>1
<1>11. ASSUME NEW i \in Slots, Off(d, i) >= 1, Off(d, i) < Off(d, d.head)
       PROVE  Accounted(d, Q, q, i)
  <2>1. o < Off(b, i) /\ Off(b, i) < Off(b, b.head)
    <3>1. PICK x \in Nat, y \in Nat, n \in Nat :
             x = Off(b, i) /\ y = Off(b, b.head) /\ n = BufSize /\ y < n
      <4>1. Off(b, b.head) < BufSize
        BY <1>1, Offsets
      <4> QED
        BY <1>1, <4>1
    <3>2. Off(d, i) = IF o <= x THEN x - o ELSE (x - o) + n
      BY <1>5, <3>1
    <3>3. Off(d, d.head) = y - o
      BY <1>6, <3>1
    <3> QED
      BY <1>3, <1>11, <3>1, <3>2, <3>3
  <2>2. Accounted(b, P, r, i)
    <3>1. Off(b, i) >= 1
      BY <1>1, <1>3, <2>1
    <3> QED
      BY <2>1, <3>1 DEF Feeds, Tracks
  <2>3. CASE b.slot[i].wrongpath
    BY <2>3 DEF Accounted
  <2>4. CASE b.slot[i].nop /\ b.slot[i].pos <= r
    <3>1. b.slot[i].pos \in Nat
      BY <1>1, Members
    <3>2. b.slot[i].pos <= q
      BY <1>1, <1>8, <2>4, <3>1
    <3> QED
      BY <2>4, <3>2 DEF Accounted
  <2>5. CASE \E j \in Reals(P) : P[j].id = i
    <3>1. PICK j \in Reals(P) : P[j].id = i
      BY <2>5
    <3>2. i # id
      BY <1>2, <1>3, <2>1
    <3>3. \E k \in Reals(Q) : Q[k].id = i
      BY <1>8, <3>1, <3>2
    <3> QED
      BY <3>3 DEF Accounted
  <2> QED
    BY <2>2, <2>3, <2>4, <2>5 DEF Accounted
<1>12. ASSUME NEW j \in Reals(Q) PROVE Proper(s, d, q, Q[j])
  <2>1. PICK i \in Reals(P) : Q[j] = P[i] /\ q < P[i].pos
    BY <1>8
  <2>2. Proper(s, b, r, P[i])
    BY DEF Feeds, Tracks
  <2> QED
    BY <2>1, <2>2 DEF Proper
<1>13. ASSUME NEW j \in DOMAIN Q, Q[j].kind = "pad", d.slot[Q[j].id].pos = EofPos(s)
       PROVE  Q[j].id = d.head /\ ~IsWrongpath(d)
  <2>1. PICK i \in DOMAIN P : Q[j] = P[i]
    BY <1>8, <1>13
  <2> QED
    BY <1>9, <1>13, <2>1 DEF Feeds, Tracks
<1>14. Tracks(s, d, c + o, Q, q)
  BY <1>4, <1>7, <1>8, <1>10, <1>11, <1>12, <1>13 DEF Tracks
<1> QED
  BY <1>2, <1>14

LEMMA TailReals ==
    ASSUME NEW s \in Streams, NEW Q \in Seq(Instr(s)), Q # <<>>
    PROVE  /\ \A j \in DOMAIN Tail(Q) : j + 1 \in DOMAIN Q /\ Tail(Q)[j] = Q[j + 1] /\ j \in Nat
           /\ \A j \in Reals(Tail(Q)) : j + 1 \in Reals(Q) /\ Tail(Q)[j] = Q[j + 1] /\ j \in Nat
                                        /\ j >= 1
           /\ \A i \in DOMAIN Q : i # 1 => i - 1 \in DOMAIN Tail(Q) /\ Tail(Q)[i - 1] = Q[i]
           /\ \A i \in Reals(Q) : i # 1 => i - 1 \in Reals(Tail(Q)) /\ Tail(Q)[i - 1] = Q[i]
           /\ 1 \in DOMAIN Q
<1>1. PICK n \in Nat : n = Len(Q) /\ n >= 1
  BY TailIsPart
<1>2. /\ Tail(Q) \in Seq(Instr(s)) /\ Part(Tail(Q), Q, 1) /\ Len(Tail(Q)) = n - 1
      /\ DOMAIN Q = 1 .. n /\ DOMAIN Tail(Q) = 1 .. n - 1
  <2>1. Tail(Q) \in Seq(Instr(s)) /\ Part(Tail(Q), Q, 1) /\ Len(Tail(Q)) = n - 1
    BY <1>1, TailIsPart
  <2>2. PICK T \in Seq(Instr(s)) : T = Tail(Q)
    BY <2>1
  <2>3. DOMAIN T = 1 .. Len(T) /\ DOMAIN Q = 1 .. Len(Q)
    OBVIOUS
  <2> QED
    BY <1>1, <2>1, <2>2, <2>3
<1>3. \A j \in DOMAIN Tail(Q) : j + 1 \in DOMAIN Q /\ Tail(Q)[j] = Q[j + 1] /\ j \in Nat /\ j >= 1
  BY <1>1, <1>2 DEF Part
<1>4. \A i \in DOMAIN Q : i # 1 => i - 1 \in DOMAIN Tail(Q) /\ Tail(Q)[i - 1] = Q[i]
  <2> SUFFICES ASSUME NEW i \in DOMAIN Q, i # 1
               PROVE  i - 1 \in DOMAIN Tail(Q) /\ Tail(Q)[i - 1] = Q[i]
    OBVIOUS
  <2>1. i \in Nat /\ i - 1 \in 1 .. n - 1 /\ (i - 1) + 1 = i
    BY <1>1, <1>2
  <2>2. i - 1 \in DOMAIN Tail(Q)
    BY <1>2, <2>1
  <2> QED
    BY <1>3, <2>1, <2>2
<1>5. 1 \in DOMAIN Q
  BY <1>1, <1>2
<1> QED
  BY <1>3, <1>4, <1>5 DEF Reals

\* The oldest instruction in flight is one of the trace.
LEMMA RealPasses ==
    ASSUME NEW s \in Streams, NEW b, NEW c, NEW P, NEW r, NEW over, Feeds(s, b, c, P, r, over),
           P # <<>>, P[1].kind = "real"
    PROVE  /\ Passes(s, b, c, P, r, P[1].id, Tail(P), P[1].pos)
           /\ Skippable(b, P[1].id)
           /\ NextOnPath(s, r) = P[1].pos
           /\ c + Off(b, P[1].id) = P[1].pos
<1>1. P \in Seq(Instr(s)) /\ DOMAIN P \subseteq Nat /\ DOMAIN P = 1 .. Len(P) /\ Len(P) \in Nat
      /\ c \in Nat /\ At(b, c) \in Nat /\ r \in Nat /\ Len(Trace[s]) \in Nat
      /\ \A i \in Slots : Off(b, i) \in Nat
      /\ Off(b, b.head) \in Nat
  BY FeedsFacts
<1>2. 1 \in Reals(P) /\ \A j \in Reals(P) : j \in Nat /\ ~(j < 1)
  BY <1>1, TailReals DEF Reals
<1>3. Line(s, P, r, At(b, c))
  BY LineIs
<1>4. NextOnPath(s, r) = P[1].pos
  BY <1>1, <1>2, <1>3, LineFirst
<1>5. /\ P[1].id \in Slots /\ P[1].pos = c + Off(b, P[1].id) /\ P[1].pos \in Nat
      /\ Off(b, P[1].id) >= 1 /\ Off(b, P[1].id) < Off(b, b.head)
      /\ P[1].pos < At(b, c) /\ P[1].pos <= Len(Trace[s]) /\ r < P[1].pos
  BY <1>2, RealPlace
<1>6. ASSUME NEW j \in Reals(Tail(P)) PROVE \E i \in Reals(P) : Tail(P)[j] = P[i] /\ P[1].pos < P[i].pos
  <2>1. j + 1 \in Reals(P) /\ Tail(P)[j] = P[j + 1] /\ j \in Nat /\ j >= 1
    BY <1>1, TailReals
  <2>2. 1 < j + 1
    BY <2>1
  <2>3. P[1].pos < P[j + 1].pos
    BY <1>2, <1>3, <2>1, <2>2 DEF Line
  <2> QED
    BY <2>1, <2>3
<1>7. ASSUME NEW i \in Reals(P)
      PROVE  (\E j \in Reals(Tail(P)) : Tail(P)[j] = P[i]) \/ P[i].id = P[1].id
  BY <1>1, TailReals
<1>8. ASSUME NEW j \in DOMAIN Tail(P) PROVE \E i \in DOMAIN P : Tail(P)[j] = P[i]
  BY <1>1, TailReals
<1>9. ASSUME NEW i \in Slots, Off(b, i) >= 1, Off(b, i) < Off(b, P[1].id)
      PROVE  b.slot[i].wrongpath \/ b.slot[i].nop
  <2>1. Off(b, i) < Off(b, b.head)
    BY <1>1, <1>5, <1>9
  <2>2. Accounted(b, P, r, i)
    BY <1>9, <2>1 DEF Feeds, Tracks
  <2>3. ASSUME NEW j \in Reals(P), P[j].id = i PROVE FALSE
    <3>1. j # 1
      BY <1>1, <1>9, <2>3
    <3>2. 1 < j
      BY <1>2, <3>1
    <3>3. P[1].pos < P[j].pos
      BY <1>2, <1>3, <3>2 DEF Line
    <3>4. P[j].pos = c + Off(b, P[j].id)
      BY RealPlace
    <3> QED
      BY <1>1, <1>5, <1>9, <2>3, <3>3, <3>4
  <2> QED
    BY <2>2, <2>3 DEF Accounted
<1>10. Skippable(b, P[1].id)
  BY <1>9 DEF Skippable
<1>11. Passes(s, b, c, P, r, P[1].id, Tail(P), P[1].pos)
  <2>1. Off(b, P[1].id) <= Off(b, b.head) /\ r <= P[1].pos
    BY <1>1, <1>5
  <2>2. \A p \in Nat : ~(P[1].pos < p /\ p <= c + Off(b, P[1].id))
    BY <1>1, <1>5
  <2>3. ~(c + Off(b, P[1].id) > Len(Trace[s]))
    BY <1>1, <1>5
  <2> QED
    BY <1>5, <1>6, <1>7, <1>8, <2>1, <2>2, <2>3 DEF Passes
<1> QED
  BY <1>4, <1>5, <1>10, <1>11

\* It is a no-op the model retires by itself.
LEMMA NopLeaves ==
    ASSUME NEW s \in Streams, NEW b, NEW c, NEW P, NEW r, NEW over, Feeds(s, b, c, P, r, over),
           P # <<>>, P[1].kind = "real", Trace[s][P[1].pos].kind = "nop"
    PROVE  Leaves(s, b, P, r, Tail(P), P[1].pos) /\ P[1].pos < At(b, c)
<1>1. P \in Seq(Instr(s)) /\ r \in Nat
  BY FeedsFacts
<1>2. /\ \A j \in Reals(Tail(P)) : \E i \in Reals(P) : Tail(P)[j] = P[i] /\ P[1].pos < P[i].pos
      /\ \A j \in DOMAIN Tail(P) : Tail(P)[j].kind = "pad" => \E i \in DOMAIN P : Tail(P)[j] = P[i]
      /\ P[1].pos \in Nat /\ r <= P[1].pos /\ P[1].pos <= Len(Trace[s]) /\ P[1].pos < At(b, c)
  <2>1. Passes(s, b, c, P, r, P[1].id, Tail(P), P[1].pos)
    BY RealPasses
  <2> QED
    BY <2>1 DEF Passes
<1>3. 1 \in Reals(P)
  BY <1>1, TailReals DEF Reals
<1>4. b.slot[P[1].id].nop
  <2>1. Proper(s, b, r, P[1])
    BY <1>3 DEF Feeds, Tracks
  <2> QED
    BY <2>1 DEF Proper
<1>5. ASSUME NEW i \in Reals(P)
      PROVE  (\E j \in Reals(Tail(P)) : Tail(P)[j] = P[i]) \/ (b.slot[P[i].id].nop /\ P[i].pos <= P[1].pos)
  <2>1. CASE i = 1
    BY <1>2, <1>4, <2>1
  <2>2. CASE i # 1
    BY <1>1, <2>2, TailReals
  <2> QED
    BY <2>1, <2>2
<1> QED
  BY <1>2, <1>5 DEF Leaves

\* It is none of the trace.
LEMMA OtherLeaves ==
    ASSUME NEW s \in Streams, NEW b, NEW c, NEW P, NEW r, NEW over, Feeds(s, b, c, P, r, over),
           P # <<>>, P[1].kind # "real"
    PROVE  Leaves(s, b, P, r, Tail(P), r) /\ r < At(b, c)
<1>1. P \in Seq(Instr(s)) /\ r \in Nat /\ r <= Len(Trace[s]) /\ r < At(b, c)
  BY FeedsFacts DEF Feeds, Tracks
<1>2. ASSUME NEW j \in Reals(Tail(P)) PROVE \E i \in Reals(P) : Tail(P)[j] = P[i] /\ r < P[i].pos
  <2>1. j + 1 \in Reals(P) /\ Tail(P)[j] = P[j + 1]
    BY <1>1, TailReals
  <2>2. r < P[j + 1].pos
    BY <2>1, RealPlace
  <2> QED
    BY <2>1, <2>2
<1>3. ASSUME NEW i \in Reals(P) PROVE \E j \in Reals(Tail(P)) : Tail(P)[j] = P[i]
  <2>1. i # 1
    BY DEF Reals
  <2> QED
    BY <1>1, <2>1, TailReals
<1>4. ASSUME NEW j \in DOMAIN Tail(P) PROVE \E i \in DOMAIN P : Tail(P)[j] = P[i]
  BY <1>1, TailReals
<1>5. r <= r
  BY <1>1
<1> QED
  BY <1>1, <1>2, <1>3, <1>4, <1>5 DEF Leaves

LEMMA AllLeave ==
    ASSUME NEW s \in Streams, NEW b, NEW c, NEW P, NEW r, NEW over, Feeds(s, b, c, P, r, over),
           Reals(P) = {}
    PROVE  Leaves(s, b, P, r, <<>>, r) /\ r < At(b, c)
<1>1. r \in Nat /\ r <= Len(Trace[s]) /\ r < At(b, c) /\ r <= r
  BY FeedsFacts DEF Feeds, Tracks
<1>2. DOMAIN <<>> = {} /\ Reals(<<>>) = {}
  BY DEF Reals
<1> QED
  BY <1>1, <1>2 DEF Leaves

\* The oldest instruction in flight is padding: nothing of the trace is behind
\* or after it.
LEMMA PadPasses ==
    ASSUME NEW s \in Streams, NEW b, NEW c, NEW P, NEW r, NEW over, Feeds(s, b, c, P, r, over),
           P # <<>>, P[1].kind = "pad"
    PROVE  /\ Passes(s, b, c, P, r, P[1].id, Tail(P), r)
           /\ Skippable(b, P[1].id)
<1>1. P \in Seq(Instr(s)) /\ DOMAIN P \subseteq Nat /\ DOMAIN P = 1 .. Len(P) /\ Len(P) \in Nat
      /\ c \in Nat /\ At(b, c) \in Nat /\ At(b, c) = c + Off(b, b.head) /\ r \in Nat
      /\ Len(Trace[s]) \in Nat /\ EofPos(s) = Len(Trace[s]) + 1
      /\ \A i \in Slots : Off(b, i) \in Nat
      /\ Off(b, b.head) \in Nat /\ Off(b, b.head) < Limit(b) /\ Limit(b) \in Nat
      /\ b \in Buffers(s) /\ Content(s, b, c)
  BY FeedsFacts
<1>2. 1 \in DOMAIN P /\ IsPlaced(P[1])
  BY <1>1, TailReals DEF IsPlaced
<1>3. Reals(P) = {}
  <2> SUFFICES ASSUME NEW j \in Reals(P) PROVE FALSE
    OBVIOUS
  <2>1. j \in DOMAIN P /\ P[j].kind = "real" /\ IsPlaced(P[j])
    BY DEF Reals, IsPlaced
  <2>2. j # 1 /\ j \in Nat /\ j >= 1
    BY <1>1, <2>1
  <2>3. 1 < j
    BY <2>2
  <2> QED
    BY <1>2, <2>1, <2>3 DEF Feeds, Ordered
<1>4. /\ P[1].id \in Slots /\ Off(b, P[1].id) >= 1 /\ Off(b, P[1].id) <= Off(b, b.head)
  <2>1. P[1].id \in Slots
    BY <1>2 DEF Feeds, Ordered, Typed
  <2> QED
    BY <1>2, <2>1 DEF Feeds, Within
<1>5. Leaves(s, b, P, r, Tail(P), r) /\ r < At(b, c)
  BY OtherLeaves
<1>6. Clear(s, r, At(b, c))
  BY <1>1, <1>3, LineIs, LineLast
<1>7. Skippable(b, P[1].id)
  <2> SUFFICES ASSUME NEW i \in Slots, Off(b, i) >= 1, Off(b, i) < Off(b, P[1].id)
               PROVE  b.slot[i].wrongpath \/ b.slot[i].nop
    BY DEF Skippable
  <2>1. Off(b, i) < Off(b, b.head)
    BY <1>1, <1>4
  <2>2. Accounted(b, P, r, i)
    BY <2>1 DEF Feeds, Tracks
  <2> QED
    BY <1>3, <2>2 DEF Accounted
<1>8. ASSUME c + Off(b, P[1].id) > Len(Trace[s]) PROVE ~IsWrongpath(b)
  <2>1. PICK i \in Slots : i = P[1].id
    BY <1>4
  <2>2. PICK v \in Nat : v = c + Off(b, i) /\ v >= 1 /\ Off(b, i) < Limit(b)
    BY <1>1, <1>4, <2>1
  <2>3. v > Len(Trace[s])
    BY <1>8, <2>1, <2>2
  <2>4. b.slot[i].pos = EofPos(s)
    BY <1>1, <2>2, <2>3, OfSlot
  <2> QED
    BY <1>2, <2>1, <2>4 DEF Feeds, Tracks
<1>9. Passes(s, b, c, P, r, P[1].id, Tail(P), r)
  <2>1. \A p \in Nat : r < p /\ p < At(b, c) /\ p <= Len(Trace[s]) => IsOrphan(s, p)
    BY <1>6 DEF Clear
  <2>2. \A j \in DOMAIN Tail(P) : \E i \in DOMAIN P : Tail(P)[j] = P[i]
    BY <1>1, TailReals
  <2>3. \A j \in Reals(Tail(P)) : \E i \in Reals(P) : Tail(P)[j] = P[i] /\ r < P[i].pos
    BY <1>5 DEF Leaves
  <2>4. r \in Nat /\ r <= r /\ r <= Len(Trace[s])
    BY <1>5 DEF Leaves
  <2> QED
    BY <1>3, <1>4, <1>5, <1>8, <2>1, <2>2, <2>3, <2>4 DEF Passes
<1> QED
  BY <1>7, <1>9

-----------------------------------------------------------------------------
(* Kill.                                                                   *)

LEMMA KillRealTracks ==
    ASSUME NEW s \in Streams, NEW b, NEW c, NEW P, NEW r, NEW over, Feeds(s, b, c, P, r, over),
           NEW i, NEW next \in BOOLEAN, NEW me \in BOOLEAN, NEW m, NEW Q, NEW g,
           Undoes(s, b, P, i, next, me, m, Q, g), P[i].kind = "real", me => ~next
    PROVE  /\ Tracks(s, g, c, Q, r)
           /\ next => At(g, c) = P[i].pos + 1
           /\ ~next => At(g, c) = P[i].pos
<1>1. /\ b \in Buffers(s) /\ b.head \in Slots /\ c \in Nat /\ r \in Nat /\ Content(s, b, c)
      /\ Len(Trace[s]) \in Nat /\ EofPos(s) = Len(Trace[s]) + 1
      /\ At(b, c) \in Nat /\ At(b, c) = c + Off(b, b.head)
      /\ Off(b, b.head) \in Nat /\ \A k \in Slots : Off(b, k) \in Nat
      /\ DOMAIN P \subseteq Nat
  BY FeedsFacts
<1>2. Ordered(s, P, over) /\ Within(b, P, over) /\ Held(b, P)
  BY DEF Feeds
<1>3. /\ g \in Buffers(s) /\ g.fault = b.fault /\ g.slot = b.slot
      /\ Limit(g) = Limit(b) /\ g.lastcommit = b.lastcommit /\ g.readPos = b.readPos
      /\ m \in Nat /\ m <= i /\ i \in Nat /\ (~me => m = i) /\ (me => m = i - 1)
      /\ DOMAIN Q = 1 .. m
      /\ \A j \in DOMAIN Q : j \in DOMAIN P /\ Q[j] = P[j]
  BY <1>1, <1>2, KillKeeps
<1>3a. Off(g, g.head) = IF next THEN Off(b, P[i].id) + 1 ELSE Off(b, P[i].id)
  BY <1>1, <1>2, KillKeeps
<1>4. i \in DOMAIN P /\ (me \/ next) /\ i \in Reals(P) /\ IsPlaced(P[i])
  BY DEF Undoes, Reals, IsPlaced
<1>5. /\ P[i].id \in Slots /\ P[i].pos = c + Off(b, P[i].id) /\ P[i].pos \in Nat
      /\ Off(b, P[i].id) >= 1 /\ Off(b, P[i].id) < Off(b, b.head)
      /\ P[i].pos < At(b, c) /\ P[i].pos <= Len(Trace[s]) /\ c < P[i].pos /\ r < P[i].pos
  BY <1>4, RealPlace
<1>6. PICK o \in Nat : o = Off(b, P[i].id)
  BY <1>1, <1>5
<1>7. /\ next => At(g, c) = P[i].pos + 1 /\ Off(g, g.head) = o + 1
      /\ ~next => At(g, c) = P[i].pos /\ Off(g, g.head) = o
  BY <1>1, <1>3a, <1>5, <1>6 DEF At
<1>8. /\ At(g, c) \in Nat /\ At(g, c) <= At(b, c) /\ r < At(g, c) /\ c < At(g, c)
      /\ At(g, c) <= Len(Trace[s]) + 1 /\ Off(g, g.head) <= Off(b, b.head)
      /\ Off(g, g.head) \in Nat
  <2>1. PICK x \in Nat, h \in Nat : x = P[i].pos /\ h = At(b, c) /\ x < h /\ c < x /\ r < x
                                  /\ x <= Len(Trace[s])
    BY <1>1, <1>5
  <2>2. PICK y \in Nat : y = Off(b, b.head) /\ o < y
    BY <1>1, <1>5, <1>6
  <2>3. CASE next
    <3>1. At(g, c) = x + 1 /\ Off(g, g.head) = o + 1
      BY <1>7, <2>1, <2>3
    <3>2. c \in Nat /\ r \in Nat /\ Len(Trace[s]) \in Nat
      BY <1>1
    <3>3. At(g, c) \in Nat /\ At(g, c) <= h /\ r < At(g, c) /\ c < At(g, c)
      BY <2>1, <3>1, <3>2
    <3>4. At(g, c) <= Len(Trace[s]) + 1
      BY <2>1, <3>1, <3>2
    <3>5. Off(g, g.head) <= y /\ Off(g, g.head) \in Nat
      BY <2>2, <3>1
    <3> QED
      BY <2>1, <2>2, <3>3, <3>4, <3>5
  <2>4. CASE ~next
    <3>1. At(g, c) = x /\ Off(g, g.head) = o
      BY <1>7, <2>1, <2>4
    <3>2. c \in Nat /\ r \in Nat /\ Len(Trace[s]) \in Nat
      BY <1>1
    <3>3. At(g, c) \in Nat /\ At(g, c) <= h /\ r < At(g, c) /\ c < At(g, c)
      BY <2>1, <3>1
    <3>4. At(g, c) <= Len(Trace[s]) + 1
      BY <2>1, <3>1, <3>2
    <3>5. Off(g, g.head) <= y /\ Off(g, g.head) \in Nat
      BY <2>2, <3>1
    <3> QED
      BY <2>1, <2>2, <3>3, <3>4, <3>5
  <2> QED
    BY <2>3, <2>4
<1>9. \A k \in Slots : Off(g, k) = Off(b, k)
  BY <1>3 DEF Off
<1>10. Content(s, g, c)
  <2>1. \A k \in Slots : Place(g, c, k) = Place(b, c, k)
    BY <1>3, <1>9 DEF Place
  <2> QED
    BY <1>1, <1>3, <2>1 DEF Content
<1>11. ASSUME NEW p \in Nat, r < p, p <= c, p < At(g, c), p <= Len(Trace[s])
       PROVE  IsOrphan(s, p)
  <2>1. p < At(b, c)
    BY <1>1, <1>8, <1>11
  <2> QED
    BY <1>11, <2>1 DEF Feeds, Tracks
<1>12. ~(c > Len(Trace[s]) \/ At(g, c) > Len(Trace[s]) + 1)
  BY <1>1, <1>5, <1>8
<1>13. ASSUME NEW j \in Reals(P), Off(b, P[j].id) < Off(g, g.head)
       PROVE  j \in DOMAIN Q /\ j \in Reals(Q)
  <2>1. j \in DOMAIN P /\ IsPlaced(P[j]) /\ P[j].kind = "real" /\ j \in Nat /\ j >= 1
    <3>1. DOMAIN P = 1 .. Len(P)
      BY FeedsFacts
    <3> QED
      BY <1>1, <3>1 DEF Reals, IsPlaced
  <2>2. P[j].id \in Slots /\ Off(b, P[j].id) \in Nat
    BY <1>1, RealPlace
  <2>3. i < j => o < Off(b, P[j].id)
    BY <1>4, <1>6, <2>1 DEF Feeds, Within
  <2>4. ~(i < j)
    BY <1>7, <1>13, <2>2, <2>3
  <2>5. me => i # j
    BY <1>6, <1>7, <1>13
  <2>6. j <= m
    BY <1>3, <2>1, <2>4, <2>5
  <2>7. j \in DOMAIN Q
    BY <1>3, <2>1, <2>6
  <2> QED
    BY <1>3, <2>1, <2>7 DEF Reals
<1>14. ASSUME NEW k \in Slots, Off(g, k) >= 1, Off(g, k) < Off(g, g.head)
       PROVE  Accounted(g, Q, r, k)
  <2>1. Off(b, k) >= 1 /\ Off(b, k) < Off(b, b.head) /\ Off(b, k) < Off(g, g.head)
    BY <1>1, <1>8, <1>9, <1>14
  <2>2. Accounted(b, P, r, k)
    BY <2>1 DEF Feeds, Tracks
  <2>3. CASE \E j \in Reals(P) : P[j].id = k
    <3>1. PICK j \in Reals(P) : P[j].id = k
      BY <2>3
    <3>2. j \in Reals(Q) /\ Q[j] = P[j]
      BY <1>3, <1>13, <2>1, <3>1
    <3> QED
      BY <3>1, <3>2 DEF Accounted
  <2> QED
    BY <1>3, <2>2, <2>3 DEF Accounted
<1>15. ASSUME NEW j \in Reals(Q) PROVE Proper(s, g, r, Q[j])
  <2>1. j \in Reals(P) /\ Q[j] = P[j]
    BY <1>3 DEF Reals
  <2>2. Proper(s, b, r, P[j])
    BY <2>1 DEF Feeds, Tracks
  <2> QED
    BY <1>3, <2>1, <2>2 DEF Proper
<1>16. ASSUME NEW j \in DOMAIN Q PROVE Q[j].kind # "pad"
  <2>1. j \in DOMAIN P /\ Q[j] = P[j] /\ j \in Nat /\ j <= i
    BY <1>3
  <2>2. CASE j = i
    BY <2>1, <2>2 DEF Undoes
  <2>3. CASE j # i
    <3>1. j < i
      BY <1>3, <2>1, <2>3
    <3> QED
      BY <1>2, <1>4, <2>1, <3>1 DEF Ordered
  <2> QED
    BY <2>2, <2>3
<1>17. Tracks(s, g, c, Q, r)
  <2>1. r <= Len(Trace[s])
    BY DEF Feeds, Tracks
  <2> QED
    BY <1>8, <1>10, <1>11, <1>12, <1>14, <1>15, <1>16, <2>1 DEF Tracks
<1> QED
  BY <1>7, <1>17

LEMMA KillStartupTracks ==
    ASSUME NEW s \in Streams, NEW b, NEW c, NEW P, NEW r, NEW over, Feeds(s, b, c, P, r, over),
           NEW i, NEW next \in BOOLEAN, NEW me \in BOOLEAN, NEW m, NEW Q, NEW g,
           Undoes(s, b, P, i, next, me, m, Q, g), P[i].kind = "startup", ~me,
           \A j \in Reals(P) : ~(i < j)
    PROVE  g = b /\ Tracks(s, g, c, Q, r)
<1>1. /\ b \in Buffers(s) /\ r \in Nat /\ DOMAIN P \subseteq Nat /\ DOMAIN P = 1 .. Len(P)
      /\ Ordered(s, P, over) /\ Within(b, P, over) /\ Held(b, P)
      /\ r <= Len(Trace[s]) /\ r < At(b, c) /\ r <= r
  BY FeedsFacts DEF Feeds, Tracks
<1>2. /\ m = i /\ i \in Nat /\ DOMAIN Q = 1 .. m /\ \A j \in DOMAIN Q : j \in DOMAIN P /\ Q[j] = P[j]
      /\ g = b
  BY <1>1, KillKeeps
<1>3. ASSUME NEW j \in Reals(P) PROVE j \in Reals(Q) /\ Q[j] = P[j]
  <2>1. j \in DOMAIN P /\ j \in Nat /\ j >= 1
    BY <1>1 DEF Reals
  <2>2. j \in DOMAIN Q
    BY <1>2, <2>1
  <2> QED
    BY <1>2, <2>2 DEF Reals
<1>4. ASSUME NEW j \in Reals(Q) PROVE \E k \in Reals(P) : Q[j] = P[k] /\ r < P[k].pos
  <2>1. j \in Reals(P) /\ Q[j] = P[j]
    BY <1>2 DEF Reals
  <2> QED
    BY <2>1, RealPlace
<1>5. Leaves(s, b, P, r, Q, r)
  BY <1>1, <1>2, <1>3, <1>4 DEF Leaves
<1> QED
  BY <1>1, <1>2, <1>5, LeaveTracks

-----------------------------------------------------------------------------
(* Fetch.                                                                  *)

\* The instruction at the head, and the room after it.
LEMMA HeadPlace ==
    ASSUME NEW s \in Streams, NEW b, NEW c, NEW P, NEW r, Feeds(s, b, c, P, r, FALSE),
           ~Eof(s, b), ~IsWrongpath(b)
    PROVE  /\ Inst(b).pos = At(b, c) /\ At(b, c) <= Len(Trace[s])
           /\ ~IsOrphan(s, At(b, c)) /\ c < At(b, c) /\ At(b, c) \in 1 .. Len(Trace[s])
           /\ VirtualPc(s, b) = Trace[s][At(b, c)].pc
<1>1. /\ b \in Buffers(s) /\ b.head \in Slots /\ c \in Nat /\ Content(s, b, c)
      /\ At(b, c) \in Nat /\ At(b, c) = c + Off(b, b.head) /\ Off(b, b.head) < Limit(b)
      /\ Off(b, b.head) \in Nat /\ Len(Trace[s]) \in Nat
  BY FeedsFacts
<1>2. Off(b, b.head) >= 1
  BY DEF Feeds, Within
<1>3. At(b, c) >= 1 /\ c < At(b, c)
  BY <1>1, <1>2
<1>4. /\ At(b, c) <= Len(Trace[s]) => /\ b.slot[b.head].pos = At(b, c)
                                      /\ b.slot[b.head].wrongpath = IsOrphan(s, At(b, c))
      /\ At(b, c) > Len(Trace[s]) => b.slot[b.head].pos = EofPos(s)
  BY <1>1, <1>3, OfSlot
<1>5. Inst(b) = b.slot[b.head]
  BY DEF Inst
<1>6. At(b, c) <= Len(Trace[s])
  BY <1>1, <1>4, <1>5 DEF Eof
<1>7. ~IsOrphan(s, At(b, c)) /\ Inst(b).pos = At(b, c)
  BY <1>4, <1>5, <1>6 DEF IsWrongpath
<1>8. VirtualPc(s, b) = Trace[s][At(b, c)].pc
  BY <1>7 DEF VirtualPc
<1> QED
  BY <1>1, <1>3, <1>6, <1>7, <1>8

LEMMA RoomAhead ==
    ASSUME NEW s \in Streams, NEW b, NEW c, NEW P, NEW r, Feeds(s, b, c, P, r, FALSE),
           TraceFits(s), Len(P) < Window, At(b, c) <= Len(Trace[s])
    PROVE  Off(b, b.head) + 1 < BufSize
<1>1. /\ c \in Nat /\ Len(Trace[s]) \in Nat /\ BufSize \in Nat /\ BufSize >= 2 /\ Len(P) \in Nat
      /\ At(b, c) \in Nat /\ At(b, c) = c + Off(b, b.head) /\ Off(b, b.head) < Limit(b)
      /\ Off(b, b.head) \in Nat /\ Limit(b) <= BufSize /\ Limit(b) \in Nat
  BY FeedsFacts
<1> SUFFICES ASSUME ~(Off(b, b.head) + 1 < BufSize) PROVE FALSE
  OBVIOUS
<1>2. Off(b, b.head) = BufSize - 1 /\ At(b, c) = c + BufSize - 1
  BY <1>1
<1>3. c \in 0 .. Len(Trace[s])
  BY <1>1, <1>2
<1>4. CASE Cardinality(Insts(s, c + 1, c + BufSize - 2)) >= Window
  <2>1. ASSUME NEW q \in Insts(s, c + 1, c + BufSize - 2) PROVE q < At(b, c)
    <3>1. q \in Nat /\ q <= c + BufSize - 2
      BY <1>1, InstsIn
    <3> QED
      BY <1>1, <1>2, <3>1
  <2>2. c + BufSize - 2 \in Int
    BY <1>1
  <2>3. Cardinality(Insts(s, c + 1, c + BufSize - 2)) <= Len(P)
    BY <2>1, <2>2, InstsFit
  <2>4. IsFiniteSet(Insts(s, c + 1, c + BufSize - 2))
    <3>1. IsFiniteSet(c + 1 .. c + BufSize - 2)
      <4>1. c + 1 \in Int
        BY <1>1
      <4> QED
        BY <2>2, <4>1, FS_Interval
    <3>2. Insts(s, c + 1, c + BufSize - 2) \subseteq c + 1 .. c + BufSize - 2
      BY DEF Insts
    <3> QED
      BY <3>1, <3>2, FS_Subset
  <2>5. Cardinality(Insts(s, c + 1, c + BufSize - 2)) \in Nat /\ Window \in Nat
    BY <2>4, FS_CardinalityType, FeederAssumption
  <2> QED
    BY <1>1, <1>4, <2>3, <2>5
<1>5. CASE \E v \in Len(Trace[s]) + 1 .. c + BufSize - 2 : ~IsOrphan(s, v - BufSize)
  BY <1>1, <1>2, <1>5
<1> QED
  BY <1>3, <1>4, <1>5 DEF TraceFits

\* The buffer after NextInstr has filled it or not.
LEMMA NextContent ==
    ASSUME NEW s \in Streams, NEW b \in Buffers(s), NEW c, Content(s, b, c), b.readPos >= 1,
           NEW g, g = NextInstr(s, b), g.fault = "none"
    PROVE  Content(s, g, c)
<1>1. b.head \in Slots /\ Succ(b.head) \in Slots /\ b.lastcommit \in Slots
  BY Members, RingSucc
<1>2. PICK d : d = [b EXCEPT !.head = Succ(b.head)]
  OBVIOUS
<1>3. /\ Grown(s, b, d) /\ d.readPos = b.readPos /\ d.filled = b.filled /\ d.slot = b.slot
  BY <1>1, <1>2, GrownSame
<1>4. d \in Buffers(s) /\ d.lastcommit = b.lastcommit
  BY <1>3 DEF Grown
<1>5. Content(s, d, c)
  BY <1>3, <1>4, SameContent
<1>6. g = d \/ g = FillBuffer(s, d)
  BY <1>2, NextGrows
<1>7. CASE g = FillBuffer(s, d)
  <2>1. d.filled # d.lastcommit
    <3>1. d.filled = d.lastcommit => g.fault = "overrun"
      BY <1>4, <1>7, FillIs
    <3> QED
      BY <3>1
  <2> QED
    BY <1>4, <1>5, <1>7, <2>1, FillContent
<1> QED
  BY <1>5, <1>6, <1>7

\* Noting a no-op in its slot.
LEMMA NoteContent ==
    ASSUME NEW s \in Streams, NEW b \in Buffers(s), NEW c, Content(s, b, c), NEW h \in Slots,
           Off(b, h) < Limit(b), NEW v \in 1 .. Len(Trace[s]), v = c + Off(b, h),
           NEW d, d = [b EXCEPT !.slot[h].nop = @ \/ Trace[s][v].kind = "nop"]
    PROVE  Content(s, d, c)
<1>1. PICK z : z = (Trace[s][v].kind = "nop")
  OBVIOUS
<1>2. d = [b EXCEPT !.slot[h].nop = @ \/ z]
  BY <1>1
<1>3. /\ d \in Buffers(s) /\ d.head = b.head /\ d.lastcommit = b.lastcommit
      /\ d.filled = b.filled /\ d.readPos = b.readPos
      /\ \A i \in Slots : /\ d.slot[i].pos = b.slot[i].pos
                          /\ d.slot[i].wrongpath = b.slot[i].wrongpath
                          /\ i # h => d.slot[i] = b.slot[i]
  BY <1>2, NoteNop
<1>3a. d.slot[h].nop => (b.slot[h].nop \/ z)
  BY <1>2, NoteNop
<1>4. Limit(d) = Limit(b) /\ \A i \in Slots : Place(d, c, i) = Place(b, c, i)
  BY <1>3 DEF Limit, Place, Off
<1>5. /\ c \in Nat /\ b.readPos = AtMost(c + Limit(b), EofPos(s))
      /\ \A i \in Slots : Holds(s, b.slot[i], Place(b, c, i))
  BY DEF Content
<1>6. Place(b, c, h) = v
  BY DEF Place
<1>7. Holds(s, d.slot[h], v)
  <2>1. Holds(s, b.slot[h], v)
    BY <1>5, <1>6
  <2>2. d.slot[h].pos = b.slot[h].pos /\ d.slot[h].wrongpath = b.slot[h].wrongpath
    BY <1>3
  <2>3. b.slot[h].pos = v /\ b.slot[h].wrongpath = IsOrphan(s, v)
        /\ (b.slot[h].nop => Trace[s][v].kind = "nop")
    BY <2>1 DEF Holds
  <2>4. d.slot[h].nop => Trace[s][v].kind = "nop"
    BY <1>1, <1>3a, <2>3
  <2>5. ~(v > Len(Trace[s]))
    BY Places
  <2> QED
    BY <2>2, <2>3, <2>4, <2>5 DEF Holds
<1>8. ASSUME NEW i \in Slots PROVE Holds(s, d.slot[i], Place(d, c, i))
  BY <1>3, <1>4, <1>5, <1>6, <1>7
<1> QED
  BY <1>3, <1>4, <1>5, <1>8 DEF Content

LEMMA NoteSet ==
    ASSUME NEW s \in Streams, NEW c \in Buffers(s), NEW h \in Slots, NEW z,
           NEW d, d = [c EXCEPT !.slot[h].nop = @ \/ z]
    PROVE  z => d.slot[h].nop
<1>1. d.slot[h].nop = (c.slot[h].nop \/ z)
  BY Members DEF Cells, Buffers
<1> QED
  BY <1>1, Zenon

\* An instruction of the trace is fetched.
Hands(s, b, c, e, d) ==
    /\ e.kind = "real" /\ e.id = b.head /\ e.pos = At(b, c)
    /\ e.pc = Trace[s][At(b, c)].pc
    /\ d = [NextInstr(s, b) EXCEPT !.slot[b.head].nop = @ \/ Trace[s][At(b, c)].kind = "nop"]

LEMMA HandsIs ==
    ASSUME NEW s \in Streams, NEW b, NEW c, NEW P, NEW r, Feeds(s, b, c, P, r, FALSE),
           TraceFits(s), Len(P) < Window, ~Eof(s, b), ~IsWrongpath(b),
           NEW e, NEW d, Hands(s, b, c, e, d)
    PROVE  /\ d \in Buffers(s) /\ d.fault = "none" /\ Content(s, d, c)
           /\ At(d, c) = At(b, c) + 1 /\ Off(d, d.head) = Off(b, b.head) + 1
           /\ \A i \in Slots : /\ Off(d, i) = Off(b, i)
                               /\ Off(b, i) < Off(b, b.head) => d.slot[i] = b.slot[i]
           /\ Trace[s][At(b, c)].kind = "nop" => d.slot[b.head].nop
<1>1. /\ b \in Buffers(s) /\ b.head \in Slots /\ c \in Nat /\ Content(s, b, c)
      /\ At(b, c) \in Nat /\ At(b, c) = c + Off(b, b.head) /\ Off(b, b.head) < Limit(b)
      /\ Off(b, b.head) \in Nat /\ Limit(b) \in Nat
      /\ \A i \in Slots : Off(b, i) \in Nat
  BY FeedsFacts
<1>2. b.fault = "none" /\ b.readPos >= 1
  BY DEF Feeds, Within
<1>3. At(b, c) \in 1 .. Len(Trace[s]) /\ At(b, c) <= Len(Trace[s])
  BY HeadPlace
<1>4. Off(b, b.head) + 1 < BufSize
  BY <1>3, RoomAhead
<1>5. PICK n : n = NextInstr(s, b)
  OBVIOUS
<1>6. /\ Grown(s, b, n) /\ n.fault = b.fault
  BY <1>1, <1>2, <1>4, <1>5, NextGrows
<1>7. n.fault = "none" /\ Off(n, n.head) = Off(b, b.head) + 1 /\ Off(n, n.head) < Limit(n)
  BY <1>1, <1>2, <1>5, <1>6, NextGrows
<1>8. Content(s, n, c)
  BY <1>1, <1>2, <1>5, <1>7, NextContent
<1>9. /\ n \in Buffers(s) /\ n.lastcommit = b.lastcommit /\ Limit(b) <= Limit(n)
      /\ \A i \in Slots : Off(n, i) = Off(b, i)
      /\ \A i \in Slots : Off(b, i) < Limit(b) => n.slot[i] = b.slot[i]
  BY <1>6 DEF Grown
<1>10. PICK z : z = (Trace[s][At(b, c)].kind = "nop")
  OBVIOUS
<1>11. d = [n EXCEPT !.slot[b.head].nop = @ \/ z]
  BY <1>5, <1>10 DEF Hands
<1>12. /\ d \in Buffers(s) /\ d.head = n.head /\ d.lastcommit = n.lastcommit
       /\ d.fault = n.fault /\ \A i \in Slots : i # b.head => d.slot[i] = n.slot[i]
  BY <1>1, <1>9, <1>11, NoteNop
<1>13. z => d.slot[b.head].nop
  BY <1>1, <1>9, <1>11, NoteSet
<1>14. Content(s, d, c)
  <2>1. Limit(n) \in Nat /\ Off(n, b.head) = Off(b, b.head)
    BY <1>1, <1>9, Offsets
  <2>2. Off(n, b.head) < Limit(n)
    BY <1>1, <1>9, <2>1
  <2>3. PICK v : v = At(b, c)
    OBVIOUS
  <2>4. v \in 1 .. Len(Trace[s]) /\ v = c + Off(n, b.head)
    BY <1>1, <1>3, <2>1, <2>3
  <2>5. d = [n EXCEPT !.slot[b.head].nop = @ \/ Trace[s][v].kind = "nop"]
    BY <1>10, <1>11, <2>3
  <2> QED
    BY <1>1, <1>8, <1>9, <2>2, <2>4, <2>5, NoteContent
<1>15. \A i \in Slots : Off(d, i) = Off(b, i)
  BY <1>9, <1>12 DEF Off
<1>16. Off(d, d.head) = Off(b, b.head) + 1
  BY <1>7, <1>12 DEF Off
<1>17. ASSUME NEW i \in Slots, Off(b, i) < Off(b, b.head) PROVE d.slot[i] = b.slot[i]
  <2>1. i # b.head /\ Off(b, i) < Limit(b)
    BY <1>1, <1>17
  <2> QED
    BY <1>9, <1>12, <2>1
<1>18. At(d, c) = At(b, c) + 1
  BY <1>1, <1>16 DEF At
<1> QED
  BY <1>7, <1>10, <1>12, <1>13, <1>14, <1>15, <1>16, <1>17, <1>18

\* Q is P with e fetched after it.
Appends(P, e, Q) ==
           /\ Len(P) \in Nat /\ DOMAIN P = 1 .. Len(P) /\ DOMAIN Q = 1 .. Len(P) + 1
           /\ Q[Len(P) + 1] = e /\ Len(P) + 1 \in DOMAIN Q
           /\ \A j \in DOMAIN P : j \in DOMAIN Q /\ Q[j] = P[j]
           /\ \A j \in Reals(P) : j \in Reals(Q) /\ Q[j] = P[j]
           /\ \A j \in DOMAIN Q : (j \in DOMAIN P /\ Q[j] = P[j]) \/ (j = Len(P) + 1 /\ Q[j] = e)
           /\ \A j \in Reals(Q) : (j \in Reals(P) /\ Q[j] = P[j]) \/ Q[j] = e

LEMMA AppendReals ==
    ASSUME NEW s \in Streams, NEW P \in Seq(Instr(s)), NEW e
    PROVE  Appends(P, e, Append(P, e))
<1> DEFINE Q == Append(P, e)
<1>1. Len(P) \in Nat /\ DOMAIN P = 1 .. Len(P)
  OBVIOUS
<1>2. DOMAIN Q = 1 .. Len(P) + 1 /\ Q[Len(P) + 1] = e /\ \A j \in 1 .. Len(P) : Q[j] = P[j]
  BY <1>1
<1> HIDE DEF Q
<1>3. \A j \in DOMAIN P : j \in DOMAIN Q /\ Q[j] = P[j]
  BY <1>1, <1>2
<1>4. ASSUME NEW j \in DOMAIN Q
      PROVE  (j \in DOMAIN P /\ Q[j] = P[j]) \/ (j = Len(P) + 1 /\ Q[j] = e)
  BY <1>1, <1>2
<1>5. Len(P) + 1 \in DOMAIN Q
  BY <1>1, <1>2
<1>6. Appends(P, e, Q)
  BY <1>1, <1>2, <1>3, <1>4, <1>5 DEF Reals, Appends
<1> QED
  BY <1>6 DEF Q

LEMMA FetchReal ==
    ASSUME NEW s \in Streams, NEW b, NEW c, NEW P, NEW r, Feeds(s, b, c, P, r, FALSE),
           TraceFits(s), Len(P) < Window, ~Eof(s, b), ~IsWrongpath(b),
           NEW e, NEW d, Hands(s, b, c, e, d), NEW Q, Q = Append(P, e)
    PROVE  Tracks(s, d, c, Q, r)
<1>1. /\ b \in Buffers(s) /\ b.head \in Slots /\ c \in Nat /\ r \in Nat
      /\ At(b, c) \in Nat /\ At(b, c) = c + Off(b, b.head) /\ Len(Trace[s]) \in Nat
      /\ Off(b, b.head) \in Nat /\ P \in Seq(Instr(s))
      /\ \A i \in Slots : Off(b, i) \in Nat
  BY FeedsFacts
<1>2. /\ d \in Buffers(s) /\ d.fault = "none" /\ Content(s, d, c)
      /\ At(d, c) = At(b, c) + 1 /\ Off(d, d.head) = Off(b, b.head) + 1
      /\ \A i \in Slots : /\ Off(d, i) = Off(b, i)
                          /\ Off(b, i) < Off(b, b.head) => d.slot[i] = b.slot[i]
      /\ Trace[s][At(b, c)].kind = "nop" => d.slot[b.head].nop
  BY HandsIs
<1>3. At(b, c) <= Len(Trace[s]) /\ ~IsOrphan(s, At(b, c)) /\ c < At(b, c)
      /\ At(b, c) \in 1 .. Len(Trace[s])
  BY HeadPlace
<1>4. /\ r <= Len(Trace[s]) /\ r < At(b, c)
      /\ \A p \in Nat : r < p /\ p <= c /\ p < At(b, c) /\ p <= Len(Trace[s]) => IsOrphan(s, p)
      /\ \A i \in Slots : Off(b, i) >= 1 /\ Off(b, i) < Off(b, b.head) => Accounted(b, P, r, i)
      /\ \A j \in Reals(P) : Proper(s, b, r, P[j])
  BY DEF Feeds, Tracks
<1>5. /\ e.kind = "real" /\ e.id = b.head /\ e.pos = At(b, c) /\ e.pc = Trace[s][At(b, c)].pc
  BY DEF Hands
<1>5a. Appends(P, e, Q)
  BY <1>1, AppendReals
<1>6. /\ Len(P) + 1 \in Reals(Q) /\ Q[Len(P) + 1] = e
      /\ \A j \in Reals(P) : j \in Reals(Q) /\ Q[j] = P[j]
      /\ \A j \in Reals(Q) : (j \in Reals(P) /\ Q[j] = P[j]) \/ Q[j] = e
      /\ \A j \in DOMAIN Q : (j \in DOMAIN P /\ Q[j] = P[j]) \/ Q[j] = e
  BY <1>1, <1>5, <1>5a DEF Reals, Appends
<1>7. ASSUME NEW p \in Nat, r < p, p <= c, p <= Len(Trace[s]) PROVE IsOrphan(s, p)
  BY <1>1, <1>3, <1>4, <1>7
<1>8. ASSUME NEW i \in Slots, Off(d, i) >= 1, Off(d, i) < Off(d, d.head)
      PROVE  Accounted(d, Q, r, i)
  <2>1. CASE Off(b, i) < Off(b, b.head)
    <3>1. Accounted(b, P, r, i) /\ d.slot[i] = b.slot[i]
      BY <1>2, <1>4, <1>8, <2>1
    <3> QED
      BY <1>6, <3>1 DEF Accounted
  <2>2. CASE ~(Off(b, i) < Off(b, b.head))
    <3>1. Off(b, i) = Off(b, b.head)
      BY <1>1, <1>2, <1>8, <2>2
    <3>2. i = b.head
      BY <1>1, <3>1, Offsets
    <3> QED
      BY <1>5, <1>6, <3>2 DEF Accounted
  <2> QED
    BY <2>1, <2>2
<1>9. ASSUME NEW j \in Reals(Q) PROVE Proper(s, d, r, Q[j])
  <2>1. CASE j \in Reals(P) /\ Q[j] = P[j]
    <3>1. P[j].id \in Slots /\ Off(b, P[j].id) < Off(b, b.head)
      BY <2>1, RealPlace
    <3>2. d.slot[P[j].id] = b.slot[P[j].id]
      BY <1>2, <3>1
    <3>3. Proper(s, b, r, P[j])
      BY <1>4, <2>1
    <3> QED
      BY <2>1, <3>2, <3>3 DEF Proper
  <2>2. CASE Q[j] = e
    <3>1. Trace[s][At(b, c)].kind # "orphan"
      BY <1>3, OrphanIs
    <3> QED
      BY <1>2, <1>4, <1>5, <2>2, <3>1 DEF Proper
  <2> QED
    BY <1>6, <2>1, <2>2
<1>10. ASSUME NEW j \in DOMAIN Q PROVE Q[j].kind # "pad"
  <2>1. \A i \in DOMAIN P : P[i].kind # "pad"
    BY DEF Feeds, Ordered
  <2> QED
    BY <1>5, <1>6, <2>1
<1>11. ~(c > Len(Trace[s])) /\ ~(At(d, c) > Len(Trace[s]) + 1) /\ r < At(d, c)
  BY <1>1, <1>2, <1>3, <1>4
<1> QED
  BY <1>2, <1>4, <1>7, <1>8, <1>9, <1>10, <1>11 DEF Tracks

\* Padding carries the id of the slot at the head.
PadsHead(s, b, e) ==
    e.kind = "pad" => e.id = b.head /\ (Eof(s, b) => ~IsWrongpath(b))

\* Anything else is fetched.
LEMMA FetchOther ==
    ASSUME NEW s \in Streams, NEW b, NEW c, NEW P, NEW r, NEW over, Feeds(s, b, c, P, r, over),
           NEW e, e.kind # "real",
           PadsHead(s, b, e),
           NEW Q, Q = Append(P, e)
    PROVE  Tracks(s, b, c, Q, r)
<1>1. P \in Seq(Instr(s)) /\ r \in Nat
  BY FeedsFacts
<1>2. r <= Len(Trace[s]) /\ r < At(b, c) /\ \A i \in Reals(P) : Proper(s, b, r, P[i])
  BY DEF Feeds, Tracks
<1>3a. Appends(P, e, Q)
  BY <1>1, AppendReals
<1>3. /\ \A j \in Reals(P) : j \in Reals(Q) /\ Q[j] = P[j]
      /\ \A j \in DOMAIN Q : (j \in DOMAIN P /\ Q[j] = P[j]) \/ Q[j] = e
  BY <1>3a DEF Appends
<1>4. ASSUME NEW j \in Reals(Q) PROVE \E i \in Reals(P) : Q[j] = P[i] /\ r < P[i].pos
  <2>1. j \in DOMAIN Q /\ Q[j].kind = "real"
    BY DEF Reals
  <2>2. j \in Reals(P) /\ Q[j] = P[j]
    BY <1>3, <2>1 DEF Reals
  <2> QED
    BY <1>2, <2>2 DEF Proper
<1>5. ASSUME NEW j \in DOMAIN Q, Q[j].kind = "pad"
      PROVE  \/ \E i \in DOMAIN P : Q[j] = P[i]
             \/ Q[j].id = b.head /\ (Eof(s, b) => ~IsWrongpath(b))
  BY <1>3, <1>5 DEF PadsHead
<1>6. \A i \in Reals(P) : \E j \in Reals(Q) : Q[j] = P[i]
  BY <1>3
<1>7. r <= r
  BY <1>1
<1>8. Leaves(s, b, P, r, Q, r)
  BY <1>1, <1>2, <1>4, <1>5, <1>6, <1>7 DEF Leaves
<1> QED
  BY <1>2, <1>8, LeaveTracks

\* What the head shows, by its place.
LEMMA HeadAt ==
    ASSUME NEW s \in Streams, NEW b, NEW c, NEW P, NEW r, NEW over, Feeds(s, b, c, P, r, over)
    PROVE  /\ At(b, c) <= Len(Trace[s]) =>
                 /\ Inst(b).pos = At(b, c) /\ ~Eof(s, b)
                 /\ IsWrongpath(b) = IsOrphan(s, At(b, c))
                 /\ VirtualPc(s, b) = Trace[s][At(b, c)].pc
           /\ At(b, c) > Len(Trace[s]) => Eof(s, b)
<1>1. /\ b \in Buffers(s) /\ b.head \in Slots /\ c \in Nat /\ Content(s, b, c)
      /\ At(b, c) \in Nat /\ At(b, c) = c + Off(b, b.head) /\ Off(b, b.head) < Limit(b)
      /\ Len(Trace[s]) \in Nat /\ EofPos(s) = Len(Trace[s]) + 1 /\ r \in Nat
  BY FeedsFacts
<1>2. r < At(b, c)
  BY DEF Feeds, Tracks
<1>3. At(b, c) >= 1
  BY <1>1, <1>2
<1>4. /\ At(b, c) <= Len(Trace[s]) => /\ b.slot[b.head].pos = At(b, c)
                                      /\ b.slot[b.head].wrongpath = IsOrphan(s, At(b, c))
      /\ At(b, c) > Len(Trace[s]) => b.slot[b.head].pos = EofPos(s)
  BY <1>1, <1>3, OfSlot
<1>5. Inst(b) = b.slot[b.head]
  BY DEF Inst
<1>6. ASSUME At(b, c) <= Len(Trace[s])
      PROVE  /\ Inst(b).pos = At(b, c) /\ ~Eof(s, b)
             /\ IsWrongpath(b) = IsOrphan(s, At(b, c))
             /\ VirtualPc(s, b) = Trace[s][At(b, c)].pc
  <2>1. Inst(b).pos = At(b, c) /\ IsWrongpath(b) = IsOrphan(s, At(b, c))
    BY <1>4, <1>5, <1>6 DEF IsWrongpath
  <2>2. ~Eof(s, b)
    BY <1>1, <1>6, <2>1 DEF Eof
  <2> QED
    BY <2>1, <2>2 DEF VirtualPc
<1>7. ASSUME At(b, c) > Len(Trace[s]) PROVE Eof(s, b)
  BY <1>4, <1>5, <1>7 DEF Eof
<1> QED
  BY <1>6, <1>7

-----------------------------------------------------------------------------
(* Before the model runs.                                                  *)

LEMMA StartTracks ==
    ASSUME NEW s \in Streams, NEW b \in InitialBuffers(s)
    PROVE  Tracks(s, b, 0, <<>>, 0)
<1>1. /\ b \in Buffers(s) /\ Off(b, b.head) = 1 /\ Limit(b) = BufSize
      /\ b.readPos = AtMost(BufSize, EofPos(s))
  BY StartsWithin
<1>2. PICK old : /\ old \in [Slots -> Cells(s)]
                 /\ \A i \in Slots : Off(b, i) >= 1 =>
                       b.slot[i] = GetNextInst(s, Off(b, i), old[i])
  BY ZenonT(40), StartsWithin
<1>3. /\ \A i \in Slots : Off(b, i) \in Nat /\ Off(b, i) < BufSize
      /\ BufSize \in Nat /\ Len(Trace[s]) \in Nat
  BY <1>1, Offsets, Sizes, Places
<1>4. ASSUME NEW i \in Slots PROVE Holds(s, b.slot[i], Place(b, 0, i))
  <2>1. Place(b, 0, i) = Off(b, i)
    BY <1>1, <1>3 DEF Place
  <2>2. CASE Off(b, i) >= 1
    <3>1. PICK o \in Cells(s) : b.slot[i] = GetNextInst(s, Off(b, i), o)
      BY <1>2, <2>2
    <3>2. PICK v \in Nat : v = Off(b, i) /\ v >= 1 /\ ~(v >= BufSize)
      BY <1>3, <2>2
    <3>3. b.slot[i] = GetNextInst(s, v, o)
      BY <3>1, <3>2
    <3>4. Holds(s, b.slot[i], v)
      BY <3>2, <3>3, ReadHolds
    <3> QED
      BY <2>1, <3>2, <3>4
  <2>3. CASE ~(Off(b, i) >= 1)
    <3>1. Off(b, i) = 0
      BY <1>3, <2>3
    <3> QED
      BY <1>3, <2>1, <3>1 DEF Holds
  <2> QED
    BY <2>2, <2>3
<1>5. Content(s, b, 0)
  <2>1. 0 + Limit(b) = BufSize
    BY <1>1, <1>3
  <2> QED
    BY <1>1, <1>4, <2>1 DEF Content
<1>6. At(b, 0) = 1
  BY <1>1 DEF At
<1>7. DOMAIN <<>> = {} /\ Reals(<<>>) = {}
  BY DEF Reals
<1>8. /\ 0 <= Len(Trace[s]) /\ 0 < At(b, 0)
      /\ \A p \in Nat : ~(0 < p /\ p <= 0)
      /\ ~(0 > Len(Trace[s]) \/ At(b, 0) > Len(Trace[s]) + 1)
  BY <1>3, <1>6
<1>9. \A i \in Slots : ~(Off(b, i) >= 1 /\ Off(b, i) < Off(b, b.head))
  BY <1>1, <1>3
<1> QED
  BY <1>5, <1>7, <1>8, <1>9 DEF Tracks

LEMMA CountNext ==
    ASSUME NEW s \in Streams, NEW c \in Nat
    PROVE  /\ CountBefore(s, c) \in Nat /\ CountBefore(s, c + 1) \in Nat
           /\ CountBefore(s, c + 1) <= CountBefore(s, c) + 1
           /\ c = 0 => CountBefore(s, c + 1) = 0
<1> DEFINE S(p) == {q \in 1 .. p - 1 : ~IsOrphan(s, q)}
<1>1. ASSUME NEW p \in Nat PROVE IsFiniteSet(S(p)) /\ CountBefore(s, p) = Cardinality(S(p))
  <2>1. IsFiniteSet(1 .. p - 1)
    BY FS_Interval
  <2>2. S(p) \subseteq 1 .. p - 1
    OBVIOUS
  <2> QED
    BY <2>1, <2>2, FS_Subset DEF CountBefore
<1>2. S(c + 1) \subseteq S(c) \cup {c}
  OBVIOUS
<1>3. c = 0 => S(c + 1) = {}
  OBVIOUS
<1> HIDE DEF S
<1>4. /\ IsFiniteSet(S(c)) /\ CountBefore(s, c) = Cardinality(S(c))
      /\ IsFiniteSet(S(c + 1)) /\ CountBefore(s, c + 1) = Cardinality(S(c + 1))
  BY <1>1
<1>5. /\ IsFiniteSet(S(c) \cup {c})
      /\ Cardinality(S(c) \cup {c}) = Cardinality(S(c))
         \/ Cardinality(S(c) \cup {c}) = Cardinality(S(c)) + 1
  BY <1>4, FS_AddElement
<1>6. Cardinality(S(c)) \in Nat /\ Cardinality(S(c + 1)) \in Nat
  BY <1>4, FS_CardinalityType
<1>7. Cardinality(S(c + 1)) <= Cardinality(S(c) \cup {c})
  BY <1>2, <1>5, FS_Subset
<1>8. c = 0 => Cardinality(S(c + 1)) = 0
  BY <1>3, FS_EmptySet
<1> QED
  BY <1>4, <1>5, <1>6, <1>7, <1>8

\* The head has not left the path, or is beyond the end of the trace.
Settled(s, h) == h <= Len(Trace[s]) => ~IsOrphan(s, h)

Warm(s, b, c) ==
    /\ Off(b, b.head) = 1 /\ c <= Len(Trace[s])
    /\ c = 0 \/ CountBefore(s, c) < Warmup

LEMMA WarmSettles ==
    ASSUME NEW s \in Streams, NEW b, NEW c, NEW P, NEW r, NEW over, Feeds(s, b, c, P, r, over),
           WarmupEndsOnPath(s), Warm(s, b, c), ~IsWarmUp(s, Inst(b).pos) \/ Eof(s, b)
    PROVE  Settled(s, At(b, c))
<1>1. /\ c \in Nat /\ At(b, c) = c + 1 /\ Len(Trace[s]) \in Nat /\ Warmup \in Nat
  BY FeedsFacts, FeederAssumption DEF Warm
<1> SUFFICES ASSUME c + 1 <= Len(Trace[s]) PROVE ~IsOrphan(s, c + 1)
  BY <1>1 DEF Settled
<1>2. Inst(b).pos = c + 1 /\ ~Eof(s, b)
  BY <1>1, HeadAt
<1>3. ~(CountBefore(s, c + 1) < Warmup)
  BY <1>2 DEF IsWarmUp
<1>4. /\ CountBefore(s, c) \in Nat /\ CountBefore(s, c + 1) \in Nat
      /\ CountBefore(s, c + 1) <= CountBefore(s, c) + 1
      /\ c = 0 => CountBefore(s, c + 1) = 0
  BY <1>1, CountNext
<1>5. CountBefore(s, c + 1) = Warmup
  BY <1>1, <1>3, <1>4 DEF Warm
<1>6. c + 1 \in 1 .. Len(Trace[s])
  BY <1>1
<1> QED
  BY <1>5, <1>6 DEF WarmupEndsOnPath

-----------------------------------------------------------------------------
(* The order of the instructions in flight.                                *)

Bare(e) == e.kind \in {"real", "startup"}

\* e was fetched right after d.
Joins(s, d, e, mt) ==
    /\ Bare(d) /\ e.kind = "off" => ResolvedPc(s, d) \notin {AnyPc, e.pc}
    /\ d.kind = "real" /\ e.kind = "pad" => NextOnPath(s, d.pos) = EofPos(s) \/ mt

\* Starting up comes first, then the path, what lies off it, padding, and
\* context switches.
Chain(s, P, r, mt) ==
    /\ \A i \in DOMAIN P : P[i].kind = "startup" =>
          /\ i = 1 /\ P[i].id # WrongpathId
          /\ NextOnPath(s, r) # EofPos(s) /\ P[i].target = NextPc(s, r)
    /\ \A i \in DOMAIN P : P[i].kind = "off" => i # 1
    /\ \A i, j \in DOMAIN P : i < j /\ P[i].kind = "off" => ~Bare(P[j])
    /\ \A i, j \in DOMAIN P : i < j /\ P[i].kind \in {"pad", "switch"} => P[j].kind = "switch"
    /\ \A i \in DOMAIN P : i + 1 \in DOMAIN P => Joins(s, P[i], P[i + 1], mt)

\* The oldest is resolved, and what was fetched after it has the right address.
Right(s, P) == 2 \in DOMAIN P => ResolvedPc(s, P[1]) \in {AnyPc, P[2].pc}

LEMMA Kindly ==
    ASSUME NEW s \in Streams, NEW P \in Seq(Instr(s)), NEW i \in DOMAIN P
    PROVE  /\ i \in Nat /\ i >= 1 /\ P[i] \in Instr(s)
           /\ ~Bare(P[i]) => P[i].kind \in {"off", "pad", "switch"}
           /\ P[i].kind \in {"real", "off", "startup", "switch", "pad"}
<1>1. i \in Nat /\ i >= 1 /\ P[i] \in Instr(s)
  OBVIOUS
<1>2. P[i].kind \in {"real", "off", "startup", "switch", "pad"}
  BY <1>1, InstrIs
<1> QED
  BY <1>1, <1>2 DEF Bare

\* What is older than an instruction of the path is of the path.
LEMMA BareBefore ==
    ASSUME NEW s \in Streams, NEW P \in Seq(Instr(s)), NEW r, NEW mt, Chain(s, P, r, mt),
           NEW i \in DOMAIN P, Bare(P[i]), NEW j \in DOMAIN P, j <= i
    PROVE  Bare(P[j]) /\ P[j].kind # "off" /\ P[j].kind # "switch"
<1>1. i \in Nat /\ j \in Nat
  BY Kindly
<1>2. Bare(P[j])
  <2>1. CASE j = i
    BY <2>1
  <2>2. CASE j < i
    <3>1. P[j].kind # "off"
      BY <2>2 DEF Chain
    <3>2. P[j].kind \notin {"pad", "switch"}
      BY <2>2 DEF Chain, Bare
    <3> QED
      BY <3>1, <3>2, Kindly
  <2> QED
    BY <1>1, <2>1, <2>2
<1> QED
  BY <1>2 DEF Bare

LEMMA ChainMore ==
    ASSUME NEW s, NEW P, NEW r, NEW mt, Chain(s, P, r, mt), NEW mu, mt => mu
    PROVE  Chain(s, P, r, mu)
BY DEF Chain, Joins

LEMMA ChainFront ==
    ASSUME NEW s \in Streams, NEW P, NEW r, NEW mt, Chain(s, P, r, mt),
           NEW Q, NEW m \in Nat, DOMAIN Q = 1 .. m,
           \A j \in DOMAIN Q : j \in DOMAIN P /\ Q[j] = P[j]
    PROVE  Chain(s, Q, r, mt)
BY DEF Chain

LEMMA ChainTail ==
    ASSUME NEW s \in Streams, NEW P \in Seq(Instr(s)), NEW r, NEW mt, Chain(s, P, r, mt),
           P # <<>>, Right(s, P), NEW q
    PROVE  Chain(s, Tail(P), q, mt)
<1>1. PICK Q : Q = Tail(P)
  OBVIOUS
<1>2. /\ \A j \in DOMAIN Q : j + 1 \in DOMAIN P /\ Q[j] = P[j + 1] /\ j \in Nat
      /\ 1 \in DOMAIN P
  BY <1>1, TailReals
<1>3. \A j \in DOMAIN P : j \in Nat /\ j >= 1
  BY Kindly
<1>4. ASSUME NEW i \in DOMAIN Q, Q[i].kind = "startup" PROVE FALSE
  <2>1. i + 1 = 1
    BY <1>2, <1>4 DEF Chain
  <2>2. i >= 1
    BY <1>1, <1>4
  <2> QED
    BY <1>2, <2>1, <2>2
<1>5. ASSUME NEW i \in DOMAIN Q, Q[i].kind = "off", i = 1 PROVE FALSE
  <2>1. 2 \in DOMAIN P /\ P[2].kind = "off" /\ 1 + 1 = 2 /\ 1 < 2
    BY <1>2, <1>5
  <2>2. ResolvedPc(s, P[1]) \in {AnyPc, P[2].pc}
    BY <2>1 DEF Right
  <2>3. Joins(s, P[1], P[2], mt)
    <3>1. \A i2 \in DOMAIN P : i2 + 1 \in DOMAIN P => Joins(s, P[i2], P[i2 + 1], mt)
      BY DEF Chain
    <3> QED
      BY <1>2, <2>1, <3>1
  <2>4. ~Bare(P[1])
    BY <2>1, <2>2, <2>3 DEF Joins
  <2>5. P[1].kind # "off"
    BY <1>2 DEF Chain
  <2>6. P[1].kind \in {"pad", "switch"}
    BY <1>2, <2>4, <2>5, Kindly
  <2>7. P[2].kind = "switch"
    BY <1>2, <2>1, <2>6 DEF Chain
  <2> QED
    BY <2>1, <2>7
<1>6. ASSUME NEW i \in DOMAIN Q, NEW j \in DOMAIN Q, i < j
      PROVE  /\ Q[i].kind = "off" => ~Bare(Q[j])
             /\ Q[i].kind \in {"pad", "switch"} => Q[j].kind = "switch"
  <2>1. i + 1 \in DOMAIN P /\ j + 1 \in DOMAIN P /\ i + 1 < j + 1
    BY <1>2, <1>6
  <2> QED
    BY <1>2, <2>1 DEF Chain
<1>7. ASSUME NEW i \in DOMAIN Q, i + 1 \in DOMAIN Q PROVE Joins(s, Q[i], Q[i + 1], mt)
  <2>1. i + 1 \in DOMAIN P /\ (i + 1) + 1 \in DOMAIN P /\ Q[i] = P[i + 1]
        /\ Q[i + 1] = P[(i + 1) + 1]
    BY <1>2, <1>7
  <2> QED
    BY <2>1 DEF Chain
<1>8. Chain(s, Q, q, mt)
  BY <1>4, <1>5, <1>6, <1>7 DEF Chain
<1> QED
  BY <1>1, <1>8

\* What may be fetched after P.
Fits(s, P, r, mt, e) ==
    /\ e.kind = "startup" => /\ P = <<>> /\ e.id # WrongpathId
                             /\ NextOnPath(s, r) # EofPos(s) /\ e.target = NextPc(s, r)
    /\ e.kind = "off" => P # <<>>
    /\ Bare(e) => \A i \in DOMAIN P : P[i].kind # "off"
    /\ e.kind = "switch" \/ \A i \in DOMAIN P : P[i].kind \notin {"pad", "switch"}
    /\ P # <<>> => Joins(s, P[Len(P)], e, mt)

LEMMA ChainAppend ==
    ASSUME NEW s \in Streams, NEW P \in Seq(Instr(s)), NEW r, NEW mt, Chain(s, P, r, mt),
           NEW e, Fits(s, P, r, mt, e), NEW Q, Appends(P, e, Q)
    PROVE  Chain(s, Q, r, mt)
<1>1. /\ Len(P) \in Nat /\ DOMAIN P = 1 .. Len(P) /\ DOMAIN Q = 1 .. Len(P) + 1
      /\ Q[Len(P) + 1] = e
      /\ \A j \in DOMAIN P : Q[j] = P[j]
      /\ \A j \in DOMAIN Q : (j \in DOMAIN P /\ Q[j] = P[j]) \/ (j = Len(P) + 1 /\ Q[j] = e)
  BY DEF Appends
<1>2. P = <<>> <=> Len(P) = 0
  OBVIOUS
<1>3. ASSUME NEW i \in DOMAIN Q, Q[i].kind = "startup"
      PROVE  /\ i = 1 /\ Q[i].id # WrongpathId
             /\ NextOnPath(s, r) # EofPos(s) /\ Q[i].target = NextPc(s, r)
  <2>1. CASE i \in DOMAIN P /\ Q[i] = P[i]
    BY <1>3, <2>1 DEF Chain
  <2>2. CASE i = Len(P) + 1 /\ Q[i] = e
    <3>1. P = <<>> /\ e.id # WrongpathId /\ NextOnPath(s, r) # EofPos(s) /\ e.target = NextPc(s, r)
      BY <1>3, <2>2 DEF Fits
    <3> QED
      BY <1>2, <2>2, <3>1
  <2> QED
    BY <1>1, <2>1, <2>2
<1>4. ASSUME NEW i \in DOMAIN Q, Q[i].kind = "off" PROVE i # 1
  <2>1. CASE i \in DOMAIN P /\ Q[i] = P[i]
    BY <1>4, <2>1 DEF Chain
  <2>2. CASE i = Len(P) + 1 /\ Q[i] = e
    <3>1. P # <<>>
      BY <1>4, <2>2 DEF Fits
    <3> QED
      BY <1>1, <1>2, <2>2, <3>1
  <2> QED
    BY <1>1, <2>1, <2>2
<1>5. ASSUME NEW i \in DOMAIN Q, NEW j \in DOMAIN Q, i < j
      PROVE  /\ Q[i].kind = "off" => ~Bare(Q[j])
             /\ Q[i].kind \in {"pad", "switch"} => Q[j].kind = "switch"
  <2>1. i \in DOMAIN P /\ Q[i] = P[i]
    BY <1>1, <1>5
  <2>2. CASE j \in DOMAIN P /\ Q[j] = P[j]
    BY <1>5, <2>1, <2>2 DEF Chain
  <2>3. CASE j = Len(P) + 1 /\ Q[j] = e
    <3>1. Bare(e) => P[i].kind # "off"
      BY <2>1 DEF Fits
    <3>2. e.kind = "switch" \/ P[i].kind \notin {"pad", "switch"}
      BY <2>1 DEF Fits
    <3> QED
      BY <2>1, <2>3, <3>1, <3>2
  <2> QED
    BY <1>1, <2>2, <2>3
<1>6. ASSUME NEW i \in DOMAIN Q, i + 1 \in DOMAIN Q PROVE Joins(s, Q[i], Q[i + 1], mt)
  <2>1. i \in DOMAIN P /\ Q[i] = P[i]
    BY <1>1, <1>6
  <2>2. CASE i + 1 \in DOMAIN P
    BY <1>1, <2>1, <2>2 DEF Chain
  <2>3. CASE ~(i + 1 \in DOMAIN P)
    <3>1. i = Len(P) /\ Q[i + 1] = e /\ P # <<>>
      BY <1>1, <1>2, <1>6, <2>1, <2>3
    <3> QED
      BY <2>1, <3>1 DEF Fits
  <2> QED
    BY <2>2, <2>3
<1> QED
  BY <1>3, <1>4, <1>5, <1>6 DEF Chain

\* Where the head has to be settled: a context that starts up again looks at it.
Stands(s, P, h) ==
    /\ P # <<>> /\ P[1].kind = "switch" => Settled(s, h)
    /\ \A i \in DOMAIN P :
          /\ i + 1 \in DOMAIN P /\ Bare(P[i]) /\ P[i + 1].kind = "switch"
          /\ ResolvedPc(s, P[i]) \in {AnyPc, P[i + 1].pc}
          => Settled(s, h)

LEMMA StandsNone ==
    ASSUME NEW s \in Streams, NEW P \in Seq(Instr(s)), \A i \in DOMAIN P : P[i].kind # "switch", NEW h
    PROVE  Stands(s, P, h)
<1>1. P # <<>> => 1 \in DOMAIN P
  OBVIOUS
<1> QED
  BY <1>1 DEF Stands

LEMMA StandsTail ==
    ASSUME NEW s \in Streams, NEW P \in Seq(Instr(s)), NEW r, NEW mt, Chain(s, P, r, mt),
           P # <<>>, Right(s, P), P[1].kind # "pad", NEW h, Stands(s, P, h)
    PROVE  Stands(s, Tail(P), h)
<1>1. PICK Q : Q = Tail(P)
  OBVIOUS
<1>2. /\ \A j \in DOMAIN Q : j + 1 \in DOMAIN P /\ Q[j] = P[j + 1] /\ j \in Nat
      /\ 1 \in DOMAIN P
  BY <1>1, TailReals
<1>3. Q \in Seq(Instr(s))
  BY <1>1
<1>4. ASSUME Q # <<>>, Q[1].kind = "switch" PROVE Settled(s, h)
  <2>1. 1 \in DOMAIN Q
    BY <1>3, <1>4
  <2>2. 2 \in DOMAIN P /\ P[2].kind = "switch" /\ 1 + 1 = 2
    BY <1>2, <1>4, <2>1
  <2>3. ResolvedPc(s, P[1]) \in {AnyPc, P[2].pc}
    BY <2>2 DEF Right
  <2>4. P[1].kind # "off"
    BY <1>2 DEF Chain
  <2>5. CASE Bare(P[1])
    BY <1>2, <2>2, <2>3, <2>5 DEF Stands
  <2>6. CASE P[1].kind = "switch"
    BY <2>6 DEF Stands
  <2> QED
    BY <1>2, <2>4, <2>5, <2>6, Kindly
<1>5. ASSUME NEW i \in DOMAIN Q, i + 1 \in DOMAIN Q, Bare(Q[i]), Q[i + 1].kind = "switch",
             ResolvedPc(s, Q[i]) \in {AnyPc, Q[i + 1].pc}
      PROVE  Settled(s, h)
  <2>1. i + 1 \in DOMAIN P /\ (i + 1) + 1 \in DOMAIN P /\ Q[i] = P[i + 1]
        /\ Q[i + 1] = P[(i + 1) + 1]
    BY <1>2, <1>5
  <2> QED
    BY <1>5, <2>1 DEF Stands
<1>6. Stands(s, Q, h)
  BY <1>4, <1>5 DEF Stands
<1> QED
  BY <1>1, <1>6

LEMMA StandsSwitch ==
    ASSUME NEW s \in Streams, NEW P \in Seq(Instr(s)), NEW e, e.kind = "switch",
           NEW Q, Appends(P, e, Q), NEW h, NEW k, Stands(s, P, h),
           Settled(s, h) => Settled(s, k),
           P = <<>> => Settled(s, k),
           P # <<>> /\ Bare(P[Len(P)]) /\ ResolvedPc(s, P[Len(P)]) \in {AnyPc, e.pc} =>
              Settled(s, k)
    PROVE  Stands(s, Q, k)
<1>1. /\ Len(P) \in Nat /\ DOMAIN P = 1 .. Len(P) /\ DOMAIN Q = 1 .. Len(P) + 1
      /\ Q[Len(P) + 1] = e
      /\ \A j \in DOMAIN P : Q[j] = P[j]
  BY DEF Appends
<1>2. P = <<>> <=> Len(P) = 0
  OBVIOUS
<1>3. ASSUME Q[1].kind = "switch" PROVE Settled(s, k)
  <2>1. CASE P = <<>>
    BY <2>1
  <2>2. CASE P # <<>>
    <3>1. 1 \in DOMAIN P
      BY <1>1, <1>2, <2>2
    <3>2. Settled(s, h)
      BY <1>1, <1>3, <2>2, <3>1 DEF Stands
    <3> QED
      BY <3>2
  <2> QED
    BY <2>1, <2>2
<1>4. ASSUME NEW i \in DOMAIN Q, i + 1 \in DOMAIN Q, Bare(Q[i]), Q[i + 1].kind = "switch",
             ResolvedPc(s, Q[i]) \in {AnyPc, Q[i + 1].pc}
      PROVE  Settled(s, k)
  <2>1. i \in DOMAIN P /\ Q[i] = P[i]
    BY <1>1, <1>4
  <2>2. CASE i + 1 \in DOMAIN P
    <3>1. Q[i + 1] = P[i + 1]
      BY <1>1, <2>2
    <3>2. Settled(s, h)
      BY <1>4, <2>1, <2>2, <3>1 DEF Stands
    <3> QED
      BY <3>2
  <2>3. CASE ~(i + 1 \in DOMAIN P)
    <3>1. i = Len(P) /\ Q[i + 1] = e /\ P # <<>>
      BY <1>1, <1>2, <1>4, <2>1, <2>3
    <3> QED
      BY <1>4, <2>1, <3>1
  <2> QED
    BY <2>2, <2>3
<1> QED
  BY <1>3, <1>4 DEF Stands

\* a is the place of the youngest instruction of the path in flight, or of the
\* last one retired; v is the place of the one after it.
Heads(s, P, r, v, a) ==
    /\ a \in Nat /\ a <= Len(Trace[s])
    /\ P = <<>> => a = r
    /\ P # <<>> => /\ ResolvedPc(s, P[Len(P)]) = NextPc(s, a)
                   /\ P[Len(P)].kind = "real" => a = P[Len(P)].pos
    /\ v <= Len(Trace[s]) => /\ NextOnPath(s, a) = v /\ NextPc(s, a) = Trace[s][v].pc
                             /\ NextPc(s, a) \in Nat \ {0} /\ v # EofPos(s)
    /\ v > Len(Trace[s]) => NextOnPath(s, a) = EofPos(s) /\ NextPc(s, a) = AnyPc

LEMMA TipIs ==
    ASSUME NEW s \in Streams, NEW b, NEW c, NEW P, NEW r, NEW over, Feeds(s, b, c, P, r, over),
           NEW mt, Chain(s, P, r, mt), P = <<>> \/ Bare(P[Len(P)])
    PROVE  \E a \in Nat :
              /\ a <= Len(Trace[s]) /\ a < At(b, c) /\ Clear(s, a, At(b, c))
              /\ P = <<>> => a = r
              /\ P # <<>> => /\ ResolvedPc(s, P[Len(P)]) = NextPc(s, a)
                             /\ P[Len(P)].kind = "real" => a = P[Len(P)].pos
<1>1. /\ P \in Seq(Instr(s)) /\ Len(P) \in Nat /\ DOMAIN P = 1 .. Len(P) /\ r \in Nat
      /\ DOMAIN P \subseteq Nat
  BY FeedsFacts
<1>2. Line(s, P, r, At(b, c))
  BY LineIs
<1>3. r <= Len(Trace[s]) /\ r < At(b, c)
  BY DEF Feeds, Tracks
<1>4. Reals(P) = {} => Clear(s, r, At(b, c))
  BY <1>1, <1>2, LineLast
<1>5. CASE P = <<>>
  <2>1. Reals(P) = {}
    BY <1>5 DEF Reals
  <2> QED
    BY <1>1, <1>3, <1>4, <1>5, <2>1
<1>6. CASE P # <<>> /\ P[Len(P)].kind = "real"
  <2>1. Len(P) \in DOMAIN P
    BY <1>1, <1>6
  <2>2. Len(P) \in Reals(P)
    BY <1>6, <2>1 DEF Reals
  <2>3. \A j \in Reals(P) : ~(Len(P) < j)
    BY <1>1 DEF Reals
  <2>4. Clear(s, P[Len(P)].pos, At(b, c))
    BY <1>1, <1>2, <2>2, <2>3, LineLast
  <2>5. /\ P[Len(P)].pos \in Nat /\ P[Len(P)].pos < At(b, c)
        /\ P[Len(P)].pos <= Len(Trace[s])
    BY <2>2, RealPlace
  <2>6. ResolvedPc(s, P[Len(P)]) = NextPc(s, P[Len(P)].pos)
    BY <1>6 DEF ResolvedPc
  <2> QED
    BY <1>6, <2>4, <2>5, <2>6
<1>7. CASE P # <<>> /\ P[Len(P)].kind = "startup"
  <2>1. Len(P) \in DOMAIN P
    BY <1>1, <1>7
  <2>2. Len(P) = 1 /\ P[Len(P)].target = NextPc(s, r)
    BY <1>7, <2>1 DEF Chain
  <2>3. ASSUME NEW j \in Reals(P) PROVE FALSE
    <3>1. j = Len(P) /\ P[j].kind = "real"
      BY <1>1, <2>2 DEF Reals
    <3> QED
      BY <1>7, <3>1
  <2>4. ResolvedPc(s, P[Len(P)]) = NextPc(s, r)
    BY <1>7, <2>2 DEF ResolvedPc
  <2>5. Clear(s, r, At(b, c))
    BY <1>4, <2>3
  <2> QED
    BY <1>1, <1>3, <1>7, <2>4, <2>5
<1> QED
  BY <1>5, <1>6, <1>7 DEF Bare

LEMMA TipNext ==
    ASSUME NEW s \in Streams, NEW b, NEW c, NEW P, NEW r, NEW over, Feeds(s, b, c, P, r, over),
           NEW mt, Chain(s, P, r, mt), P = <<>> \/ Bare(P[Len(P)]),
           NEW v, NEW pc, NEW g, Lands(s, At(b, c), v, pc, g, c)
    PROVE  \E a : Heads(s, P, r, v, a)
<1>1. PICK a \in Nat :
              /\ a <= Len(Trace[s]) /\ a < At(b, c) /\ Clear(s, a, At(b, c))
              /\ P = <<>> => a = r
              /\ P # <<>> => /\ ResolvedPc(s, P[Len(P)]) = NextPc(s, a)
                             /\ P[Len(P)].kind = "real" => a = P[Len(P)].pos
  BY TipIs
<1>2. /\ v \in Nat /\ At(b, c) <= v
      /\ \A p \in Nat : At(b, c) <= p /\ p < v /\ p <= Len(Trace[s]) => IsOrphan(s, p)
      /\ v <= Len(Trace[s]) => ~IsOrphan(s, v)
  BY DEF Lands
<1>3. At(b, c) \in Nat
  BY FeedsFacts
<1>4. a < v
  BY <1>1, <1>2, <1>3
<1>5. ASSUME NEW p \in Nat, a < p, p < v, p <= Len(Trace[s]) PROVE IsOrphan(s, p)
  <2>1. CASE p < At(b, c)
    BY <1>1, <1>5, <2>1 DEF Clear
  <2>2. CASE At(b, c) <= p
    BY <1>2, <1>5, <2>2
  <2> QED
    BY <1>3, <2>1, <2>2
<1>6. Clear(s, a, v)
  BY <1>5 DEF Clear
<1>7. /\ v <= Len(Trace[s]) =>
           /\ NextOnPath(s, a) = v /\ NextPc(s, a) = Trace[s][v].pc
           /\ NextPc(s, a) \in Nat \ {0} /\ v # EofPos(s)
      /\ v > Len(Trace[s]) => NextOnPath(s, a) = EofPos(s) /\ NextPc(s, a) = AnyPc
  BY <1>1, <1>2, <1>4, <1>6, ClearNext
<1>8. Heads(s, P, r, v, a)
  BY <1>1, <1>7 DEF Heads
<1> QED
  BY <1>8

-----------------------------------------------------------------------------
(* The inductive invariant of the path.                                    *)

\* The flags of the feeder and of the software context, and the address the
\* next fetch must use.
Signals(s) ==
    /\ ~ended[s] /\ running[s] /\ pipe[s] = <<>> => resteer[s] = NextPc(s, retired[s])
    /\ resteer[s] # 0
    /\ wrongpath[s] => \E i \in DOMAIN pipe[s] : pipe[s][i].kind = "off"
    /\ \A i \in DOMAIN pipe[s] :
          /\ pipe[s][i].kind = "off" => wrongpath[s]
          /\ pipe[s][i].kind # "switch" => running[s]
          /\ pipe[s][i].kind = "switch" => switching[s]

\* c is the place of the last instruction committed.
Follows(s, c) ==
    /\ Feeds(s, trace[s], c, pipe[s], retired[s], ended[s])
    /\ Chain(s, pipe[s], retired[s], mtExitCondition)
    /\ Signals(s)
    /\ ~ended[s] => Stands(s, pipe[s], At(trace[s], c))
    /\ phase[s] = "warmup" => Warm(s, trace[s], c) /\ ~running[s]
    /\ phase[s] = "run" /\ ~running[s] /\ ~ended[s] => Settled(s, At(trace[s], c))

OnTrack(s) == \E c : Follows(s, c)

PathInv == error = "none" /\ \A s \in Streams : OnTrack(s)

LEMMA PathAlive == PathInv => Alive
BY DEF PathInv, OnTrack, Follows, Feeds, Alive

\* Most of Follows holds after a step because FeedInv does.
LEMMA Arrives ==
    ASSUME FeedInv', NEW s \in Streams, NEW c, trace'[s].fault = "none",
           Tracks(s, trace'[s], c, pipe'[s], retired'[s]),
           Chain(s, pipe'[s], retired'[s], mtExitCondition'), Signals(s)',
           ended'[s] = FALSE => Stands(s, pipe'[s], At(trace'[s], c)),
           phase'[s] = "warmup" => Warm(s, trace'[s], c) /\ ~running'[s],
           phase'[s] = "run" /\ ~running'[s] /\ ended'[s] = FALSE => Settled(s, At(trace'[s], c))
    PROVE  OnTrack(s)'
<1>1. /\ trace'[s] \in Buffers(s) /\ retired'[s] \in Positions(s)
      /\ One(s, trace'[s], pipe'[s], ended'[s])
      /\ ended' \in [Streams -> BOOLEAN]
  BY DEF FeedInv, Flags
<1>2. retired'[s] \in Nat
  BY <1>1, Places
<1>3. ended'[s] \in BOOLEAN
  BY <1>1
<1>4. Feeds(s, trace'[s], c, pipe'[s], retired'[s], ended'[s])
  BY <1>1, <1>2 DEF Feeds, One
<1>5. ~ended'[s] => ended'[s] = FALSE
  BY <1>3
<1>6. Follows(s, c)'
  BY <1>4, <1>5 DEF Follows
<1> QED
  BY <1>6 DEF OnTrack

\* A step of one stream.
Apart(s) ==
    /\ \A t \in Streams : t # s =>
          /\ trace'[t] = trace[t] /\ pipe'[t] = pipe[t]
          /\ resteer'[t] = resteer[t] /\ retired'[t] = retired[t]
          /\ ended'[t] = ended[t] /\ wrongpath'[t] = wrongpath[t]
          /\ running'[t] = running[t] /\ switching'[t] = switching[t]
          /\ phase'[t] = phase[t]
    /\ mtExitCondition => mtExitCondition'
    /\ error' = error

LEMMA PathFramed ==
    ASSUME PathInv, NEW s \in Streams, OnTrack(s)', Apart(s)
    PROVE  PathInv'
<1>1. ASSUME NEW t \in Streams, t # s PROVE OnTrack(t)'
  <2>1. PICK c : Follows(t, c)
    BY DEF PathInv, OnTrack
  <2>2. /\ trace'[t] = trace[t] /\ pipe'[t] = pipe[t]
        /\ resteer'[t] = resteer[t] /\ retired'[t] = retired[t]
        /\ ended'[t] = ended[t] /\ wrongpath'[t] = wrongpath[t]
        /\ running'[t] = running[t] /\ switching'[t] = switching[t]
        /\ phase'[t] = phase[t] /\ (mtExitCondition => mtExitCondition')
    BY <1>1 DEF Apart
  <2>3. Signals(t)'
    BY <2>1, <2>2 DEF Follows, Signals
  <2>4. Chain(t, pipe[t], retired[t], mtExitCondition)
    BY <2>1 DEF Follows
  <2>5. Chain(t, pipe[t], retired[t], mtExitCondition')
    BY <2>2, <2>4, ChainMore
  <2>6. Follows(t, c)'
    BY <2>1, <2>2, <2>3, <2>5 DEF Follows
  <2> QED
    BY <2>6 DEF OnTrack
<1>2. error' = "none"
  BY DEF PathInv, Apart
<1> QED
  BY <1>1, <1>2 DEF PathInv

\* What the invariants say of one stream.
LEMMA PathFacts ==
    ASSUME FeedInv, PathInv, NEW s \in Streams
    PROVE  \E c : /\ Feeds(s, trace[s], c, pipe[s], retired[s], ended[s])
                  /\ Chain(s, pipe[s], retired[s], mtExitCondition)
                  /\ Signals(s)
                  /\ ended[s] = FALSE => Stands(s, pipe[s], At(trace[s], c))
                  /\ phase[s] = "warmup" => Warm(s, trace[s], c) /\ ~running[s]
                  /\ phase[s] = "run" /\ ~running[s] /\ ended[s] = FALSE =>
                        Settled(s, At(trace[s], c))
<1>1. PICK c : Follows(s, c)
  BY DEF PathInv, OnTrack
<1>2. ended[s] \in BOOLEAN
  BY Facts
<1> QED
  BY <1>1, <1>2 DEF Follows

-----------------------------------------------------------------------------
(* Init, and the steps before the model runs.                              *)

LEMMA PathInit == Init => PathInv
<1> SUFFICES ASSUME Init PROVE PathInv
  OBVIOUS
<1>1. FeedInv /\ error = "none"
  BY FeedInit DEF Init
<1>2. ASSUME NEW s \in Streams PROVE OnTrack(s)
  <2>1. /\ trace[s] \in InitialBuffers(s) /\ ended[s] = FALSE /\ wrongpath[s] = FALSE
        /\ running[s] = FALSE /\ pipe[s] = <<>> /\ resteer[s] = AnyPc /\ retired[s] = 0
        /\ phase[s] # "run"
    BY DEF Init
  <2>2. /\ trace[s] \in Buffers(s) /\ trace[s].fault = "none" /\ Off(trace[s], trace[s].head) = 1
    BY <2>1, StartsWithin
  <2>3. One(s, trace[s], pipe[s], ended[s])
    BY <1>1 DEF FeedInv
  <2>4. Tracks(s, trace[s], 0, pipe[s], retired[s])
    BY <2>1, StartTracks
  <2>5. Feeds(s, trace[s], 0, pipe[s], retired[s], ended[s])
    BY <2>1, <2>2, <2>3, <2>4 DEF Feeds, One
  <2>6. DOMAIN pipe[s] = {}
    BY <2>1
  <2>7. Chain(s, pipe[s], retired[s], mtExitCondition)
    BY <2>6 DEF Chain
  <2>8. Signals(s)
    BY <2>1, <2>6 DEF Signals, AnyPc
  <2>9. Stands(s, pipe[s], At(trace[s], 0))
    BY <2>1, <2>6 DEF Stands
  <2>10. Warm(s, trace[s], 0)
    BY <2>2, Places DEF Warm
  <2> QED
    BY <2>1, <2>5, <2>7, <2>8, <2>9, <2>10 DEF OnTrack, Follows
<1> QED
  BY <1>1, <1>2 DEF PathInv

\* One instruction warms up: it is looked at and committed.
WarmsUp(s, b, c, r, d, q) ==
    /\ Warm(s, b, c) /\ IsWarmUp(s, Inst(b).pos) /\ ~Eof(s, b)
    /\ d = CommitInstr(NextInstr(s, b), b.head)
    /\ q = (IF IsWrongpath(b) THEN r ELSE Inst(b).pos)

\* The last instruction retired was r, and is q now.
Succeeds(s, r, q) == q # r => q = NextOnPath(s, r)

LEMMA WarmTracks ==
    ASSUME NEW s \in Streams, NEW b, NEW c, NEW P, NEW r, Feeds(s, b, c, P, r, FALSE), P = <<>>,
           TraceFits(s), NEW d, NEW q, WarmsUp(s, b, c, r, d, q)
    PROVE  /\ d.fault = "none" /\ Tracks(s, d, c + 1, P, q) /\ Warm(s, d, c + 1)
           /\ Succeeds(s, r, q)
<1>1. /\ b \in Buffers(s) /\ b.head \in Slots /\ c \in Nat /\ r \in Nat /\ Content(s, b, c)
      /\ Len(Trace[s]) \in Nat /\ BufSize \in Nat
      /\ Off(b, b.head) = 1 /\ At(b, c) = c + 1 /\ Off(b, b.head) < Limit(b)
      /\ Limit(b) \in Nat
  BY FeedsFacts DEF WarmsUp, Warm
<1>2. b.fault = "none" /\ b.readPos >= 1
  BY DEF Feeds, Within
<1>3. ~(At(b, c) > Len(Trace[s]))
  BY HeadAt DEF WarmsUp
<1>4. /\ c + 1 <= Len(Trace[s]) /\ Inst(b).pos = c + 1
      /\ IsWrongpath(b) = IsOrphan(s, c + 1)
  <2>1. At(b, c) <= Len(Trace[s])
    BY <1>1, <1>3
  <2>2. Inst(b).pos = At(b, c) /\ IsWrongpath(b) = IsOrphan(s, At(b, c))
    BY <2>1, HeadAt
  <2> QED
    BY <1>1, <2>1, <2>2
<1>5. Len(P) < Window
  <2>1. Len(P) = 0
    OBVIOUS
  <2> QED
    BY <2>1, FeederAssumption
<1>6. Off(b, b.head) + 1 < BufSize
  BY <1>1, <1>4, <1>5, RoomAhead
<1>7. PICK n : n = NextInstr(s, b)
  OBVIOUS
<1>8. /\ Grown(s, b, n) /\ n.fault = "none" /\ Off(n, n.head) = 2 /\ Off(n, n.head) < Limit(n)
  <2>1. Grown(s, b, n) /\ n.fault = b.fault
    BY <1>1, <1>2, <1>6, <1>7, NextGrows
  <2>2. Off(n, n.head) = Off(b, b.head) + 1 /\ Off(n, n.head) < Limit(n)
    BY <1>1, <1>2, <1>7, <2>1, NextGrows
  <2> QED
    BY <1>1, <1>2, <2>1, <2>2
<1>9. Content(s, n, c)
  BY <1>1, <1>2, <1>7, <1>8, NextContent
<1>10. n \in Buffers(s) /\ Off(n, b.head) = 1 /\ n.head \in Slots /\ Limit(n) \in Nat
  BY <1>1, <1>8, Members, Offsets DEF Grown
<1>11. d = CommitInstr(n, b.head)
  BY <1>7 DEF WarmsUp
<1>12. Skippable(n, b.head)
  <2>1. \A i \in Slots : Off(n, i) \in Nat
    BY <1>10, Offsets
  <2> QED
    BY <1>10, <2>1 DEF Skippable
<1>13. /\ d \in Buffers(s) /\ d.fault = "none" /\ d.lastcommit = b.head
       /\ d.head = n.head /\ d.filled = n.filled /\ d.readPos = n.readPos /\ d.slot = n.slot
  <2>1. Off(n, b.head) >= 1
    BY <1>10
  <2> QED
    BY <1>1, <1>8, <1>10, <1>11, <1>12, <2>1, CommitReaches
<1>14. PICK o : o = Off(n, d.lastcommit)
  OBVIOUS
<1>15. o = 1 /\ o < Limit(n)
  BY <1>8, <1>10, <1>13, <1>14
<1>16. Content(s, d, c + 1)
  <2>1. Content(s, d, c + o)
    BY <1>9, <1>10, <1>13, <1>14, <1>15, CommitContent
  <2> QED
    BY <1>15, <2>1
<1>17. Off(d, d.head) = 1
  <2>1. Off(d, d.head) = IF o <= Off(n, d.head) THEN Off(n, d.head) - o
                         ELSE (Off(n, d.head) - o) + BufSize
    BY <1>10, <1>13, <1>14, <1>15, CommitShifts
  <2> QED
    BY <1>8, <1>13, <1>15, <2>1
<1>18. At(d, c + 1) = c + 2
  BY <1>1, <1>17 DEF At
<1>19. /\ r <= Len(Trace[s]) /\ r < At(b, c)
       /\ \A p \in Nat : r < p /\ p <= c /\ p < At(b, c) /\ p <= Len(Trace[s]) => IsOrphan(s, p)
  BY DEF Feeds, Tracks
<1>20. q = (IF IsOrphan(s, c + 1) THEN r ELSE c + 1)
  BY <1>4 DEF WarmsUp
<1>21. q \in Nat /\ r <= q /\ q <= Len(Trace[s]) /\ q < c + 2
  BY <1>1, <1>4, <1>19, <1>20
<1>22. ASSUME NEW p \in Nat, q < p, p <= c + 1, p <= Len(Trace[s]) PROVE IsOrphan(s, p)
  <2>1. CASE p = c + 1
    BY <1>1, <1>20, <1>22, <2>1
  <2>2. CASE p <= c
    <3>1. r < p /\ p < At(b, c)
      BY <1>1, <1>21, <1>22, <2>2
    <3> QED
      BY <1>19, <1>22, <2>2, <3>1
  <2> QED
    BY <1>1, <1>22, <2>1, <2>2
<1>23. Tracks(s, d, c + 1, P, q)
  <2>1. DOMAIN P = {} /\ Reals(P) = {}
    BY DEF Reals
  <2>2. \A i \in Slots : ~(Off(d, i) >= 1 /\ Off(d, i) < Off(d, d.head))
    <3>1. \A i \in Slots : Off(d, i) \in Nat
      BY <1>13, Offsets
    <3> QED
      BY <1>17, <3>1
  <2>3. ~(c + 1 > Len(Trace[s]) \/ At(d, c + 1) > Len(Trace[s]) + 1)
    BY <1>1, <1>4, <1>18
  <2>4. q <= Len(Trace[s]) /\ q < At(d, c + 1)
    BY <1>18, <1>21
  <2> QED
    BY <1>16, <1>22, <2>1, <2>2, <2>3, <2>4 DEF Tracks
<1>24. Warm(s, d, c + 1)
  BY <1>4, <1>17 DEF Warm, WarmsUp, IsWarmUp
<1>25. ASSUME q # r PROVE q = NextOnPath(s, r)
  <2>1. q = c + 1 /\ ~IsOrphan(s, c + 1)
    BY <1>20, <1>25
  <2>2. c + 1 \in Nat /\ r < c + 1
    BY <1>1, <1>19
  <2>3. ASSUME NEW p \in Nat, r < p, p < c + 1, p <= Len(Trace[s]) PROVE IsOrphan(s, p)
    BY <1>1, <1>19, <2>3
  <2>4. Clear(s, r, c + 1)
    BY <2>3 DEF Clear
  <2>5. NextOnPath(s, r) = c + 1
    BY <1>1, <1>4, <1>19, <2>1, <2>2, <2>4, ClearNext
  <2> QED
    BY <2>1, <2>5
<1> QED
  BY <1>13, <1>23, <1>24, <1>25 DEF Succeeds

\* The step the model retires by is to the next instruction of the path.
RetiresNext(s) == Succeeds(s, retired[s], retired'[s])

LEMMA PathWarmUp ==
    ASSUME Regular, FeedInv, FeedInv', PathInv, NEW s \in Streams, WarmUp(s)
    PROVE  OnTrack(s)' /\ Apart(s) /\ RetiresNext(s)
<1>1. PICK b : b = trace[s]
  OBVIOUS
<1>2. PICK d : d = CommitInstr(NextInstr(s, b), b.head)
  OBVIOUS
<1>3. PICK q : q = (IF IsWrongpath(b) THEN retired[s] ELSE Inst(b).pos)
  OBVIOUS
<1>4. /\ phase[s] = "warmup" /\ IsWarmUp(s, Inst(b).pos) /\ ~Eof(s, b)
      /\ trace' = [trace EXCEPT ![s] = d] /\ retired' = [retired EXCEPT ![s] = q]
      /\ UNCHANGED <<ended, wrongpath, limitVars, swcVars, phase, pipe, resteer, error>>
  BY <1>1, <1>2, <1>3 DEF WarmUp
<1>5. /\ DOMAIN trace = Streams /\ DOMAIN retired = Streams /\ Status(s) /\ ended[s] \in BOOLEAN
      /\ running[s] \in BOOLEAN
  BY Facts
<1>6. pipe[s] = <<>> /\ ended[s] = FALSE
  BY <1>4, <1>5 DEF Status
<1>7. PICK c : /\ Feeds(s, trace[s], c, pipe[s], retired[s], ended[s])
               /\ Chain(s, pipe[s], retired[s], mtExitCondition)
               /\ Signals(s)
               /\ ended[s] = FALSE => Stands(s, pipe[s], At(trace[s], c))
               /\ phase[s] = "warmup" => Warm(s, trace[s], c) /\ ~running[s]
  BY PathFacts
<1>8. Feeds(s, b, c, pipe[s], retired[s], FALSE)
  BY <1>1, <1>6, <1>7
<1>9. WarmsUp(s, b, c, retired[s], d, q)
  BY <1>1, <1>2, <1>3, <1>4, <1>7 DEF WarmsUp
<1>10. /\ d.fault = "none" /\ Tracks(s, d, c + 1, pipe[s], q) /\ Warm(s, d, c + 1)
       /\ Succeeds(s, retired[s], q)
  <2>1. TraceFits(s)
    BY DEF Regular
  <2>2. PICK P : P = pipe[s]
    OBVIOUS
  <2>3. PICK r : r = retired[s]
    OBVIOUS
  <2>4. Feeds(s, b, c, P, r, FALSE) /\ P = <<>> /\ WarmsUp(s, b, c, r, d, q)
    BY <1>6, <1>8, <1>9, <2>2, <2>3
  <2>5. /\ d.fault = "none" /\ Tracks(s, d, c + 1, P, q) /\ Warm(s, d, c + 1)
        /\ Succeeds(s, r, q)
    BY <2>1, <2>4, WarmTracks
  <2> QED
    BY <2>2, <2>3, <2>5
<1>11. /\ trace'[s] = d /\ retired'[s] = q /\ pipe'[s] = pipe[s] /\ ended'[s] = ended[s]
       /\ running'[s] = running[s] /\ phase'[s] = "warmup" /\ mtExitCondition' = mtExitCondition
       /\ wrongpath'[s] = wrongpath[s] /\ resteer'[s] = resteer[s] /\ switching'[s] = switching[s]
  BY <1>4, <1>5 DEF limitVars, swcVars
<1>12. DOMAIN pipe[s] = {}
  BY <1>6
<1>13. Chain(s, pipe[s], q, mtExitCondition)
  BY <1>12 DEF Chain
<1>14. Apart(s)
  BY <1>4 DEF Apart, limitVars, swcVars
<1>15. RetiresNext(s)
  BY <1>10, <1>11 DEF RetiresNext
<1>16. Stands(s, pipe[s], At(d, c + 1))
  BY <1>6, <1>12 DEF Stands
<1>17. Signals(s)'
  <2>1. ~running'[s] /\ resteer'[s] # 0 /\ ~wrongpath'[s] /\ DOMAIN pipe'[s] = {}
    BY <1>4, <1>7, <1>11, <1>12 DEF Signals
  <2> QED
    BY <2>1 DEF Signals
<1>18. OnTrack(s)'
  <2>1. ~running'[s]
    BY <1>4, <1>7, <1>11
  <2>2. Chain(s, pipe'[s], retired'[s], mtExitCondition') /\ Stands(s, pipe'[s], At(trace'[s], c + 1))
    BY <1>11, <1>13, <1>16
  <2>3. Tracks(s, trace'[s], c + 1, pipe'[s], retired'[s]) /\ Warm(s, trace'[s], c + 1)
        /\ trace'[s].fault = "none"
    BY <1>10, <1>11
  <2> QED
    BY <1>11, <1>17, <2>1, <2>2, <2>3, Arrives
<1> QED
  BY <1>14, <1>15, <1>18

LEMMA PathWarmUpDone ==
    ASSUME Regular, FeedInv, PathInv, NEW s \in Streams, WarmUpDone(s)
    PROVE  OnTrack(s)' /\ Apart(s) /\ RetiresNext(s)
<1>1. /\ phase[s] = "warmup"
      /\ ~IsWarmUp(s, Inst(trace[s]).pos) \/ Eof(s, trace[s])
      /\ UNCHANGED <<trace, ended, wrongpath, limitVars, swcVars, pipe, resteer, retired, error>>
      /\ phase' = [phase EXCEPT ![s] = "run"]
  BY DEF WarmUpDone
<1>2. PICK c : Follows(s, c)
  BY DEF PathInv, OnTrack
<1>3. /\ Feeds(s, trace[s], c, pipe[s], retired[s], ended[s]) /\ Warm(s, trace[s], c)
      /\ Signals(s) /\ Chain(s, pipe[s], retired[s], mtExitCondition)
      /\ ~ended[s] => Stands(s, pipe[s], At(trace[s], c))
  BY <1>1, <1>2 DEF Follows
<1>4. Settled(s, At(trace[s], c))
  <2>1. PICK b : b = trace[s]
    OBVIOUS
  <2>2. Feeds(s, b, c, pipe[s], retired[s], ended[s]) /\ Warm(s, b, c)
        /\ (~IsWarmUp(s, Inst(b).pos) \/ Eof(s, b))
    BY <1>1, <1>3, <2>1
  <2>3. WarmupEndsOnPath(s)
    BY DEF Regular
  <2>4. Settled(s, At(b, c))
    BY <2>2, <2>3, WarmSettles
  <2> QED
    BY <2>1, <2>4
<1>5. Signals(s)'
  BY <1>1, <1>3 DEF Signals, swcVars
<1>6. Follows(s, c)'
  <2>1. /\ trace' = trace /\ pipe' = pipe /\ retired' = retired /\ ended' = ended
        /\ mtExitCondition' = mtExitCondition /\ phase'[s] # "warmup"
    <3>1. phase'[s] = "run"
      BY <1>1 DEF FeedInv, Flags
    <3> QED
      BY <1>1, <3>1 DEF limitVars
  <2> QED
    BY <1>3, <1>4, <1>5, <2>1 DEF Follows
<1>7. Apart(s)
  BY <1>1 DEF Apart, limitVars, swcVars
<1>8. RetiresNext(s)
  BY <1>1 DEF RetiresNext, Succeeds
<1> QED
  BY <1>6, <1>7, <1>8 DEF OnTrack

LEMMA PathMapped ==
    ASSUME PathInv, NEW s \in Streams,
           UNCHANGED <<trace, ended, wrongpath, limitVars, running, phase, pipe, resteer,
                       retired, error>>,
           switching[s] => switching'[s], \A t \in Streams : t # s => switching'[t] = switching[t]
    PROVE  OnTrack(s)' /\ Apart(s) /\ RetiresNext(s)
<1>1. PICK c : Follows(s, c)
  BY DEF PathInv, OnTrack
<1>2. Signals(s)'
  BY <1>1 DEF Follows, Signals
<1>3. Follows(s, c)'
  BY <1>1, <1>2 DEF Follows, limitVars
<1>4. Apart(s) /\ RetiresNext(s)
  BY DEF Apart, limitVars, RetiresNext, Succeeds
<1> QED
  BY <1>3, <1>4 DEF OnTrack

LEMMA PathSchedule ==
    ASSUME PathInv, NEW s \in Streams, NEW h \in HWC, Schedule(s, h)
    PROVE  OnTrack(s)' /\ Apart(s) /\ RetiresNext(s)
<1>1. UNCHANGED <<trace, ended, wrongpath, limitVars, running, switching, phase, pipe, resteer,
                  retired, error>>
  BY DEF Schedule
<1> QED
  BY <1>1, PathMapped

LEMMA PathRequestSwitch ==
    ASSUME FeedInv, PathInv, NEW s \in Streams, RequestSwitch(s)
    PROVE  OnTrack(s)' /\ Apart(s) /\ RetiresNext(s)
<1>1. /\ switching' = [switching EXCEPT ![s] = TRUE]
      /\ UNCHANGED <<trace, ended, wrongpath, limitVars, running, phase, pipe, resteer,
                     retired, error>>
  BY DEF RequestSwitch
<1>2. switching \in [Streams -> BOOLEAN]
  BY DEF FeedInv, Flags
<1>3. switching'[s] /\ \A t \in Streams : t # s => switching'[t] = switching[t]
  BY <1>1, <1>2
<1> QED
  BY <1>1, <1>3, PathMapped

-----------------------------------------------------------------------------
(* Fetch: the buffer b after SkipOverWrongpath, whose head was at h.       *)

Looks(s, pc, b, c, h, v) ==
    /\ Feeds(s, b, c, pipe[s], retired[s], ended[s])
    /\ Chain(s, pipe[s], retired[s], mtExitCondition)
    /\ Signals(s)
    /\ ended[s] = FALSE => Stands(s, pipe[s], h)
    /\ ~running[s] /\ ended[s] = FALSE => Settled(s, h)
    /\ Lands(s, h, v, pc, b, c)
    /\ pipe[s] = <<>> \/ Bare(pipe[s][Len(pipe[s])]) =>
          \E a : Heads(s, pipe[s], retired[s], v, a)
    /\ phase[s] = "run" /\ Len(pipe[s]) < Window /\ pc \in PredictedPcs(s)
    /\ h \in Nat

LEMMA FetchLooks ==
    ASSUME Regular, FeedInv, PathInv, NEW s \in Streams, phase[s] = "run",
           Len(pipe[s]) < Window, NEW pc \in PredictedPcs(s),
           NEW b, b = SkipOverWrongpath(s, trace[s], pc)
    PROVE  \E c, h, v : Looks(s, pc, b, c, h, v)
<1>1. PICK c : /\ Feeds(s, trace[s], c, pipe[s], retired[s], ended[s])
               /\ Chain(s, pipe[s], retired[s], mtExitCondition)
               /\ Signals(s)
               /\ ended[s] = FALSE => Stands(s, pipe[s], At(trace[s], c))
               /\ phase[s] = "run" /\ ~running[s] /\ ended[s] = FALSE =>
                     Settled(s, At(trace[s], c))
  BY PathFacts
<1>2. PICK t : t = trace[s]
  OBVIOUS
<1>3. PICK P : P = pipe[s]
  OBVIOUS
<1>4. PICK r, over, mt : r = retired[s] /\ over = ended[s] /\ mt = mtExitCondition
  OBVIOUS
<1>5. Feeds(s, t, c, P, r, over) /\ Chain(s, P, r, mt) /\ Len(P) < Window
  BY <1>1, <1>2, <1>3, <1>4
<1>6. b = SkipOverWrongpath(s, t, pc) /\ TraceFits(s)
  BY <1>2 DEF Regular
<1>7. Feeds(s, b, c, P, r, over) /\ \E v : Lands(s, At(t, c), v, pc, b, c)
  BY <1>5, <1>6, SkipFeeds
<1>8. PICK v : Lands(s, At(t, c), v, pc, b, c)
  BY <1>7
<1>9. ASSUME P = <<>> \/ Bare(P[Len(P)]) PROVE \E a : Heads(s, P, r, v, a)
  BY <1>5, <1>8, <1>9, TipNext
<1>10. At(t, c) \in Nat
  BY <1>5, FeedsFacts
<1>11. /\ Feeds(s, b, c, pipe[s], retired[s], ended[s])
       /\ Lands(s, At(t, c), v, pc, b, c)
       /\ pipe[s] = <<>> \/ Bare(pipe[s][Len(pipe[s])]) =>
             \E a : Heads(s, pipe[s], retired[s], v, a)
  BY <1>3, <1>4, <1>7, <1>8, <1>9
<1>12. /\ ended[s] = FALSE => Stands(s, pipe[s], At(t, c))
       /\ ~running[s] /\ ended[s] = FALSE => Settled(s, At(t, c))
  BY <1>1, <1>2
<1>13. Looks(s, pc, b, c, At(t, c), v)
  BY <1>1, <1>10, <1>11, <1>12 DEF Looks
<1> QED
  BY <1>13

\* What is handed to the model.
Hand(id, pc, kind, pos, target) ==
    [id |-> id, pc |-> pc, kind |-> kind, pos |-> pos, target |-> target]

Delivers(s, d, e) ==
    /\ trace'[s] = d /\ resteer'[s] = AnyPc /\ retired' = retired
    /\ phase' = phase /\ mtExitCondition' = mtExitCondition
    /\ error' = error /\ Appends(pipe[s], e, pipe'[s]) /\ pipe'[s] = Append(pipe[s], e)
    /\ \A t \in Streams : t # s => /\ trace'[t] = trace[t] /\ pipe'[t] = pipe[t]
                                   /\ resteer'[t] = resteer[t]

LEMMA DeliverIs ==
    ASSUME FeedInv, NEW s \in Streams, NEW d, NEW id, NEW pc, NEW kind, NEW pos, NEW target,
           Deliver(s, d, id, pc, kind, pos, target), NEW e, e = Hand(id, pc, kind, pos, target)
    PROVE  Delivers(s, d, e)
<1>1. /\ trace' = [trace EXCEPT ![s] = d]
      /\ pipe' = [pipe EXCEPT ![s] = Append(@, e)]
      /\ resteer' = [resteer EXCEPT ![s] = AnyPc]
      /\ UNCHANGED <<limitVars, hwc, phase, retired, error>>
  BY DEF Deliver, Hand
<1>2. /\ DOMAIN trace = Streams /\ DOMAIN pipe = Streams /\ DOMAIN resteer = Streams
      /\ pipe[s] \in Seq(Instr(s))
  BY Facts
<1>3. pipe'[s] = Append(pipe[s], e)
  BY <1>1, <1>2
<1>4. PICK P : P = pipe[s] /\ P \in Seq(Instr(s))
  BY <1>2
<1>5. Appends(P, e, Append(P, e))
  BY <1>4, AppendReals
<1>6. Appends(pipe[s], e, pipe'[s])
  BY <1>3, <1>4, <1>5
<1>7. /\ trace'[s] = d /\ resteer'[s] = AnyPc /\ retired' = retired
      /\ phase' = phase /\ mtExitCondition' = mtExitCondition /\ error' = error
  BY <1>1, <1>2 DEF limitVars
<1>8. \A t \in Streams : t # s => /\ trace'[t] = trace[t] /\ pipe'[t] = pipe[t]
                                  /\ resteer'[t] = resteer[t]
  BY <1>1, <1>2
<1> QED
  BY <1>3, <1>6, <1>7, <1>8 DEF Delivers

HandsOf(e, id, pc, kind, pos, target) ==
    e.id = id /\ e.pc = pc /\ e.kind = kind /\ e.pos = pos /\ e.target = target

LEMMA HandIs ==
    ASSUME NEW id, NEW pc, NEW kind, NEW pos, NEW target
    PROVE  HandsOf(Hand(id, pc, kind, pos, target), id, pc, kind, pos, target)
BY DEF Hand, HandsOf

\* The flags after one more instruction is in flight.
LEMMA SignalsMore ==
    ASSUME NEW s \in Streams, Signals(s), NEW e, Appends(pipe[s], e, pipe'[s]),
           resteer'[s] = AnyPc,
           e.kind = "off" => wrongpath'[s], wrongpath[s] => wrongpath'[s],
           wrongpath'[s] => wrongpath[s] \/ e.kind = "off",
           running[s] => running'[s], e.kind # "switch" => running'[s],
           switching[s] => switching'[s], e.kind = "switch" => switching'[s]
    PROVE  Signals(s)'
<1>1. PICK P : P = pipe[s]
  OBVIOUS
<1>2. PICK Q : Q = pipe'[s]
  OBVIOUS
<1>3. /\ Len(P) + 1 \in DOMAIN Q /\ Q[Len(P) + 1] = e
      /\ \A j \in DOMAIN P : j \in DOMAIN Q /\ Q[j] = P[j]
      /\ \A j \in DOMAIN Q : (j \in DOMAIN P /\ Q[j] = P[j]) \/ (j = Len(P) + 1 /\ Q[j] = e)
  BY <1>1, <1>2 DEF Appends
<1>4. /\ wrongpath[s] => \E i \in DOMAIN P : P[i].kind = "off"
      /\ \A i \in DOMAIN P :
            /\ P[i].kind = "off" => wrongpath[s]
            /\ P[i].kind # "switch" => running[s]
            /\ P[i].kind = "switch" => switching[s]
  BY <1>1 DEF Signals
<1>5. Q # <<>>
  BY <1>3
<1>6. ASSUME wrongpath'[s] PROVE \E i \in DOMAIN Q : Q[i].kind = "off"
  BY <1>3, <1>4, <1>6
<1>7. ASSUME NEW i \in DOMAIN Q
      PROVE  /\ Q[i].kind = "off" => wrongpath'[s]
             /\ Q[i].kind # "switch" => running'[s]
             /\ Q[i].kind = "switch" => switching'[s]
  BY <1>3, <1>4
<1>8. resteer'[s] # 0
  BY DEF AnyPc
<1> QED
  BY <1>2, <1>5, <1>6, <1>7, <1>8 DEF Signals

LEMMA LandIs ==
    ASSUME NEW s \in Streams, NEW pc, NEW b, NEW c, NEW h, NEW v, Looks(s, pc, b, c, h, v)
    PROVE  /\ v \in Nat /\ h \in Nat /\ h <= v /\ Len(Trace[s]) \in Nat
           /\ Settled(s, h) /\ h <= Len(Trace[s]) => v = h
           /\ Settled(s, h) => Settled(s, At(b, c))
           /\ At(b, c) = v => Settled(s, At(b, c))
           /\ At(b, c) = v \/ At(b, c) = h
           /\ v > Len(Trace[s]) \/ Trace[s][v].pc = pc => At(b, c) = v /\ ~IsWrongpath(b)
           /\ Eof(s, b) => ~IsWrongpath(b) /\ v > Len(Trace[s])
           /\ v > Len(Trace[s]) => Eof(s, b)
           /\ v <= Len(Trace[s]) /\ At(b, c) = v => VirtualPc(s, b) = Trace[s][v].pc
<1>1. /\ v \in Nat /\ h <= v
      /\ \A p \in Nat : h <= p /\ p < v /\ p <= Len(Trace[s]) => IsOrphan(s, p)
      /\ v <= Len(Trace[s]) => ~IsOrphan(s, v)
      /\ \/ At(b, c) = v /\ ~IsWrongpath(b)
         \/ At(b, c) = h /\ v <= Len(Trace[s]) /\ Trace[s][v].pc # pc
  BY DEF Looks, Lands
<1>2. Feeds(s, b, c, pipe[s], retired[s], ended[s]) /\ h \in Nat
  BY DEF Looks
<1>3. Len(Trace[s]) \in Nat /\ At(b, c) \in Nat
  BY <1>2, FeedsFacts
<1>4. /\ At(b, c) <= Len(Trace[s]) => ~Eof(s, b) /\ VirtualPc(s, b) = Trace[s][At(b, c)].pc
      /\ At(b, c) > Len(Trace[s]) => Eof(s, b)
  BY <1>2, HeadAt
<1>5. Settled(s, h) /\ h <= Len(Trace[s]) => v = h
  BY <1>1, <1>2, <1>3 DEF Settled
<1>6. At(b, c) = v => Settled(s, At(b, c))
  BY <1>1 DEF Settled
<1>7. Settled(s, h) => Settled(s, At(b, c))
  BY <1>1, <1>6
<1>8. v > Len(Trace[s]) \/ Trace[s][v].pc = pc => At(b, c) = v /\ ~IsWrongpath(b)
  BY <1>1, <1>3
<1>9. ASSUME Eof(s, b) PROVE ~IsWrongpath(b) /\ v > Len(Trace[s])
  <2>1. ~(At(b, c) <= Len(Trace[s]))
    BY <1>4, <1>9
  <2> QED
    BY <1>1, <1>2, <1>3, <2>1
<1>10. ASSUME v > Len(Trace[s]) PROVE Eof(s, b)
  BY <1>4, <1>8, <1>10
<1>11. v <= Len(Trace[s]) /\ At(b, c) = v => VirtualPc(s, b) = Trace[s][v].pc
  BY <1>4
<1> QED
  BY <1>1, <1>2, <1>3, <1>5, <1>6, <1>7, <1>8, <1>9, <1>10, <1>11

\* The model asks for the address that is next on the path: the head is there.
LEMMA Reaches ==
    ASSUME NEW s \in Streams, NEW pc, NEW b, NEW c, NEW h, NEW v, Looks(s, pc, b, c, h, v),
           \/ pipe[s] = <<>> /\ running[s] /\ ended[s] = FALSE
           \/ /\ pipe[s] # <<>> /\ Bare(pipe[s][Len(pipe[s])])
              /\ ResolvedPc(s, pipe[s][Len(pipe[s])]) \in {AnyPc, pc}
    PROVE  /\ At(b, c) = v /\ ~IsWrongpath(b)
           /\ v <= Len(Trace[s]) => Trace[s][v].pc = pc
<1>1. PICK a : Heads(s, pipe[s], retired[s], v, a)
  BY DEF Looks
<1>2. /\ pipe[s] = <<>> => a = retired[s]
      /\ pipe[s] # <<>> => ResolvedPc(s, pipe[s][Len(pipe[s])]) = NextPc(s, a)
      /\ v <= Len(Trace[s]) => NextPc(s, a) = Trace[s][v].pc /\ NextPc(s, a) \in Nat \ {0}
  BY <1>1 DEF Heads
<1>3. v \in Nat /\ Len(Trace[s]) \in Nat
  BY LandIs
<1>4. ASSUME v <= Len(Trace[s]) PROVE Trace[s][v].pc = pc
  <2>1. NextPc(s, a) = Trace[s][v].pc /\ NextPc(s, a) # AnyPc
    <3>1. \A n \in Nat : n # -1
      OBVIOUS
    <3> QED
      BY <1>2, <1>4, <3>1 DEF AnyPc
  <2>2. CASE pipe[s] = <<>> /\ running[s] /\ ended[s] = FALSE
    <3>1. resteer[s] = NextPc(s, a)
      BY <1>2, <2>2 DEF Looks, Signals
    <3>2. pc \in PredictedPcs(s)
      BY DEF Looks
    <3>3. pc = resteer[s]
      BY <2>1, <2>2, <3>1, <3>2 DEF PredictedPcs
    <3> QED
      BY <2>1, <3>1, <3>3
  <2>3. CASE /\ pipe[s] # <<>> /\ Bare(pipe[s][Len(pipe[s])])
             /\ ResolvedPc(s, pipe[s][Len(pipe[s])]) \in {AnyPc, pc}
    BY <1>2, <2>1, <2>3
  <2> QED
    BY <2>2, <2>3
<1>5. v > Len(Trace[s]) \/ Trace[s][v].pc = pc
  BY <1>3, <1>4
<1> QED
  BY <1>4, <1>5, LandIs

LEMMA PathFetchSwitch ==
    ASSUME FeedInv, FeedInv', NEW s \in Streams, NEW pc, NEW b, NEW c, NEW h, NEW v,
           Looks(s, pc, b, c, h, v), FetchSwitch(s, b, pc)
    PROVE  OnTrack(s)' /\ Apart(s) /\ RetiresNext(s)
<1>1. /\ switching[s] /\ Deliver(s, b, ArtificialId, pc, "switch", 0, 0)
      /\ UNCHANGED <<ended, wrongpath, running, switching>>
  BY DEF FetchSwitch
<1>2. PICK e : e = Hand(ArtificialId, pc, "switch", 0, 0)
  OBVIOUS
<1>3. e.kind = "switch" /\ e.pc = pc
  BY <1>2, HandIs DEF HandsOf
<1>4. Delivers(s, b, e)
  BY <1>1, <1>2, DeliverIs
<1>5. PICK P, Q : P = pipe[s] /\ Q = pipe'[s]
  OBVIOUS
<1>6. PICK r, over, mt : r = retired[s] /\ over = ended[s] /\ mt = mtExitCondition
  OBVIOUS
<1>7. /\ trace'[s] = b /\ retired'[s] = r /\ mtExitCondition' = mt /\ phase'[s] = "run"
      /\ Appends(P, e, Q) /\ Q = Append(P, e) /\ resteer'[s] = AnyPc
      /\ ended'[s] = over /\ running'[s] = running[s]
  BY <1>1, <1>4, <1>5, <1>6 DEF Delivers, Looks
<1>8. Feeds(s, b, c, P, r, over) /\ Chain(s, P, r, mt) /\ Signals(s)
      /\ (ended[s] = FALSE => Stands(s, P, h))
      /\ (~running[s] /\ ended[s] = FALSE => Settled(s, h))
  BY <1>5, <1>6 DEF Looks
<1>9. P \in Seq(Instr(s))
  BY <1>8, FeedsFacts
<1>10. Tracks(s, b, c, Q, r)
  <2>1. PadsHead(s, b, e) /\ e.kind # "real"
    BY <1>3 DEF PadsHead
  <2> QED
    BY <1>7, <1>8, <2>1, FetchOther
<1>11. Chain(s, Q, r, mt)
  <2>1. Fits(s, P, r, mt, e)
    BY <1>3 DEF Fits, Joins, Bare
  <2> QED
    BY <1>7, <1>8, <1>9, <2>1, ChainAppend
<1>12. Signals(s)'
  <2>1. Appends(pipe[s], e, pipe'[s])
    BY <1>4 DEF Delivers
  <2> QED
    BY <1>1, <1>3, <1>7, <1>8, <2>1, SignalsMore
<1>13. ASSUME ended[s] = FALSE PROVE Stands(s, Q, At(b, c))
  <2>1. Settled(s, h) => Settled(s, At(b, c))
    BY LandIs
  <2>2. P = <<>> => Settled(s, At(b, c))
    <3>1. CASE ~running[s]
      BY <1>8, <1>13, <2>1, <3>1
    <3>2. CASE running[s] /\ P = <<>>
      <4>1. At(b, c) = v
        BY ZenonT(40), <1>5, <1>13, <3>2, Reaches
      <4> QED
        BY <4>1, LandIs
    <3> QED
      BY <3>1, <3>2
  <2>3. ASSUME P # <<>>, Bare(P[Len(P)]), ResolvedPc(s, P[Len(P)]) \in {AnyPc, e.pc}
        PROVE  Settled(s, At(b, c))
    <3>1. At(b, c) = v
      BY <1>3, <1>5, <2>3, Reaches
    <3> QED
      BY <3>1, LandIs
  <2>4. Stands(s, P, h)
    BY <1>8, <1>13
  <2>5. PICK k : k = At(b, c)
    OBVIOUS
  <2>6. Stands(s, Q, k)
    BY <1>3, <1>7, <1>9, <2>1, <2>2, <2>3, <2>4, <2>5, StandsSwitch
  <2> QED
    BY <2>5, <2>6
<1>14. ~running[s] /\ ended[s] = FALSE => Settled(s, At(b, c))
  BY <1>8, LandIs
<1>15. b.fault = "none"
  BY <1>8 DEF Feeds
<1>16. OnTrack(s)'
  <2>1. Tracks(s, trace'[s], c, pipe'[s], retired'[s]) /\ trace'[s].fault = "none"
    BY <1>5, <1>7, <1>10, <1>15
  <2>2. Chain(s, pipe'[s], retired'[s], mtExitCondition')
    BY <1>5, <1>7, <1>11
  <2>3. ended'[s] = FALSE => Stands(s, pipe'[s], At(trace'[s], c))
    BY <1>5, <1>6, <1>7, <1>13
  <2>4. phase'[s] # "warmup"
    BY <1>7
  <2>5. ~running'[s] /\ ended'[s] = FALSE => Settled(s, At(trace'[s], c))
    BY <1>6, <1>7, <1>14
  <2> QED
    BY <1>12, <2>1, <2>2, <2>3, <2>4, <2>5, Arrives
<1>17. Apart(s)
  BY <1>1, <1>4 DEF Apart, Delivers
<1>18. RetiresNext(s)
  BY <1>4 DEF RetiresNext, Succeeds, Delivers
<1> QED
  BY <1>16, <1>17, <1>18

LEMMA Unswitched ==
    ASSUME FeedInv, NEW s \in Streams, NEW pc, NEW b, NEW c, NEW h, NEW v,
           Looks(s, pc, b, c, h, v), ~switching[s]
    PROVE  /\ ended[s] = FALSE
           /\ pipe[s] \in Seq(Instr(s))
           /\ pipe[s] # <<>> => Len(pipe[s]) \in DOMAIN pipe[s]
           /\ \A i \in DOMAIN pipe[s] : pipe[s][i].kind \notin {"pad", "switch"}
<1>1. ended[s] \in BOOLEAN /\ Status(s) /\ pipe[s] \in Seq(Instr(s)) /\ Ordered(s, pipe[s], ended[s])
  BY Facts
<1>2. ended[s] = FALSE
  BY <1>1 DEF Looks, Status
<1>3. \A i \in DOMAIN pipe[s] : pipe[s][i].kind # "pad"
  BY <1>1, <1>2 DEF Ordered
<1>4. \A i \in DOMAIN pipe[s] : pipe[s][i].kind # "switch"
  BY DEF Looks, Signals
<1>5. pipe[s] # <<>> => Len(pipe[s]) \in DOMAIN pipe[s]
  BY <1>1
<1> QED
  BY <1>1, <1>2, <1>3, <1>4, <1>5

LEMMA PathFetchEnd ==
    ASSUME FeedInv, FeedInv', NEW s \in Streams, NEW pc, NEW b, NEW c, NEW h, NEW v,
           Looks(s, pc, b, c, h, v), FetchEnd(s, b, pc)
    PROVE  OnTrack(s)' /\ Apart(s) /\ RetiresNext(s)
<1>1. /\ ~switching[s] /\ (Eof(s, b) \/ mtExitCondition)
      /\ Deliver(s, b, b.head, pc, "pad", 0, 0)
      /\ ended' = [ended EXCEPT ![s] = TRUE]
      /\ switching' = [switching EXCEPT ![s] = TRUE]
      /\ running' = [running EXCEPT ![s] = TRUE]
      /\ UNCHANGED wrongpath
  BY DEF FetchEnd
<1>2. PICK e : e = Hand(b.head, pc, "pad", 0, 0)
  OBVIOUS
<1>3. e.kind = "pad" /\ e.id = b.head
  BY <1>2, HandIs DEF HandsOf
<1>4. Delivers(s, b, e)
  BY <1>1, <1>2, DeliverIs
<1>5. PICK P, Q : P = pipe[s] /\ Q = pipe'[s]
  OBVIOUS
<1>6. PICK r, over, mt : r = retired[s] /\ over = ended[s] /\ mt = mtExitCondition
  OBVIOUS
<1>7. /\ trace'[s] = b /\ retired'[s] = r /\ mtExitCondition' = mt /\ phase'[s] = "run"
      /\ Appends(P, e, Q) /\ Q = Append(P, e) /\ resteer'[s] = AnyPc
  BY <1>4, <1>5, <1>6 DEF Delivers, Looks
<1>8. Flags
  BY DEF FeedInv
<1>9. ended'[s] = TRUE /\ running'[s] = TRUE /\ switching'[s] = TRUE /\ wrongpath'[s] = wrongpath[s]
  BY <1>1, <1>8 DEF Flags
<1>10. Feeds(s, b, c, P, r, over) /\ Chain(s, P, r, mt) /\ Signals(s) /\ b.fault = "none"
  BY <1>5, <1>6 DEF Looks, Feeds
<1>11. P \in Seq(Instr(s)) /\ \A i \in DOMAIN P : P[i].kind \notin {"pad", "switch"}
  BY <1>1, <1>5, Unswitched
<1>12. Tracks(s, b, c, Q, r)
  <2>1. PadsHead(s, b, e) /\ e.kind # "real"
    BY <1>3, LandIs DEF PadsHead
  <2> QED
    BY <1>7, <1>10, <2>1, FetchOther
<1>13. ASSUME P # <<>> PROVE Joins(s, P[Len(P)], e, mt)
  <2>1. ASSUME P[Len(P)].kind = "real", Eof(s, b) PROVE NextOnPath(s, P[Len(P)].pos) = EofPos(s)
    <3>1. v > Len(Trace[s])
      BY <2>1, LandIs
    <3>2. PICK a : Heads(s, P, r, v, a)
      BY <1>5, <1>6, <2>1 DEF Looks, Bare
    <3> QED
      BY <1>13, <2>1, <3>1, <3>2 DEF Heads
  <2> QED
    BY <1>1, <1>3, <1>6, <2>1 DEF Joins
<1>14. Chain(s, Q, r, mt)
  <2>1. Fits(s, P, r, mt, e)
    BY <1>3, <1>11, <1>13 DEF Fits, Bare
  <2> QED
    BY <1>7, <1>10, <1>11, <2>1, ChainAppend
<1>15. Signals(s)'
  <2>1. Appends(pipe[s], e, pipe'[s])
    BY <1>4 DEF Delivers
  <2> QED
    BY <1>3, <1>7, <1>9, <1>10, <2>1, SignalsMore
<1>16. OnTrack(s)'
  <2>1. Tracks(s, trace'[s], c, pipe'[s], retired'[s]) /\ trace'[s].fault = "none"
    BY <1>5, <1>7, <1>10, <1>12
  <2>2. Chain(s, pipe'[s], retired'[s], mtExitCondition')
    BY <1>5, <1>7, <1>14
  <2>3. phase'[s] # "warmup" /\ ended'[s] # FALSE
    BY <1>7, <1>9
  <2> QED
    BY <1>15, <2>1, <2>2, <2>3, Arrives
<1>17. Apart(s)
  <2>1. \A t \in Streams : t # s => ended'[t] = ended[t] /\ switching'[t] = switching[t]
                                    /\ running'[t] = running[t]
    BY <1>1, <1>8 DEF Flags
  <2> QED
    BY <1>1, <1>4, <2>1 DEF Apart, Delivers
<1>18. RetiresNext(s)
  BY <1>4 DEF RetiresNext, Succeeds, Delivers
<1> QED
  BY <1>16, <1>17, <1>18

LEMMA PathFetchStartup ==
    ASSUME Regular, FeedInv, FeedInv', NEW s \in Streams, NEW pc, NEW b, NEW c, NEW h, NEW v,
           Looks(s, pc, b, c, h, v), FetchStartup(s, b, pc)
    PROVE  OnTrack(s)' /\ Apart(s) /\ RetiresNext(s)
<1>1. /\ ~switching[s] /\ ~Eof(s, b) /\ pc = 0
      /\ Deliver(s, b, ArtificialId, pc, "startup", 0, VirtualPc(s, b))
      /\ running' = [running EXCEPT ![s] = TRUE]
      /\ UNCHANGED <<ended, wrongpath, switching>>
  BY DEF FetchStartup
<1>2. PICK e : e = Hand(ArtificialId, pc, "startup", 0, VirtualPc(s, b))
  OBVIOUS
<1>3. e.kind = "startup" /\ e.id = ArtificialId /\ e.target = VirtualPc(s, b)
  BY <1>2, HandIs DEF HandsOf
<1>4. Delivers(s, b, e)
  BY <1>1, <1>2, DeliverIs
<1>5. PICK P, Q : P = pipe[s] /\ Q = pipe'[s]
  OBVIOUS
<1>6. PICK r, over, mt : r = retired[s] /\ over = ended[s] /\ mt = mtExitCondition
  OBVIOUS
<1>7. /\ trace'[s] = b /\ retired'[s] = r /\ mtExitCondition' = mt /\ phase'[s] = "run"
      /\ Appends(P, e, Q) /\ Q = Append(P, e) /\ resteer'[s] = AnyPc
  BY <1>4, <1>5, <1>6 DEF Delivers, Looks
<1>8. Flags
  BY DEF FeedInv
<1>9. /\ ended'[s] = ended[s] /\ running'[s] = TRUE /\ switching'[s] = switching[s]
      /\ wrongpath'[s] = wrongpath[s]
  BY <1>1, <1>8 DEF Flags
<1>10. Feeds(s, b, c, P, r, over) /\ Chain(s, P, r, mt) /\ Signals(s) /\ b.fault = "none"
  BY <1>5, <1>6 DEF Looks, Feeds
<1>11. P \in Seq(Instr(s)) /\ \A i \in DOMAIN P : P[i].kind \notin {"pad", "switch"}
  BY <1>1, <1>5, Unswitched
<1>12. ~running[s]
  <2>1. pc \in PredictedPcs(s) /\ resteer[s] # 0
    BY DEF Looks, Signals
  <2>2. ASSUME running[s] PROVE FALSE
    <3>1. CASE resteer[s] # AnyPc
      <4>1. pc = resteer[s]
        BY <2>1, <2>2, <3>1 DEF PredictedPcs
      <4> QED
        BY <1>1, <2>1, <4>1
    <3>2. CASE ~(resteer[s] # AnyPc)
      <4>1. pc \in Pcs(s) \ {0}
        BY <2>1, <2>2, <3>2 DEF PredictedPcs, Regular
      <4> QED
        BY <1>1, <4>1
    <3> QED
      BY <3>1, <3>2
  <2> QED
    BY <2>2
<1>13. ended[s] = FALSE
  BY <1>1, Unswitched
<1>14. P = <<>>
  <2>1. ASSUME P # <<>> PROVE FALSE
    <3>1. 1 \in DOMAIN P
      BY <1>11, <2>1
    <3>2. P[1].kind # "switch"
      BY <1>11, <3>1
    <3> QED
      BY <1>5, <1>10, <1>12, <3>1, <3>2 DEF Signals
  <2> QED
    BY <2>1
<1>15. At(b, c) = v /\ v <= Len(Trace[s])
  <2>1. Settled(s, h)
    BY <1>12, <1>13 DEF Looks
  <2>2. /\ v \in Nat /\ h \in Nat /\ h <= v /\ Len(Trace[s]) \in Nat
        /\ Settled(s, h) /\ h <= Len(Trace[s]) => v = h
        /\ At(b, c) = v \/ At(b, c) = h
        /\ v > Len(Trace[s]) => Eof(s, b)
    BY LandIs
  <2> QED
    BY <1>1, <2>1, <2>2
<1>16. NextOnPath(s, r) # EofPos(s) /\ e.target = NextPc(s, r)
  <2>1. PICK a : Heads(s, P, r, v, a)
    BY <1>5, <1>6, <1>14 DEF Looks
  <2>2. NextOnPath(s, r) = v /\ NextPc(s, r) = Trace[s][v].pc /\ v # EofPos(s)
    BY <1>14, <1>15, <2>1 DEF Heads
  <2>3. VirtualPc(s, b) = Trace[s][v].pc
    BY <1>15, LandIs
  <2> QED
    BY <1>3, <2>2, <2>3
<1>17. Tracks(s, b, c, Q, r)
  <2>1. PadsHead(s, b, e) /\ e.kind # "real"
    BY <1>3 DEF PadsHead
  <2> QED
    BY <1>7, <1>10, <2>1, FetchOther
<1>18. Chain(s, Q, r, mt)
  <2>1. \A i \in DOMAIN P : FALSE
    BY <1>14
  <2>2. Fits(s, P, r, mt, e)
    BY <1>3, <1>14, <1>16, <2>1, MadeIds DEF Fits
  <2> QED
    BY <1>7, <1>10, <1>11, <2>2, ChainAppend
<1>19. Signals(s)'
  <2>1. Appends(pipe[s], e, pipe'[s])
    BY <1>4 DEF Delivers
  <2> QED
    BY <1>3, <1>7, <1>9, <1>10, <2>1, SignalsMore
<1>20. Stands(s, Q, At(b, c))
  BY <1>15, LandIs DEF Stands
<1>21. OnTrack(s)'
  <2>1. Tracks(s, trace'[s], c, pipe'[s], retired'[s]) /\ trace'[s].fault = "none"
    BY <1>5, <1>7, <1>10, <1>17
  <2>2. Chain(s, pipe'[s], retired'[s], mtExitCondition')
    BY <1>5, <1>7, <1>18
  <2>3. phase'[s] # "warmup" /\ running'[s]
    BY <1>7, <1>9
  <2>4. Stands(s, pipe'[s], At(trace'[s], c))
    BY <1>5, <1>7, <1>20
  <2> QED
    BY <1>19, <2>1, <2>2, <2>3, <2>4, Arrives
<1>22. Apart(s)
  <2>1. \A t \in Streams : t # s => running'[t] = running[t]
    BY <1>1, <1>8 DEF Flags
  <2> QED
    BY <1>1, <1>4, <2>1 DEF Apart, Delivers
<1>23. RetiresNext(s)
  BY <1>4 DEF RetiresNext, Succeeds, Delivers
<1> QED
  BY <1>21, <1>22, <1>23

LEMMA PathFetchOffPath ==
    ASSUME Regular, FeedInv, FeedInv', NEW s \in Streams, NEW pc, NEW b, NEW c, NEW h, NEW v,
           Looks(s, pc, b, c, h, v), FetchOffPath(s, b, pc)
    PROVE  OnTrack(s)' /\ Apart(s) /\ RetiresNext(s)
<1>1. /\ ~switching[s] /\ ~Eof(s, b) /\ pc # 0 /\ OffPath(s, b, pc)
      /\ Deliver(s, b, WrongpathId, pc, "off", 0, 0)
      /\ wrongpath' = [wrongpath EXCEPT ![s] = TRUE]
      /\ running' = [running EXCEPT ![s] = TRUE]
      /\ UNCHANGED <<ended, switching>>
  BY DEF FetchOffPath
<1>2. PICK e : e = Hand(WrongpathId, pc, "off", 0, 0)
  OBVIOUS
<1>3. e.kind = "off" /\ e.pc = pc
  BY <1>2, HandIs DEF HandsOf
<1>4. Delivers(s, b, e)
  BY <1>1, <1>2, DeliverIs
<1>5. PICK P, Q : P = pipe[s] /\ Q = pipe'[s]
  OBVIOUS
<1>6. PICK r, over, mt : r = retired[s] /\ over = ended[s] /\ mt = mtExitCondition
  OBVIOUS
<1>7. /\ trace'[s] = b /\ retired'[s] = r /\ mtExitCondition' = mt /\ phase'[s] = "run"
      /\ Appends(P, e, Q) /\ Q = Append(P, e) /\ resteer'[s] = AnyPc
  BY <1>4, <1>5, <1>6 DEF Delivers, Looks
<1>8. Flags
  BY DEF FeedInv
<1>9. /\ ended'[s] = ended[s] /\ running'[s] = TRUE /\ switching'[s] = switching[s]
      /\ wrongpath'[s] = TRUE
  BY <1>1, <1>8 DEF Flags
<1>10. Feeds(s, b, c, P, r, over) /\ Chain(s, P, r, mt) /\ Signals(s) /\ b.fault = "none"
  BY <1>5, <1>6 DEF Looks, Feeds
<1>11. /\ P \in Seq(Instr(s)) /\ \A i \in DOMAIN P : P[i].kind \notin {"pad", "switch"}
       /\ ended[s] = FALSE
  BY <1>1, <1>5, Unswitched
<1>12. P # <<>> => Len(P) \in DOMAIN P
  BY <1>1, <1>5, Unswitched
<1>13. running[s]
  <2>1. pc \in PredictedPcs(s)
    BY DEF Looks
  <2> QED
    BY <1>1, <2>1 DEF PredictedPcs
<1>14. ASSUME At(b, c) = v, ~IsWrongpath(b), v <= Len(Trace[s]) => Trace[s][v].pc = pc,
              \A i \in DOMAIN P : P[i].kind # "off"
       PROVE  FALSE
  <2>1. v <= Len(Trace[s])
    <3>1. v \in Nat /\ Len(Trace[s]) \in Nat /\ (v > Len(Trace[s]) => Eof(s, b))
      BY LandIs
    <3> QED
      BY <1>1, <3>1
  <2>2. VirtualPc(s, b) = pc
    BY <1>14, <2>1, LandIs
  <2>3. ~wrongpath[s]
    BY <1>5, <1>10, <1>14 DEF Signals
  <2> QED
    BY <1>1, <1>14, <2>2, <2>3 DEF OffPath
<1>15. P # <<>>
  <2>1. ASSUME P = <<>> PROVE FALSE
    <3>1. At(b, c) = v /\ ~IsWrongpath(b) /\ (v <= Len(Trace[s]) => Trace[s][v].pc = pc)
      BY <1>5, <1>11, <1>13, <2>1, Reaches
    <3>2. \A i \in DOMAIN P : P[i].kind # "off"
      BY <2>1
    <3> QED
      BY <1>14, <3>1, <3>2
  <2> QED
    BY <2>1
<1>16. Joins(s, P[Len(P)], e, mt)
  <2>1. ASSUME Bare(P[Len(P)]), ResolvedPc(s, P[Len(P)]) \in {AnyPc, pc} PROVE FALSE
    <3>1. At(b, c) = v /\ ~IsWrongpath(b) /\ (v <= Len(Trace[s]) => Trace[s][v].pc = pc)
      BY <1>5, <1>15, <2>1, Reaches
    <3>2. ASSUME NEW i \in DOMAIN P PROVE P[i].kind # "off"
      <4>1. i <= Len(P) /\ Len(P) \in DOMAIN P
        BY <1>11, <1>12, <1>15
      <4> QED
        BY <1>10, <1>11, <2>1, <4>1, BareBefore
    <3> QED
      BY <1>14, <3>1, <3>2
  <2> QED
    BY <1>3, <2>1 DEF Joins
<1>17. Tracks(s, b, c, Q, r)
  <2>1. PadsHead(s, b, e) /\ e.kind # "real"
    BY <1>3 DEF PadsHead
  <2> QED
    BY <1>7, <1>10, <2>1, FetchOther
<1>18. Chain(s, Q, r, mt)
  <2>1. Fits(s, P, r, mt, e)
    BY <1>3, <1>11, <1>15, <1>16 DEF Fits, Bare
  <2> QED
    BY <1>7, <1>10, <1>11, <2>1, ChainAppend
<1>19. Signals(s)'
  <2>1. Appends(pipe[s], e, pipe'[s])
    BY <1>4 DEF Delivers
  <2> QED
    BY <1>3, <1>7, <1>9, <1>10, <2>1, SignalsMore
<1>20. Stands(s, Q, At(b, c))
  <2>1. PICK k : k = At(b, c)
    OBVIOUS
  <2>2. \A i \in DOMAIN Q : Q[i].kind # "switch"
    BY <1>3, <1>7, <1>11 DEF Appends
  <2>3. Q \in Seq(Instr(s))
    BY <1>5 DEF FeedInv, One, Ordered
  <2>4. Stands(s, Q, k)
    BY <2>2, <2>3, StandsNone
  <2> QED
    BY <2>1, <2>4
<1>21. OnTrack(s)'
  <2>1. Tracks(s, trace'[s], c, pipe'[s], retired'[s]) /\ trace'[s].fault = "none"
    BY <1>5, <1>7, <1>10, <1>17
  <2>2. Chain(s, pipe'[s], retired'[s], mtExitCondition')
    BY <1>5, <1>7, <1>18
  <2>3. phase'[s] # "warmup" /\ running'[s]
    BY <1>7, <1>9
  <2>4. Stands(s, pipe'[s], At(trace'[s], c))
    BY <1>5, <1>7, <1>20
  <2> QED
    BY <1>19, <2>1, <2>2, <2>3, <2>4, Arrives
<1>22. Apart(s)
  <2>1. \A t \in Streams : t # s => running'[t] = running[t] /\ wrongpath'[t] = wrongpath[t]
    BY <1>1, <1>8 DEF Flags
  <2> QED
    BY <1>1, <1>4, <2>1 DEF Apart, Delivers
<1>23. RetiresNext(s)
  BY <1>4 DEF RetiresNext, Succeeds, Delivers
<1> QED
  BY <1>21, <1>22, <1>23

LEMMA PathFetchInstr ==
    ASSUME Regular, FeedInv, FeedInv', NEW s \in Streams, NEW pc, NEW b, NEW c, NEW h, NEW v,
           Looks(s, pc, b, c, h, v), FetchInstr(s, b, pc)
    PROVE  OnTrack(s)' /\ Apart(s) /\ RetiresNext(s)
<1>1. PICK d : d = [NextInstr(s, b) EXCEPT
                       !.slot[b.head].nop = @ \/ Trace[s][Inst(b).pos].kind = "nop"]
  OBVIOUS
<1>2. /\ ~switching[s] /\ ~Eof(s, b) /\ ~OffPath(s, b, pc)
      /\ Deliver(s, d, b.head, pc, "real", Inst(b).pos, 0)
      /\ running' = [running EXCEPT ![s] = TRUE]
      /\ UNCHANGED <<ended, wrongpath, switching>>
  BY <1>1 DEF FetchInstr
<1>3. VirtualPc(s, b) = pc /\ ~IsWrongpath(b) /\ ~wrongpath[s]
  BY <1>2 DEF OffPath
<1>4. PICK e : e = Hand(b.head, pc, "real", Inst(b).pos, 0)
  OBVIOUS
<1>5. e.kind = "real" /\ e.id = b.head /\ e.pc = pc /\ e.pos = Inst(b).pos
  BY <1>4, HandIs DEF HandsOf
<1>6. Delivers(s, d, e)
  BY <1>2, <1>4, DeliverIs
<1>7. PICK P, Q : P = pipe[s] /\ Q = pipe'[s]
  OBVIOUS
<1>8. PICK r, over, mt : r = retired[s] /\ over = ended[s] /\ mt = mtExitCondition
  OBVIOUS
<1>9. /\ trace'[s] = d /\ retired'[s] = r /\ mtExitCondition' = mt /\ phase'[s] = "run"
      /\ Appends(P, e, Q) /\ Q = Append(P, e) /\ resteer'[s] = AnyPc
  BY <1>6, <1>7, <1>8 DEF Delivers, Looks
<1>10. Flags
  BY DEF FeedInv
<1>11. /\ ended'[s] = ended[s] /\ running'[s] = TRUE /\ switching'[s] = switching[s]
       /\ wrongpath'[s] = wrongpath[s]
  BY <1>2, <1>10 DEF Flags
<1>12. /\ P \in Seq(Instr(s)) /\ \A i \in DOMAIN P : P[i].kind \notin {"pad", "switch"}
       /\ ended[s] = FALSE
  BY <1>2, <1>7, Unswitched
<1>13. Feeds(s, b, c, P, r, FALSE) /\ Chain(s, P, r, mt) /\ Signals(s) /\ Len(P) < Window
  BY <1>7, <1>8, <1>12 DEF Looks
<1>14. /\ Inst(b).pos = At(b, c) /\ VirtualPc(s, b) = Trace[s][At(b, c)].pc
  BY <1>2, <1>3, <1>13, HeadPlace
<1>15. Hands(s, b, c, e, d)
  BY <1>1, <1>3, <1>5, <1>14 DEF Hands
<1>16. TraceFits(s)
  BY DEF Regular
<1>17. Tracks(s, d, c, Q, r)
  BY <1>2, <1>3, <1>9, <1>13, <1>15, <1>16, FetchReal
<1>18. d.fault = "none"
  <2>1. ~Eof(s, b) /\ ~IsWrongpath(b) /\ TraceFits(s) /\ Len(P) < Window
    BY <1>2, <1>3, <1>13, <1>16
  <2>2. d \in Buffers(s) /\ d.fault = "none" /\ Content(s, d, c)
    BY <1>13, <1>15, <2>1, HandsIs
  <2> QED
    BY <2>2
<1>19. \A i \in DOMAIN P : P[i].kind # "off"
  BY <1>3, <1>7, <1>13 DEF Signals
<1>20. Chain(s, Q, r, mt)
  <2>1. Fits(s, P, r, mt, e)
    BY <1>5, <1>12, <1>19 DEF Fits, Joins
  <2> QED
    BY <1>9, <1>12, <1>13, <2>1, ChainAppend
<1>21. Signals(s)'
  <2>1. Appends(pipe[s], e, pipe'[s])
    BY <1>6 DEF Delivers
  <2> QED
    BY <1>5, <1>9, <1>11, <1>13, <2>1, SignalsMore
<1>22. Stands(s, Q, At(d, c))
  <2>1. PICK k : k = At(d, c)
    OBVIOUS
  <2>2. \A i \in DOMAIN Q : Q[i].kind # "switch"
    BY <1>5, <1>9, <1>12 DEF Appends
  <2>3. Q \in Seq(Instr(s))
    BY <1>7 DEF FeedInv, One, Ordered
  <2>4. Stands(s, Q, k)
    BY <2>2, <2>3, StandsNone
  <2> QED
    BY <2>1, <2>4
<1>23. OnTrack(s)'
  <2>1. Tracks(s, trace'[s], c, pipe'[s], retired'[s]) /\ trace'[s].fault = "none"
    BY <1>7, <1>9, <1>17, <1>18
  <2>2. Chain(s, pipe'[s], retired'[s], mtExitCondition')
    BY <1>7, <1>9, <1>20
  <2>3. phase'[s] # "warmup" /\ running'[s]
    BY <1>9, <1>11
  <2>4. Stands(s, pipe'[s], At(trace'[s], c))
    BY <1>7, <1>9, <1>22
  <2> QED
    BY <1>21, <2>1, <2>2, <2>3, <2>4, Arrives
<1>24. Apart(s)
  <2>1. \A t \in Streams : t # s => running'[t] = running[t]
    BY <1>2, <1>10 DEF Flags
  <2> QED
    BY <1>2, <1>6, <2>1 DEF Apart, Delivers
<1>25. RetiresNext(s)
  BY <1>6 DEF RetiresNext, Succeeds, Delivers
<1> QED
  BY <1>23, <1>24, <1>25

LEMMA PathFetch ==
    ASSUME Regular, FeedInv, FeedInv', PathInv, NEW s \in Streams, Fetch(s)
    PROVE  OnTrack(s)' /\ Apart(s) /\ RetiresNext(s)
<1>1. /\ phase[s] = "run" /\ Len(pipe[s]) < Window
      /\ \E pc \in PredictedPcs(s) : \E b \in {SkipOverWrongpath(s, trace[s], pc)} :
           \/ FetchAborts(s, b)
           \/ /\ b.fault = "none"
              /\ \/ FetchSwitch(s, b, pc)
                 \/ FetchEnd(s, b, pc)
                 \/ FetchStartup(s, b, pc)
                 \/ FetchOffPath(s, b, pc)
                 \/ FetchInstr(s, b, pc)
  BY DEF Fetch
<1>2. PICK pc \in PredictedPcs(s) : \E b \in {SkipOverWrongpath(s, trace[s], pc)} :
           \/ FetchAborts(s, b)
           \/ /\ b.fault = "none"
              /\ \/ FetchSwitch(s, b, pc)
                 \/ FetchEnd(s, b, pc)
                 \/ FetchStartup(s, b, pc)
                 \/ FetchOffPath(s, b, pc)
                 \/ FetchInstr(s, b, pc)
  BY <1>1
<1>3. PICK b : b = SkipOverWrongpath(s, trace[s], pc) /\
           \/ FetchAborts(s, b)
           \/ FetchSwitch(s, b, pc)
           \/ FetchEnd(s, b, pc)
           \/ FetchStartup(s, b, pc)
           \/ FetchOffPath(s, b, pc)
           \/ FetchInstr(s, b, pc)
  BY <1>2
<1>4. PICK c, h, v : Looks(s, pc, b, c, h, v)
  BY <1>1, <1>3, FetchLooks
<1>5. ~FetchAborts(s, b)
  <2>1. b.fault = "none"
    BY <1>4 DEF Looks, Feeds
  <2> QED
    BY <2>1 DEF FetchAborts
<1> QED
  BY <1>3, <1>4, <1>5, PathFetchSwitch, PathFetchEnd, PathFetchStartup, PathFetchOffPath,
     PathFetchInstr

-----------------------------------------------------------------------------
(* The oldest instruction in flight leaves.                                *)

LEMMA PcThere ==
    ASSUME NEW s \in Streams, NEW p \in Nat, p <= Len(Trace[s])
    PROVE  NextPc(s, p) # 0
<1>1. PICK q : q = NextOnPath(s, p)
  OBVIOUS
<1>2. q \in Nat /\ q >= p + 1 /\ q <= EofPos(s)
      /\ NextPc(s, p) = IF q = EofPos(s) THEN AnyPc ELSE Trace[s][q].pc
  BY <1>1, OnPath
<1>3. CASE q = EofPos(s)
  BY <1>2, <1>3 DEF AnyPc
<1>4. CASE q # EofPos(s)
  <2>1. EofPos(s) = Len(Trace[s]) + 1 /\ Len(Trace[s]) \in Nat
    BY Places
  <2>2. q \in 1 .. Len(Trace[s])
    BY <1>2, <1>4, <2>1
  <2>3. Trace[s][q].pc \in Nat \ {0}
    BY <2>2, Places
  <2> QED
    BY <1>2, <1>4, <2>3
<1> QED
  BY <1>3, <1>4

\* Where the model goes on when nothing is left in flight.
Resumes(s, P, q, over) ==
    /\ P[1].kind = "real" => ResolvedPc(s, P[1]) = NextPc(s, q)
    /\ P[1].kind = "startup" => ResolvedPc(s, P[1]) = NextPc(s, q)
    /\ P[1].kind \notin {"off", "switch"}
    /\ P[1].kind = "pad" => over
    /\ NextPc(s, q) # 0

LEMMA SignalsTail ==
    ASSUME FeedInv, NEW s \in Streams, Signals(s), pipe[s] # <<>>, Retire(s),
           Resumes(s, pipe[s], retired'[s], ended[s]),
           ended'[s] = ended[s], wrongpath'[s] = wrongpath[s],
           running'[s] = running[s], switching'[s] = switching[s]
    PROVE  Signals(s)'
<1>1. PICK P : P = pipe[s]
  OBVIOUS
<1>2. P \in Seq(Instr(s)) /\ P # <<>> /\ resteer[s] \in Pcs(s) \cup {AnyPc}
      /\ DOMAIN resteer = Streams
  BY <1>1, Facts
<1>3. /\ \A j \in DOMAIN Tail(P) : j + 1 \in DOMAIN P /\ Tail(P)[j] = P[j + 1] /\ j \in Nat
      /\ \A i \in DOMAIN P : i # 1 => i - 1 \in DOMAIN Tail(P) /\ Tail(P)[i - 1] = P[i]
      /\ 1 \in DOMAIN P
  BY <1>2, TailReals
<1>4. Len(Tail(P)) = Len(P) - 1 /\ Len(P) \in Nat /\ Len(P) >= 1
  BY <1>1, <1>2, Oldest
<1>5. pipe'[s] = Tail(P)
  BY <1>1, Retires DEF Moves
<1>6. PICK q : q = retired'[s]
  OBVIOUS
<1>7. Resumes(s, P, q, ended[s])
  BY <1>1, <1>6
<1>8. Len(P) > 1 => resteer'[s] = resteer[s]
  BY <1>1 DEF Retire
<1>9. ~(Len(P) > 1) =>
         resteer'[s] = IF P[1].kind \in {"real", "startup"} THEN ResolvedPc(s, P[1])
                       ELSE resteer[s]
  BY <1>1, <1>2 DEF Retire
<1>10. P[1].kind \in {"real", "off", "startup", "switch", "pad"}
  BY <1>2, <1>3, Kindly
<1>11. resteer[s] # 0 /\ (wrongpath[s] => \E i \in DOMAIN P : P[i].kind = "off")
       /\ \A i \in DOMAIN P : /\ P[i].kind = "off" => wrongpath[s]
                              /\ P[i].kind # "switch" => running[s]
                              /\ P[i].kind = "switch" => switching[s]
  BY <1>1 DEF Signals
<1>12. resteer'[s] # 0
  BY <1>4, <1>7, <1>8, <1>9, <1>11 DEF Resumes
<1>13. ~ended'[s] /\ running'[s] /\ pipe'[s] = <<>> => resteer'[s] = NextPc(s, retired'[s])
  <2> SUFFICES ASSUME ~ended[s], Tail(P) = <<>> PROVE resteer'[s] = NextPc(s, q)
    BY <1>5, <1>6
  <2>1. ~(Len(P) > 1)
    <3> SUFFICES ASSUME Len(P) > 1 PROVE FALSE
      OBVIOUS
    <3>1. 2 \in DOMAIN P
      BY <1>2, <1>4
    <3>2. 2 - 1 \in DOMAIN Tail(P)
      BY <1>3, <3>1
    <3>3. DOMAIN Tail(P) = {}
      <4>1. DOMAIN << >> = {}
        OBVIOUS
      <4> QED
        BY <4>1
    <3> QED
      BY <3>2, <3>3
  <2>2. P[1].kind \in {"real", "startup"}
    BY <1>7, <1>10 DEF Resumes
  <2> QED
    BY <1>7, <1>9, <2>1, <2>2 DEF Resumes
<1>14. wrongpath'[s] => \E i \in DOMAIN pipe'[s] : pipe'[s][i].kind = "off"
  <2> SUFFICES ASSUME wrongpath[s] PROVE \E i \in DOMAIN Tail(P) : Tail(P)[i].kind = "off"
    BY <1>5
  <2>1. PICK i \in DOMAIN P : P[i].kind = "off"
    BY <1>11
  <2>2. i # 1
    BY <1>7, <2>1 DEF Resumes
  <2>3. i - 1 \in DOMAIN Tail(P) /\ Tail(P)[i - 1].kind = "off"
    BY <1>3, <2>1, <2>2
  <2> QED
    BY <2>3
<1>15. ASSUME NEW i \in DOMAIN pipe'[s]
       PROVE  /\ pipe'[s][i].kind = "off" => wrongpath'[s]
              /\ pipe'[s][i].kind # "switch" => running'[s]
              /\ pipe'[s][i].kind = "switch" => switching'[s]
  BY <1>3, <1>5, <1>11, <1>15
<1> QED
  BY <1>12, <1>13, <1>14, <1>15 DEF Signals

\* The buffer becomes d and the place of its last commit k.
Retreats(s, d, k, h, q) ==
    /\ d.fault = "none" /\ At(d, k) = h /\ Tracks(s, d, k, Tail(pipe[s]), q)
    /\ Succeeds(s, retired[s], q)

LEMMA PathRetires ==
    ASSUME FeedInv, FeedInv', NEW s \in Streams, pipe[s] # <<>>, Retire(s),
           Right(s, pipe[s]), NEW c,
           Feeds(s, trace[s], c, pipe[s], retired[s], ended[s]),
           Chain(s, pipe[s], retired[s], mtExitCondition), Signals(s),
           ended[s] = FALSE => Stands(s, pipe[s], At(trace[s], c)),
           phase[s] = "run" /\ ~running[s] /\ ended[s] = FALSE => Settled(s, At(trace[s], c)),
           NEW q, Resumes(s, pipe[s], q, ended[s]), Moves(retired, retired', s, q),
           NEW d, NEW k, Retreats(s, d, k, At(trace[s], c), q), Moves(trace, trace', s, d),
           mtExitCondition => mtExitCondition',
           UNCHANGED <<ended, wrongpath, swcVars, phase, error>>
    PROVE  OnTrack(s)' /\ Apart(s) /\ RetiresNext(s)
<1>1. PICK P, h : P = pipe[s] /\ h = At(trace[s], c)
  OBVIOUS
<1>2. PICK r, over, mt : r = retired[s] /\ over = ended[s] /\ mt = mtExitCondition
  OBVIOUS
<1>3. P \in Seq(Instr(s)) /\ P # <<>> /\ Chain(s, P, r, mt) /\ Right(s, P)
      /\ Resumes(s, P, q, over)
  BY <1>1, <1>2, Facts
<1>4. retired'[s] = q /\ trace'[s] = d
  BY DEF Moves
<1>5. pipe'[s] = Tail(P) /\ \A t \in Streams : t # s => pipe'[t] = pipe[t]
  BY <1>1, Retires DEF Moves
<1>6. \A t \in Streams : t # s => resteer'[t] = resteer[t]
  BY Retires DEF Moves
<1>7. ended' = ended /\ wrongpath' = wrongpath /\ running' = running /\ switching' = switching
      /\ phase' = phase /\ error' = error
  BY DEF swcVars
<1>8. Apart(s)
  <2>1. \A t \in Streams : t # s => retired'[t] = retired[t] /\ trace'[t] = trace[t]
    BY DEF Moves
  <2> QED
    BY <1>5, <1>6, <1>7, <2>1 DEF Apart
<1>9. RetiresNext(s)
  BY <1>4 DEF RetiresNext, Retreats
<1>10. Signals(s)'
  <2>1. Resumes(s, pipe[s], retired'[s], ended[s])
    BY <1>4
  <2> QED
    BY <1>7, <2>1, SignalsTail
<1>11. Chain(s, pipe'[s], retired'[s], mtExitCondition')
  <2>1. Chain(s, Tail(P), q, mt)
    BY <1>3, ChainTail
  <2>2. mt => mtExitCondition'
    BY <1>2
  <2>3. Chain(s, Tail(P), q, mtExitCondition')
    BY <2>1, <2>2, ChainMore
  <2> QED
    BY <1>4, <1>5, <2>3
<1>12. ended'[s] = FALSE => Stands(s, pipe'[s], At(trace'[s], k))
  <2> SUFFICES ASSUME over = FALSE PROVE Stands(s, Tail(P), h)
    BY <1>1, <1>2, <1>4, <1>5, <1>7 DEF Retreats
  <2>1. Stands(s, P, h)
    BY <1>1, <1>2
  <2>2. P[1].kind # "pad"
    BY <1>3 DEF Resumes
  <2> QED
    BY <1>3, <2>1, <2>2, StandsTail
<1>13. phase'[s] = "run"
  BY <1>7, Oldest
<1>14. ~running'[s] /\ ended'[s] = FALSE => Settled(s, At(trace'[s], k))
  BY <1>4, <1>7, <1>13 DEF Retreats
<1>15. trace'[s].fault = "none" /\ Tracks(s, trace'[s], k, pipe'[s], retired'[s])
  BY <1>1, <1>4, <1>5 DEF Retreats
<1>16. OnTrack(s)'
  BY <1>10, <1>11, <1>12, <1>13, <1>14, <1>15, Arrives
<1> QED
  BY <1>8, <1>9, <1>16

\* Right, from the model's own check.
LEMMA ResolvedIsRight ==
    ASSUME NEW s \in Streams, Resolved(s)
    PROVE  Right(s, pipe[s])
BY DEF Resolved, Right

\* The place of the head is the same after a commit.
LEMMA CommitAt ==
    ASSUME NEW s \in Streams, NEW b, NEW c, NEW P, NEW r, NEW over, Feeds(s, b, c, P, r, over),
           NEW d \in Buffers(s), d.head = b.head, d.filled = b.filled,
           Off(b, d.lastcommit) <= Off(b, b.head)
    PROVE  At(d, c + Off(b, d.lastcommit)) = At(b, c)
<1>1. /\ b \in Buffers(s) /\ b.head \in Slots /\ c \in Nat /\ At(b, c) = c + Off(b, b.head)
      /\ Off(b, b.head) \in Nat /\ Off(b, b.head) < Limit(b) /\ Limit(b) \in Nat
      /\ \A i \in Slots : Off(b, i) \in Nat
  BY FeedsFacts
<1>2. PICK o : o = Off(b, d.lastcommit)
  OBVIOUS
<1>3. d.lastcommit \in Slots
  BY Members
<1>4. o \in Nat /\ o <= Off(b, b.head) /\ o < Limit(b)
  <2>1. o \in Nat
    BY <1>1, <1>2, <1>3
  <2> QED
    BY <1>1, <1>2, <2>1
<1>5. \A i \in Slots : Off(d, i) = IF o <= Off(b, i) THEN Off(b, i) - o
                                   ELSE (Off(b, i) - o) + BufSize
  BY <1>1, <1>2, <1>4, CommitShifts
<1>6. Off(d, d.head) = Off(b, b.head) - o
  BY <1>1, <1>4, <1>5
<1>7. At(d, c + o) = (c + o) + Off(d, d.head)
  BY DEF At
<1> QED
  BY <1>1, <1>2, <1>4, <1>6, <1>7

LEMMA PathCommitTrace ==
    ASSUME FeedInv, FeedInv', PathInv, NEW s \in Streams, pipe[s] # <<>>, Resolved(s),
           CommitTrace(s, Head(pipe[s])), ended' = ended
    PROVE  OnTrack(s)' /\ Apart(s) /\ RetiresNext(s)
<1>1. PICK c : /\ Feeds(s, trace[s], c, pipe[s], retired[s], ended[s])
               /\ Chain(s, pipe[s], retired[s], mtExitCondition)
               /\ Signals(s)
               /\ ended[s] = FALSE => Stands(s, pipe[s], At(trace[s], c))
               /\ phase[s] = "run" /\ ~running[s] /\ ended[s] = FALSE =>
                     Settled(s, At(trace[s], c))
  BY PathFacts
<1>2. Right(s, pipe[s])
  BY ResolvedIsRight
<1>3. PICK b, P, r, over : b = trace[s] /\ P = pipe[s] /\ r = retired[s] /\ over = ended[s]
  OBVIOUS
<1>4. PICK e : e = P[1]
  OBVIOUS
<1>5. Feeds(s, b, c, P, r, over) /\ P # <<>>
  BY <1>1, <1>3
<1>6. Head(pipe[s]) = e /\ 1 \in DOMAIN P /\ hwc[s] \in HWC /\ Typed(s, e)
  BY <1>3, <1>4, Oldest
<1>7. /\ e.kind \in {"real", "pad"}
      /\ trace' = [trace EXCEPT ![s] = CommitInstr(@, e.id)]
      /\ CountCommitted(hwc[s], Skipped(trace[s], e.id) + 1)
      /\ retired' = [retired EXCEPT ![s] = IF e.kind = "real" THEN e.pos ELSE @]
      /\ Retire(s)
      /\ UNCHANGED <<wrongpath, swcVars, phase, error>>
  BY <1>6 DEF CommitTrace
<1>8. PICK q : q = IF e.kind = "real" THEN e.pos ELSE r
  OBVIOUS
<1>9. PICK d : d = CommitInstr(b, e.id)
  OBVIOUS
<1>10. /\ b \in Buffers(s) /\ b.fault = "none" /\ \A i \in Slots : Off(b, i) \in Nat
       /\ c \in Nat /\ r \in Nat /\ Len(Trace[s]) \in Nat
  BY <1>5, FeedsFacts DEF Feeds
<1>11. /\ Passes(s, b, c, P, r, e.id, Tail(P), q) /\ Skippable(b, e.id)
       /\ Succeeds(s, r, q) /\ NextPc(s, q) # 0
  <2>1. CASE e.kind = "real"
    <3>1. q = e.pos
      BY <1>8, <2>1
    <3>2. /\ Passes(s, b, c, P, r, P[1].id, Tail(P), P[1].pos)
          /\ Skippable(b, P[1].id) /\ NextOnPath(s, r) = P[1].pos
      BY <1>4, <1>5, <2>1, RealPasses
    <3>3. q \in Nat /\ q <= Len(Trace[s])
      BY <1>4, <3>1, <3>2 DEF Passes
    <3>4. NextPc(s, q) # 0
      BY <3>3, PcThere
    <3> QED
      BY <1>4, <3>1, <3>2, <3>4 DEF Succeeds
  <2>2. CASE e.kind = "pad"
    <3>1. q = r
      BY <1>8, <2>2
    <3>2. Passes(s, b, c, P, r, P[1].id, Tail(P), r) /\ Skippable(b, P[1].id)
      BY <1>4, <1>5, <2>2, PadPasses
    <3>3. q \in Nat /\ q <= Len(Trace[s])
      BY <3>1, <3>2 DEF Passes
    <3>4. NextPc(s, q) # 0
      BY <3>3, PcThere
    <3> QED
      BY <1>4, <3>1, <3>2, <3>4 DEF Succeeds
  <2> QED
    BY <1>7, <2>1, <2>2
<1>12. e.id \in Slots /\ Off(b, e.id) >= 1 /\ Off(b, e.id) <= Off(b, b.head)
  BY <1>11 DEF Passes
<1>13. /\ d \in Buffers(s) /\ d.fault = "none" /\ d.lastcommit = e.id
       /\ d.head = b.head /\ d.filled = b.filled /\ d.readPos = b.readPos /\ d.slot = b.slot
  BY <1>9, <1>10, <1>11, <1>12, CommitReaches
<1>14. Tracks(s, d, c + Off(b, e.id), Tail(P), q)
  BY <1>5, <1>11, <1>13, PassTracks
<1>15. At(d, c + Off(b, e.id)) = At(b, c)
  <2>1. At(d, c + Off(b, d.lastcommit)) = At(b, c)
    BY <1>5, <1>12, <1>13, CommitAt
  <2> QED
    BY <1>13, <2>1
<1>16. Retreats(s, d, c + Off(b, e.id), At(trace[s], c), q)
  BY <1>3, <1>11, <1>13, <1>14, <1>15 DEF Retreats
<1>17. Resumes(s, pipe[s], q, ended[s])
  <2>1. e.kind = "real" => ResolvedPc(s, e) = NextPc(s, q)
    BY <1>8 DEF ResolvedPc
  <2>2. e.kind = "pad" => over
    BY <1>4, <1>5, <1>6 DEF Feeds, Ordered
  <2> QED
    BY <1>3, <1>4, <1>7, <1>11, <2>1, <2>2 DEF Resumes
<1>18. Moves(trace, trace', s, d) /\ Moves(retired, retired', s, q)
  <2>1. DOMAIN trace = Streams /\ DOMAIN retired = Streams
    BY Facts
  <2>2. trace' = [trace EXCEPT ![s] = d]
    BY <1>3, <1>7, <1>9
  <2>3. retired' = [retired EXCEPT ![s] = q]
    BY <1>3, <1>7, <1>8
  <2> QED
    BY <2>1, <2>2, <2>3, MovesTo
<1>19. mtExitCondition => mtExitCondition'
  <2>1. Skipped(trace[s], e.id) \in Nat
    BY <1>3, <1>10, <1>12, SkippedNat
  <2>2. PICK n : n = Skipped(trace[s], e.id) + 1
    OBVIOUS
  <2>3. n \in Nat /\ CountCommitted(hwc[s], n) /\ error' = error
    BY <1>7, <2>1, <2>2
  <2> QED
    BY <1>6, <2>3, Counts
<1>20. UNCHANGED <<ended, wrongpath, swcVars, phase, error>>
  BY <1>7
<1> QED
  BY <1>1, <1>2, <1>7, <1>16, <1>17, <1>18, <1>19, <1>20, PathRetires

\* A start-up branch, or a no-op the model retires by itself: the feeder is
\* not told.
LEMMA PathUntold ==
    ASSUME FeedInv, FeedInv', PathInv, NEW s \in Streams, pipe[s] # <<>>, Resolved(s),
           Retire(s), NEW q, Moves(retired, retired', s, q),
           \/ pipe[s][1].kind = "startup" /\ q = retired[s]
           \/ /\ pipe[s][1].kind = "real" /\ q = pipe[s][1].pos
              /\ Trace[s][pipe[s][1].pos].kind = "nop",
           UNCHANGED <<trace, ended, wrongpath, limitVars, swcVars, phase, error>>
    PROVE  OnTrack(s)' /\ Apart(s) /\ RetiresNext(s)
<1>1. PICK c : /\ Feeds(s, trace[s], c, pipe[s], retired[s], ended[s])
               /\ Chain(s, pipe[s], retired[s], mtExitCondition)
               /\ Signals(s)
               /\ ended[s] = FALSE => Stands(s, pipe[s], At(trace[s], c))
               /\ phase[s] = "run" /\ ~running[s] /\ ended[s] = FALSE =>
                     Settled(s, At(trace[s], c))
  BY PathFacts
<1>2. Right(s, pipe[s])
  BY ResolvedIsRight
<1>3. PICK b, P, r, over, mt : /\ b = trace[s] /\ P = pipe[s] /\ r = retired[s]
                               /\ over = ended[s] /\ mt = mtExitCondition
  OBVIOUS
<1>4. Feeds(s, b, c, P, r, over) /\ P # <<>> /\ Chain(s, P, r, mt)
  BY <1>1, <1>3
<1>5. 1 \in DOMAIN P /\ b.fault = "none" /\ b \in Buffers(s)
  BY <1>3, <1>4, Oldest DEF Feeds
<1>6. /\ Leaves(s, b, P, r, Tail(P), q) /\ q < At(b, c)
      /\ Succeeds(s, r, q) /\ ResolvedPc(s, P[1]) = NextPc(s, q)
      /\ P[1].kind \in {"real", "startup"}
  <2>1. CASE P[1].kind = "startup" /\ q = r
    <3>1. Leaves(s, b, P, r, Tail(P), r) /\ r < At(b, c)
      BY <1>4, <2>1, OtherLeaves
    <3>2. P[1].target = NextPc(s, r)
      BY <1>4, <1>5, <2>1 DEF Chain
    <3>3. ResolvedPc(s, P[1]) = P[1].target
      BY <2>1 DEF ResolvedPc
    <3> QED
      BY <2>1, <3>1, <3>2, <3>3 DEF Succeeds
  <2>2. CASE P[1].kind = "real" /\ q = P[1].pos /\ Trace[s][P[1].pos].kind = "nop"
    <3>1. Leaves(s, b, P, r, Tail(P), P[1].pos) /\ P[1].pos < At(b, c)
      BY <1>4, <2>2, NopLeaves
    <3>2. NextOnPath(s, r) = P[1].pos
      BY <1>4, <2>2, RealPasses
    <3>3. ResolvedPc(s, P[1]) = NextPc(s, P[1].pos)
      BY <2>2 DEF ResolvedPc
    <3> QED
      BY <2>2, <3>1, <3>2, <3>3 DEF Succeeds
  <2> QED
    BY <1>3, <2>1, <2>2
<1>7. Tracks(s, b, c, Tail(P), q)
  BY <1>4, <1>6, LeaveTracks
<1>8. Retreats(s, b, c, At(trace[s], c), q)
  BY <1>3, <1>5, <1>6, <1>7 DEF Retreats
<1>9. NextPc(s, q) # 0
  <2>1. q \in Nat /\ q <= Len(Trace[s])
    BY <1>6 DEF Leaves
  <2> QED
    BY <2>1, PcThere
<1>10. Resumes(s, pipe[s], q, ended[s])
  BY <1>3, <1>6, <1>9 DEF Resumes
<1>11. Moves(trace, trace', s, b)
  <2>1. DOMAIN trace = Streams /\ trace' = trace
    BY Facts
  <2> QED
    BY <1>3, <2>1, Rests
<1>12. mtExitCondition => mtExitCondition'
  BY DEF limitVars
<1>13. UNCHANGED <<ended, wrongpath, swcVars, phase, error>>
  OBVIOUS
<1> QED
  BY <1>1, <1>2, <1>8, <1>10, <1>11, <1>12, <1>13, PathRetires

LEMMA PathCommitSwitch ==
    ASSUME FeedInv, FeedInv', PathInv, NEW s \in Streams, pipe[s] # <<>>,
           CommitSwitch(s, Head(pipe[s])), ended' = ended
    PROVE  OnTrack(s)' /\ Apart(s) /\ RetiresNext(s)
<1>1. PICK c : /\ Feeds(s, trace[s], c, pipe[s], retired[s], ended[s])
               /\ Chain(s, pipe[s], retired[s], mtExitCondition)
               /\ Signals(s)
               /\ ended[s] = FALSE => Stands(s, pipe[s], At(trace[s], c))
               /\ phase[s] = "warmup" => Warm(s, trace[s], c) /\ ~running[s]
               /\ phase[s] = "run" /\ ~running[s] /\ ended[s] = FALSE =>
                     Settled(s, At(trace[s], c))
  BY PathFacts
<1>2. PICK b, P, r, over, mt : /\ b = trace[s] /\ P = pipe[s] /\ r = retired[s]
                               /\ over = ended[s] /\ mt = mtExitCondition
  OBVIOUS
<1>3. Feeds(s, b, c, P, r, over) /\ P # <<>> /\ Chain(s, P, r, mt) /\ over \in BOOLEAN
  BY <1>1, <1>2, Facts
<1>4. Head(pipe[s]) = P[1] /\ 1 \in DOMAIN P /\ phase[s] = "run"
  BY <1>2, Oldest
<1>5. /\ P[1].kind = "switch"
      /\ hwc' = [hwc EXCEPT ![s] = NoHWC]
      /\ running' = [running EXCEPT ![s] = FALSE]
      /\ switching' = [switching EXCEPT ![s] = FALSE]
      /\ phase' = [phase EXCEPT ![s] = IF ended[s] THEN "gone" ELSE @]
      /\ pipe' = [pipe EXCEPT ![s] = <<>>]
      /\ resteer' = [resteer EXCEPT ![s] = AnyPc]
      /\ UNCHANGED <<trace, wrongpath, limitVars, retired, error>>
  BY <1>2, <1>4 DEF CommitSwitch
<1>6. /\ DOMAIN pipe = Streams /\ DOMAIN resteer = Streams /\ DOMAIN running = Streams
      /\ DOMAIN switching = Streams /\ DOMAIN phase = Streams
  BY DEF FeedInv, Flags, Domains
<1>7. /\ running'[s] = FALSE /\ switching'[s] = FALSE /\ pipe'[s] = <<>>
      /\ resteer'[s] = AnyPc
  BY <1>5, <1>6
<1>8. phase'[s] = "gone" \/ (phase'[s] = "run" /\ ended[s] = FALSE)
  BY <1>2, <1>3, <1>4, <1>5, <1>6
<1>9. \A t \in Streams : t # s =>
         /\ running'[t] = running[t] /\ switching'[t] = switching[t] /\ phase'[t] = phase[t]
         /\ pipe'[t] = pipe[t] /\ resteer'[t] = resteer[t]
  BY <1>5, <1>6
<1>10. trace' = trace /\ wrongpath' = wrongpath /\ retired' = retired /\ error' = error
       /\ mtExitCondition' = mtExitCondition
  BY <1>5 DEF limitVars
<1>11. Apart(s)
  BY <1>9, <1>10 DEF Apart
<1>12. RetiresNext(s)
  BY <1>10 DEF RetiresNext, Succeeds
<1>13. P \in Seq(Instr(s)) /\ DOMAIN P \subseteq Nat
  BY <1>3, FeedsFacts
<1>14. ASSUME NEW j \in DOMAIN P PROVE P[j].kind = "switch"
  <2>1. CASE j = 1
    BY <1>5, <2>1
  <2>2. CASE j # 1
    <3>1. j \in Nat /\ j >= 1
      BY <1>13, <1>14, Kindly
    <3>2. 1 < j
      BY <2>2, <3>1
    <3> QED
      BY <1>3, <1>4, <1>5, <1>14, <3>2 DEF Chain
  <2> QED
    BY <2>1, <2>2
<1>15. Reals(P) = {}
  BY <1>14 DEF Reals
<1>16. Leaves(s, b, P, r, <<>>, r) /\ r < At(b, c)
  BY <1>3, <1>15, AllLeave
<1>17. Tracks(s, b, c, <<>>, r)
  BY <1>3, <1>16, LeaveTracks
<1>18. Signals(s)'
  <2>1. wrongpath[s] => \E i \in DOMAIN P : P[i].kind = "off"
    BY <1>1, <1>2 DEF Signals
  <2>2. ~wrongpath'[s]
    BY <1>10, <1>14, <2>1
  <2>3. DOMAIN pipe'[s] = {}
    <3>1. DOMAIN << >> = {}
      OBVIOUS
    <3> QED
      BY <1>7, <3>1
  <2>4. resteer'[s] # 0
    BY <1>7 DEF AnyPc
  <2> QED
    BY <1>7, <2>2, <2>3, <2>4 DEF Signals
<1>19. Chain(s, pipe'[s], retired'[s], mtExitCondition')
  <2>1. DOMAIN << >> = 1 .. 0
    OBVIOUS
  <2>2. Chain(s, <<>>, r, mt)
    <3>1. \A j \in DOMAIN << >> : j \in DOMAIN P /\ << >>[j] = P[j]
      BY <2>1
    <3> QED
      BY <1>3, <2>1, <3>1, ChainFront
  <2> QED
    BY <1>2, <1>7, <1>10, <2>2
<1>20. Stands(s, pipe'[s], At(trace'[s], c))
  <2>1. << >> \in Seq(Instr(s)) /\ \A i \in DOMAIN << >> : << >>[i].kind # "switch"
    OBVIOUS
  <2>2. PICK k : k = At(trace'[s], c)
    OBVIOUS
  <2>3. Stands(s, << >>, k)
    BY <2>1, StandsNone
  <2> QED
    BY <1>7, <2>2, <2>3
<1>21. phase'[s] # "warmup"
  BY <1>8
<1>22. phase'[s] = "run" /\ ~running'[s] /\ ended'[s] = FALSE => Settled(s, At(trace'[s], c))
  <2> SUFFICES ASSUME ended[s] = FALSE PROVE Settled(s, At(trace[s], c))
    BY <1>10
  <2>1. Stands(s, P, At(trace[s], c))
    BY <1>1, <1>2
  <2> QED
    BY <1>3, <1>5, <2>1 DEF Stands
<1>23. trace'[s].fault = "none" /\ Tracks(s, trace'[s], c, pipe'[s], retired'[s])
  <2>1. b.fault = "none"
    BY <1>3 DEF Feeds
  <2> QED
    BY <1>2, <1>7, <1>10, <1>17, <2>1
<1>24. OnTrack(s)'
  BY <1>18, <1>19, <1>20, <1>21, <1>22, <1>23, Arrives
<1> QED
  BY <1>11, <1>12, <1>24

LEMMA PathCommit ==
    ASSUME FeedInv, FeedInv', PathInv, NEW s \in Streams, Commit(s)
    PROVE  OnTrack(s)' /\ Apart(s) /\ RetiresNext(s)
<1>1. /\ pipe[s] # <<>> /\ Resolved(s) /\ ended' = ended
      /\ \/ CommitTrace(s, Head(pipe[s]))
         \/ CommitStartup(s, Head(pipe[s]))
         \/ CommitSwitch(s, Head(pipe[s]))
         \/ CommitOffPath(s, Head(pipe[s]))
  BY DEF Commit
<1>2. Head(pipe[s]) = pipe[s][1] /\ 1 \in DOMAIN pipe[s]
  BY <1>1, Oldest
<1>3. CASE CommitTrace(s, Head(pipe[s]))
  BY <1>1, <1>3, PathCommitTrace
<1>4. CASE CommitStartup(s, Head(pipe[s]))
  <2>1. /\ pipe[s][1].kind = "startup" /\ Retire(s)
        /\ UNCHANGED <<trace, wrongpath, limitVars, swcVars, phase, retired, error>>
    BY <1>2, <1>4 DEF CommitStartup
  <2>2. Moves(retired, retired', s, retired[s])
    <3>1. DOMAIN retired = Streams /\ retired' = retired
      BY <2>1, Facts
    <3> QED
      BY <3>1, Rests
  <2>3. UNCHANGED <<trace, ended, wrongpath, limitVars, swcVars, phase, error>>
    BY <1>1, <2>1
  <2>4. PICK q : q = retired[s]
    OBVIOUS
  <2> QED
    BY <1>1, <2>1, <2>2, <2>3, <2>4, PathUntold
<1>5. CASE CommitSwitch(s, Head(pipe[s]))
  BY <1>1, <1>5, PathCommitSwitch
<1>6. CASE CommitOffPath(s, Head(pipe[s]))
  <2>1. pipe[s][1].kind = "off"
    BY <1>2, <1>6 DEF CommitOffPath
  <2>2. Chain(s, pipe[s], retired[s], mtExitCondition)
    BY PathFacts
  <2> QED
    BY <1>2, <2>1, <2>2 DEF Chain
<1> QED
  BY <1>1, <1>3, <1>4, <1>5, <1>6

LEMMA PathDropNop ==
    ASSUME FeedInv, FeedInv', PathInv, NEW s \in Streams, DropNop(s)
    PROVE  OnTrack(s)' /\ Apart(s) /\ RetiresNext(s)
<1>1. /\ pipe[s] # <<>> /\ Resolved(s) /\ Head(pipe[s]).kind = "real"
      /\ Trace[s][Head(pipe[s]).pos].kind = "nop" /\ Retire(s)
      /\ retired' = [retired EXCEPT ![s] = Head(pipe[s]).pos]
      /\ UNCHANGED <<trace, ended, wrongpath, limitVars, swcVars, phase, error>>
  BY DEF DropNop
<1>2. Head(pipe[s]) = pipe[s][1]
  BY <1>1, Oldest
<1>3. PICK q : q = pipe[s][1].pos
  OBVIOUS
<1>4. Moves(retired, retired', s, q)
  <2>1. DOMAIN retired = Streams /\ retired' = [retired EXCEPT ![s] = q]
    BY <1>1, <1>2, <1>3, Facts
  <2> QED
    BY <2>1, MovesTo
<1> QED
  BY <1>1, <1>2, <1>3, <1>4, PathUntold

-----------------------------------------------------------------------------
(* Kill.                                                                   *)

\* A start-up branch killed because what came after it has another address:
\* nothing of the trace is in flight.
LEMMA StartupAlone ==
    ASSUME NEW s \in Streams, NEW b, NEW c, NEW P, NEW r, NEW over, Feeds(s, b, c, P, r, over),
           NEW mt, Chain(s, P, r, mt), NEW i \in DOMAIN P, P[i].kind = "startup",
           \A j \in DOMAIN P \cap {i + 1} : ResolvedPc(s, P[i]) # P[j].pc
    PROVE  \A j \in Reals(P) : ~(i < j)
<1>1. /\ P \in Seq(Instr(s)) /\ Len(P) \in Nat /\ DOMAIN P = 1 .. Len(P)
      /\ DOMAIN P \subseteq Nat /\ Reals(P) \subseteq DOMAIN P
  BY FeedsFacts
<1>2. i = 1 /\ P[1].target = NextPc(s, r)
  BY DEF Chain
<1>3. ResolvedPc(s, P[1]) = NextPc(s, r)
  BY <1>2 DEF ResolvedPc
<1> SUFFICES ASSUME NEW j \in Reals(P), 1 < j PROVE FALSE
  BY <1>2
<1>4. 2 \in DOMAIN P /\ j \in DOMAIN P /\ P[j].kind = "real" /\ j \in Nat
  BY <1>1 DEF Reals
<1>5. P[2].kind \in {"real", "off", "startup", "switch", "pad"}
  BY <1>1, <1>4, Kindly
<1>6. P[2].pc # NextPc(s, r)
  BY <1>2, <1>3, <1>4
<1>7. CASE P[2].kind = "real"
  <2>1. 2 \in Reals(P)
    BY <1>4, <1>7 DEF Reals
  <2>2. \A k \in Reals(P) : ~(k < 2)
    <3> SUFFICES ASSUME NEW k \in Reals(P), k < 2 PROVE FALSE
      OBVIOUS
    <3>1. k = 1
      BY <1>1
    <3> QED
      BY <1>2, <3>1 DEF Reals
  <2>3. Line(s, P, r, At(b, c))
    BY LineIs
  <2>4. NextPc(s, r) = Trace[s][P[2].pos].pc
    BY <1>1, <2>1, <2>2, <2>3, LineFirst
  <2>5. P[2].pc = Trace[s][P[2].pos].pc
    BY <2>1 DEF Feeds, Tracks, Proper
  <2> QED
    BY <1>6, <2>4, <2>5
<1>8. CASE P[2].kind # "real"
  <2>1. 2 < j
    BY <1>4, <1>8
  <2>2. P[2].kind # "startup"
    BY <1>4 DEF Chain
  <2>3. P[2].kind # "off"
    BY <1>4, <2>1 DEF Chain, Bare
  <2>4. P[2].kind \notin {"pad", "switch"}
    BY <1>4, <2>1 DEF Chain
  <2> QED
    BY <1>5, <1>8, <2>2, <2>3, <2>4
<1> QED
  BY <1>7, <1>8

\* Kill as the model calls it on the instances the path is kept on.
Killing(s, i, next, me) ==
    /\ i \in DOMAIN pipe[s]
    /\ pipe[s][i].kind \in {"real", "startup"}
    /\ next => ~me
    /\ me \/ next
    /\ Kill(s, i, next, me)
    /\ pipe[s][i].kind = "startup" =>
          ~me /\ \A j \in DOMAIN pipe[s] \cap {i + 1} :
                    ResolvedPc(s, pipe[s][i]) # pipe[s][j].pc

LEMMA PathKill ==
    ASSUME FeedInv, FeedInv', PathInv, NEW s \in Streams, NEW i,
           NEW next \in BOOLEAN, NEW me \in BOOLEAN, Killing(s, i, next, me)
    PROVE  OnTrack(s)' /\ Apart(s) /\ RetiresNext(s)
<1>1. PICK c : /\ Feeds(s, trace[s], c, pipe[s], retired[s], ended[s])
               /\ Chain(s, pipe[s], retired[s], mtExitCondition)
               /\ Signals(s)
  BY PathFacts
<1>2. PICK b, P, r, over, mt : /\ b = trace[s] /\ P = pipe[s] /\ r = retired[s]
                               /\ over = ended[s] /\ mt = mtExitCondition
  OBVIOUS
<1>3. Feeds(s, b, c, P, r, over) /\ Chain(s, P, r, mt)
  BY <1>1, <1>2
<1>4. PICK e : e = P[i]
  OBVIOUS
<1>5. PICK m : m = IF me THEN i - 1 ELSE i
  OBVIOUS
<1>6. PICK Q : Q = SubSeq(P, 1, m)
  OBVIOUS
<1>7. PICK g : g = KillBuffer(s, b, e, next)
  OBVIOUS
<1>8. /\ i \in DOMAIN P
      /\ e.kind \in {"real", "startup"} /\ (next => ~me) /\ (me => ~next) /\ (me \/ next)
      /\ e.kind = "startup" => /\ ~me
                               /\ \A j \in DOMAIN P \cap {i + 1} : ResolvedPc(s, e) # P[j].pc
  BY <1>2, <1>4 DEF Killing
<1>9. /\ trace' = [trace EXCEPT ![s] = KillBuffer(s, @, pipe[s][i], next)]
      /\ wrongpath' = [wrongpath EXCEPT ![s] = @ /\ ~ClearsWrongpath(pipe[s][i])]
      /\ pipe' = [pipe EXCEPT ![s] = SubSeq(@, 1, IF me THEN i - 1 ELSE i)]
      /\ resteer' = [resteer EXCEPT ![s] = IF next THEN ResolvedPc(s, pipe[s][i])
                                           ELSE pipe[s][i].pc]
      /\ UNCHANGED <<ended, limitVars, swcVars, phase, retired, error>>
  BY DEF Killing, Kill
<1>10. /\ DOMAIN trace = Streams /\ DOMAIN pipe = Streams /\ DOMAIN resteer = Streams
       /\ wrongpath \in [Streams -> BOOLEAN]
       /\ phase[s] # "run" => pipe[s] = <<>>
  BY DEF FeedInv, Domains, Flags, Status
<1>11. trace'[s] = g /\ \A t \in Streams : t # s => trace'[t] = trace[t]
  BY <1>2, <1>4, <1>7, <1>9, <1>10
<1>12. pipe'[s] = Q /\ \A t \in Streams : t # s => pipe'[t] = pipe[t]
  BY <1>2, <1>5, <1>6, <1>9, <1>10
<1>13. /\ resteer'[s] = IF next THEN ResolvedPc(s, e) ELSE e.pc
       /\ \A t \in Streams : t # s => resteer'[t] = resteer[t]
  BY <1>2, <1>4, <1>9, <1>10
<1>14. /\ ended' = ended /\ running' = running /\ switching' = switching /\ phase' = phase
       /\ retired' = retired /\ error' = error /\ mtExitCondition' = mtExitCondition
  BY <1>9 DEF limitVars, swcVars
<1>15. /\ ClearsWrongpath(e) => ~wrongpath'[s]
       /\ \A t \in Streams : t # s => wrongpath'[t] = wrongpath[t]
  <2>1. (wrongpath[s] /\ ~ClearsWrongpath(e)) \in BOOLEAN
    OBVIOUS
  <2>2. PICK w \in BOOLEAN : w = (wrongpath[s] /\ ~ClearsWrongpath(e))
    BY <2>1
  <2>3. wrongpath' = [wrongpath EXCEPT ![s] = w]
    BY <1>2, <1>4, <1>9, <2>2
  <2>4. wrongpath'[s] = w /\ \A t \in Streams : t # s => wrongpath'[t] = wrongpath[t]
    BY <1>10, <2>3
  <2> QED
    BY <2>2, <2>4
<1>16. Apart(s)
  BY <1>11, <1>12, <1>13, <1>14, <1>15 DEF Apart
<1>17. RetiresNext(s)
  BY <1>14 DEF RetiresNext, Succeeds
<1>18. Undoes(s, b, P, i, next, me, m, Q, g)
  BY <1>4, <1>5, <1>6, <1>7, <1>8 DEF Undoes
<1>19. /\ b \in Buffers(s) /\ Ordered(s, P, over) /\ Within(b, P, over) /\ Held(b, P)
       /\ b.fault = "none"
  BY <1>3 DEF Feeds
<1>20. /\ g.fault = "none" /\ m \in Nat /\ m <= i /\ i \in Nat /\ (~me => m = i)
       /\ (me => m = i - 1) /\ Q \in Seq(Instr(s)) /\ DOMAIN Q = 1 .. m
       /\ \A j \in DOMAIN Q : j \in DOMAIN P /\ Q[j] = P[j]
  <2>1. /\ g \in Buffers(s) /\ g.fault = b.fault /\ g.slot = b.slot
        /\ Limit(g) = Limit(b) /\ g.lastcommit = b.lastcommit /\ g.readPos = b.readPos
        /\ m \in Nat /\ m <= i /\ i \in Nat /\ (~me => m = i) /\ (me => m = i - 1)
        /\ DOMAIN Q = 1 .. m
        /\ \A j \in DOMAIN Q : j \in DOMAIN P /\ Q[j] = P[j]
    BY <1>18, <1>19, KillKeeps
  <2>2. P \in Seq(Instr(s)) /\ i \in 1 .. Len(P) /\ Len(P) \in Nat
    BY <1>8, <1>19 DEF Ordered
  <2>3. m <= Len(P)
    BY <2>1, <2>2
  <2>4. Q \in Seq(Instr(s))
    BY <1>6, <2>1, <2>2, <2>3, FrontIsPart
  <2> QED
    BY <1>19, <2>1, <2>4
<1>21. Tracks(s, g, c, Q, r)
  <2>1. CASE e.kind = "real"
    BY <1>3, <1>4, <1>8, <1>18, <2>1, KillRealTracks
  <2>2. CASE e.kind = "startup"
    <3>1. \A j \in Reals(P) : ~(i < j)
      BY <1>3, <1>4, <1>8, <2>2, StartupAlone
    <3> QED
      BY <1>3, <1>4, <1>8, <1>18, <2>2, <3>1, KillStartupTracks
  <2> QED
    BY <1>8, <2>1, <2>2
<1>22. Chain(s, Q, r, mt)
  BY <1>3, <1>20, ChainFront
<1>23. P \in Seq(Instr(s)) /\ DOMAIN P \subseteq Nat /\ r \in Nat /\ r <= Len(Trace[s])
  BY <1>3, FeedsFacts DEF Feeds, Tracks
<1>24. Bare(P[i])
  BY <1>4, <1>8 DEF Bare
<1>25. ASSUME NEW j \in DOMAIN Q PROVE Q[j].kind # "off" /\ Q[j].kind # "switch"
  <2>1. j \in DOMAIN P /\ Q[j] = P[j] /\ j <= i
    BY <1>20, <1>25
  <2> QED
    BY <1>3, <1>8, <1>23, <1>24, <2>1, BareBefore
<1>26. ClearsWrongpath(e)
  <2>1. Typed(s, e)
    BY <1>4, <1>8, <1>19 DEF Ordered
  <2>2. e.kind = "real" => e.id \in Slots
    BY <2>1 DEF Typed, IsPlaced
  <2>3. e.kind = "startup" => e.id # WrongpathId
    BY <1>3, <1>4, <1>8 DEF Chain
  <2> QED
    BY <1>8, <2>2, <2>3, MadeIds DEF ClearsWrongpath
<1>27. running[s]
  <2>1. P[i].kind # "switch"
    BY <1>4, <1>8
  <2> QED
    BY <1>1, <1>2, <1>8, <2>1 DEF Signals
<1>28. e.kind = "real" => /\ i \in Reals(P) /\ e.pc = Trace[s][e.pos].pc
                          /\ e.pos \in 1 .. Len(Trace[s]) /\ e.pos \in Nat
                          /\ e.pos <= Len(Trace[s])
  <2> SUFFICES ASSUME e.kind = "real"
               PROVE  /\ i \in Reals(P) /\ e.pc = Trace[s][e.pos].pc
                      /\ e.pos \in 1 .. Len(Trace[s]) /\ e.pos \in Nat
                      /\ e.pos <= Len(Trace[s])
    OBVIOUS
  <2>1. i \in Reals(P)
    BY <1>4, <1>8 DEF Reals
  <2>2. e.pc = Trace[s][e.pos].pc
    BY <1>3, <1>4, <2>1 DEF Feeds, Tracks, Proper
  <2> QED
    BY <1>3, <1>4, <2>1, <2>2, RealPlace
<1>29. resteer'[s] # 0
  <2>1. CASE next /\ e.kind = "real"
    <3>1. NextPc(s, e.pos) # 0
      BY <1>28, <2>1, PcThere
    <3> QED
      BY <1>13, <2>1, <3>1 DEF ResolvedPc
  <2>2. CASE next /\ e.kind = "startup"
    <3>1. NextPc(s, r) # 0
      BY <1>23, PcThere
    <3>2. e.target = NextPc(s, r)
      BY <1>3, <1>4, <1>8, <2>2 DEF Chain
    <3> QED
      BY <1>13, <2>2, <3>1, <3>2 DEF ResolvedPc
  <2>3. CASE ~next
    <3>1. e.kind = "real"
      BY <1>8, <2>3
    <3>2. Trace[s][e.pos].pc \in Nat \ {0}
      BY <1>28, <3>1, Places
    <3> QED
      BY <1>13, <1>28, <2>3, <3>1, <3>2
  <2> QED
    BY <1>8, <2>1, <2>2, <2>3
<1>30. Q = <<>> => resteer'[s] = NextPc(s, r)
  <2> SUFFICES ASSUME Q = <<>> PROVE resteer'[s] = NextPc(s, r)
    OBVIOUS
  <2>1. DOMAIN Q = {}
    <3>1. DOMAIN << >> = {}
      OBVIOUS
    <3> QED
      BY <3>1
  <2>2. m = 0
    BY <1>20, <2>1
  <2>3. i >= 1
    BY <1>8, <1>23, Kindly
  <2>4. me /\ i = 1
    BY <1>20, <2>2, <2>3
  <2>5. ~next /\ e.kind = "real"
    BY <1>8, <2>4
  <2>6. \A j \in Reals(P) : ~(j < 1)
    <3>1. \A j \in DOMAIN P : j >= 1 /\ j \in Nat
      BY <1>23, Kindly
    <3> QED
      BY <3>1 DEF Reals
  <2>7. Line(s, P, r, At(b, c))
    BY <1>3, LineIs
  <2>8. NextPc(s, r) = Trace[s][P[1].pos].pc
    BY <1>23, <1>28, <2>4, <2>5, <2>6, <2>7, LineFirst
  <2> QED
    BY <1>4, <1>13, <1>28, <2>4, <2>5, <2>8
<1>31. Signals(s)'
  <2>1. ~wrongpath'[s] /\ running'[s]
    BY <1>14, <1>15, <1>26, <1>27
  <2>2. \A j \in DOMAIN pipe'[s] : pipe'[s][j].kind # "off" /\ pipe'[s][j].kind # "switch"
    BY <1>12, <1>25
  <2>3. pipe'[s] = <<>> => resteer'[s] = NextPc(s, retired'[s])
    BY <1>2, <1>12, <1>14, <1>30
  <2> QED
    BY <1>29, <2>1, <2>2, <2>3 DEF Signals
<1>32. Chain(s, pipe'[s], retired'[s], mtExitCondition')
  BY <1>2, <1>12, <1>14, <1>22
<1>33. Stands(s, pipe'[s], At(trace'[s], c))
  <2>1. PICK k : k = At(trace'[s], c)
    OBVIOUS
  <2>2. Stands(s, Q, k)
    BY <1>20, <1>25, StandsNone
  <2> QED
    BY <1>12, <2>1, <2>2
<1>34. phase'[s] = "run"
  <2>1. pipe[s] # <<>>
    BY <1>2, <1>8
  <2> QED
    BY <1>10, <1>14, <2>1
<1>35. trace'[s].fault = "none" /\ Tracks(s, trace'[s], c, pipe'[s], retired'[s])
  BY <1>2, <1>11, <1>12, <1>14, <1>20, <1>21
<1>36. OnTrack(s)'
  BY <1>14, <1>27, <1>31, <1>32, <1>33, <1>34, <1>35, Arrives
<1> QED
  BY <1>16, <1>17, <1>36

-----------------------------------------------------------------------------
(* Every step.                                                             *)

LEMMA PathMoved ==
    ASSUME PathInv, NEW s \in Streams, OnTrack(s)', Apart(s), RetiresNext(s)
    PROVE  PathInv' /\ \A t \in Streams : RetiresNext(t)
<1>1. PathInv'
  BY PathFramed
<1>2. ASSUME NEW t \in Streams, t # s PROVE RetiresNext(t)
  BY <1>2 DEF Apart, RetiresNext, Succeeds
<1> QED
  BY <1>1, <1>2

LEMMA PathUnchanged ==
    ASSUME PathInv, UNCHANGED vars
    PROVE  PathInv' /\ \A t \in Streams : RetiresNext(t)
<1>1. /\ trace' = trace /\ ended' = ended /\ wrongpath' = wrongpath /\ running' = running
      /\ switching' = switching /\ phase' = phase /\ pipe' = pipe /\ resteer' = resteer
      /\ retired' = retired /\ error' = error /\ mtExitCondition' = mtExitCondition
  BY DEF vars, limitVars, swcVars
<1>2. ASSUME NEW t \in Streams PROVE OnTrack(t)' /\ RetiresNext(t)
  <2>1. PICK c : Follows(t, c)
    BY DEF PathInv, OnTrack
  <2>2. Signals(t)'
    BY <1>1, <2>1 DEF Follows, Signals
  <2>3. Follows(t, c)'
    BY <1>1, <2>1, <2>2 DEF Follows
  <2>4. RetiresNext(t)
    BY <1>1 DEF RetiresNext, Succeeds
  <2> QED
    BY <2>3, <2>4 DEF OnTrack
<1> QED
  BY <1>1, <1>2 DEF PathInv

LEMMA PathNext ==
    ASSUME Regular, FeedInv, FeedInv', PathInv, [Next]_vars
    PROVE  PathInv' /\ \A s \in Streams : RetiresNext(s)
<1>1. CASE UNCHANGED vars
  BY <1>1, PathUnchanged
<1>2. CASE Next
  <2> DEFINE Goal == PathInv' /\ \A s \in Streams : RetiresNext(s)
  <2>1. ASSUME NEW s \in Streams, NEW n \in SkipCounts, Skip(s, n) PROVE Goal
    BY <2>1 DEF Regular
  <2>2. ASSUME NEW s \in Streams, WarmUp(s) PROVE Goal
    BY <2>2, PathWarmUp, PathMoved
  <2>3. ASSUME NEW s \in Streams, WarmUpDone(s) PROVE Goal
    BY <2>3, PathWarmUpDone, PathMoved
  <2>4. ASSUME NEW s \in Streams, NEW h \in HWC, Schedule(s, h) PROVE Goal
    BY <2>4, PathSchedule, PathMoved
  <2>5. ASSUME NEW s \in Streams, RequestSwitch(s) PROVE Goal
    BY <2>5, PathRequestSwitch, PathMoved
  <2>6. ASSUME NEW s \in Streams, Fetch(s) PROVE Goal
    BY <2>6, PathFetch, PathMoved
  <2>7. ASSUME NEW s \in Streams, Commit(s) PROVE Goal
    BY <2>7, PathCommit, PathMoved
  <2>8. ASSUME NEW s \in Streams, DropNop(s) PROVE Goal
    BY <2>8, PathDropNop, PathMoved
  <2>9. ASSUME NEW s \in Streams, Mispredict(s) PROVE Goal
    <3>1. PICK i \in DOMAIN pipe[s] :
             /\ pipe[s][i].kind \in {"real", "startup"}
             /\ \A j \in DOMAIN pipe[s] \cap {i + 1} :
                    ResolvedPc(s, pipe[s][i]) # pipe[s][j].pc
             /\ Kill(s, i, TRUE, FALSE)
      BY <2>9 DEF Mispredict
    <3>2. Killing(s, i, TRUE, FALSE)
      BY <3>1 DEF Killing
    <3> QED
      BY <3>2, PathKill, PathMoved
  <2>10. ASSUME NEW s \in Streams, Refetch(s) PROVE Goal
    <3>1. PICK i \in DOMAIN pipe[s] : pipe[s][i].kind = "real" /\ Kill(s, i, FALSE, TRUE)
      BY <2>10 DEF Refetch
    <3>2. Killing(s, i, FALSE, TRUE)
      BY <3>1 DEF Killing
    <3> QED
      BY <3>2, PathKill, PathMoved
  <2>11. ASSUME NEW s \in Streams, PalFlow(s) PROVE Goal
    BY <2>11 DEF PalFlow, Regular
  <2>12. CASE Finished
    BY <2>12, PathUnchanged DEF Finished
  <2> QED
    BY <1>2, <2>1, <2>2, <2>3, <2>4, <2>5, <2>6, <2>7, <2>8, <2>9, <2>10, <2>11, <2>12
       DEF Next
<1> QED
  BY <1>1, <1>2

-----------------------------------------------------------------------------
(* What the invariant says of the feeder.                                  *)

LEMMA PathIsFaithful ==
    ASSUME FeedInv, PathInv
    PROVE  PathFaithful
<1> SUFFICES ASSUME NEW s \in Streams, NEW i \in 1 .. Len(pipe[s]) - 1,
                    pipe[s][i].kind = "real"
             PROVE  LET d == pipe[s][i]
                        e == pipe[s][i + 1]
                        q == NextOnPath(s, d.pos)
                    IN  /\ e.kind = "real" => e.pos = q
                        /\ e.kind = "off" => q # EofPos(s) /\ e.pc # NextPc(s, d.pos)
                        /\ e.kind = "pad" => q = EofPos(s) \/ mtExitCondition
  BY DEF PathFaithful
<1>1. PICK c : /\ Feeds(s, trace[s], c, pipe[s], retired[s], ended[s])
               /\ Chain(s, pipe[s], retired[s], mtExitCondition)
  BY PathFacts
<1>2. PICK b, P, r, over, mt : /\ b = trace[s] /\ P = pipe[s] /\ r = retired[s]
                               /\ over = ended[s] /\ mt = mtExitCondition
  OBVIOUS
<1>3. Feeds(s, b, c, P, r, over) /\ Chain(s, P, r, mt) /\ P[i].kind = "real"
  BY <1>1, <1>2
<1>4. /\ DOMAIN P = 1 .. Len(P) /\ Len(P) \in Nat /\ DOMAIN P \subseteq Nat
  BY <1>3, FeedsFacts
<1>5. i \in DOMAIN P /\ i + 1 \in DOMAIN P /\ i \in Nat
  BY <1>2, <1>4
<1>6. PICK d, e, q : d = P[i] /\ e = P[i + 1] /\ q = NextOnPath(s, d.pos)
  OBVIOUS
<1>7. i \in Reals(P)
  BY <1>3, <1>5 DEF Reals
<1>8. ASSUME e.kind = "real" PROVE e.pos = q
  <2>1. i + 1 \in Reals(P)
    BY <1>5, <1>6, <1>8 DEF Reals
  <2>2. \A j \in Reals(P) : ~(i < j /\ j < i + 1)
    <3>1. \A x, y \in Nat : ~(x < y /\ y < x + 1)
      OBVIOUS
    <3> QED
      BY <1>4, <1>5, <3>1 DEF Reals
  <2>3. Line(s, P, r, At(b, c))
    BY <1>3, LineIs
  <2>4. i < i + 1
    BY <1>5
  <2>5. NextOnPath(s, P[i].pos) = P[i + 1].pos
    BY <1>4, <1>7, <2>1, <2>2, <2>3, <2>4, LineNext
  <2> QED
    BY <1>6, <2>5
<1>9. Joins(s, d, e, mt)
  BY <1>3, <1>5, <1>6 DEF Chain
<1>10. d.kind = "real"
  BY <1>3, <1>6
<1>11. ASSUME e.kind = "off" PROVE q # EofPos(s) /\ e.pc # NextPc(s, d.pos)
  <2>1. ResolvedPc(s, d) = NextPc(s, d.pos)
    BY <1>10 DEF ResolvedPc
  <2>2. ResolvedPc(s, d) \notin {AnyPc, e.pc}
    BY <1>9, <1>10, <1>11 DEF Joins, Bare
  <2>3. q = EofPos(s) => NextPc(s, d.pos) = AnyPc
    BY <1>6 DEF NextPc
  <2> QED
    BY <2>1, <2>2, <2>3
<1>12. e.kind = "pad" => q = EofPos(s) \/ mt
  BY <1>6, <1>9, <1>10 DEF Joins
<1> QED
  BY <1>2, <1>6, <1>8, <1>11, <1>12

LEMMA PathLosesNothing ==
    ASSUME FeedInv, PathInv
    PROVE  NothingLost
<1> SUFFICES ASSUME NEW s \in Streams, NEW p \in retired[s] + 1 .. Inst(trace[s]).pos - 1,
                    ~IsOrphan(s, p)
             PROVE  \E i \in DOMAIN pipe[s] : pipe[s][i].pos = p
  BY DEF NothingLost
<1>1. PICK c : Feeds(s, trace[s], c, pipe[s], retired[s], ended[s])
  BY PathFacts
<1>2. PICK b, P, r, over : b = trace[s] /\ P = pipe[s] /\ r = retired[s] /\ over = ended[s]
  OBVIOUS
<1>3. Feeds(s, b, c, P, r, over)
  BY <1>1, <1>2
<1>4. /\ r \in Nat /\ Len(Trace[s]) \in Nat /\ EofPos(s) = Len(Trace[s]) + 1
      /\ At(b, c) \in Nat
  BY <1>3, FeedsFacts
<1>5. PICK v : v = Inst(b).pos
  OBVIOUS
<1>6. v \in Nat /\ v <= EofPos(s)
  <2>1. Inst(b).pos \in Positions(s)
    <3>1. b \in Buffers(s)
      BY <1>3, FeedsFacts
    <3>2. b.head \in Slots /\ b.slot[b.head].pos \in Positions(s)
      BY <3>1 DEF Buffers
    <3> QED
      BY <3>2 DEF Inst
  <2> QED
    BY <1>5, <2>1, Places
<1>7. p \in Nat /\ r < p /\ p < v
  BY <1>2, <1>4, <1>5, <1>6
<1>8. p < At(b, c) /\ p <= Len(Trace[s])
  <2>1. CASE At(b, c) <= Len(Trace[s])
    <3>1. v = At(b, c)
      BY <1>3, <1>5, <2>1, HeadAt
    <3> QED
      BY <1>4, <1>7, <2>1, <3>1
  <2>2. CASE ~(At(b, c) <= Len(Trace[s]))
    BY <1>4, <1>6, <1>7, <2>2
  <2> QED
    BY <2>1, <2>2
<1>9. Line(s, P, r, At(b, c))
  BY <1>3, LineIs
<1>10. PICK j \in Reals(P) : P[j].pos = p
  BY <1>7, <1>8, <1>9 DEF Line
<1> QED
  BY <1>2, <1>10 DEF Reals

LEMMA PathStartup ==
    ASSUME FeedInv, PathInv
    PROVE  StartupOnPath
<1> SUFFICES ASSUME NEW s \in Streams, pipe[s] # <<>>, pipe[s][1].kind = "startup"
             PROVE  pipe[s][1].target = Trace[s][NextOnPath(s, retired[s])].pc
  BY DEF StartupOnPath
<1>1. Chain(s, pipe[s], retired[s], mtExitCondition)
  BY PathFacts
<1>2. 1 \in DOMAIN pipe[s]
  BY Oldest
<1>3. NextOnPath(s, retired[s]) # EofPos(s) /\ pipe[s][1].target = NextPc(s, retired[s])
  BY <1>1, <1>2 DEF Chain
<1> QED
  BY <1>3 DEF NextPc

LEMMA PathAlways == ASSUME Regular PROVE Spec => []PathInv
<1>1. Init => PathInv
  BY PathInit
<1>2. FeedInv /\ FeedInv' /\ PathInv /\ [Next]_vars => PathInv'
  BY PathNext
<1> QED
  BY <1>1, <1>2, FeedAlways, PTL DEF Spec

\* Whatever the model predicts, squashes and refetches, Fetch hands out the
\* next instruction of the trace exactly when the model asks for its address,
\* Kill and Commit bring the buffer back to the right slot, no instruction is
\* lost on the way, and neither the buffer nor the feeder fails an assertion.
THEOREM FeederKeepsPath == ASSUME Regular PROVE Spec => []FeederInvariant
<1>1. FeedInv /\ PathInv => FeederInvariant
  <2> SUFFICES ASSUME FeedInv, PathInv PROVE FeederInvariant
    OBVIOUS
  <2>1. TypeOK /\ SlotStable
    BY FeedInvTypes
  <2>2. NoFeederError
    BY PathAlive DEF NoFeederError
  <2> QED
    BY <2>1, <2>2, PathIsFaithful, PathLosesNothing DEF FeederInvariant
<1> QED
  BY <1>1, FeedAlways, PathAlways, PTL

\* The start-up branch that Fetch makes up when a context runs again leads to
\* the instruction after the last one retired.
THEOREM StartupKeepsPath == ASSUME Regular PROVE Spec => []StartupOnPath
<1>1. FeedInv /\ PathInv => StartupOnPath
  BY PathStartup
<1> QED
  BY <1>1, FeedAlways, PathAlways, PTL

\* The instructions the model commits, and the no-ops it drops, are those of the
\* trace in the order of the trace, each one once, orphans left out.
THEOREM FeederRetiresInOrder == ASSUME Regular PROVE Spec => RetiresInOrder
<1>1. FeedInv /\ FeedInv' /\ PathInv /\ [Next]_vars =>
         \A s \in Streams :
            retired'[s] # retired[s] => retired'[s] = NextOnPath(s, retired[s])
  BY PathNext DEF RetiresNext, Succeeds
<1>2. FeedInv /\ FeedInv' /\ PathInv /\ [Next]_vars =>
         [\A s \in Streams :
             retired'[s] # retired[s] => retired'[s] = NextOnPath(s, retired[s])]_vars
  BY <1>1
<1> QED
  BY <1>2, FeedAlways, PathAlways, PTL DEF Spec, RetiresInOrder
=============================================================================
