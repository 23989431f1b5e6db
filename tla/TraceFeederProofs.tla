------------------------- MODULE TraceFeederProofs -------------------------
(***************************************************************************)
(* Types and slots of TraceFeeder, for any traces, buffer length, window,  *)
(* number of contexts, and all that its model may do.                      *)
(*                                                                         *)
(* The slots are a ring: Off(b, i) is how far slot i lies behind the last  *)
(* commit and Limit(b) how far the buffer is filled.  What is in flight    *)
(* lies in order between the last commit and the head, and the head before *)
(* Limit (Ordered, Held, Within), so that a fill, which starts at Limit,   *)
(* never reaches a slot in flight.  FeedInv says so of every stream; it    *)
(* asks for the head only while no assertion of the buffer has failed.     *)
(***************************************************************************)
EXTENDS TraceFeeder, FiniteSetTheorems, WellFoundedInduction, TLAPS

-----------------------------------------------------------------------------
(* The ring.                                                               *)

LEMMA Sizes ==
    /\ BufSize \in Nat /\ BufSize >= 2
    /\ \A i : i \in Slots <=> i \in Nat /\ i < BufSize
BY TraceAssumption DEF Slots

LEMMA DistIs ==
    ASSUME NEW i \in Slots, NEW j \in Slots
    PROVE  /\ Dist(i, j) = IF i <= j THEN j - i ELSE (j - i) + BufSize
           /\ Dist(i, j) \in Nat /\ Dist(i, j) < BufSize
<1>1. i \in Nat /\ j \in Nat /\ i < BufSize /\ j < BufSize /\ BufSize \in Nat
  BY Sizes
<1>2. \A n \in Nat : \A p, q \in 0 .. n - 1 :
         ((q - p) + n) % n = IF p <= q THEN q - p ELSE (q - p) + n
  <2>1. ASSUME NEW n \in Nat, n >= 1, NEW x \in 0 .. n - 1 PROVE (x + n) % n = x /\ x % n = x
    BY <2>1
  <2> SUFFICES ASSUME NEW n \in Nat, NEW p \in 0 .. n - 1, NEW q \in 0 .. n - 1
               PROVE  ((q - p) + n) % n = IF p <= q THEN q - p ELSE (q - p) + n
    OBVIOUS
  <2>2. CASE p <= q
    <3>1. q - p \in 0 .. n - 1 /\ n >= 1
      BY <2>2
    <3> QED
      BY <3>1, <2>1, <2>2
  <2>3. CASE ~(p <= q)
    <3>1. (q - p) + n \in 0 .. n - 1 /\ n >= 1
      BY <2>3
    <3> QED
      BY <3>1, <2>1, <2>3
  <2> QED
    BY <2>2, <2>3
<1>3. i \in 0 .. BufSize - 1 /\ j \in 0 .. BufSize - 1
  BY <1>1
<1>4. Dist(i, j) = IF i <= j THEN j - i ELSE (j - i) + BufSize
  BY <1>1, <1>2, <1>3 DEF Dist
<1> QED
  BY <1>1, <1>4

\* Distances from one slot, the last one committed, tell the slots apart.
LEMMA Ring ==
    ASSUME NEW l \in Slots, NEW i \in Slots, NEW j \in Slots
    PROVE  /\ Dist(l, l) = 0
           /\ Dist(l, i) = Dist(l, j) => i = j
           /\ Dist(i, j) = IF Dist(l, i) <= Dist(l, j) THEN Dist(l, j) - Dist(l, i)
                           ELSE (Dist(l, j) - Dist(l, i)) + BufSize
<1>1. l \in Nat /\ i \in Nat /\ j \in Nat /\ l < BufSize /\ i < BufSize /\ j < BufSize
      /\ BufSize \in Nat
  BY Sizes
<1>2. /\ Dist(l, l) = IF l <= l THEN l - l ELSE (l - l) + BufSize
      /\ Dist(l, i) = IF l <= i THEN i - l ELSE (i - l) + BufSize
      /\ Dist(l, j) = IF l <= j THEN j - l ELSE (j - l) + BufSize
      /\ Dist(i, j) = IF i <= j THEN j - i ELSE (j - i) + BufSize
  BY DistIs
<1> QED
  BY <1>1, <1>2

LEMMA RingSucc ==
    ASSUME NEW l \in Slots, NEW i \in Slots
    PROVE  /\ Succ(i) \in Slots
           /\ Dist(l, Succ(i)) = IF Dist(l, i) + 1 = BufSize THEN 0 ELSE Dist(l, i) + 1
<1>1. l \in Nat /\ i \in Nat /\ l < BufSize /\ i < BufSize /\ BufSize \in Nat
  BY Sizes
<1>2. Succ(i) \in Nat /\ Succ(i) < BufSize
  BY <1>1, Sizes DEF Succ
<1>2a. Succ(i) \in Slots
  BY <1>2, Sizes
<1>3. /\ Dist(l, i) = IF l <= i THEN i - l ELSE (i - l) + BufSize
      /\ Dist(l, Succ(i)) = IF l <= Succ(i) THEN Succ(i) - l ELSE (Succ(i) - l) + BufSize
  BY <1>2a, DistIs
<1>4. Succ(i) = IF i + 1 = BufSize THEN 0 ELSE i + 1
  BY DEF Succ
<1> QED
  BY <1>1, <1>2, <1>2a, <1>3, <1>4

LEMMA RingOnto ==
    ASSUME NEW l \in Slots, NEW o \in Nat, o < BufSize
    PROVE  \E i \in Slots : Dist(l, i) = o
<1>1. l \in Nat /\ l < BufSize /\ BufSize \in Nat
  BY Sizes
<1>2. PICK i \in Nat : i = IF l + o < BufSize THEN l + o ELSE (l + o) - BufSize
  BY <1>1
<1>3. i \in Slots
  BY <1>1, <1>2, Sizes
<1>4. Dist(l, i) = IF l <= i THEN i - l ELSE (i - l) + BufSize
  BY <1>3, DistIs
<1> QED
  BY <1>1, <1>2, <1>3, <1>4

-----------------------------------------------------------------------------
(* The buffer.                                                             *)

Cells(s) == [pos : Positions(s), wrongpath : BOOLEAN, nop : BOOLEAN]

LEMMA SeqMembers ==
    ASSUME NEW R, NEW t \in Seq(R)
    PROVE  Len(t) \in Nat /\ \A p \in 1 .. Len(t) : t[p] \in R
OBVIOUS

LEMMA Places ==
    ASSUME NEW s \in Streams
    PROVE  /\ Len(Trace[s]) \in Nat /\ EofPos(s) = Len(Trace[s]) + 1 /\ EofPos(s) \in Nat
           /\ \A p : p \in Positions(s) <=> p \in Nat /\ p <= EofPos(s)
           /\ \A p \in 1 .. Len(Trace[s]) : /\ Trace[s][p].pc \in Nat \ {0}
                                            /\ Trace[s][p].kind \in Kinds
<1>1. Trace[s] \in Seq([pc : Nat \ {0}, kind : Kinds])
  BY TraceAssumption
<1>2. Len(Trace[s]) \in Nat
  BY <1>1
<1>3. PICK t \in Seq([pc : Nat \ {0}, kind : Kinds]) : t = Trace[s]
  BY <1>1
<1>4. \A p \in 1 .. Len(t) : t[p] \in [pc : Nat \ {0}, kind : Kinds]
  BY SeqMembers
<1>5. \A p \in 1 .. Len(t) : t[p].pc \in Nat \ {0} /\ t[p].kind \in Kinds
  BY <1>4
<1>6. \A p \in 1 .. Len(Trace[s]) : /\ Trace[s][p].pc \in Nat \ {0}
                                    /\ Trace[s][p].kind \in Kinds
  BY <1>3, <1>5
<1>7. EofPos(s) = Len(Trace[s]) + 1 /\ EofPos(s) \in Nat
  BY <1>2 DEF EofPos
<1>8. \A p : p \in Positions(s) <=> p \in Nat /\ p <= EofPos(s)
  BY <1>7 DEF Positions
<1> QED
  BY <1>2, <1>6, <1>7, <1>8

LEMMA Members ==
    ASSUME NEW s \in Streams, NEW b \in Buffers(s)
    PROVE  /\ b.head \in Slots /\ b.lastcommit \in Slots /\ b.filled \in Slots
           /\ b.readPos \in Positions(s) /\ b.readPos \in Nat
           /\ b.slot \in [Slots -> Cells(s)]
           /\ b.fault \in {"none", "overrun", "outOfOrder"}
           /\ \A i \in Slots : /\ b.slot[i] \in Cells(s) /\ b.slot[i].pos \in Nat
                               /\ b.slot[i].pos <= EofPos(s)
                               /\ b.slot[i].pos \in Positions(s)
                               /\ b.slot[i].wrongpath \in BOOLEAN /\ b.slot[i].nop \in BOOLEAN
<1>1. b.head \in Slots /\ b.lastcommit \in Slots /\ b.filled \in Slots /\ b.readPos \in Positions(s)
      /\ b.fault \in {"none", "overrun", "outOfOrder"}
  BY DEF Buffers
<1>2. b.slot \in [Slots -> Cells(s)]
  BY DEF Buffers, Cells
<1>3. \A i \in Slots : b.slot[i] \in Cells(s)
  BY <1>2
<1>4. \A x \in Cells(s) : x.pos \in Positions(s) /\ x.wrongpath \in BOOLEAN /\ x.nop \in BOOLEAN
  BY DEF Cells
<1> QED
  BY <1>1, <1>2, <1>3, <1>4, Places

Off(b, i) == Dist(b.lastcommit, i)
Limit(b) == IF b.filled = b.lastcommit THEN BufSize ELSE Off(b, b.filled)

LEMMA Offsets ==
    ASSUME NEW s \in Streams, NEW b \in Buffers(s)
    PROVE  /\ Limit(b) \in Nat /\ Limit(b) >= 1 /\ Limit(b) <= BufSize
           /\ \A i \in Slots : Off(b, i) \in Nat /\ Off(b, i) < BufSize
           /\ \A i, j \in Slots : Off(b, i) = Off(b, j) => i = j
           /\ Off(b, b.lastcommit) = 0
           /\ b.filled = b.lastcommit \/ Off(b, b.filled) = Limit(b)
           /\ b.filled = b.lastcommit => Limit(b) = BufSize
<1>1. b.lastcommit \in Slots /\ b.filled \in Slots
  BY Members
<1>2. \A i \in Slots : Off(b, i) \in Nat /\ Off(b, i) < BufSize
  BY <1>1, DistIs DEF Off
<1>3. \A i, j \in Slots : Off(b, i) = Off(b, j) => i = j
  BY <1>1, Ring DEF Off
<1>4. Off(b, b.lastcommit) = 0
  BY <1>1, Ring DEF Off
<1>5. b.filled # b.lastcommit => Off(b, b.filled) # 0
  BY <1>1, <1>3, <1>4
<1> QED
  BY <1>1, <1>2, <1>3, <1>4, <1>5, Sizes DEF Limit

LEMMA Reads ==
    ASSUME NEW s \in Streams, NEW p \in Nat, NEW old \in Cells(s), NEW x, x = GetNextInst(s, p, old)
    PROVE  /\ x \in Cells(s)
           /\ p >= 1 => x.pos \in Nat /\ x.pos >= 1
           /\ p <= Len(Trace[s]) =>
                 /\ x.pos = p
                 /\ x.wrongpath = (Trace[s][p].kind = "orphan")
                 /\ x.nop = FALSE
           /\ p > Len(Trace[s]) => x.pos = EofPos(s) /\ x.wrongpath = old.wrongpath
<1>1. Len(Trace[s]) \in Nat /\ EofPos(s) = Len(Trace[s]) + 1 /\ EofPos(s) \in Positions(s)
  BY Places
<1>2. CASE p > Len(Trace[s])
  <2>1. x = [old EXCEPT !.pos = EofPos(s)]
    BY <1>1, <1>2 DEF GetNextInst
  <2>2. x \in Cells(s) /\ x.pos = EofPos(s) /\ x.wrongpath = old.wrongpath
    BY <1>1, <2>1 DEF Cells
  <2> QED
    BY <1>1, <1>2, <2>2
<1>3. CASE p <= Len(Trace[s])
  <2>1. x = [pos |-> p, wrongpath |-> Trace[s][p].kind = "orphan", nop |-> FALSE]
    BY <1>1, <1>3 DEF GetNextInst
  <2>2. p \in Positions(s)
    BY <1>1, <1>3, Places
  <2>3. x.pos = p /\ x.wrongpath = (Trace[s][p].kind = "orphan") /\ x.nop = FALSE
    BY <2>1
  <2>4. (Trace[s][p].kind = "orphan") \in BOOLEAN /\ FALSE \in BOOLEAN
    OBVIOUS
  <2>5. PICK w \in BOOLEAN : w = (Trace[s][p].kind = "orphan")
    BY <2>4
  <2>6. x = [pos |-> p, wrongpath |-> w, nop |-> FALSE]
    BY <2>1, <2>5
  <2>7. x \in Cells(s)
    BY <2>2, <2>6 DEF Cells
  <2> QED
    BY <1>3, <2>3, <2>7
<1>4. p <= Len(Trace[s]) \/ p > Len(Trace[s])
  BY <1>1
<1>5. p >= 1 => x.pos \in Nat /\ x.pos >= 1
  BY <1>1, <1>2, <1>3, <1>4
<1>6. ~(p <= Len(Trace[s]) /\ p > Len(Trace[s]))
  BY <1>1
<1> QED
  BY <1>2, <1>3, <1>4, <1>5, <1>6

LEMMA Least ==
    ASSUME NEW s \in Streams, NEW p \in Nat
    PROVE  /\ AtMost(p, EofPos(s)) \in Positions(s)
           /\ p >= 1 => AtMost(p, EofPos(s)) >= 1
BY Places DEF AtMost

\* What FillBuffer does, in terms of the distances from the last commit.
LEMMA FillIs ==
    ASSUME NEW s \in Streams, NEW b \in Buffers(s), NEW c, c = FillBuffer(s, b)
    PROVE  /\ c \in Buffers(s) /\ c.head = b.head /\ c.lastcommit = b.lastcommit
           /\ b.filled = b.lastcommit =>
                 /\ c.fault = "overrun" /\ c.slot = b.slot /\ c.filled = b.filled
                 /\ c.readPos = b.readPos
           /\ b.filled # b.lastcommit =>
                 /\ c.fault = b.fault /\ c.filled = b.lastcommit
                 /\ c.readPos = AtMost(b.readPos + (BufSize - Limit(b)), EofPos(s))
                 /\ \A i \in Slots :
                       c.slot[i] = IF Off(b, i) < Limit(b) THEN b.slot[i]
                                   ELSE GetNextInst(s, b.readPos + (Off(b, i) - Limit(b)),
                                                    b.slot[i])
<1> DEFINE n == Dist(b.filled, b.lastcommit)
           new == [i \in Slots |->
                     IF Dist(b.filled, i) < n
                     THEN GetNextInst(s, b.readPos + Dist(b.filled, i), b.slot[i])
                     ELSE b.slot[i]]
<1>1. /\ b.head \in Slots /\ b.lastcommit \in Slots /\ b.filled \in Slots /\ b.readPos \in Nat
      /\ \A i \in Slots : b.slot[i] \in Cells(s)
  BY Members
<1>2. /\ Limit(b) \in Nat /\ BufSize \in Nat /\ Limit(b) <= BufSize
      /\ \A i \in Slots : Off(b, i) \in Nat /\ Off(b, i) < BufSize
      /\ Off(b, b.lastcommit) = 0
  BY Offsets, Sizes
<1>3. CASE b.filled = b.lastcommit
  <2>1. n = 0
    BY <1>1, <1>3, Ring
  <2>2. c = [b EXCEPT !.fault = "overrun"]
    BY <2>1 DEF FillBuffer
  <2>3. c \in Buffers(s)
    BY <2>2 DEF Buffers
  <2>4. /\ c.head = b.head /\ c.lastcommit = b.lastcommit /\ c.fault = "overrun"
        /\ c.slot = b.slot /\ c.filled = b.filled /\ c.readPos = b.readPos
    BY <2>2 DEF Buffers
  <2> QED
    BY <1>3, <2>3, <2>4
<1>4. CASE b.filled # b.lastcommit
  <2>1. Off(b, b.filled) = Limit(b) /\ Limit(b) # 0
    BY <1>4, Offsets
  <2>2. n = BufSize - Limit(b) /\ n # 0
    <3>1. n = IF Off(b, b.filled) <= Off(b, b.lastcommit)
              THEN Off(b, b.lastcommit) - Off(b, b.filled)
              ELSE (Off(b, b.lastcommit) - Off(b, b.filled)) + BufSize
      BY <1>1, Ring DEF Off
    <3>2. Limit(b) < BufSize
      BY <1>1, <1>2, <2>1
    <3> QED
      BY <1>2, <2>1, <3>1, <3>2
  <2>3. ASSUME NEW i \in Slots
        PROVE  /\ (Dist(b.filled, i) < n) <=> ~(Off(b, i) < Limit(b))
               /\ ~(Off(b, i) < Limit(b)) => Dist(b.filled, i) = Off(b, i) - Limit(b)
    <3>1. Dist(b.filled, i) = IF Off(b, b.filled) <= Off(b, i)
                              THEN Off(b, i) - Off(b, b.filled)
                              ELSE (Off(b, i) - Off(b, b.filled)) + BufSize
      BY <1>1, Ring DEF Off
    <3>2. Off(b, i) \in Nat /\ Off(b, i) < BufSize
      BY <1>2
    <3> HIDE DEF n
    <3> QED
      BY <1>2, <2>1, <2>2, <3>1, <3>2
  <2>4. \A i \in Slots :
           new[i] = IF Off(b, i) < Limit(b) THEN b.slot[i]
                    ELSE GetNextInst(s, b.readPos + (Off(b, i) - Limit(b)), b.slot[i])
    BY <2>3
  <2>5. \A i \in Slots : new[i] \in Cells(s)
    <3> SUFFICES ASSUME NEW i \in Slots PROVE new[i] \in Cells(s)
      OBVIOUS
    <3>1. CASE Off(b, i) < Limit(b)
      BY <1>1, <2>4, <3>1
    <3>2. CASE ~(Off(b, i) < Limit(b))
      <4>1. PICK p \in Nat : p = b.readPos + (Off(b, i) - Limit(b))
        BY <1>1, <1>2, <3>2
      <4>2. new[i] = GetNextInst(s, p, b.slot[i])
        BY <2>4, <3>2, <4>1
      <4> QED
        BY <1>1, <4>2, Reads
    <3> QED
      BY <3>1, <3>2
  <2>6. PICK w \in [Slots -> Cells(s)] : w = new
    BY <2>5
  <2>7. PICK p \in Positions(s) : p = AtMost(b.readPos + (BufSize - Limit(b)), EofPos(s))
    <3>1. b.readPos + (BufSize - Limit(b)) \in Nat
      BY <1>1, <1>2
    <3> QED
      BY <3>1, Least
  <2>8. c = [b EXCEPT !.slot = new, !.readPos = AtMost(@ + n, EofPos(s)), !.filled = b.lastcommit]
    BY <2>2 DEF FillBuffer
  <2>9. c = [b EXCEPT !.slot = w, !.readPos = p, !.filled = b.lastcommit]
    <3> HIDE DEF n, new
    <3> QED
      BY <2>2, <2>6, <2>7, <2>8 DEF Buffers
  <2>10. c \in Buffers(s)
    <3>1. b.lastcommit \in Slots
      BY <1>1
    <3> HIDE DEF new
    <3> QED
      BY <2>9, <3>1 DEF Buffers, Cells
  <2>11. /\ c.head = b.head /\ c.lastcommit = b.lastcommit /\ c.fault = b.fault
         /\ c.slot = w /\ c.filled = b.lastcommit /\ c.readPos = p
    <3> HIDE DEF new
    <3> QED
      BY <2>9 DEF Buffers
  <2> HIDE DEF new, n
  <2> QED
    BY <1>4, <2>4, <2>6, <2>7, <2>10, <2>11
<1> QED
  BY <1>3, <1>4

\* A buffer whose head has moved on, its last commit has not, and whose
\* unread slots may have been filled.
Grown(s, b, c) ==
    /\ c \in Buffers(s) /\ c.lastcommit = b.lastcommit
    /\ Limit(b) <= Limit(c)
    /\ c.fault = b.fault \/ c.fault # "none"
    /\ \A i \in Slots : Off(c, i) = Off(b, i)
    /\ \A i \in Slots : Off(b, i) < Limit(b) => c.slot[i] = b.slot[i]
    /\ \A i \in Slots : Off(b, i) >= Limit(b) /\ Off(b, i) < Limit(c) => c.slot[i].pos >= 1

LEMMA FillGrows ==
    ASSUME NEW s \in Streams, NEW b \in Buffers(s), b.readPos >= 1,
           NEW c, c = FillBuffer(s, b)
    PROVE  /\ Grown(s, b, c) /\ c.readPos >= 1 /\ c.head = b.head
           /\ b.filled # b.lastcommit => Limit(c) = BufSize /\ c.fault = b.fault
           /\ b.filled = b.lastcommit => c.fault = "overrun" /\ Limit(c) = Limit(b)
<1>1. /\ c \in Buffers(s) /\ c.head = b.head /\ c.lastcommit = b.lastcommit
      /\ b.readPos \in Nat /\ b.readPos >= 1
      /\ \A i \in Slots : b.slot[i] \in Cells(s)
  BY FillIs, Members
<1>2. /\ Limit(b) \in Nat /\ BufSize \in Nat /\ Limit(b) <= BufSize
      /\ \A i \in Slots : Off(b, i) \in Nat /\ Off(b, i) < BufSize
  BY Offsets, Sizes
<1>3. \A i \in Slots : Off(c, i) = Off(b, i)
  BY <1>1 DEF Off
<1>4. CASE b.filled = b.lastcommit
  <2>1. c.fault = "overrun" /\ c.slot = b.slot /\ c.filled = b.filled /\ c.readPos = b.readPos
    BY <1>4, FillIs
  <2>2. Limit(c) = Limit(b)
    BY <1>1, <1>4, <2>1 DEF Limit
  <2> QED
    BY <1>1, <1>2, <1>3, <1>4, <2>1, <2>2 DEF Grown
<1>5. CASE b.filled # b.lastcommit
  <2>1. /\ c.fault = b.fault /\ c.filled = b.lastcommit
        /\ c.readPos = AtMost(b.readPos + (BufSize - Limit(b)), EofPos(s))
        /\ \A i \in Slots :
              c.slot[i] = IF Off(b, i) < Limit(b) THEN b.slot[i]
                          ELSE GetNextInst(s, b.readPos + (Off(b, i) - Limit(b)), b.slot[i])
    BY <1>5, FillIs
  <2>2. Limit(c) = BufSize
    BY <1>1, <2>1 DEF Limit
  <2>3. c.readPos >= 1
    <3>1. b.readPos + (BufSize - Limit(b)) \in Nat /\ b.readPos + (BufSize - Limit(b)) >= 1
      BY <1>1, <1>2
    <3> QED
      BY <2>1, <3>1, Least
  <2>4. \A i \in Slots : Off(b, i) < Limit(b) => c.slot[i] = b.slot[i]
    BY <2>1
  <2>5. ASSUME NEW i \in Slots, Off(b, i) >= Limit(b) PROVE c.slot[i].pos >= 1
    <3>1. Off(b, i) \in Nat
      BY <1>2
    <3>2. PICK p \in Nat : p = b.readPos + (Off(b, i) - Limit(b))
      BY <1>1, <1>2, <2>5, <3>1
    <3>3. p >= 1
      BY <1>1, <1>2, <2>5, <3>1, <3>2
    <3>4. c.slot[i] = GetNextInst(s, p, b.slot[i])
      BY <1>2, <2>1, <2>5, <3>1, <3>2
    <3>5. PICK x : x = c.slot[i]
      OBVIOUS
    <3>6. PICK old \in Cells(s) : old = b.slot[i]
      BY <1>1
    <3>7. x = GetNextInst(s, p, old)
      BY <3>4, <3>5, <3>6
    <3>8. x.pos >= 1
      BY <3>3, <3>7, Reads
    <3> QED
      BY <3>5, <3>8
  <2> QED
    BY <1>1, <1>2, <1>3, <1>5, <2>1, <2>2, <2>3, <2>4, <2>5 DEF Grown
<1> QED
  BY <1>4, <1>5

-----------------------------------------------------------------------------
(* Moving the head.                                                        *)

LEMMA GrownSame ==
    ASSUME NEW s \in Streams, NEW b \in Buffers(s), NEW h \in Slots, NEW c,
           c = [b EXCEPT !.head = h]
    PROVE  /\ Grown(s, b, c) /\ c.head = h /\ c.readPos = b.readPos
           /\ c.fault = b.fault /\ Limit(c) = Limit(b) /\ c.filled = b.filled
           /\ c.slot = b.slot
<1>1. c \in Buffers(s)
  BY DEF Buffers
<1>2. /\ c.lastcommit = b.lastcommit /\ c.filled = b.filled /\ c.readPos = b.readPos
      /\ c.fault = b.fault /\ c.slot = b.slot /\ c.head = h
  BY DEF Buffers
<1>3. Limit(c) = Limit(b) /\ \A i \in Slots : Off(c, i) = Off(b, i)
  BY <1>2 DEF Limit, Off
<1>4. Limit(b) <= Limit(b) /\ ~\E i \in Slots : Off(b, i) >= Limit(b) /\ Off(b, i) < Limit(b)
  BY Offsets
<1> QED
  BY <1>1, <1>2, <1>3, <1>4 DEF Grown

LEMMA GrownThrough ==
    ASSUME NEW s \in Streams, NEW b \in Buffers(s), NEW c, NEW d,
           Grown(s, b, c), Grown(s, c, d)
    PROVE  Grown(s, b, d)
<1>1. /\ c \in Buffers(s) /\ d \in Buffers(s) /\ Limit(b) <= Limit(c) /\ Limit(c) <= Limit(d)
      /\ Limit(b) \in Nat /\ Limit(c) \in Nat /\ Limit(d) \in Nat
      /\ \A i \in Slots : Off(c, i) = Off(b, i) /\ Off(d, i) = Off(c, i)
      /\ \A i \in Slots : Off(b, i) \in Nat
      /\ \A i \in Slots : Off(b, i) < Limit(b) => c.slot[i] = b.slot[i]
      /\ \A i \in Slots : Off(c, i) < Limit(c) => d.slot[i] = c.slot[i]
      /\ \A i \in Slots : Off(b, i) >= Limit(b) /\ Off(b, i) < Limit(c) => c.slot[i].pos >= 1
      /\ \A i \in Slots : Off(c, i) >= Limit(c) /\ Off(c, i) < Limit(d) => d.slot[i].pos >= 1
      /\ d.lastcommit = b.lastcommit
      /\ d.fault = b.fault \/ d.fault # "none"
  BY Offsets DEF Grown
<1>2. \A i \in Slots : Off(b, i) < Limit(b) => d.slot[i] = b.slot[i]
  BY <1>1
<1>3. ASSUME NEW i \in Slots, Off(b, i) >= Limit(b), Off(b, i) < Limit(d)
      PROVE  d.slot[i].pos >= 1
  <2>1. CASE Off(b, i) < Limit(c)
    <3>1. c.slot[i].pos >= 1 /\ d.slot[i] = c.slot[i]
      BY <1>1, <1>3, <2>1
    <3> QED
      BY <3>1
  <2>2. CASE ~(Off(b, i) < Limit(c))
    <3>1. Off(c, i) >= Limit(c) /\ Off(c, i) < Limit(d)
      BY <1>1, <1>3, <2>2
    <3> QED
      BY <1>1, <3>1
  <2> QED
    BY <2>1, <2>2
<1>4. Limit(b) <= Limit(d) /\ \A i \in Slots : Off(d, i) = Off(b, i)
  BY <1>1
<1> QED
  BY <1>1, <1>2, <1>3, <1>4 DEF Grown

\* NextInstr leaves the head one slot further, or the buffer overrun.
LEMMA NextGrows ==
    ASSUME NEW s \in Streams, NEW b \in Buffers(s), b.readPos >= 1,
           NEW c, c = NextInstr(s, b)
    PROVE  /\ Grown(s, b, c) /\ c.readPos >= 1 /\ c.head = Succ(b.head)
           /\ Off(b, b.head) < Limit(b) /\ c.fault = "none" =>
                 Off(c, c.head) = Off(b, b.head) + 1 /\ Off(c, c.head) < Limit(c)
           /\ Off(b, b.head) + 1 < Limit(b) => c = [b EXCEPT !.head = Succ(b.head)]
           /\ Off(b, b.head) + 1 < BufSize /\ Off(b, b.head) < Limit(b) => c.fault = b.fault
           /\ \/ c = [b EXCEPT !.head = Succ(b.head)]
              \/ /\ Succ(b.head) = b.filled
                 /\ c = FillBuffer(s, [b EXCEPT !.head = Succ(b.head)])
<1> DEFINE d == [b EXCEPT !.head = Succ(b.head)]
<1>0. b.head \in Slots /\ b.lastcommit \in Slots /\ b.filled \in Slots
  BY Members
<1>1. /\ Succ(b.head) \in Slots
      /\ Off(b, Succ(b.head)) = IF Off(b, b.head) + 1 = BufSize THEN 0 ELSE Off(b, b.head) + 1
  BY <1>0, RingSucc DEF Off
<1>2. /\ Grown(s, b, d) /\ d.head = Succ(b.head) /\ d.readPos = b.readPos
      /\ d.fault = b.fault /\ Limit(d) = Limit(b) /\ d.filled = b.filled
      /\ d \in Buffers(s) /\ d.lastcommit = b.lastcommit
      /\ \A i \in Slots : Off(d, i) = Off(b, i)
  <2>1. /\ Grown(s, b, d) /\ d.head = Succ(b.head) /\ d.readPos = b.readPos
        /\ d.fault = b.fault /\ Limit(d) = Limit(b) /\ d.filled = b.filled
    <3> HIDE DEF d
    <3>1. d = [b EXCEPT !.head = Succ(b.head)]
      BY DEF d
    <3> QED
      BY <1>1, <3>1, GrownSame
  <2> HIDE DEF d
  <2> QED
    BY <2>1 DEF Grown
<1>3. c = IF d.head = d.filled THEN FillBuffer(s, d) ELSE d
  BY DEF NextInstr
<1>8. d = [b EXCEPT !.head = Succ(b.head)]
  OBVIOUS
<1> HIDE DEF d
<1>4. /\ Limit(b) \in Nat /\ BufSize \in Nat /\ Limit(b) <= BufSize
      /\ \A i \in Slots : Off(b, i) \in Nat /\ Off(b, i) < BufSize
      /\ \A i, j \in Slots : Off(b, i) = Off(b, j) => i = j
      /\ Off(b, b.lastcommit) = 0
      /\ b.filled = b.lastcommit \/ Off(b, b.filled) = Limit(b)
      /\ b.filled = b.lastcommit => Limit(b) = BufSize
  BY Offsets, Sizes
<1>5. Off(b, b.head) \in Nat /\ Off(b, b.head) < BufSize
  BY <1>0, <1>4
<1>6. CASE d.head # d.filled
  <2>1. c = d
    BY <1>3, <1>6
  <2>2. ASSUME Off(b, b.head) < Limit(b)
        PROVE  Off(b, Succ(b.head)) = Off(b, b.head) + 1 /\ Off(b, Succ(b.head)) < Limit(b)
    <3>1. Succ(b.head) # b.filled
      BY <1>2, <1>6
    <3>2. b.filled = b.lastcommit => Off(b, Succ(b.head)) # 0
      BY <1>0, <1>1, <1>4, <3>1
    <3>3. b.filled # b.lastcommit => Off(b, Succ(b.head)) # Limit(b)
      BY <1>0, <1>1, <1>4, <3>1
    <3>4. CASE b.filled = b.lastcommit
      BY <1>1, <1>4, <1>5, <2>2, <3>2, <3>4
    <3>5. CASE b.filled # b.lastcommit
      <4>1. Off(b, b.head) + 1 # BufSize
        <5>1. Off(b, b.filled) = Limit(b) /\ Off(b, b.filled) < BufSize
          BY <1>0, <1>4, <3>5
        <5> QED
          BY <1>4, <1>5, <2>2, <5>1
      <4> QED
        BY <1>1, <1>4, <1>5, <2>2, <3>3, <3>5, <4>1
    <3> QED
      BY <3>4, <3>5
  <2>3. Off(c, c.head) = Off(b, Succ(b.head)) /\ Limit(c) = Limit(b)
    BY <1>1, <1>2, <2>1
  <2>4. Grown(s, b, c) /\ c.readPos >= 1 /\ c.head = Succ(b.head) /\ c.fault = b.fault
    BY <1>2, <2>1
  <2>5. Off(b, b.head) < Limit(b) /\ c.fault = "none" =>
           Off(c, c.head) = Off(b, b.head) + 1 /\ Off(c, c.head) < Limit(c)
    BY <2>2, <2>3
  <2>6. c = [b EXCEPT !.head = Succ(b.head)]
    BY <1>8, <2>1
  <2> QED
    BY <2>4, <2>5, <2>6
<1>7. CASE d.head = d.filled
  <2>1. c = FillBuffer(s, d)
    BY <1>3, <1>7
  <2>2. /\ Grown(s, d, c) /\ c.readPos >= 1 /\ c.head = d.head
        /\ d.filled # d.lastcommit => Limit(c) = BufSize /\ c.fault = d.fault
        /\ d.filled = d.lastcommit => c.fault = "overrun" /\ Limit(c) = Limit(d)
    BY <1>2, <2>1, FillGrows
  <2>3. Grown(s, b, c)
    BY <1>2, <2>2, GrownThrough
  <2>4. \A i \in Slots : Off(c, i) = Off(b, i)
    BY <2>3 DEF Grown
  <2>5. Off(c, c.head) = Off(b, b.filled)
    BY <1>0, <1>2, <1>7, <2>2, <2>4
  <2>6. Off(b, Succ(b.head)) = Off(b, b.filled)
    BY <1>2, <1>7
  <2>7. CASE b.filled # b.lastcommit
    <3>1. Off(b, b.filled) = Limit(b) /\ Limit(b) < BufSize /\ Limit(b) # 0
      <4>1. Off(b, b.filled) # 0
        BY <1>0, <1>4, <2>7
      <4>2. Off(b, b.filled) = Limit(b) /\ Off(b, b.filled) < BufSize
        BY <1>0, <1>4, <2>7
      <4> QED
        BY <4>1, <4>2
    <3>2. Off(b, b.head) + 1 = Limit(b)
      BY <1>1, <1>4, <1>5, <2>6, <3>1
    <3>3. Limit(c) = BufSize /\ c.fault = b.fault
      BY <1>2, <2>2, <2>7
    <3>4. Grown(s, b, c) /\ c.readPos >= 1 /\ c.head = Succ(b.head)
      BY <1>2, <2>2, <2>3
    <3>5. Off(c, c.head) = Off(b, b.head) + 1 /\ Off(c, c.head) < Limit(c)
      BY <2>5, <3>1, <3>2, <3>3
    <3>6. ~(Off(b, b.head) + 1 < Limit(b))
      BY <1>4, <1>5, <3>2
    <3>7. Succ(b.head) = b.filled /\ c = FillBuffer(s, d)
      BY <1>2, <1>7, <2>1
    <3> QED
      BY <1>8, <3>3, <3>4, <3>5, <3>6, <3>7
  <2>8. CASE b.filled = b.lastcommit
    <3>1. c.fault = "overrun" /\ c.fault # "none"
      BY <1>2, <2>2, <2>8
    <3>2. Off(b, b.head) + 1 = BufSize
      BY <1>1, <1>4, <1>5, <2>6, <2>8
    <3>3. Limit(b) = BufSize
      BY <1>4, <2>8
    <3>4. Grown(s, b, c) /\ c.readPos >= 1 /\ c.head = Succ(b.head)
      BY <1>2, <2>2, <2>3
    <3>6. ~(Off(b, b.head) + 1 < Limit(b)) /\ ~(Off(b, b.head) + 1 < BufSize)
      BY <1>4, <1>5, <3>2, <3>3
    <3>7. Succ(b.head) = b.filled /\ c = FillBuffer(s, d)
      BY <1>2, <1>7, <2>1
    <3> QED
      BY <1>8, <3>1, <3>4, <3>6, <3>7
  <2> QED
    BY <2>7, <2>8
<1> QED
  BY <1>6, <1>7

LEMMA LeastNat ==
    ASSUME NEW T, T \subseteq Nat, T # {}
    PROVE  \E x \in T : \A y \in T : x <= y
<1>1. PICK x \in T : \A y \in T : ~(<<y, x>> \in OpToRel(<, Nat))
  BY WFMin, NatLessThanWellFounded
<1>2. ASSUME NEW y \in T PROVE x <= y
  <2>1. ~(<<y, x>> \in OpToRel(<, Nat))
    BY <1>1
  <2>2. ~(y < x)
    BY <2>1 DEF OpToRel
  <2> QED
    BY <2>2
<1> QED
  BY <1>2

\* The slots SkipOverWrongpath looks at are those before the last one filled.
LEMMA AheadIs ==
    ASSUME NEW s \in Streams, NEW c \in Buffers(s), NEW h \in Slots, Off(c, h) < Limit(c),
           NEW i \in Slots
    PROVE  /\ Dist(h, i) < Ahead(h, c.filled) <=> Off(c, h) <= Off(c, i) /\ Off(c, i) < Limit(c)
           /\ Off(c, h) <= Off(c, i) => Dist(h, i) = Off(c, i) - Off(c, h)
<1>0. c.lastcommit \in Slots /\ c.filled \in Slots
  BY Members
<1>1. /\ Succ(h) \in Slots
      /\ Off(c, Succ(h)) = IF Off(c, h) + 1 = BufSize THEN 0 ELSE Off(c, h) + 1
  BY <1>0, RingSucc DEF Off
<1>2. /\ Dist(h, i) = IF Off(c, h) <= Off(c, i) THEN Off(c, i) - Off(c, h)
                      ELSE (Off(c, i) - Off(c, h)) + BufSize
      /\ Dist(Succ(h), c.filled) =
            IF Off(c, Succ(h)) <= Off(c, c.filled) THEN Off(c, c.filled) - Off(c, Succ(h))
            ELSE (Off(c, c.filled) - Off(c, Succ(h))) + BufSize
  BY <1>0, <1>1, Ring DEF Off
<1>3. /\ Limit(c) \in Nat /\ Limit(c) <= BufSize /\ BufSize \in Nat
      /\ Off(c, h) \in Nat /\ Off(c, i) \in Nat /\ Off(c, i) < BufSize /\ Off(c, h) < BufSize
      /\ Off(c, c.lastcommit) = 0
      /\ c.filled = c.lastcommit \/ Off(c, c.filled) = Limit(c)
      /\ c.filled = c.lastcommit => Limit(c) = BufSize
      /\ Off(c, c.filled) \in Nat /\ Off(c, c.filled) < BufSize
  BY <1>0, Offsets, Sizes
<1>4. Ahead(h, c.filled) = Limit(c) - Off(c, h)
  <2>1. CASE c.filled = c.lastcommit
    <3>1. Off(c, c.filled) = 0 /\ Limit(c) = BufSize
      BY <1>3, <2>1
    <3>2. Dist(Succ(h), c.filled) = (BufSize - Off(c, h)) - 1
      BY <1>1, <1>2, <1>3, <3>1
    <3> QED
      BY <1>3, <3>1, <3>2 DEF Ahead
  <2>2. CASE c.filled # c.lastcommit
    <3>1. Off(c, c.filled) = Limit(c) /\ Limit(c) < BufSize
      BY <1>3, <2>2
    <3>2. Off(c, Succ(h)) = Off(c, h) + 1
      BY <1>1, <1>3, <3>1
    <3>3. Dist(Succ(h), c.filled) = (Limit(c) - Off(c, h)) - 1
      BY <1>2, <1>3, <3>1, <3>2
    <3> QED
      BY <1>3, <3>3 DEF Ahead
  <2> QED
    BY <2>1, <2>2
<1>5. Dist(h, i) < Limit(c) - Off(c, h) <=> Off(c, h) <= Off(c, i) /\ Off(c, i) < Limit(c)
  BY <1>2, <1>3
<1> QED
  BY <1>2, <1>4, <1>5

\* d is the first slot from distance h on whose wrongpath flag is clear.
First(c, h, d) ==
    /\ d \in Slots /\ h <= Off(c, d) /\ Off(c, d) < Limit(c)
    /\ c.slot[d].wrongpath = FALSE
    /\ \A i \in Slots : h <= Off(c, i) /\ Off(c, i) < Off(c, d) => c.slot[i].wrongpath = TRUE

AllFlagged(c, h) ==
    \A i \in Slots : h <= Off(c, i) /\ Off(c, i) < Limit(c) => c.slot[i].wrongpath = TRUE

Landing(s, c, d, pc) == VirtualPc(s, Backup(c, d)) = pc \/ Eof(s, Backup(c, d))

\* SkipOverWrongpath stays, or lands on that slot, in a buffer it may have
\* filled; or it runs over.
SkipsTo(s, b, c, d, pc, r) ==
    /\ First(c, Off(b, b.head), d)
    /\ Landing(s, c, d, pc) => r = Backup(c, d)
    /\ ~Landing(s, c, d, pc) => r = c

LEMMA SkipIs ==
    ASSUME NEW s \in Streams, NEW b \in Buffers(s), b.readPos >= 1,
           Off(b, b.head) < Limit(b), NEW pc,
           NEW r, r = SkipOverWrongpath(s, b, pc)
    PROVE  \/ \E d : SkipsTo(s, b, b, d, pc, r)
           \/ /\ AllFlagged(b, Off(b, b.head))
              /\ \/ \E d : SkipsTo(s, b, FillBuffer(s, b), d, pc, r)
                 \/ /\ AllFlagged(FillBuffer(s, b), Off(b, b.head))
                    /\ r = [FillBuffer(s, b) EXCEPT !.fault = "overrun"]
<1> DEFINE onPath(c) == {i \in Slots : /\ Dist(b.head, i) < Ahead(b.head, c.filled)
                                       /\ ~c.slot[i].wrongpath}
           pick(c) == CHOOSE i \in onPath(c) :
                         \A j \in onPath(c) : Dist(b.head, i) <= Dist(b.head, j)
<1>0. b.head \in Slots
  BY Members
<1>1. PICK f : f = FillBuffer(s, b)
  OBVIOUS
<1>2. /\ f \in Buffers(s) /\ \A i \in Slots : Off(f, i) = Off(b, i)
      /\ Limit(b) <= Limit(f) /\ Limit(b) \in Nat /\ Limit(f) \in Nat
      /\ \A i \in Slots : Off(b, i) \in Nat
  BY <1>1, FillGrows, Offsets DEF Grown
<1>3. Off(f, b.head) = Off(b, b.head) /\ Off(f, b.head) < Limit(f)
  BY <1>0, <1>2
<1>4. PICK c : c = IF onPath(b) = {} THEN f ELSE b
  OBVIOUS
<1>5. r = IF onPath(c) = {} THEN [c EXCEPT !.fault = "overrun"]
          ELSE IF Landing(s, c, pick(c), pc) THEN Backup(c, pick(c)) ELSE c
  BY <1>1, <1>4 DEF SkipOverWrongpath, Landing
<1>6. ASSUME NEW g \in Buffers(s), Off(g, b.head) = Off(b, b.head), Off(g, b.head) < Limit(g)
      PROVE  /\ onPath(g) = {} => AllFlagged(g, Off(b, b.head))
             /\ onPath(g) # {} => First(g, Off(b, b.head), pick(g))
  <2>1. \A i \in Slots :
           /\ Dist(b.head, i) < Ahead(b.head, g.filled) <=>
                 Off(b, b.head) <= Off(g, i) /\ Off(g, i) < Limit(g)
           /\ Off(b, b.head) <= Off(g, i) => Dist(b.head, i) = Off(g, i) - Off(b, b.head)
    BY <1>0, <1>6, AheadIs
  <2>2. \A i \in Slots : g.slot[i].wrongpath \in BOOLEAN
    BY <1>6, Members
  <2>3. \A i : i \in onPath(g) <=> /\ i \in Slots /\ Off(b, b.head) <= Off(g, i)
                                   /\ Off(g, i) < Limit(g)
                                   /\ ~g.slot[i].wrongpath
    BY <2>1
  <2>4. \A i \in Slots : Off(g, i) \in Nat
    BY <1>6, Offsets
  <2>4a. Off(b, b.head) \in Nat
    BY <1>0, <1>2
  <2> HIDE DEF onPath
  <2>5. onPath(g) = {} => AllFlagged(g, Off(b, b.head))
    BY <2>2, <2>3 DEF AllFlagged
  <2>6. ASSUME onPath(g) # {} PROVE First(g, Off(b, b.head), pick(g))
    <3> DEFINE T == {Dist(b.head, i) : i \in onPath(g)}
    <3>1. T \subseteq Nat /\ T # {}
      <4>1. \A i \in onPath(g) : Dist(b.head, i) \in Nat
        BY <1>0, <2>3, DistIs
      <4> QED
        BY <2>6, <4>1
    <3>2. PICK x \in T : \A y \in T : x <= y
      <4> HIDE DEF T
      <4> QED
        BY <3>1, LeastNat
    <3>3. PICK i \in onPath(g) : x = Dist(b.head, i)
      BY <3>2
    <3>4. \A j \in onPath(g) : Dist(b.head, i) <= Dist(b.head, j)
      BY <3>2, <3>3
    <3>5. PICK d : d = pick(g)
      OBVIOUS
    <3>6. d \in onPath(g) /\ \A j \in onPath(g) : Dist(b.head, d) <= Dist(b.head, j)
      BY <3>3, <3>4, <3>5
    <3>7. /\ d \in Slots /\ Off(b, b.head) <= Off(g, d) /\ Off(g, d) < Limit(g)
          /\ g.slot[d].wrongpath = FALSE
      BY <2>2, <2>3, <3>6
    <3>8. ASSUME NEW j \in Slots, Off(b, b.head) <= Off(g, j), Off(g, j) < Off(g, d)
          PROVE  g.slot[j].wrongpath = TRUE
      <4>1. Off(g, j) < Limit(g)
        <5>1. Limit(g) \in Nat
          BY <1>6, Offsets
        <5> QED
          BY <2>4, <3>7, <3>8, <5>1
      <4>2. ~(Dist(b.head, d) <= Dist(b.head, j))
        <5>1. /\ Dist(b.head, d) = Off(g, d) - Off(b, b.head)
              /\ Dist(b.head, j) = Off(g, j) - Off(b, b.head)
          BY <2>1, <3>7, <3>8
        <5>2. Off(g, d) \in Nat /\ Off(g, j) \in Nat
          BY <2>4, <3>7
        <5> QED
          BY <2>4a, <3>8, <5>1, <5>2
      <4>3. j \notin onPath(g)
        BY <3>6, <4>2
      <4> QED
        BY <2>2, <2>3, <3>8, <4>1, <4>3
    <3> HIDE DEF pick
    <3> QED
      BY <3>5, <3>7, <3>8 DEF First
  <2> QED
    BY <2>5, <2>6
<1>7. /\ onPath(b) = {} => AllFlagged(b, Off(b, b.head))
      /\ onPath(b) # {} => First(b, Off(b, b.head), pick(b))
  BY <1>6
<1>8. /\ onPath(f) = {} => AllFlagged(f, Off(b, b.head))
      /\ onPath(f) # {} => First(f, Off(b, b.head), pick(f))
  BY <1>2, <1>3, <1>6
<1> HIDE DEF onPath, pick
<1>9. CASE onPath(b) # {}
  <2>1. c = b
    BY <1>4, <1>9
  <2>2. r = IF Landing(s, b, pick(b), pc) THEN Backup(b, pick(b)) ELSE b
    BY <1>5, <1>9, <2>1
  <2>3. SkipsTo(s, b, b, pick(b), pc, r)
    BY <1>7, <1>9, <2>2 DEF SkipsTo
  <2> QED
    BY <2>3
<1>10. CASE onPath(b) = {} /\ onPath(f) # {}
  <2>1. c = f
    BY <1>4, <1>10
  <2>2. r = IF Landing(s, f, pick(f), pc) THEN Backup(f, pick(f)) ELSE f
    BY <1>5, <1>10, <2>1
  <2>3. SkipsTo(s, b, f, pick(f), pc, r)
    BY <1>8, <1>10, <2>2 DEF SkipsTo
  <2> QED
    BY <1>1, <1>7, <1>10, <2>3
<1>11. CASE onPath(b) = {} /\ onPath(f) = {}
  <2>1. r = [f EXCEPT !.fault = "overrun"]
    BY <1>4, <1>5, <1>11
  <2> QED
    BY <1>1, <1>7, <1>8, <1>11, <2>1
<1> QED
  BY <1>9, <1>10, <1>11

LEMMA SkipGrows ==
    ASSUME NEW s \in Streams, NEW b \in Buffers(s), b.readPos >= 1,
           Off(b, b.head) < Limit(b), NEW pc,
           NEW r, r = SkipOverWrongpath(s, b, pc)
    PROVE  /\ Grown(s, b, r) /\ r.readPos >= 1
           /\ Off(b, b.head) <= Off(r, r.head) /\ Off(r, r.head) < Limit(r)
<1>0. b.head \in Slots /\ Off(b, b.head) \in Nat
  BY Members, Offsets
<1>1. PICK f : f = FillBuffer(s, b)
  OBVIOUS
<1>2. Grown(s, b, f) /\ f.readPos >= 1 /\ f.head = b.head
  BY <1>1, FillGrows
<1>3. Grown(s, b, b)
  <2>1. \A x, y, z \in Nat : ~(x >= y /\ x < y) /\ y <= y
    OBVIOUS
  <2> QED
    BY <2>1, Offsets DEF Grown
<1>4. /\ f \in Buffers(s) /\ Limit(f) \in Nat /\ Limit(b) \in Nat /\ Limit(b) <= Limit(f)
      /\ Off(f, f.head) = Off(b, b.head)
  BY <1>0, <1>2, Offsets DEF Grown
<1>5. ASSUME NEW c \in Buffers(s), Grown(s, b, c), c.readPos >= 1, c.head = b.head,
             Off(b, b.head) < Limit(c), NEW d, SkipsTo(s, b, c, d, pc, r)
      PROVE  /\ Grown(s, b, r) /\ r.readPos >= 1
             /\ Off(b, b.head) <= Off(r, r.head) /\ Off(r, r.head) < Limit(r)
  <2>1. /\ d \in Slots /\ Off(b, b.head) <= Off(c, d) /\ Off(c, d) < Limit(c)
        /\ r = c \/ r = [c EXCEPT !.head = d]
    BY <1>5 DEF SkipsTo, First, Backup
  <2>2. Off(c, c.head) = Off(b, b.head)
    BY <1>0, <1>5 DEF Grown
  <2>3. CASE r = c
    BY <1>0, <1>5, <2>2, <2>3
  <2>4. CASE r = [c EXCEPT !.head = d]
    <3>1. /\ Grown(s, c, r) /\ r.head = d /\ r.readPos = c.readPos /\ Limit(r) = Limit(c)
          /\ \A i \in Slots : Off(r, i) = Off(c, i)
      BY <2>1, <2>4, GrownSame DEF Grown
    <3>2. Grown(s, b, r)
      BY <1>5, <3>1, GrownThrough
    <3> QED
      BY <1>5, <2>1, <3>1, <3>2
  <2> QED
    BY <2>1, <2>3, <2>4
<1>6. CASE \E d : SkipsTo(s, b, b, d, pc, r)
  BY <1>3, <1>5, <1>6
<1>7. CASE \E d : SkipsTo(s, b, f, d, pc, r)
  <2>1. Off(b, b.head) < Limit(f)
    BY <1>0, <1>4
  <2> QED
    BY <1>2, <1>4, <1>5, <1>7, <2>1
<1>8. CASE r = [f EXCEPT !.fault = "overrun"]
  <2>1. /\ r \in Buffers(s) /\ r.head = f.head /\ r.lastcommit = f.lastcommit /\ r.slot = f.slot
        /\ r.filled = f.filled /\ r.readPos = f.readPos /\ r.fault = "overrun"
    BY <1>4, <1>8 DEF Buffers
  <2>2. Limit(r) = Limit(f) /\ \A i \in Slots : Off(r, i) = Off(f, i)
    BY <2>1 DEF Limit, Off
  <2>3. Grown(s, b, r)
    BY <1>2, <2>1, <2>2 DEF Grown
  <2>4. Off(r, r.head) = Off(b, b.head) /\ Off(b, b.head) < Limit(r)
    BY <1>0, <1>2, <1>4, <2>1, <2>2
  <2> QED
    BY <1>0, <1>2, <2>1, <2>3, <2>4
<1> QED
  BY <1>1, <1>6, <1>7, <1>8, SkipIs

-----------------------------------------------------------------------------
(* Committing.                                                             *)

LEMMA CommitIs ==
    ASSUME NEW s \in Streams, NEW b \in Buffers(s), NEW id \in Slots,
           NEW c, c = CommitInstr(b, id)
    PROVE  /\ c \in Buffers(s)
           /\ c.head = b.head /\ c.filled = b.filled /\ c.readPos = b.readPos /\ c.slot = b.slot
           /\ \/ c.fault = "outOfOrder" /\ c.lastcommit = b.lastcommit
              \/ c.fault = b.fault /\ c.lastcommit = id
<1>1. c = [b EXCEPT !.lastcommit = id] \/ c = [b EXCEPT !.fault = "outOfOrder"]
  BY DEF CommitInstr
<1>2. CASE c = [b EXCEPT !.lastcommit = id]
  BY <1>2 DEF Buffers
<1>3. CASE c = [b EXCEPT !.fault = "outOfOrder"]
  BY <1>3 DEF Buffers
<1> QED
  BY <1>1, <1>2, <1>3

\* The distances from the new last commit.
LEMMA CommitShifts ==
    ASSUME NEW s \in Streams, NEW b \in Buffers(s), NEW c \in Buffers(s),
           c.filled = b.filled, NEW o, o = Off(b, c.lastcommit), o < Limit(b)
    PROVE  /\ o \in Nat
           /\ Limit(c) = Limit(b) - o
           /\ \A i \in Slots : Off(c, i) = IF o <= Off(b, i) THEN Off(b, i) - o
                                           ELSE (Off(b, i) - o) + BufSize
<1>1. c.lastcommit \in Slots /\ b.lastcommit \in Slots /\ b.filled \in Slots
  BY Members
<1>2. \A i \in Slots : Off(c, i) = IF o <= Off(b, i) THEN Off(b, i) - o
                                   ELSE (Off(b, i) - o) + BufSize
  BY <1>1, Ring DEF Off
<1>3. /\ Limit(b) \in Nat /\ Limit(b) <= BufSize /\ BufSize \in Nat
      /\ o \in Nat /\ o < BufSize
      /\ Off(b, b.lastcommit) = 0
      /\ b.filled = b.lastcommit \/ Off(b, b.filled) = Limit(b)
      /\ b.filled = b.lastcommit => Limit(b) = BufSize
      /\ \A i, j \in Slots : Off(b, i) = Off(b, j) => i = j
  BY <1>1, Offsets, Sizes
<1>4. Limit(c) = Limit(b) - o
  <2>1. CASE c.filled = c.lastcommit
    <3>1. o = Off(b, b.filled)
      BY <2>1
    <3>2. b.filled = b.lastcommit
      BY <1>3, <3>1
    <3>3. o = 0 /\ Limit(b) = BufSize /\ Limit(c) = BufSize
      BY <1>3, <2>1, <3>1, <3>2 DEF Limit
    <3> QED
      BY <1>3, <3>3
  <2>2. CASE c.filled # c.lastcommit
    <3>1. Limit(c) = Off(c, b.filled)
      BY <2>2 DEF Limit
    <3>2. CASE b.filled = b.lastcommit
      <4>1. o # 0
        BY <1>1, <1>3, <2>2, <3>2
      <4>2. Off(c, b.filled) = (0 - o) + BufSize
        BY <1>1, <1>2, <1>3, <3>2, <4>1
      <4> QED
        BY <1>3, <3>1, <3>2, <4>2
    <3>3. CASE b.filled # b.lastcommit
      <4>1. Off(b, b.filled) = Limit(b)
        BY <1>3, <3>3
      <4>2. Off(c, b.filled) = Limit(b) - o
        BY <1>1, <1>2, <1>3, <4>1
      <4> QED
        BY <3>1, <4>2
    <3> QED
      BY <3>2, <3>3
  <2> QED
    BY <2>1, <2>2
<1> QED
  BY <1>2, <1>3, <1>4

-----------------------------------------------------------------------------
(* A buffer and the instructions in flight whose slots it holds.           *)

IsPlaced(e) == e.kind \in {"real", "pad"}

Typed(s, e) ==
    /\ e \in Instr(s)
    /\ IsPlaced(e) => e.id \in Slots
    /\ ~IsPlaced(e) => e.id \notin Slots
    /\ e.kind = "real" => e.pos \in 1 .. Len(Trace[s])

Ordered(s, P, over) ==
    /\ P \in Seq(Instr(s))
    /\ \A i \in DOMAIN P : Typed(s, P[i]) /\ (P[i].kind = "pad" => over)
    /\ \A i, j \in DOMAIN P : i < j /\ P[i].kind = "pad" => ~IsPlaced(P[j])

Held(b, P) ==
    \A i \in DOMAIN P : P[i].kind = "real" => b.slot[P[i].id].pos = P[i].pos

\* The head lies between the last commit and the last slot filled, the
\* instructions in flight between the last commit and the head, in order.
Within(b, P, over) ==
    /\ b.readPos >= 1
    /\ Off(b, b.head) < Limit(b)
    /\ over \/ Off(b, b.head) >= 1
    /\ \A i \in DOMAIN P : IsPlaced(P[i]) =>
          /\ Off(b, P[i].id) >= 1
          /\ Off(b, P[i].id) <= Off(b, b.head)
          /\ P[i].kind = "real" => Off(b, P[i].id) < Off(b, b.head)
    /\ \A i, j \in DOMAIN P : i < j /\ IsPlaced(P[i]) /\ IsPlaced(P[j]) =>
          Off(b, P[i].id) < Off(b, P[j].id)
    /\ \A i \in Slots : Off(b, i) >= 1 /\ Off(b, i) < Limit(b) => b.slot[i].pos >= 1

\* P lies in Q, n instructions behind its start.
Part(P, Q, n) == \A i \in DOMAIN P : i + n \in DOMAIN Q /\ P[i] = Q[i + n]

LEMMA PartKeeps ==
    ASSUME NEW s \in Streams, NEW b, NEW P, NEW Q, NEW n \in Nat, NEW over,
           P \in Seq(Instr(s)), Part(P, Q, n)
    PROVE  /\ Ordered(s, Q, over) => Ordered(s, P, over)
           /\ Held(b, Q) => Held(b, P)
           /\ Within(b, Q, over) => Within(b, P, over)
<1>1. \A i, j \in DOMAIN P : i < j => i + n < j + n
  BY SeqMembers
<1>2. \A i \in DOMAIN P : i + n \in DOMAIN Q /\ P[i] = Q[i + n]
  BY DEF Part
<1>3. Ordered(s, Q, over) => Ordered(s, P, over)
  BY <1>1, <1>2 DEF Ordered
<1>4. Held(b, Q) => Held(b, P)
  BY <1>2 DEF Held
<1>5. Within(b, Q, over) => Within(b, P, over)
  BY <1>1, <1>2 DEF Within
<1> QED
  BY <1>3, <1>4, <1>5

LEMMA TailIsPart ==
    ASSUME NEW R, NEW Q \in Seq(R), Q # <<>>
    PROVE  /\ Tail(Q) \in Seq(R) /\ Part(Tail(Q), Q, 1)
           /\ Len(Tail(Q)) = Len(Q) - 1 /\ Head(Q) = Q[1] /\ 1 \in DOMAIN Q
<1>1. Len(Q) \in Nat /\ Len(Q) >= 1 /\ Tail(Q) \in Seq(R) /\ Len(Tail(Q)) = Len(Q) - 1
  OBVIOUS
<1>2. \A i \in 1 .. Len(Q) - 1 : Tail(Q)[i] = Q[i + 1] /\ i + 1 \in 1 .. Len(Q)
  BY <1>1
<1>3. DOMAIN Tail(Q) = 1 .. Len(Q) - 1 /\ DOMAIN Q = 1 .. Len(Q)
  BY <1>1
<1> QED
  BY <1>1, <1>2, <1>3 DEF Part

LEMMA FrontIsPart ==
    ASSUME NEW R, NEW Q \in Seq(R), NEW m \in Nat, m <= Len(Q)
    PROVE  /\ SubSeq(Q, 1, m) \in Seq(R) /\ Part(SubSeq(Q, 1, m), Q, 0)
           /\ Len(SubSeq(Q, 1, m)) = m /\ DOMAIN SubSeq(Q, 1, m) = 1 .. m
<1>1. Len(Q) \in Nat /\ DOMAIN Q = 1 .. Len(Q) /\ \A i \in 1 .. Len(Q) : Q[i] \in R
  OBVIOUS
<1>2. SubSeq(Q, 1, m) \in Seq(R)
  <2>1. \A i \in 1 .. m : Q[i] \in R
    BY <1>1
  <2> QED
    BY <1>1, <2>1
<1>3. Len(SubSeq(Q, 1, m)) = m /\ DOMAIN SubSeq(Q, 1, m) = 1 .. m
  BY <1>1, <1>2
<1>4. \A i \in 1 .. m : SubSeq(Q, 1, m)[i] = Q[i] /\ i + 0 = i /\ i \in 1 .. Len(Q)
  BY <1>1, <1>3
<1> QED
  BY <1>1, <1>2, <1>3, <1>4 DEF Part

LEMMA AppendIs ==
    ASSUME NEW R, NEW Q \in Seq(R), NEW e \in R, NEW P, P = Append(Q, e)
    PROVE  /\ P \in Seq(R) /\ Len(P) = Len(Q) + 1 /\ DOMAIN P = 1 .. Len(Q) + 1
           /\ DOMAIN Q = 1 .. Len(Q) /\ Len(Q) \in Nat
           /\ P[Len(Q) + 1] = e /\ \A i \in 1 .. Len(Q) : P[i] = Q[i]
           /\ \A i \in DOMAIN P : (i \in DOMAIN Q /\ P[i] = Q[i]) \/ (i = Len(Q) + 1 /\ P[i] = e)
OBVIOUS

-----------------------------------------------------------------------------
(* What the buffer's calls do to the instructions in flight.               *)

LEMMA Placed ==
    ASSUME NEW s \in Streams, NEW b \in Buffers(s), NEW P, NEW over,
           Ordered(s, P, over), Within(b, P, over)
    PROVE  /\ Off(b, b.head) \in Nat /\ Limit(b) \in Nat /\ Off(b, b.head) < Limit(b)
           /\ \A i \in DOMAIN P : IsPlaced(P[i]) =>
                 /\ P[i].id \in Slots /\ Off(b, P[i].id) \in Nat
                 /\ Off(b, P[i].id) < Limit(b)
<1>1. /\ Off(b, b.head) \in Nat /\ Limit(b) \in Nat /\ Off(b, b.head) < Limit(b)
      /\ \A i \in Slots : Off(b, i) \in Nat
  BY Members, Offsets DEF Within
<1>2. ASSUME NEW i \in DOMAIN P, IsPlaced(P[i])
      PROVE  /\ P[i].id \in Slots /\ Off(b, P[i].id) \in Nat
             /\ Off(b, P[i].id) < Limit(b)
  <2>1. P[i].id \in Slots
    BY <1>2 DEF Ordered, Typed
  <2>2. Off(b, P[i].id) <= Off(b, b.head)
    BY <1>2 DEF Within
  <2>3. \A x, y, z \in Nat : x <= y /\ y < z => x < z
    OBVIOUS
  <2> QED
    BY <1>1, <2>1, <2>2, <2>3
<1> QED
  BY <1>1, <1>2

LEMMA GrowKeeps ==
    ASSUME NEW s \in Streams, NEW b \in Buffers(s), NEW P, NEW over,
           Ordered(s, P, over), Within(b, P, over), NEW c, Grown(s, b, c)
    PROVE  /\ Held(b, P) => Held(c, P)
           /\ c.readPos >= 1 /\ Off(b, b.head) <= Off(c, c.head) /\ Off(c, c.head) < Limit(c) =>
                 Within(c, P, over)
<1>1. \A i \in DOMAIN P : IsPlaced(P[i]) =>
         /\ P[i].id \in Slots /\ Off(b, P[i].id) \in Nat
         /\ Off(b, P[i].id) < Limit(b)
  BY Placed
<1>2. \A i \in DOMAIN P : P[i].kind = "real" => IsPlaced(P[i])
  BY DEF IsPlaced
<1>3. \A i \in Slots : /\ Off(c, i) = Off(b, i)
                       /\ Off(b, i) < Limit(b) => c.slot[i] = b.slot[i]
                       /\ Off(b, i) >= Limit(b) /\ Off(b, i) < Limit(c) => c.slot[i].pos >= 1
  BY DEF Grown
<1>4. Held(b, P) => Held(c, P)
  BY <1>1, <1>2, <1>3 DEF Held
<1>5. ASSUME c.readPos >= 1, Off(b, b.head) <= Off(c, c.head), Off(c, c.head) < Limit(c)
      PROVE  Within(c, P, over)
  <2>0. c \in Buffers(s) /\ c.head \in Slots /\ Off(c, c.head) \in Nat /\ Off(b, b.head) \in Nat
        /\ Limit(b) \in Nat
    BY Members, Offsets DEF Grown
  <2>1. over \/ Off(c, c.head) >= 1
    BY <1>5, <2>0 DEF Within
  <2>2. ASSUME NEW i \in DOMAIN P, IsPlaced(P[i])
        PROVE  /\ Off(c, P[i].id) >= 1
               /\ Off(c, P[i].id) <= Off(c, c.head)
               /\ P[i].kind = "real" => Off(c, P[i].id) < Off(c, c.head)
    <3>1. /\ Off(b, P[i].id) >= 1 /\ Off(b, P[i].id) <= Off(b, b.head)
          /\ P[i].kind = "real" => Off(b, P[i].id) < Off(b, b.head)
      BY <2>2 DEF Within
    <3>2. Off(c, P[i].id) = Off(b, P[i].id) /\ Off(b, P[i].id) \in Nat
      BY <1>1, <1>3, <2>2
    <3>3. \A x, y, z \in Nat : (x <= y /\ y <= z => x <= z) /\ (x < y /\ y <= z => x < z)
      OBVIOUS
    <3> QED
      BY <1>5, <2>0, <3>1, <3>2, <3>3
  <2>3. \A i, j \in DOMAIN P : i < j /\ IsPlaced(P[i]) /\ IsPlaced(P[j]) =>
           Off(c, P[i].id) < Off(c, P[j].id)
    BY <1>1, <1>3 DEF Within
  <2>4. ASSUME NEW i \in Slots, Off(c, i) >= 1, Off(c, i) < Limit(c) PROVE c.slot[i].pos >= 1
    <3>1. Off(b, i) \in Nat
      BY Offsets
    <3>2. CASE Off(b, i) < Limit(b)
      <4>1. b.slot[i].pos >= 1
        BY <1>3, <2>4, <3>2 DEF Within
      <4> QED
        BY <1>3, <3>2, <4>1
    <3>3. CASE ~(Off(b, i) < Limit(b))
      BY <1>3, <2>0, <2>4, <3>1, <3>3
    <3> QED
      BY <3>2, <3>3
  <2> QED
    BY <1>5, <2>1, <2>2, <2>3, <2>4 DEF Within
<1> QED
  BY <1>4, <1>5

\* The first of the placed instructions in flight is committed.
LEMMA CommitKeeps ==
    ASSUME NEW s \in Streams, NEW b \in Buffers(s), NEW Q, NEW over \in BOOLEAN,
           Q \in Seq(Instr(s)), Q # <<>>,
           Ordered(s, Q, over), Within(b, Q, over), Held(b, Q), IsPlaced(Head(Q)),
           NEW c, c = CommitInstr(b, Head(Q).id)
    PROVE  /\ c \in Buffers(s) /\ Held(c, Tail(Q))
           /\ c.fault = "none" => Within(c, Tail(Q), over)
<1> DEFINE P == Tail(Q)
<1>1. /\ P \in Seq(Instr(s)) /\ Part(P, Q, 1) /\ Head(Q) = Q[1] /\ 1 \in DOMAIN Q
      /\ P = Tail(Q)
  BY TailIsPart
<1> HIDE DEF P
<1>2. Ordered(s, P, over) /\ Held(b, P) /\ Within(b, P, over)
  BY <1>1, PartKeeps
<1>3. PICK e : e = Q[1]
  OBVIOUS
<1>4. IsPlaced(e) /\ e.id \in Slots /\ Off(b, e.id) \in Nat /\ Off(b, e.id) < Limit(b)
      /\ c = CommitInstr(b, e.id)
  <2>1. Q[1].id \in Slots /\ Off(b, Q[1].id) \in Nat /\ Off(b, Q[1].id) < Limit(b)
    BY <1>1, Placed
  <2> QED
    BY <1>1, <1>3, <2>1
<1>5. /\ c \in Buffers(s)
      /\ c.head = b.head /\ c.filled = b.filled /\ c.readPos = b.readPos /\ c.slot = b.slot
      /\ \/ c.fault = "outOfOrder" /\ c.lastcommit = b.lastcommit
         \/ c.fault = b.fault /\ c.lastcommit = e.id
  BY <1>4, CommitIs
<1>6. Held(c, P)
  BY <1>2, <1>5 DEF Held
<1>7. ASSUME c.fault = "none" PROVE Within(c, P, over)
  <2>1. c.lastcommit = e.id
    BY <1>5, <1>7
  <2>2. PICK o : o = Off(b, e.id)
    OBVIOUS
  <2>3. /\ o \in Nat /\ o < Limit(b)
        /\ Limit(c) = Limit(b) - o
        /\ \A i \in Slots : Off(c, i) = IF o <= Off(b, i) THEN Off(b, i) - o
                                        ELSE (Off(b, i) - o) + BufSize
    BY <1>4, <1>5, <2>1, <2>2, CommitShifts
  <2>4. /\ b.head \in Slots /\ Off(b, b.head) \in Nat /\ Off(b, b.head) < Limit(b)
        /\ Limit(b) \in Nat /\ \A i \in Slots : Off(b, i) \in Nat /\ Off(b, i) < BufSize
        /\ Limit(b) <= BufSize /\ BufSize \in Nat
    BY Members, Offsets, Sizes DEF Within
  <2>5. o >= 1 /\ o <= Off(b, b.head) /\ (e.kind = "real" => o < Off(b, b.head))
    BY <1>1, <1>3, <1>4, <2>2 DEF Within
  <2>6. Off(c, c.head) = Off(b, b.head) - o
    BY <1>5, <2>3, <2>4, <2>5
  <2>7. over \/ Off(c, c.head) >= 1
    <3>1. CASE e.kind = "real"
      BY <2>3, <2>4, <2>5, <2>6, <3>1
    <3>2. CASE e.kind = "pad"
      BY <1>1, <1>3, <3>2 DEF Ordered
    <3> QED
      BY <1>4, <3>1, <3>2 DEF IsPlaced
  <2>8. ASSUME NEW i \in DOMAIN P, IsPlaced(P[i])
        PROVE  /\ P[i].id \in Slots /\ Off(b, P[i].id) \in Nat /\ o < Off(b, P[i].id)
               /\ Off(c, P[i].id) = Off(b, P[i].id) - o
    <3>1. P[i].id \in Slots /\ Off(b, P[i].id) \in Nat
      BY <1>2, <2>8, Placed
    <3>2. i \in Nat /\ i >= 1
      BY <1>1, SeqMembers
    <3>3. i + 1 \in DOMAIN Q /\ P[i] = Q[i + 1] /\ 1 < i + 1
      BY <1>1, <3>2 DEF Part
    <3>4. o < Off(b, P[i].id)
      BY <1>1, <1>3, <1>4, <2>2, <2>8, <3>3 DEF Within
    <3>5. \A x, y \in Nat : x < y => x <= y
      OBVIOUS
    <3>6. o <= Off(b, P[i].id)
      BY <2>3, <3>1, <3>4, <3>5
    <3> QED
      BY <2>3, <3>1, <3>4, <3>6
  <2>9. ASSUME NEW i \in DOMAIN P, IsPlaced(P[i])
        PROVE  /\ Off(c, P[i].id) >= 1
               /\ Off(c, P[i].id) <= Off(c, c.head)
               /\ P[i].kind = "real" => Off(c, P[i].id) < Off(c, c.head)
    <3>1. /\ Off(b, P[i].id) <= Off(b, b.head)
          /\ P[i].kind = "real" => Off(b, P[i].id) < Off(b, b.head)
      BY <1>2, <2>9 DEF Within
    <3>2. PICK x \in Nat : x = Off(b, P[i].id)
      BY <2>8, <2>9
    <3>3. o < x /\ Off(c, P[i].id) = x - o
      BY <2>8, <2>9, <3>2
    <3> QED
      BY <2>3, <2>4, <2>6, <3>1, <3>2, <3>3
  <2>10. ASSUME NEW i \in DOMAIN P, NEW j \in DOMAIN P, i < j, IsPlaced(P[i]), IsPlaced(P[j])
         PROVE  Off(c, P[i].id) < Off(c, P[j].id)
    <3>1. Off(b, P[i].id) < Off(b, P[j].id)
      BY <1>2, <2>10 DEF Within
    <3>2. PICK x \in Nat : x = Off(b, P[i].id)
      BY <2>8, <2>10
    <3>3. PICK y \in Nat : y = Off(b, P[j].id)
      BY <2>8, <2>10
    <3>4. Off(c, P[i].id) = x - o /\ Off(c, P[j].id) = y - o
      BY <2>8, <2>10, <3>2, <3>3
    <3> QED
      BY <2>3, <3>1, <3>2, <3>3, <3>4
  <2>11. ASSUME NEW i \in Slots, Off(c, i) >= 1, Off(c, i) < Limit(c) PROVE c.slot[i].pos >= 1
    <3>1. PICK x \in Nat : x = Off(b, i) /\ x < BufSize
      BY <2>4
    <3>2. Off(c, i) = IF o <= x THEN x - o ELSE (x - o) + BufSize
      BY <2>3, <3>1
    <3>3. x >= 1 /\ x < Limit(b)
      BY <2>3, <2>4, <2>11, <3>1, <3>2
    <3>4. b.slot[i].pos >= 1
      BY <3>1, <3>3 DEF Within
    <3> QED
      BY <1>5, <3>4
  <2>12. c.readPos >= 1 /\ Off(c, c.head) < Limit(c)
    BY <1>5, <2>3, <2>4, <2>5, <2>6 DEF Within
  <2> QED
    BY <2>7, <2>9, <2>10, <2>11, <2>12 DEF Within
<1> QED
  BY <1>1, <1>5, <1>6, <1>7

\* An instruction of the trace is fetched.
Handed(s, b, e, d) ==
    LET c == NextInstr(s, b)
    IN  /\ e \in Instr(s) /\ e.kind = "real" /\ e.id = b.head /\ e.pos = Inst(b).pos
        /\ e.pos \in 1 .. Len(Trace[s])
        /\ d \in Buffers(s) /\ \A i \in Slots : d.slot[i].pos = c.slot[i].pos
        /\ d.head = c.head /\ d.lastcommit = c.lastcommit /\ d.filled = c.filled
        /\ d.readPos = c.readPos /\ d.fault = c.fault

LEMMA FetchKeeps ==
    ASSUME NEW s \in Streams, NEW b \in Buffers(s), NEW Q, NEW over,
           Ordered(s, Q, over), Within(b, Q, over), Held(b, Q), over = FALSE,
           NEW e, NEW d, Handed(s, b, e, d), NEW P, P = Append(Q, e)
    PROVE  /\ Ordered(s, P, over) /\ Held(d, P)
           /\ d.fault = "none" => Within(d, P, over)
<1>a. PICK c : c = NextInstr(s, b)
  OBVIOUS
<1>b. /\ e \in Instr(s) /\ e.kind = "real" /\ e.id = b.head /\ e.pos = Inst(b).pos
      /\ e.pos \in 1 .. Len(Trace[s])
      /\ d \in Buffers(s) /\ \A i \in Slots : d.slot[i].pos = c.slot[i].pos
      /\ d.head = c.head /\ d.lastcommit = c.lastcommit /\ d.filled = c.filled
      /\ d.readPos = c.readPos /\ d.fault = c.fault
  BY <1>a DEF Handed
<1> USE <1>a, <1>b
<1>1. /\ P \in Seq(Instr(s)) /\ Len(Q) \in Nat /\ DOMAIN P = 1 .. Len(Q) + 1
      /\ DOMAIN Q = 1 .. Len(Q) /\ P[Len(Q) + 1] = e /\ \A i \in 1 .. Len(Q) : P[i] = Q[i]
      /\ \A i \in DOMAIN P : (i \in DOMAIN Q /\ P[i] = Q[i]) \/ (i = Len(Q) + 1 /\ P[i] = e)
  <2>1. Q \in Seq(Instr(s))
    BY DEF Ordered
  <2> QED
    BY <2>1, AppendIs
<1>2. b.head \in Slots
  BY Members
<1>3. IsPlaced(e) /\ Typed(s, e) /\ e.kind # "pad"
  BY <1>2 DEF IsPlaced, Typed
<1>4. \A i \in DOMAIN Q : P[i].kind # "pad"
  BY <1>1 DEF Ordered
<1>5. Ordered(s, P, over)
  <2>1. \A i \in DOMAIN P : Typed(s, P[i]) /\ P[i].kind # "pad"
    BY <1>1, <1>3, <1>4 DEF Ordered
  <2> QED
    BY <1>1, <2>1 DEF Ordered
<1>6. /\ Grown(s, b, c) /\ c.readPos >= 1 /\ c.head = Succ(b.head)
      /\ c.fault = "none" => Off(c, c.head) = Off(b, b.head) + 1 /\ Off(c, c.head) < Limit(c)
  BY ZenonT(40), NextGrows DEF Within
<1>7. /\ Off(b, b.head) \in Nat /\ Limit(b) \in Nat /\ Off(b, b.head) < Limit(b)
      /\ \A i \in DOMAIN Q : IsPlaced(Q[i]) =>
            /\ Q[i].id \in Slots /\ Off(b, Q[i].id) \in Nat
            /\ Off(b, Q[i].id) < Limit(b)
  BY Placed
<1>8. Held(c, Q)
  BY <1>6, GrowKeeps
<1>9. \A i \in Slots : Off(b, i) < Limit(b) => c.slot[i] = b.slot[i]
  BY <1>6 DEF Grown
<1>10. Held(d, P)
  <2>1. c.slot[e.id].pos = e.pos
    BY <1>2, <1>7, <1>9 DEF Inst
  <2>2. \A i \in DOMAIN Q : Q[i].kind = "real" => Q[i].id \in Slots
    BY <1>7 DEF IsPlaced
  <2>3. \A i \in DOMAIN Q : P[i].kind = "real" => d.slot[P[i].id].pos = P[i].pos
    BY <1>1, <1>8, <2>2 DEF Held
  <2>4. d.slot[e.id].pos = e.pos
    BY <1>2, <2>1
  <2> QED
    BY <1>1, <2>3, <2>4 DEF Held
<1>11. ASSUME d.fault = "none" PROVE Within(d, P, over)
  <2>1. /\ Limit(d) = Limit(c) /\ Off(d, d.head) = Off(b, b.head) + 1
        /\ \A i \in Slots : Off(d, i) = Off(b, i)
        /\ Off(d, d.head) < Limit(d)
    <3>1. Limit(d) = Limit(c) /\ \A i \in Slots : Off(d, i) = Off(c, i)
      BY DEF Limit, Off
    <3>2. Off(d, d.head) = Off(c, c.head)
      BY DEF Off
    <3> QED
      BY <1>6, <1>11, <3>1, <3>2 DEF Grown
  <2>2. Within(c, Q, over)
    <3>1. Off(b, b.head) <= Off(c, c.head) /\ Off(c, c.head) < Limit(c)
      BY <1>6, <1>7, <1>11
    <3> QED
      BY <1>6, <3>1, GrowKeeps
  <2>3. Off(b, b.head) >= 1
    BY DEF Within
  <2>4. \A i \in DOMAIN Q : IsPlaced(Q[i]) =>
           /\ Q[i].id \in Slots /\ Off(b, Q[i].id) >= 1
           /\ Q[i].kind = "real"
           /\ Off(b, Q[i].id) < Off(b, b.head)
    <3>1. \A i \in DOMAIN Q : Q[i].kind # "pad"
      BY <1>1, <1>4
    <3> QED
      BY <1>7, <3>1 DEF Within, IsPlaced
  <2>5. ASSUME NEW i \in DOMAIN P, IsPlaced(P[i])
        PROVE  /\ Off(d, P[i].id) >= 1
               /\ Off(d, P[i].id) <= Off(d, d.head)
               /\ P[i].kind = "real" => Off(d, P[i].id) < Off(d, d.head)
    <3>1. CASE i \in DOMAIN Q
      <4>1. P[i] = Q[i] /\ Off(d, P[i].id) = Off(b, Q[i].id) /\ Off(b, Q[i].id) \in Nat
        BY <1>1, <1>7, <2>1, <2>4, <2>5, <3>1
      <4>2. Off(b, Q[i].id) >= 1 /\ Off(b, Q[i].id) < Off(b, b.head)
        BY <2>4, <2>5, <3>1, <4>1
      <4> QED
        BY <1>7, <2>1, <4>1, <4>2
    <3>2. CASE i \notin DOMAIN Q
      <4>1. P[i] = e /\ Off(d, P[i].id) = Off(b, b.head)
        BY <1>1, <1>2, <2>1, <3>2
      <4> QED
        BY <1>7, <2>1, <2>3, <4>1
    <3> QED
      BY <3>1, <3>2
  <2>6. ASSUME NEW i \in DOMAIN P, NEW j \in DOMAIN P, i < j, IsPlaced(P[i]), IsPlaced(P[j])
        PROVE  Off(d, P[i].id) < Off(d, P[j].id)
    <3>1. i \in DOMAIN Q
      BY <1>1, <2>6
    <3>2. P[i] = Q[i] /\ Off(d, P[i].id) = Off(b, Q[i].id)
      BY <1>1, <2>1, <2>4, <2>6, <3>1
    <3>3. CASE j \in DOMAIN Q
      <4>1. P[j] = Q[j] /\ Off(d, P[j].id) = Off(b, Q[j].id)
        BY <1>1, <2>1, <2>4, <2>6, <3>3
      <4>2. Off(b, Q[i].id) < Off(b, Q[j].id)
        BY <2>6, <3>1, <3>2, <3>3, <4>1 DEF Within
      <4> QED
        BY <3>2, <4>1, <4>2
    <3>4. CASE j \notin DOMAIN Q
      <4>1. P[j] = e /\ Off(d, P[j].id) = Off(b, b.head)
        BY <1>1, <1>2, <2>1, <3>4
      <4> QED
        BY <2>4, <2>6, <3>1, <3>2, <4>1
    <3> QED
      BY <3>3, <3>4
  <2>7. \A i \in Slots : Off(d, i) >= 1 /\ Off(d, i) < Limit(d) => d.slot[i].pos >= 1
    <3>1. \A i \in Slots : Off(d, i) = Off(c, i)
      BY <1>6, <2>1 DEF Grown
    <3> QED
      BY <2>1, <2>2, <3>1 DEF Within
  <2>8. d.readPos >= 1 /\ (over \/ Off(d, d.head) >= 1)
    BY <1>6, <1>7, <2>1
  <2> QED
    BY <2>1, <2>5, <2>6, <2>7, <2>8 DEF Within
<1> QED
  BY <1>5, <1>10, <1>11

\* An instruction without a slot is fetched.
LEMMA UnplacedKeeps ==
    ASSUME NEW s \in Streams, NEW b, NEW Q, NEW over,
           Ordered(s, Q, over), NEW e \in Instr(s), ~IsPlaced(e), e.id \notin Slots,
           NEW P, P = Append(Q, e)
    PROVE  /\ Ordered(s, P, over)
           /\ Held(b, Q) => Held(b, P)
           /\ Within(b, Q, over) => Within(b, P, over)
<1>1. /\ P \in Seq(Instr(s)) /\ Len(Q) \in Nat /\ DOMAIN P = 1 .. Len(Q) + 1
      /\ \A i \in DOMAIN P : (i \in DOMAIN Q /\ P[i] = Q[i]) \/ (i = Len(Q) + 1 /\ P[i] = e)
      /\ DOMAIN Q = 1 .. Len(Q)
  <2>1. Q \in Seq(Instr(s))
    BY DEF Ordered
  <2> QED
    BY <2>1, AppendIs
<1>2. e.kind # "real" /\ e.kind # "pad" /\ Typed(s, e)
  BY DEF IsPlaced, Typed
<1>3. Ordered(s, P, over)
  <2>1. \A i \in DOMAIN P : Typed(s, P[i]) /\ (P[i].kind = "pad" => over)
    BY <1>1, <1>2 DEF Ordered
  <2>2. \A i, j \in DOMAIN P : i < j /\ P[i].kind = "pad" => ~IsPlaced(P[j])
    BY <1>1, <1>2 DEF Ordered
  <2> QED
    BY <1>1, <2>1, <2>2 DEF Ordered
<1>4. Held(b, Q) => Held(b, P)
  BY <1>1, <1>2 DEF Held
<1>5. ASSUME Within(b, Q, over) PROVE Within(b, P, over)
  <2>1. \A i \in DOMAIN P : IsPlaced(P[i]) => i \in DOMAIN Q /\ P[i] = Q[i]
    BY <1>1
  <2> QED
    BY <1>5, <2>1 DEF Within
<1> QED
  BY <1>3, <1>4, <1>5

\* The end of the trace is fetched: padding with the head's slot.
LEMMA PadKeeps ==
    ASSUME NEW s \in Streams, NEW b \in Buffers(s), NEW Q,
           Ordered(s, Q, FALSE), Within(b, Q, FALSE), Held(b, Q),
           NEW e \in Instr(s), e.kind = "pad", e.id = b.head,
           NEW P, P = Append(Q, e)
    PROVE  Ordered(s, P, TRUE) /\ Held(b, P) /\ Within(b, P, TRUE)
<1>1. /\ P \in Seq(Instr(s)) /\ Len(Q) \in Nat /\ DOMAIN P = 1 .. Len(Q) + 1
      /\ \A i \in DOMAIN P : (i \in DOMAIN Q /\ P[i] = Q[i]) \/ (i = Len(Q) + 1 /\ P[i] = e)
      /\ DOMAIN Q = 1 .. Len(Q)
  <2>1. Q \in Seq(Instr(s))
    BY DEF Ordered
  <2> QED
    BY <2>1, AppendIs
<1>2. e.kind # "real" /\ Typed(s, e) /\ IsPlaced(e) /\ e.id \in Slots
  BY Members DEF IsPlaced, Typed
<1>3. \A i \in DOMAIN Q : Q[i].kind # "pad" /\ (IsPlaced(Q[i]) => Q[i].kind = "real")
  BY DEF Ordered, IsPlaced
<1>4. Ordered(s, P, TRUE)
  <2>1. \A i \in DOMAIN P : Typed(s, P[i])
    BY <1>1, <1>2 DEF Ordered
  <2>2. \A i, j \in DOMAIN P : i < j => P[i].kind # "pad"
    BY <1>1, <1>3
  <2> QED
    BY <1>1, <2>1, <2>2 DEF Ordered
<1>5. Held(b, P)
  BY <1>1, <1>2 DEF Held
<1>6. Off(b, b.head) \in Nat /\ Off(b, b.head) >= 1
  BY Placed DEF Within
<1>7. \A i \in DOMAIN Q : IsPlaced(Q[i]) =>
         /\ Q[i].id \in Slots /\ Off(b, Q[i].id) >= 1 /\ Off(b, Q[i].id) \in Nat
         /\ Off(b, Q[i].id) < Off(b, b.head)
  BY <1>3, Placed DEF Within
<1>8. Within(b, P, TRUE)
  <2>1. \A i \in DOMAIN P : IsPlaced(P[i]) =>
          /\ Off(b, P[i].id) >= 1
          /\ Off(b, P[i].id) <= Off(b, b.head)
          /\ P[i].kind = "real" => Off(b, P[i].id) < Off(b, b.head)
    BY <1>1, <1>2, <1>6, <1>7
  <2>2. \A i, j \in DOMAIN P : i < j /\ IsPlaced(P[i]) /\ IsPlaced(P[j]) =>
          Off(b, P[i].id) < Off(b, P[j].id)
    <3> SUFFICES ASSUME NEW i \in DOMAIN P, NEW j \in DOMAIN P, i < j,
                        IsPlaced(P[i]), IsPlaced(P[j])
                 PROVE  Off(b, P[i].id) < Off(b, P[j].id)
      OBVIOUS
    <3>1. i \in DOMAIN Q /\ P[i] = Q[i]
      BY <1>1
    <3>2. CASE j \in DOMAIN Q
      BY <1>1, <3>1, <3>2 DEF Within
    <3>3. CASE j \notin DOMAIN Q
      BY <1>1, <1>7, <3>1, <3>3
    <3> QED
      BY <3>2, <3>3
  <2> QED
    BY <2>1, <2>2 DEF Within
<1> QED
  BY <1>4, <1>5, <1>8

\* The head goes back to an instruction in flight, or to the one after it.
Undoes(s, b, Q, i, next, me, m, P, c) ==
    /\ i \in DOMAIN Q /\ Q[i].kind \in {"real", "startup"}
    /\ me \/ next
    /\ m = (IF me THEN i - 1 ELSE i)
    /\ P = SubSeq(Q, 1, m)
    /\ c = KillBuffer(s, b, Q[i], next)

LEMMA KillKeeps ==
    ASSUME NEW s \in Streams, NEW b \in Buffers(s), NEW Q, NEW over,
           Ordered(s, Q, over), Within(b, Q, over), Held(b, Q),
           NEW i, NEW next \in BOOLEAN, NEW me \in BOOLEAN, NEW m, NEW P, NEW c,
           Undoes(s, b, Q, i, next, me, m, P, c)
    PROVE  /\ c \in Buffers(s) /\ c.fault = b.fault /\ c.slot = b.slot
           /\ Limit(c) = Limit(b) /\ c.lastcommit = b.lastcommit /\ c.readPos = b.readPos
           /\ m \in Nat /\ m <= i /\ i \in Nat /\ (~me => m = i) /\ (me => m = i - 1)
           /\ P \in Seq(Instr(s)) /\ Len(P) = m /\ DOMAIN P = 1 .. m
           /\ \A j \in DOMAIN P : j \in DOMAIN Q /\ P[j] = Q[j]
           /\ Ordered(s, P, over) /\ Held(c, P) /\ Within(c, P, over)
           /\ Q[i].kind = "startup" => c = b
           /\ Q[i].kind = "real" =>
                 Off(c, c.head) = IF next THEN Off(b, Q[i].id) + 1 ELSE Off(b, Q[i].id)
<1>0. /\ i \in DOMAIN Q /\ Q[i].kind \in {"real", "startup"}
      /\ me \/ next
      /\ m = (IF me THEN i - 1 ELSE i)
      /\ P = SubSeq(Q, 1, m)
      /\ c = KillBuffer(s, b, Q[i], next)
  BY DEF Undoes
<1> USE <1>0
<1>1. /\ Q \in Seq(Instr(s)) /\ Len(Q) \in Nat /\ DOMAIN Q = 1 .. Len(Q)
      /\ i \in Nat /\ i >= 1 /\ i <= Len(Q)
  BY DEF Ordered
<1>2. m \in Nat /\ m <= i /\ m <= Len(Q) /\ (~me => m = i) /\ (me => m = i - 1)
  BY <1>1
<1>3. P \in Seq(Instr(s)) /\ Part(P, Q, 0) /\ Len(P) = m /\ DOMAIN P = 1 .. m
  BY <1>1, <1>2, FrontIsPart
<1>4. Ordered(s, P, over) /\ Held(b, P) /\ Within(b, P, over)
  BY <1>3, PartKeeps
<1>4a. \A j \in DOMAIN P : j \in DOMAIN Q /\ P[j] = Q[j]
  BY <1>1, <1>3 DEF Part
<1>5. CASE Q[i].kind = "startup"
  <2>1. Q[i].id \notin Slots
    BY <1>5 DEF Ordered, Typed, IsPlaced
  <2>2. c = b
    BY <2>1 DEF KillBuffer
  <2> QED
    BY <1>2, <1>3, <1>4, <1>4a, <1>1, <1>5, <2>2
<1>6. CASE Q[i].kind = "real"
  <2>1. PICK id : id = Q[i].id
    OBVIOUS
  <2>2. id \in Slots /\ Off(b, id) \in Nat /\ Off(b, id) < Off(b, b.head) /\ Off(b, id) >= 1
        /\ Off(b, b.head) \in Nat /\ Off(b, b.head) < Limit(b) /\ Limit(b) \in Nat
    BY <1>6, <2>1, Placed DEF Within, IsPlaced
  <2>3. PICK d : d = [b EXCEPT !.head = id]
    OBVIOUS
  <2>4. /\ d \in Buffers(s) /\ d.head = id /\ d.readPos = b.readPos /\ d.fault = b.fault
        /\ Limit(d) = Limit(b) /\ d.filled = b.filled /\ d.slot = b.slot
        /\ d.lastcommit = b.lastcommit /\ \A j \in Slots : Off(d, j) = Off(b, j)
    BY <2>2, <2>3, GrownSame DEF Grown
  <2>5. Succ(id) \in Slots /\ Off(b, Succ(id)) = Off(b, id) + 1
    <3>1. Off(b, id) + 1 < BufSize
      BY <2>2, Offsets, Sizes
    <3>2. b.lastcommit \in Slots
      BY Members
    <3>3. /\ Succ(id) \in Slots
          /\ Off(b, Succ(id)) = IF Off(b, id) + 1 = BufSize THEN 0 ELSE Off(b, id) + 1
      BY <2>2, <3>2, RingSucc DEF Off
    <3> QED
      BY <2>2, <3>1, <3>3, Sizes
  <2>6. c = IF next THEN NextInstr(s, d) ELSE d
    BY <2>1, <2>2, <2>3 DEF KillBuffer, Backup
  <2>7. d.readPos >= 1
    BY <2>4 DEF Within
  <2>8. next => c = [d EXCEPT !.head = Succ(id)]
    <3>1. Off(d, d.head) + 1 < Limit(d)
      BY <2>2, <2>4
    <3> QED
      BY <2>4, <2>6, <2>7, <3>1, NextGrows
  <2>9. /\ c \in Buffers(s) /\ c.readPos = b.readPos /\ c.fault = b.fault
        /\ Limit(c) = Limit(b) /\ c.slot = b.slot /\ c.lastcommit = b.lastcommit
        /\ c.head = IF next THEN Succ(id) ELSE id
    <3>1. CASE next = TRUE
      <4>1. c = [d EXCEPT !.head = Succ(id)]
        BY <2>8, <3>1
      <4> QED
        BY <2>4, <2>5, <3>1, <4>1, GrownSame DEF Grown
    <3>2. CASE next = FALSE
      BY <2>4, <2>6, <3>2
    <3> QED
      BY <3>1, <3>2
  <2>10. \A j \in Slots : Off(c, j) = Off(b, j)
    BY <2>9 DEF Off
  <2>11. /\ Off(c, c.head) = IF next THEN Off(b, id) + 1 ELSE Off(b, id)
         /\ Off(c, c.head) \in Nat /\ Off(c, c.head) >= 1 /\ Off(c, c.head) < Limit(c)
    <3>1. CASE next = TRUE
      <4>1. c.head = Succ(id) /\ Off(c, c.head) = Off(b, id) + 1
        BY <2>5, <2>9, <2>10, <3>1
      <4>2. \A x, y, z \in Nat : x < y /\ y < z => x + 1 \in Nat /\ x + 1 >= 1 /\ x + 1 < z
        OBVIOUS
      <4>3. Off(b, id) + 1 \in Nat /\ Off(b, id) + 1 >= 1 /\ Off(b, id) + 1 < Limit(b)
        BY <2>2, <4>2
      <4>4. Off(c, c.head) \in Nat /\ Off(c, c.head) >= 1 /\ Off(c, c.head) < Limit(c)
        BY <2>9, <4>1, <4>3
      <4> QED
        BY <3>1, <4>1, <4>4
    <3>2. CASE next = FALSE
      <4>1. c.head = id /\ Off(c, c.head) = Off(b, id)
        BY <2>2, <2>9, <2>10, <3>2
      <4> QED
        BY <2>2, <2>9, <3>2, <4>1
    <3> QED
      BY <3>1, <3>2
  <2>12. Held(c, P)
    BY <1>4, <2>9 DEF Held
  <2>13. ASSUME NEW j \in DOMAIN P, IsPlaced(P[j])
         PROVE  /\ Off(c, P[j].id) >= 1 /\ Off(c, P[j].id) <= Off(c, c.head)
                /\ Off(c, P[j].id) < Off(c, c.head)
    <3>1. j \in DOMAIN Q /\ P[j] = Q[j] /\ j \in Nat /\ j <= m
      BY <1>2, <1>3, <1>4a
    <3>2. P[j].id \in Slots /\ Off(b, P[j].id) \in Nat /\ Off(b, P[j].id) >= 1
      BY <1>4, <2>13, Placed DEF Within
    <3>3. Off(c, P[j].id) = Off(b, P[j].id)
      BY <2>10, <3>2
    <3>4. CASE j = i
      <4>1. ~me /\ next
        BY <1>1, <1>2, <3>1, <3>4
      <4>2. Off(c, c.head) = Off(b, id) + 1
        BY <2>11, <4>1
      <4> QED
        BY <2>1, <2>2, <3>1, <3>2, <3>3, <3>4, <4>2
    <3>5. CASE j # i
      <4>1. j < i /\ IsPlaced(Q[i])
        BY <1>1, <1>2, <1>6, <3>1, <3>5 DEF IsPlaced
      <4>2. Off(b, Q[j].id) < Off(b, id)
        BY <2>1, <2>13, <3>1, <4>1 DEF Within
      <4>3. Off(b, id) <= Off(c, c.head)
        BY <2>2, <2>11
      <4>4. \A x, y, z \in Nat : x < y /\ y <= z => x <= z /\ x < z
        OBVIOUS
      <4> QED
        BY <2>2, <2>11, <3>1, <3>2, <3>3, <4>2, <4>3, <4>4
    <3> QED
      BY <3>4, <3>5
  <2>14. ASSUME NEW j \in DOMAIN P, NEW k \in DOMAIN P, j < k, IsPlaced(P[j]), IsPlaced(P[k])
         PROVE  Off(c, P[j].id) < Off(c, P[k].id)
    <3>1. P[j].id \in Slots /\ P[k].id \in Slots
      BY <1>4, <2>14, Placed
    <3>2. Off(b, P[j].id) < Off(b, P[k].id)
      BY <1>4, <2>14 DEF Within
    <3> QED
      BY <2>10, <3>1, <3>2
  <2>15. \A j \in Slots : Off(c, j) >= 1 /\ Off(c, j) < Limit(c) => c.slot[j].pos >= 1
    BY <2>9, <2>10 DEF Within
  <2>16. Within(c, P, over)
    <3>1. c.readPos >= 1
      BY <2>9 DEF Within
    <3> QED
      BY SMTT(30), <2>11, <2>13, <2>14, <2>15, <3>1 DEF Within
  <2> QED
    BY <1>1, <1>2, <1>3, <1>4, <1>4a, <1>6, <2>1, <2>9, <2>11, <2>12, <2>16
<1> QED
  BY <1>5, <1>6

-----------------------------------------------------------------------------
(* Skip.                                                                   *)

SkipTurn(s, n, r) ==
    IF r.n >= n \/ Eof(s, r.b) THEN r
    ELSE LET c == NextInstr(s, r.b)
         IN  IF IsWrongpath(c) THEN [r EXCEPT !.b = c]
             ELSE [b |-> CommitInstr(c, c.head), n |-> r.n + 1]

\* What the loop of SkipHelper keeps of its buffer, its last call leaves one
\* slot behind.
LEMMA SkipLoop ==
    ASSUME NEW s \in Streams, NEW n \in Nat, NEW G, CommitAll(s, trace[s]) \in G,
           \A c \in G : NextInstr(s, c) \in G,
           \A c \in G : CommitInstr(NextInstr(s, c), NextInstr(s, c).head) \in G
    PROVE  \E c \in G : SkipHelper(s, n) = NextInstr(s, c)
<1> DEFINE I == EofPos(s)
           first == [b |-> CommitAll(s, trace[s]), n |-> 0]
           Meets(f, x) == f = [k \in 0 .. x |-> IF k = 0 THEN first
                                                ELSE SkipTurn(s, n, f[k - 1])]
           step(r) ==
              IF r.n >= n \/ Eof(s, r.b) THEN r
              ELSE LET c == NextInstr(s, r.b)
                   IN  IF IsWrongpath(c) THEN [r EXCEPT !.b = c]
                       ELSE [b |-> CommitInstr(c, c.head), n |-> r.n + 1]
           loop[k \in 0 .. EofPos(s)] ==
              IF k = 0 THEN [b |-> CommitAll(s, trace[s]), n |-> 0]
              ELSE step(loop[k - 1])
<1>1. I \in Nat
  BY Places
<1>2. SkipHelper(s, n) = NextInstr(s, loop[I].b)
  BY DEF SkipHelper
<1>3. \E f : Meets(f, I)
  <2> HIDE DEF first
  <2> DEFINE Short == {x \in 0 .. I : ~\E f : Meets(f, x)}
  <2>1. Short \subseteq Nat
    OBVIOUS
  <2> SUFFICES ASSUME Short # {} PROVE FALSE
    <3>1. I \in 0 .. I
      <4> HIDE DEF I
      <4> QED
        BY <1>1
    <3> QED
      BY <3>1
  <2>2. PICK x \in Short : \A j \in Short : x <= j
    <3> HIDE DEF Short
    <3> QED
      BY <2>1, LeastNat
  <2>3. x \in 0 .. I /\ ~\E f : Meets(f, x)
    OBVIOUS
  <2> HIDE DEF I
  <2>4. x # 0
    <3>1. PICK f : f = [k \in 0 .. 0 |-> first]
      OBVIOUS
    <3>2. Meets(f, 0)
      BY <3>1
    <3> QED
      BY <2>3, <3>2
  <2>5. x - 1 \in 0 .. I /\ x - 1 \notin Short
    <3> HIDE DEF Short
    <3>1. x \in Nat /\ x <= I
      BY <1>1, <2>3
    <3>2. x - 1 \in 0 .. I
      BY <1>1, <3>1, <2>4
    <3>3. x - 1 \in Short => x <= x - 1
      BY <2>2
    <3> QED
      BY <3>1, <3>2, <3>3
  <2>6. PICK f : Meets(f, x - 1)
    BY <2>5
  <2>7. PICK g : g = [k \in 0 .. x |-> IF k < x THEN f[k] ELSE SkipTurn(s, n, f[x - 1])]
    OBVIOUS
  <2>8. \A k \in 0 .. x - 1 : f[k] = IF k = 0 THEN first ELSE SkipTurn(s, n, f[k - 1])
    BY <2>6
  <2>9. \A k \in 0 .. x : g[k] = IF k = 0 THEN first ELSE SkipTurn(s, n, g[k - 1])
    <3> SUFFICES ASSUME NEW k \in 0 .. x
                 PROVE  g[k] = IF k = 0 THEN first ELSE SkipTurn(s, n, g[k - 1])
      OBVIOUS
    <3>0. x \in Nat
      BY <1>1, <2>3
    <3>1. \A m \in 0 .. x - 1 : g[m] = f[m]
      BY <3>0, <2>7
    <3>2. CASE k = x
      <4>1. x - 1 \in 0 .. x - 1 /\ x \in 0 .. x
        BY <3>0, <2>4
      <4>2. g[x] = SkipTurn(s, n, f[x - 1])
        BY <2>7, <4>1
      <4> QED
        BY <2>4, <3>1, <3>2, <4>1, <4>2
    <3>3. CASE k # x
      <4>1. k \in 0 .. x - 1 /\ (k # 0 => k - 1 \in 0 .. x - 1)
        BY <3>0, <3>3
      <4> QED
        BY <2>8, <3>1, <4>1
    <3> QED
      BY <3>2, <3>3
  <2>10. Meets(g, x)
    BY <2>7, <2>9
  <2> QED
    BY <2>3, <2>10
<1>4. \A k \in 0 .. I : loop[k] = IF k = 0 THEN first ELSE SkipTurn(s, n, loop[k - 1])
  <2>1. Meets(loop, I)
    <3>1. loop = CHOOSE f : f = [k \in 0 .. EofPos(s) |->
                    IF k = 0 THEN [b |-> CommitAll(s, trace[s]), n |-> 0]
                    ELSE step(f[k - 1])]
      OBVIOUS
    <3>2. \E f : f = [k \in 0 .. EofPos(s) |->
                    IF k = 0 THEN [b |-> CommitAll(s, trace[s]), n |-> 0]
                    ELSE step(f[k - 1])]
      BY <1>3 DEF SkipTurn
    <3>3. loop = [k \in 0 .. EofPos(s) |->
                    IF k = 0 THEN [b |-> CommitAll(s, trace[s]), n |-> 0]
                    ELSE step(loop[k - 1])]
      <4> HIDE DEF loop, step
      <4> QED
        BY <3>1, <3>2
    <3> HIDE DEF loop
    <3> QED
      BY <3>3 DEF SkipTurn
  <2> HIDE DEF loop
  <2> QED
    BY <2>1
<1> HIDE DEF loop, step, Meets
<1> DEFINE R == [b : G, n : Nat]
<1>5. first \in R
  OBVIOUS
<1>6. ASSUME NEW r \in R PROVE SkipTurn(s, n, r) \in R
  <2>1. PICK c : c = NextInstr(s, r.b)
    OBVIOUS
  <2>2. c \in G /\ CommitInstr(c, c.head) \in G /\ r.n + 1 \in Nat
    <3>1. r.b \in G /\ r.n \in Nat
      OBVIOUS
    <3> QED
      BY <2>1, <3>1
  <2>3. [r EXCEPT !.b = c] \in R /\ [b |-> CommitInstr(c, c.head), n |-> r.n + 1] \in R
    BY <2>2
  <2>4. SkipTurn(s, n, r) \in {r, [r EXCEPT !.b = c], [b |-> CommitInstr(c, c.head), n |-> r.n + 1]}
    BY <2>1 DEF SkipTurn
  <2> QED
    BY <2>3, <2>4
<1> HIDE DEF R, first
<1> DEFINE Out == {k \in 0 .. I : loop[k] \notin R}
<1>7. Out = {}
  <2> SUFFICES ASSUME Out # {} PROVE FALSE
    OBVIOUS
  <2>1. Out \subseteq Nat
    OBVIOUS
  <2>2. PICK k \in Out : \A j \in Out : k <= j
    <3> HIDE DEF Out
    <3> QED
      BY <2>1, LeastNat
  <2>3. k \in 0 .. I /\ loop[k] \notin R
    OBVIOUS
  <2> HIDE DEF I
  <2>4. k # 0
    BY <1>4, <1>5, <2>3
  <2>5. k - 1 \in 0 .. I /\ ~(k <= k - 1)
    BY <1>1, <2>3, <2>4
  <2>6. loop[k - 1] \in R
    BY <2>2, <2>5
  <2> QED
    BY <1>4, <1>6, <2>3, <2>4, <2>6
<1>8. loop[I] \in R
  <2>1. I \in 0 .. I
    BY <1>1
  <2> QED
    BY <1>7, <2>1
<1>9. loop[I].b \in G
  BY <1>8 DEF R
<1> QED
  BY <1>2, <1>9

\* The buffer between two turns of the loop: only the last slot may still be
\* unread, and then the head has not come to it.
Fresh(s, b) ==
    /\ b \in Buffers(s) /\ b.readPos >= 1
    /\ \A i \in Slots : i # BufSize - 1 => b.slot[i].pos >= 1
    /\ \/ b.slot[BufSize - 1].pos >= 1
       \/ b.filled = BufSize - 1 /\ b.lastcommit # BufSize - 1 /\ b.head # BufSize - 1
    /\ b.fault = "none" => Off(b, b.head) < Limit(b)

LEMMA Ends == 0 \in Slots /\ BufSize - 1 \in Slots /\ BufSize - 1 # 0
              /\ Dist(BufSize - 1, 0) = 1 /\ Dist(0, BufSize - 1) = BufSize - 1
              /\ \A i \in Slots : Dist(BufSize - 1, i) < 1 => i = BufSize - 1
<1>1. BufSize \in Nat /\ BufSize >= 2
  BY Sizes
<1>2. 0 \in Slots /\ BufSize - 1 \in Slots /\ BufSize - 1 # 0
  BY <1>1, Sizes
<1>3. Dist(BufSize - 1, 0) = 1 /\ Dist(0, BufSize - 1) = BufSize - 1
  <2>1. /\ Dist(BufSize - 1, 0) = IF BufSize - 1 <= 0 THEN 0 - (BufSize - 1)
                                  ELSE (0 - (BufSize - 1)) + BufSize
        /\ Dist(0, BufSize - 1) = IF 0 <= BufSize - 1 THEN (BufSize - 1) - 0
                                  ELSE ((BufSize - 1) - 0) + BufSize
    BY <1>2, DistIs
  <2> QED
    BY <1>1, <2>1
<1>4. ASSUME NEW i \in Slots, Dist(BufSize - 1, i) < 1 PROVE i = BufSize - 1
  <2>1. Dist(BufSize - 1, i) \in Nat /\ Dist(BufSize - 1, BufSize - 1) = 0
    BY <1>2, DistIs, Ring
  <2>2. Dist(BufSize - 1, i) = 0
    BY <1>4, <2>1
  <2> QED
    BY <1>2, <2>1, <2>2, Ring
<1> QED
  BY <1>2, <1>3, <1>4

LEMMA FreshNext ==
    ASSUME NEW s \in Streams, NEW b, Fresh(s, b), NEW c, c = NextInstr(s, b)
    PROVE  Fresh(s, c) /\ Inst(c).pos >= 1 /\ (c.fault = "none" => Off(c, c.head) >= 1)
<1>0. b \in Buffers(s) /\ b.readPos >= 1 /\ b.head \in Slots /\ BufSize - 1 \in Slots
      /\ b.readPos \in Nat
  BY Members, Ends DEF Fresh
<1>1. PICK d : d = [b EXCEPT !.head = Succ(b.head)]
  OBVIOUS
<1>2. Succ(b.head) \in Slots
  BY <1>0, RingSucc
<1>3. /\ d \in Buffers(s) /\ d.head = Succ(b.head) /\ d.readPos = b.readPos
      /\ d.fault = b.fault /\ d.filled = b.filled /\ d.slot = b.slot
      /\ d.lastcommit = b.lastcommit
  BY <1>0, <1>1, <1>2, GrownSame DEF Grown
<1>4. c = IF d.head = d.filled THEN FillBuffer(s, d) ELSE d
  BY <1>1 DEF NextInstr
<1>5. /\ Grown(s, b, c) /\ c.readPos >= 1 /\ c.head = Succ(b.head)
      /\ Off(b, b.head) < Limit(b) /\ c.fault = "none" =>
            Off(c, c.head) = Off(b, b.head) + 1 /\ Off(c, c.head) < Limit(c)
  BY <1>0, NextGrows
<1>6. c \in Buffers(s) /\ c.lastcommit = b.lastcommit /\ (c.fault = "none" => b.fault = "none")
  BY <1>5 DEF Grown
<1>7. ASSUME c.fault = "none" PROVE Off(c, c.head) < Limit(c) /\ Off(c, c.head) >= 1
  <2>1. Off(b, b.head) < Limit(b)
    BY <1>6, <1>7 DEF Fresh
  <2>2. Off(b, b.head) \in Nat
    BY <1>0, Offsets
  <2> QED
    BY <1>5, <1>7, <2>1, <2>2
<1>8. /\ \A i \in Slots : i # BufSize - 1 => c.slot[i].pos >= 1
      /\ \/ c.slot[BufSize - 1].pos >= 1
         \/ c.filled = BufSize - 1 /\ c.lastcommit # BufSize - 1 /\ c.head # BufSize - 1
  <2>1. CASE d.head # d.filled
    BY <1>3, <1>4, <2>1 DEF Fresh
  <2>2. CASE d.head = d.filled /\ d.filled = d.lastcommit
    <3>1. c.slot = b.slot
      BY <1>3, <1>4, <2>2, FillIs
    <3>2. b.slot[BufSize - 1].pos >= 1
      BY <1>3, <2>2 DEF Fresh
    <3> QED
      BY <3>1, <3>2 DEF Fresh
  <2>3. CASE d.head = d.filled /\ d.filled # d.lastcommit
    <3>1. \A i \in Slots :
             c.slot[i] = IF Off(d, i) < Limit(d) THEN d.slot[i]
                         ELSE GetNextInst(s, d.readPos + (Off(d, i) - Limit(d)), d.slot[i])
      BY <1>3, <1>4, <2>3, FillIs
    <3>2. ASSUME NEW i \in Slots, ~(Off(d, i) < Limit(d)) PROVE c.slot[i].pos >= 1
      <4>1. Off(d, i) \in Nat /\ Limit(d) \in Nat
        BY <1>3, Offsets
      <4>2. PICK p \in Nat : p = d.readPos + (Off(d, i) - Limit(d)) /\ p >= 1
        BY <1>0, <1>3, <3>2, <4>1
      <4>3. d.slot[i] \in Cells(s)
        BY <1>3, Members
      <4>4. c.slot[i] = GetNextInst(s, p, d.slot[i])
        BY <3>1, <3>2, <4>2
      <4> QED
        BY ZenonT(40), <4>2, <4>3, <4>4, Reads
    <3>3. ASSUME NEW i \in Slots, b.slot[i].pos >= 1 PROVE c.slot[i].pos >= 1
      BY <1>3, <3>1, <3>2, <3>3
    <3>4. c.slot[BufSize - 1].pos >= 1
      <4>1. CASE b.slot[BufSize - 1].pos >= 1
        BY <1>0, <3>3, <4>1
      <4>2. CASE b.filled = BufSize - 1
        <5>1. Off(d, d.filled) = Limit(d) /\ Limit(d) \in Nat
          BY <1>3, <2>3, Offsets
        <5>2. ~(Off(d, BufSize - 1) < Limit(d))
          BY <1>3, <4>2, <5>1
        <5> QED
          BY <1>0, <3>2, <5>2
      <4> QED
        BY <4>1, <4>2 DEF Fresh
    <3> QED
      BY <3>3, <3>4 DEF Fresh
  <2> QED
    BY <2>1, <2>2, <2>3
<1>9. Inst(c).pos >= 1
  <2>1. c.head \in Slots
    BY <1>2, <1>5
  <2> QED
    BY <1>8, <2>1 DEF Inst
<1> QED
  BY <1>5, <1>6, <1>7, <1>8, <1>9 DEF Fresh

LEMMA FreshCommit ==
    ASSUME NEW s \in Streams, NEW b, Fresh(s, b), NEW c, c = CommitInstr(b, b.head)
    PROVE  Fresh(s, c)
<1>0. b \in Buffers(s) /\ b.head \in Slots
  BY Members DEF Fresh
<1>1. /\ c \in Buffers(s)
      /\ c.head = b.head /\ c.filled = b.filled /\ c.readPos = b.readPos /\ c.slot = b.slot
      /\ \/ c.fault = "outOfOrder" /\ c.lastcommit = b.lastcommit
         \/ c.fault = b.fault /\ c.lastcommit = b.head
  BY <1>0, CommitIs
<1>2. \/ c.slot[BufSize - 1].pos >= 1
      \/ c.filled = BufSize - 1 /\ c.lastcommit # BufSize - 1 /\ c.head # BufSize - 1
  BY <1>1 DEF Fresh
<1>3. ASSUME c.fault = "none" PROVE Off(c, c.head) < Limit(c)
  <2>1. c.lastcommit = c.head
    BY <1>1, <1>3
  <2>2. Off(c, c.head) = 0 /\ Limit(c) \in Nat /\ Limit(c) >= 1
    BY <1>1, <2>1, Offsets
  <2> QED
    BY <2>2
<1> QED
  BY <1>1, <1>2, <1>3 DEF Fresh

LEMMA FreshStart ==
    ASSUME NEW s \in Streams, NEW b \in Buffers(s), b.readPos >= 1,
           NEW c, c = CommitAll(s, b)
    PROVE  Fresh(s, c)
<1>1. PICK a : a = [b EXCEPT !.head = 0, !.lastcommit = BufSize - 1, !.filled = 0]
  OBVIOUS
<1>2. /\ a \in Buffers(s) /\ a.head = 0 /\ a.lastcommit = BufSize - 1 /\ a.filled = 0
      /\ a.readPos = b.readPos /\ a.readPos >= 1
  BY <1>1, Ends DEF Buffers
<1>3. PICK f : f = FillBuffer(s, a)
  OBVIOUS
<1>4. c = [f EXCEPT !.lastcommit = 0]
  BY <1>1, <1>3 DEF CommitAll
<1>5. a.filled # a.lastcommit /\ Limit(a) = 1 /\ \A i \in Slots : Off(a, i) = Dist(BufSize - 1, i)
  BY <1>2, Ends DEF Limit, Off
<1>6. /\ f \in Buffers(s) /\ f.head = 0 /\ f.filled = BufSize - 1
      /\ Grown(s, a, f) /\ f.readPos >= 1 /\ Limit(f) = BufSize
  BY ZenonT(40), <1>2, <1>3, <1>5, FillIs, FillGrows
<1>7. \A i \in Slots : i # BufSize - 1 => f.slot[i].pos >= 1
  <2>1. ASSUME NEW i \in Slots, i # BufSize - 1 PROVE f.slot[i].pos >= 1
    <3>1. Off(a, i) \in Nat /\ ~(Off(a, i) < 1) /\ Off(a, i) < BufSize
      BY <1>2, <1>5, <2>1, Ends, Offsets
    <3>2. Off(a, i) >= Limit(a) /\ Off(a, i) < Limit(f)
      BY <1>5, <1>6, <3>1
    <3> QED
      BY <1>6, <3>2 DEF Grown
  <2> QED
    BY <2>1
<1>8. /\ c \in Buffers(s) /\ c.head = 0 /\ c.lastcommit = 0 /\ c.filled = BufSize - 1
      /\ c.slot = f.slot /\ c.readPos = f.readPos
  BY <1>4, <1>6, Ends DEF Buffers
<1>9. Off(c, c.head) < Limit(c)
  <2>1. Off(c, c.head) = 0 /\ Limit(c) \in Nat /\ Limit(c) >= 1
    BY <1>8, Offsets
  <2> QED
    BY <2>1
<1> QED
  BY <1>6, <1>7, <1>8, <1>9, Ends DEF Fresh

\* What a fresh buffer is to an empty pipe.
LEMMA FreshWithin ==
    ASSUME NEW s \in Streams, NEW b, Fresh(s, b), b.fault = "none", Off(b, b.head) >= 1
    PROVE  Within(b, <<>>, FALSE)
<1>0. b \in Buffers(s) /\ b.readPos >= 1 /\ Off(b, b.head) < Limit(b)
  BY DEF Fresh
<1>1. ASSUME NEW i \in Slots, Off(b, i) >= 1, Off(b, i) < Limit(b) PROVE b.slot[i].pos >= 1
  <2>1. CASE i # BufSize - 1
    BY <2>1 DEF Fresh
  <2>2. CASE i = BufSize - 1 /\ ~(b.slot[BufSize - 1].pos >= 1)
    <3>1. b.filled = i /\ b.filled # b.lastcommit
      BY <2>2 DEF Fresh
    <3>2. Off(b, i) = Limit(b) /\ Limit(b) \in Nat
      BY <1>0, <3>1, Offsets
    <3> QED
      BY <1>1, <3>2
  <2> QED
    BY <2>1, <2>2
<1>2. DOMAIN <<>> = {}
  OBVIOUS
<1> QED
  BY <1>0, <1>1, <1>2 DEF Within

LEMMA SkipFresh ==
    ASSUME NEW s \in Streams, trace[s] \in Buffers(s), trace[s].readPos >= 1,
           NEW n \in Nat, NEW c, c = SkipHelper(s, n)
    PROVE  Fresh(s, c) /\ Inst(c).pos >= 1 /\ (c.fault = "none" => Within(c, <<>>, FALSE))
<1> DEFINE G == {b \in Buffers(s) : Fresh(s, b)}
<1>1. \A b : b \in G <=> Fresh(s, b)
  BY DEF Fresh
<1> HIDE DEF G
<1>2. CommitAll(s, trace[s]) \in G
  BY <1>1, FreshStart
<1>3. \A b \in G : NextInstr(s, b) \in G
  BY <1>1, FreshNext
<1>4. \A b \in G : CommitInstr(NextInstr(s, b), NextInstr(s, b).head) \in G
  BY <1>1, <1>3, FreshCommit
<1>5. PICK b \in G : c = NextInstr(s, b)
  BY <1>2, <1>3, <1>4, SkipLoop
<1>6. Fresh(s, c) /\ Inst(c).pos >= 1 /\ (c.fault = "none" => Off(c, c.head) >= 1)
  BY <1>1, <1>5, FreshNext
<1> QED
  BY <1>6, FreshWithin

-----------------------------------------------------------------------------
(* Init.                                                                   *)

LEMMA StartsWithin ==
    ASSUME NEW s \in Streams, NEW b \in InitialBuffers(s)
    PROVE  /\ b \in Buffers(s) /\ b.fault = "none" /\ Within(b, <<>>, FALSE)
           /\ Off(b, b.head) = 1 /\ Limit(b) = BufSize
           /\ b.readPos = AtMost(BufSize, EofPos(s))
           /\ \E old : /\ old \in [Slots -> Cells(s)]
                       /\ \A i \in Slots : Off(b, i) >= 1 =>
                             b.slot[i] = GetNextInst(s, Off(b, i), old[i])
                       /\ \A i \in Slots : ~(Off(b, i) >= 1) => b.slot[i] = old[i]
<1>1. \E a, w : /\ w \in [Slots -> Cells(s)]
                /\ a = [head |-> 0, lastcommit |-> BufSize - 1, filled |-> 0,
                        readPos |-> 1, fault |-> "none", slot |-> w]
                /\ b = FillBuffer(s, a)
  <2> DEFINE unread == {i \in Slots : i >= AtMost(Len(Trace[s]), BufSize - 1)}
             empty == [pos |-> 0, wrongpath |-> FALSE, nop |-> FALSE]
  <2>1. PICK g \in [unread -> [pos : {0}, wrongpath : BOOLEAN, nop : BOOLEAN]] :
           b = FillBuffer(s, [head |-> 0, lastcommit |-> BufSize - 1, filled |-> 0,
                              readPos |-> 1, fault |-> "none",
                              slot |-> [i \in Slots |-> IF i \in unread THEN g[i] ELSE empty]])
    BY DEF InitialBuffers
  <2>2. 0 \in Positions(s)
    BY Places
  <2>3. PICK w : w = [i \in Slots |-> IF i \in unread THEN g[i] ELSE empty]
    OBVIOUS
  <2>4. \A i \in unread : g[i] \in Cells(s)
    <3>1. \A x \in [pos : {0}, wrongpath : BOOLEAN, nop : BOOLEAN] : x \in Cells(s)
      BY <2>2 DEF Cells
    <3> HIDE DEF unread
    <3> QED
      BY <3>1
  <2>5. empty \in Cells(s)
    BY <2>2 DEF Cells
  <2> HIDE DEF unread, empty
  <2>6. \A i \in Slots : w[i] \in Cells(s)
    BY <2>3, <2>4, <2>5
  <2>7. w \in [Slots -> Cells(s)]
    BY <2>3, <2>6
  <2> QED
    BY <2>1, <2>3, <2>7
<1>2. 0 \in Positions(s) /\ 1 \in Positions(s)
  BY Places
<1>5. PICK a, w : /\ w \in [Slots -> Cells(s)]
                  /\ a = [head |-> 0, lastcommit |-> BufSize - 1, filled |-> 0,
                          readPos |-> 1, fault |-> "none", slot |-> w]
                  /\ b = FillBuffer(s, a)
  BY <1>1
<1>4. w \in [Slots -> Cells(s)]
  BY <1>5
<1>6. b = FillBuffer(s, a)
  BY <1>5
<1>7. /\ a \in Buffers(s) /\ a.head = 0 /\ a.lastcommit = BufSize - 1 /\ a.filled = 0
      /\ a.readPos = 1 /\ a.fault = "none" /\ a.slot = w
  BY <1>2, <1>4, <1>5, Ends DEF Buffers, Cells
<1>7a. a.readPos >= 1
  BY <1>7
<1>8. a.filled # a.lastcommit /\ Limit(a) = 1 /\ \A i \in Slots : Off(a, i) = Dist(BufSize - 1, i)
  BY <1>7, Ends DEF Limit, Off
<1>9. /\ b \in Buffers(s) /\ b.head = 0 /\ b.lastcommit = BufSize - 1 /\ b.filled = BufSize - 1
      /\ b.fault = "none" /\ b.readPos = AtMost(1 + (BufSize - 1), EofPos(s))
      /\ \A i \in Slots : b.slot[i] = IF Off(a, i) < 1 THEN w[i]
                                      ELSE GetNextInst(s, 1 + (Off(a, i) - 1), w[i])
  <2>1. /\ b \in Buffers(s) /\ b.head = 0 /\ b.lastcommit = BufSize - 1
        /\ b.filled = BufSize - 1 /\ b.fault = "none"
        /\ b.readPos = AtMost(a.readPos + (BufSize - Limit(a)), EofPos(s))
        /\ \A i \in Slots :
              b.slot[i] = IF Off(a, i) < Limit(a) THEN w[i]
                          ELSE GetNextInst(s, a.readPos + (Off(a, i) - Limit(a)), w[i])
    <3>1. /\ b \in Buffers(s) /\ b.head = a.head /\ b.lastcommit = a.lastcommit
          /\ b.fault = a.fault /\ b.filled = a.lastcommit
          /\ b.readPos = AtMost(a.readPos + (BufSize - Limit(a)), EofPos(s))
          /\ \A i \in Slots :
                b.slot[i] = IF Off(a, i) < Limit(a) THEN a.slot[i]
                            ELSE GetNextInst(s, a.readPos + (Off(a, i) - Limit(a)), a.slot[i])
      <4>1. a \in Buffers(s) /\ a.filled # a.lastcommit
        BY <1>7, <1>8
      <4> QED
        BY <1>6, <4>1, FillIs
    <3> QED
      BY <1>7, <3>1
  <2> QED
    BY <1>7, <1>8, <2>1
<1>10. Grown(s, a, b) /\ b.readPos >= 1 /\ Limit(b) = BufSize
  BY <1>6, <1>7, <1>7a, <1>8, FillGrows
<1>11. \A i \in Slots : Off(b, i) = Off(a, i) /\ Off(a, i) \in Nat /\ Off(a, i) < BufSize
  BY <1>7, <1>10, Offsets DEF Grown
<1>12. Off(b, b.head) = 1
  BY <1>9, Ends DEF Off
<1>13. \A i \in Slots : Off(b, i) >= 1 => b.slot[i] = GetNextInst(s, Off(b, i), w[i])
  <2>1. \A x \in Nat : x >= 1 => 1 + (x - 1) = x /\ ~(x < 1)
    OBVIOUS
  <2> QED
    BY <1>9, <1>11, <2>1
<1>14. \A i \in Slots : ~(Off(b, i) >= 1) => b.slot[i] = w[i]
  BY <1>9, <1>11
<1>15. Within(b, <<>>, FALSE)
  <2>1. DOMAIN <<>> = {}
    OBVIOUS
  <2>2. Off(b, b.head) < Limit(b)
    BY <1>10, <1>12, Sizes
  <2>3. ASSUME NEW i \in Slots, Off(b, i) >= 1, Off(b, i) < Limit(b) PROVE b.slot[i].pos >= 1
    BY <1>4, <1>8, <1>10, <1>11, <2>3 DEF Grown
  <2> QED
    BY <1>10, <1>12, <2>1, <2>2, <2>3 DEF Within
<1>16. 1 + (BufSize - 1) = BufSize
  BY Sizes
<1> QED
  BY <1>4, <1>9, <1>10, <1>12, <1>13, <1>14, <1>15, <1>16

-----------------------------------------------------------------------------
(* The trace as a program.                                                 *)

LEMMA OnPath ==
    ASSUME NEW s \in Streams, NEW p \in Nat, p <= Len(Trace[s]), NEW q, q = NextOnPath(s, p)
    PROVE  /\ q \in Nat /\ q >= p + 1 /\ q <= EofPos(s) /\ ~IsOrphan(s, q)
           /\ \A r \in p + 1 .. q - 1 : IsOrphan(s, r)
           /\ NextPc(s, p) = IF q = EofPos(s) THEN AnyPc ELSE Trace[s][q].pc
<1> DEFINE T == {x \in p + 1 .. EofPos(s) : ~IsOrphan(s, x)}
<1>1. EofPos(s) = Len(Trace[s]) + 1 /\ Len(Trace[s]) \in Nat
  BY Places
<1>2. ~IsOrphan(s, EofPos(s))
  BY <1>1 DEF IsOrphan
<1>3. T \subseteq Nat /\ T # {}
  <2>1. EofPos(s) \in p + 1 .. EofPos(s)
    BY <1>1
  <2> QED
    BY <1>2, <2>1
<1>4. PICK x \in T : \A y \in T : x <= y
  <2> HIDE DEF T
  <2> QED
    BY <1>3, LeastNat
<1>5. x \in p + 1 .. EofPos(s) /\ ~IsOrphan(s, x)
  OBVIOUS
<1>6. ASSUME NEW r \in p + 1 .. x - 1 PROVE IsOrphan(s, r)
  <2>1. r \in p + 1 .. EofPos(s) /\ ~(x <= r)
    BY <1>1, <1>5
  <2> QED
    BY <1>4, <2>1
<1>7. \E z \in p + 1 .. EofPos(s) :
         ~IsOrphan(s, z) /\ \A r \in p + 1 .. z - 1 : IsOrphan(s, r)
  BY <1>5, <1>6
<1>8. q \in p + 1 .. EofPos(s) /\ ~IsOrphan(s, q) /\ \A r \in p + 1 .. q - 1 : IsOrphan(s, r)
  BY <1>7 DEF NextOnPath
<1>9. NextPc(s, p) = IF q = EofPos(s) THEN AnyPc ELSE Trace[s][q].pc
  BY DEF NextPc
<1> QED
  BY <1>1, <1>8, <1>9

LEMMA PcIn ==
    ASSUME NEW s \in Streams
    PROVE  /\ 0 \in Pcs(s) /\ 0 \in Positions(s)
           /\ \A p \in 1 .. Len(Trace[s]) : Trace[s][p].pc \in Pcs(s)
           /\ \A p \in Nat : p <= Len(Trace[s]) => NextPc(s, p) \in Pcs(s) \cup {AnyPc}
           /\ AnyPc \notin Pcs(s) /\ AnyPc # 0
<1>1. \A p \in 1 .. Len(Trace[s]) : Trace[s][p].pc \in Pcs(s)
  BY DEF Pcs
<1>2. ASSUME NEW p \in Nat, p <= Len(Trace[s]) PROVE NextPc(s, p) \in Pcs(s) \cup {AnyPc}
  <2>1. PICK q : q = NextOnPath(s, p)
    OBVIOUS
  <2>2. /\ q \in Nat /\ q >= p + 1 /\ q <= EofPos(s)
        /\ NextPc(s, p) = IF q = EofPos(s) THEN AnyPc ELSE Trace[s][q].pc
    BY <1>2, <2>1, OnPath
  <2>3. q # EofPos(s) => q \in 1 .. Len(Trace[s])
    BY <2>2, Places
  <2> QED
    BY <1>1, <2>2, <2>3
<1>3. 0 \in Pcs(s) /\ 0 \in Positions(s)
  BY Places DEF Pcs
<1>4. \A x \in Pcs(s) : x \in Nat
  <2>1. \A p \in 1 .. Len(Trace[s]) : Trace[s][p].pc \in Nat
    BY Places
  <2> QED
    BY <2>1 DEF Pcs
<1>5. AnyPc \notin Pcs(s) /\ AnyPc # 0
  BY <1>4 DEF AnyPc
<1> QED
  BY <1>1, <1>2, <1>3, <1>5

LEMMA InstrIs ==
    ASSUME NEW s \in Streams, NEW e \in Instr(s)
    PROVE  /\ e.pc \in Pcs(s) /\ e.pos \in Positions(s) /\ e.target \in Pcs(s)
           /\ e.kind \in {"real", "off", "startup", "switch", "pad"}
           /\ e.id \in Slots \cup {WrongpathId, ArtificialId}
BY DEF Instr

LEMMA MadeInstr ==
    ASSUME NEW s \in Streams, NEW id \in Slots \cup {WrongpathId, ArtificialId},
           NEW pc \in Pcs(s), NEW kind \in {"real", "off", "startup", "switch", "pad"},
           NEW pos \in Positions(s), NEW target \in Pcs(s),
           NEW e, e = [id |-> id, pc |-> pc, kind |-> kind, pos |-> pos, target |-> target]
    PROVE  /\ e \in Instr(s)
           /\ e.id = id /\ e.pc = pc /\ e.kind = kind /\ e.pos = pos /\ e.target = target
BY DEF Instr

LEMMA MadeIds == /\ WrongpathId \notin Slots /\ ArtificialId \notin Slots
                 /\ WrongpathId # ArtificialId
BY Sizes DEF WrongpathId, ArtificialId

\* The address an instruction in flight resolves to.
LEMMA Resolves ==
    ASSUME NEW s \in Streams, NEW e, Typed(s, e)
    PROVE  ResolvedPc(s, e) \in Pcs(s) \cup {AnyPc}
<1>1. e \in Instr(s) /\ e.target \in Pcs(s)
  BY InstrIs DEF Typed
<1>2. CASE e.kind = "real"
  <2>1. e.pos \in 1 .. Len(Trace[s])
    BY <1>2 DEF Typed
  <2>2. e.pos \in Nat /\ e.pos <= Len(Trace[s])
    BY <2>1, Places
  <2>3. ResolvedPc(s, e) = NextPc(s, e.pos)
    BY <1>2 DEF ResolvedPc
  <2> QED
    BY <2>2, <2>3, PcIn
<1>3. CASE e.kind = "startup"
  BY <1>1, <1>3 DEF ResolvedPc
<1>4. CASE e.kind \notin {"real", "startup"}
  BY <1>4 DEF ResolvedPc
<1> QED
  BY <1>2, <1>3, <1>4

-----------------------------------------------------------------------------
(* The inductive invariant of the buffer and the instructions in flight.   *)

One(s, b, P, over) ==
    /\ Ordered(s, P, over)
    /\ Held(b, P)
    /\ b.fault = "none" => Within(b, P, over)

\* Which phases and flags go with instructions in flight.
Status(s) ==
    /\ phase[s] # "run" => pipe[s] = <<>>
    /\ pipe[s] # <<>> => hwc[s] # NoHWC
    /\ phase[s] = "warmup" => ended[s] = FALSE
    /\ phase[s] = "run" /\ ended[s] => switching[s]

Flags ==
    /\ ended \in [Streams -> BOOLEAN] /\ wrongpath \in [Streams -> BOOLEAN]
    /\ hwc \in [Streams -> HWC \cup {NoHWC}]
    /\ running \in [Streams -> BOOLEAN] /\ switching \in [Streams -> BOOLEAN]
    /\ phase \in [Streams -> {"refused", "warmup", "run", "gone"}]

Shared ==
    /\ committedInsts \in [HWC -> Nat] /\ mtThreadsRunningVector \subseteq Streams
    /\ mtExitCondition \in BOOLEAN /\ error \in {"none", "wrongpathCommit"}

Domains ==
    /\ DOMAIN trace = Streams /\ DOMAIN pipe = Streams
    /\ DOMAIN resteer = Streams /\ DOMAIN retired = Streams

FeedInv ==
    /\ Flags /\ Shared /\ Domains
    /\ \A s \in Streams : /\ trace[s] \in Buffers(s)
                          /\ resteer[s] \in Pcs(s) \cup {AnyPc}
                          /\ retired[s] \in Positions(s)
                          /\ One(s, trace[s], pipe[s], ended[s])
                          /\ Status(s)

LEMMA FeedInvTypes == FeedInv => TypeOK /\ SlotStable
<1> SUFFICES ASSUME FeedInv PROVE TypeOK /\ SlotStable
  OBVIOUS
<1>1. \A s \in Streams : pipe[s] \in Seq(Instr(s))
  BY DEF FeedInv, One, Ordered
<1>2. TypeOK
  BY <1>1 DEF TypeOK, FeedInv, Flags, Shared
<1>3. SlotStable
  BY DEF SlotStable, FeedInv, One, Held
<1> QED
  BY <1>2, <1>3

Moves(f, g, s, x) ==
    /\ DOMAIN g = DOMAIN f /\ g[s] = x
    /\ \A t \in Streams : t # s => g[t] = f[t]

LEMMA MovesTo ==
    ASSUME NEW f, DOMAIN f = Streams, NEW s \in Streams, NEW x, NEW g, g = [f EXCEPT ![s] = x]
    PROVE  Moves(f, g, s, x)
BY DEF Moves

LEMMA Rests ==
    ASSUME NEW f, NEW s \in Streams, NEW g, g = f
    PROVE  Moves(f, g, s, f[s])
BY DEF Moves

Steady(s) ==
    \A t \in Streams : t # s =>
        /\ ended'[t] = ended[t] /\ hwc'[t] = hwc[t] /\ switching'[t] = switching[t]
        /\ phase'[t] = phase[t]

\* A step of one stream, the others left alone.
LEMMA Framed ==
    ASSUME FeedInv, NEW s \in Streams, NEW b \in Buffers(s), NEW P,
           NEW x \in Pcs(s) \cup {AnyPc}, NEW y \in Positions(s),
           Moves(trace, trace', s, b), Moves(pipe, pipe', s, P),
           Moves(resteer, resteer', s, x), Moves(retired, retired', s, y),
           Flags', Shared', Steady(s), One(s, b, P, ended'[s]), Status(s)'
    PROVE  FeedInv'
<1>1. Domains'
  BY DEF FeedInv, Domains, Moves
<1>2. ASSUME NEW t \in Streams
      PROVE  /\ trace'[t] \in Buffers(t)
             /\ resteer'[t] \in Pcs(t) \cup {AnyPc}
             /\ retired'[t] \in Positions(t)
             /\ One(t, trace'[t], pipe'[t], ended'[t])
             /\ Status(t)'
  <2>1. CASE t = s
    BY <2>1 DEF Moves
  <2>2. CASE t # s
    <3>1. /\ trace'[t] = trace[t] /\ pipe'[t] = pipe[t] /\ resteer'[t] = resteer[t]
          /\ retired'[t] = retired[t]
      BY <2>2 DEF Moves
    <3>2. /\ ended'[t] = ended[t] /\ hwc'[t] = hwc[t] /\ switching'[t] = switching[t]
          /\ phase'[t] = phase[t]
      BY <2>2 DEF Steady
    <3>3. Status(t)'
      BY <3>1, <3>2 DEF FeedInv, Status
    <3> QED
      BY <3>1, <3>2, <3>3 DEF FeedInv
  <2> QED
    BY <2>1, <2>2
<1> QED
  BY <1>1, <1>2 DEF FeedInv

\* What the invariant says of one stream.
LEMMA Facts ==
    ASSUME FeedInv, NEW s \in Streams
    PROVE  /\ trace[s] \in Buffers(s) /\ pipe[s] \in Seq(Instr(s))
           /\ resteer[s] \in Pcs(s) \cup {AnyPc} /\ retired[s] \in Positions(s)
           /\ ended[s] \in BOOLEAN /\ wrongpath[s] \in BOOLEAN /\ running[s] \in BOOLEAN
           /\ switching[s] \in BOOLEAN /\ hwc[s] \in HWC \cup {NoHWC}
           /\ phase[s] \in {"refused", "warmup", "run", "gone"}
           /\ DOMAIN trace = Streams /\ DOMAIN pipe = Streams
           /\ DOMAIN resteer = Streams /\ DOMAIN retired = Streams
           /\ Ordered(s, pipe[s], ended[s]) /\ Held(trace[s], pipe[s])
           /\ Alive => trace[s].fault = "none" /\ Within(trace[s], pipe[s], ended[s])
           /\ Status(s)
<1>1. Ordered(s, pipe[s], ended[s]) /\ Held(trace[s], pipe[s])
      /\ (trace[s].fault = "none" => Within(trace[s], pipe[s], ended[s]))
      /\ Status(s)
  BY DEF FeedInv, One
<1>2. pipe[s] \in Seq(Instr(s))
  BY <1>1 DEF Ordered
<1>3. Alive => trace[s].fault = "none" /\ Within(trace[s], pipe[s], ended[s])
  BY <1>1 DEF Alive
<1>4. /\ ended[s] \in BOOLEAN /\ wrongpath[s] \in BOOLEAN /\ running[s] \in BOOLEAN
      /\ switching[s] \in BOOLEAN /\ hwc[s] \in HWC \cup {NoHWC}
      /\ phase[s] \in {"refused", "warmup", "run", "gone"}
  BY DEF FeedInv, Flags
<1>5. /\ trace[s] \in Buffers(s)
      /\ resteer[s] \in Pcs(s) \cup {AnyPc} /\ retired[s] \in Positions(s)
      /\ DOMAIN trace = Streams /\ DOMAIN pipe = Streams
      /\ DOMAIN resteer = Streams /\ DOMAIN retired = Streams
  BY DEF FeedInv, Domains
<1> QED
  BY <1>1, <1>2, <1>3, <1>4, <1>5

LEMMA EmptyPipe ==
    ASSUME NEW s \in Streams, NEW over, NEW b
    PROVE  <<>> \in Seq(Instr(s)) /\ Ordered(s, <<>>, over) /\ Held(b, <<>>)
<1>1. <<>> \in Seq(Instr(s)) /\ DOMAIN <<>> = {}
  OBVIOUS
<1> QED
  BY <1>1 DEF Ordered, Held

LEMMA FeedInit == Init => FeedInv
<1> SUFFICES ASSUME Init PROVE FeedInv
  OBVIOUS
<1>1. Flags
  <2>1. \A s \in Streams : (IF VirtualPc(s, trace[s]) = Sentinel THEN "refused" ELSE "warmup")
                           \in {"refused", "warmup", "run", "gone"}
    OBVIOUS
  <2>2. phase \in [Streams -> {"refused", "warmup", "run", "gone"}]
    BY <2>1 DEF Init
  <2> QED
    BY <2>2 DEF Init, Flags
<1>2. Shared
  BY DEF Init, Shared
<1>3. Domains
  BY DEF Init, Domains
<1>4. ASSUME NEW s \in Streams
      PROVE  /\ trace[s] \in Buffers(s)
             /\ resteer[s] \in Pcs(s) \cup {AnyPc}
             /\ retired[s] \in Positions(s)
             /\ One(s, trace[s], pipe[s], ended[s])
             /\ Status(s)
  <2>1. /\ trace[s] \in InitialBuffers(s) /\ pipe[s] = <<>> /\ ended[s] = FALSE
        /\ resteer[s] = AnyPc /\ retired[s] = 0
        /\ phase[s] \in {"refused", "warmup"}
    BY DEF Init
  <2>2. trace[s] \in Buffers(s) /\ Within(trace[s], <<>>, FALSE)
    BY <2>1, StartsWithin
  <2>3. One(s, trace[s], pipe[s], ended[s])
    BY <2>1, <2>2, EmptyPipe DEF One
  <2>4. Status(s)
    BY <2>1 DEF Status
  <2> QED
    BY <2>1, <2>2, <2>3, <2>4, PcIn
<1> QED
  BY <1>1, <1>2, <1>3, <1>4 DEF FeedInv

LEMMA SharedSame ==
    FeedInv /\ UNCHANGED limitVars /\ error' = error => Shared'
BY DEF FeedInv, Shared, limitVars

LEMMA FeedSkip ==
    ASSUME FeedInv, NEW s \in Streams, NEW n \in SkipCounts, Skip(s, n)
    PROVE  FeedInv'
<1>1. /\ Alive /\ phase[s] = "warmup" /\ ~ended[s]
      /\ trace' = [trace EXCEPT ![s] = SkipHelper(s, n)]
      /\ retired' = [retired EXCEPT ![s] = Inst(trace'[s]).pos - 1]
      /\ wrongpath' = [wrongpath EXCEPT ![s] = FALSE]
      /\ UNCHANGED <<ended, limitVars, swcVars, phase, pipe, resteer, error>>
  BY DEF Skip
<1>2. n \in Nat
  BY FeederAssumption
<1>3. PICK c : c = SkipHelper(s, n)
  OBVIOUS
<1>4. /\ trace[s] \in Buffers(s) /\ Within(trace[s], pipe[s], ended[s])
      /\ DOMAIN trace = Streams /\ DOMAIN retired = Streams
      /\ resteer[s] \in Pcs(s) \cup {AnyPc} /\ Status(s) /\ ended[s] = FALSE
  BY <1>1, Facts DEF Status
<1>5. Fresh(s, c) /\ Inst(c).pos >= 1 /\ (c.fault = "none" => Within(c, <<>>, FALSE))
  BY <1>2, <1>3, <1>4, SkipFresh DEF Within
<1>6. c \in Buffers(s) /\ Inst(c).pos \in Nat /\ Inst(c).pos <= EofPos(s)
  BY <1>5, Members DEF Fresh, Inst
<1>7. Moves(trace, trace', s, c) /\ trace'[s] = c
  BY <1>1, <1>3, <1>4, MovesTo DEF Moves
<1>8. PICK y : y = Inst(c).pos - 1
  OBVIOUS
<1>9. y \in Positions(s)
  BY <1>5, <1>6, <1>8, Places
<1>10. Moves(retired, retired', s, y)
  BY <1>1, <1>4, <1>7, <1>8, MovesTo
<1>11. pipe[s] = <<>>
  BY <1>1, <1>4 DEF Status
<1>12. Moves(pipe, pipe', s, <<>>) /\ Moves(resteer, resteer', s, resteer[s])
  BY <1>1, <1>11, Rests
<1>13. Flags'
  BY <1>1 DEF FeedInv, Flags, swcVars
<1>14. Shared' /\ Steady(s) /\ Status(s)'
  BY <1>1, <1>4, SharedSame DEF Steady, Status, swcVars
<1>15. One(s, c, <<>>, ended'[s])
  BY <1>1, <1>4, <1>5, EmptyPipe DEF One
<1> QED
  BY <1>4, <1>6, <1>7, <1>9, <1>10, <1>12, <1>13, <1>14, <1>15, Framed

\* One more instruction is looked at and committed while nothing is in flight.
LEMMA WarmKeeps ==
    ASSUME NEW s \in Streams, NEW b \in Buffers(s), Within(b, <<>>, FALSE),
           NEW c, c = NextInstr(s, b), NEW d, d = CommitInstr(c, b.head)
    PROVE  /\ d \in Buffers(s)
           /\ d.fault = "none" =>
                 /\ Within(d, <<>>, FALSE) /\ c.fault = "none"
                 /\ d.lastcommit = b.head /\ Off(d, d.head) = 1
<1>1. /\ b.readPos >= 1 /\ Off(b, b.head) < Limit(b) /\ Off(b, b.head) >= 1
      /\ \A i \in Slots : Off(b, i) >= 1 /\ Off(b, i) < Limit(b) => b.slot[i].pos >= 1
  BY DEF Within
<1>2. b.head \in Slots /\ Off(b, b.head) \in Nat
  BY Members, Offsets
<1>3. /\ Grown(s, b, c) /\ c.readPos >= 1
      /\ c.fault = "none" => Off(c, c.head) = Off(b, b.head) + 1 /\ Off(c, c.head) < Limit(c)
  BY <1>1, NextGrows
<1>4. c \in Buffers(s) /\ \A i \in Slots : Off(c, i) = Off(b, i)
  BY <1>3 DEF Grown
<1>5. /\ d \in Buffers(s) /\ d.head = c.head /\ d.filled = c.filled /\ d.readPos = c.readPos
      /\ d.slot = c.slot
      /\ \/ d.fault = "outOfOrder" /\ d.lastcommit = c.lastcommit
         \/ d.fault = c.fault /\ d.lastcommit = b.head
  BY <1>2, <1>4, CommitIs
<1>6. ASSUME d.fault = "none"
      PROVE  /\ Within(d, <<>>, FALSE) /\ c.fault = "none"
             /\ d.lastcommit = b.head /\ Off(d, d.head) = 1
  <2>1. c.fault = "none" /\ d.lastcommit = b.head
    BY <1>5, <1>6
  <2>2. PICK o : o = Off(b, b.head)
    OBVIOUS
  <2>3. /\ o \in Nat /\ o >= 1 /\ Off(c, c.head) = o + 1 /\ o + 1 < Limit(c)
        /\ o = Off(c, d.lastcommit) /\ c.head \in Slots
    BY <1>1, <1>2, <1>3, <1>4, <2>1, <2>2, Members
  <2>4. /\ Limit(c) \in Nat /\ BufSize \in Nat /\ Limit(c) <= BufSize
        /\ \A i \in Slots : Off(c, i) \in Nat
    BY <1>4, Offsets, Sizes
  <2>5. o < Limit(c)
    BY <2>3, <2>4
  <2>6. /\ Limit(d) = Limit(c) - o
        /\ \A i \in Slots : Off(d, i) = IF o <= Off(c, i) THEN Off(c, i) - o
                                        ELSE (Off(c, i) - o) + BufSize
    BY <1>4, <1>5, <2>3, <2>5, CommitShifts
  <2>7. Off(d, d.head) = 1 /\ Off(d, d.head) < Limit(d)
    BY <1>5, <2>3, <2>4, <2>6
  <2>8. ASSUME NEW i \in Slots, Off(d, i) >= 1, Off(d, i) < Limit(d) PROVE d.slot[i].pos >= 1
    <3>1. o <= Off(c, i) /\ Off(c, i) < Limit(c)
      BY <2>3, <2>4, <2>6, <2>8
    <3>2. Off(b, i) = Off(c, i) /\ Off(b, i) >= 1 /\ Off(b, i) \in Nat /\ Limit(b) \in Nat
      BY <1>4, <2>3, <2>4, <3>1, Offsets
    <3>3. CASE Off(b, i) < Limit(b)
      <4>1. c.slot[i] = b.slot[i]
        BY <1>3, <3>3 DEF Grown
      <4> QED
        BY <1>1, <1>5, <3>2, <3>3, <4>1
    <3>4. CASE Off(b, i) >= Limit(b)
      <4>1. c.slot[i].pos >= 1
        BY <1>3, <3>1, <3>2, <3>4 DEF Grown
      <4> QED
        BY <1>5, <4>1
    <3> QED
      BY <3>2, <3>3, <3>4
  <2>9. DOMAIN <<>> = {}
    OBVIOUS
  <2> QED
    BY <1>3, <1>5, <2>1, <2>7, <2>8, <2>9 DEF Within
<1> QED
  BY <1>5, <1>6

LEMMA FeedWarmUp ==
    ASSUME FeedInv, NEW s \in Streams, WarmUp(s)
    PROVE  FeedInv'
<1>1. /\ Alive /\ phase[s] = "warmup"
      /\ trace' = [trace EXCEPT ![s] = CommitInstr(NextInstr(s, trace[s]), trace[s].head)]
      /\ retired' = [retired EXCEPT ![s] =
                        IF IsWrongpath(trace[s]) THEN @ ELSE Inst(trace[s]).pos]
      /\ UNCHANGED <<ended, wrongpath, limitVars, swcVars, phase, pipe, resteer, error>>
  BY DEF WarmUp
<1>2. PICK d : d = CommitInstr(NextInstr(s, trace[s]), trace[s].head)
  OBVIOUS
<1>3. /\ trace[s] \in Buffers(s) /\ Within(trace[s], pipe[s], ended[s])
      /\ DOMAIN trace = Streams /\ DOMAIN retired = Streams
      /\ resteer[s] \in Pcs(s) \cup {AnyPc} /\ retired[s] \in Positions(s)
      /\ Status(s) /\ ended[s] = FALSE /\ pipe[s] = <<>>
  BY <1>1, Facts DEF Status
<1>4. d \in Buffers(s) /\ (d.fault = "none" => Within(d, <<>>, FALSE))
  BY <1>2, <1>3, WarmKeeps
<1>5. PICK y : y = IF IsWrongpath(trace[s]) THEN retired[s] ELSE Inst(trace[s]).pos
  OBVIOUS
<1>6. y \in Positions(s)
  <2>1. Inst(trace[s]).pos \in Positions(s)
    BY <1>3, Members DEF Inst
  <2> QED
    BY <1>3, <1>5, <2>1
<1>7. Moves(trace, trace', s, d) /\ Moves(retired, retired', s, y)
  BY <1>1, <1>2, <1>3, <1>5, MovesTo
<1>8. Moves(pipe, pipe', s, <<>>) /\ Moves(resteer, resteer', s, resteer[s])
  BY <1>1, <1>3, Rests
<1>9. Flags' /\ Shared' /\ Steady(s) /\ Status(s)'
  <2>1. Flags'
    BY <1>1 DEF FeedInv, Flags, swcVars
  <2> QED
    BY <1>1, <1>3, <2>1, SharedSame DEF Steady, Status, swcVars
<1>10. One(s, d, <<>>, ended'[s])
  BY <1>1, <1>3, <1>4, EmptyPipe DEF One
<1> QED
  BY <1>3, <1>4, <1>6, <1>7, <1>8, <1>9, <1>10, Framed

\* Steps that touch neither the buffer nor the instructions in flight.
LEMMA FeedStill ==
    ASSUME FeedInv, NEW s \in Streams, UNCHANGED <<trace, pipe, resteer, retired, ended>>,
           Flags', Shared', Steady(s), Status(s)'
    PROVE  FeedInv'
<1>1. /\ trace[s] \in Buffers(s) /\ resteer[s] \in Pcs(s) \cup {AnyPc}
      /\ retired[s] \in Positions(s) /\ One(s, trace[s], pipe[s], ended'[s])
  BY DEF FeedInv
<1>2. /\ Moves(trace, trace', s, trace[s]) /\ Moves(pipe, pipe', s, pipe[s])
      /\ Moves(resteer, resteer', s, resteer[s]) /\ Moves(retired, retired', s, retired[s])
  BY Rests
<1> QED
  BY <1>1, <1>2, Framed

LEMMA FeedWarmUpDone ==
    ASSUME FeedInv, NEW s \in Streams, WarmUpDone(s)
    PROVE  FeedInv'
<1>1. /\ phase[s] = "warmup" /\ phase' = [phase EXCEPT ![s] = "run"]
      /\ UNCHANGED <<trace, ended, wrongpath, limitVars, swcVars, pipe, resteer, retired, error>>
  BY DEF WarmUpDone
<1>2. Status(s) /\ phase \in [Streams -> {"refused", "warmup", "run", "gone"}]
  BY DEF FeedInv, Flags
<1>3. Flags'
  BY <1>1, <1>2 DEF FeedInv, Flags, swcVars
<1>4. Shared' /\ Steady(s)
  BY <1>1, <1>2, SharedSame DEF Steady, swcVars
<1>5. Status(s)'
  BY <1>1, <1>2 DEF Status, swcVars
<1> QED
  BY <1>1, <1>3, <1>4, <1>5, FeedStill

LEMMA FeedSchedule ==
    ASSUME FeedInv, NEW s \in Streams, NEW h \in HWC, Schedule(s, h)
    PROVE  FeedInv'
<1>1. /\ hwc' = [hwc EXCEPT ![s] = h]
      /\ UNCHANGED <<trace, ended, wrongpath, limitVars, running, switching, phase,
                     pipe, resteer, retired, error>>
  BY DEF Schedule
<1>2. Status(s) /\ hwc \in [Streams -> HWC \cup {NoHWC}]
  BY DEF FeedInv, Flags
<1>3. Flags'
  BY <1>1, <1>2 DEF FeedInv, Flags
<1>4. Shared' /\ Steady(s)
  BY <1>1, <1>2, SharedSame DEF Steady
<1>5. h # NoHWC
  BY FeederAssumption DEF HWC, NoHWC
<1>6. Status(s)'
  BY <1>1, <1>2, <1>5 DEF Status
<1> QED
  BY <1>1, <1>3, <1>4, <1>6, FeedStill

LEMMA FeedRequestSwitch ==
    ASSUME FeedInv, NEW s \in Streams, RequestSwitch(s)
    PROVE  FeedInv'
<1>1. /\ switching' = [switching EXCEPT ![s] = TRUE]
      /\ UNCHANGED <<trace, ended, wrongpath, limitVars, hwc, running, phase, pipe,
                     resteer, retired, error>>
  BY DEF RequestSwitch
<1>2. Status(s) /\ switching \in [Streams -> BOOLEAN]
  BY DEF FeedInv, Flags
<1>3. Flags'
  BY <1>1, <1>2 DEF FeedInv, Flags
<1>4. Shared' /\ Steady(s)
  BY <1>1, <1>2, SharedSame DEF Steady
<1>5. Status(s)'
  BY <1>1, <1>2 DEF Status
<1> QED
  BY <1>1, <1>3, <1>4, <1>5, FeedStill

-----------------------------------------------------------------------------
(* Fetch.                                                                  *)

LEMMA PredictedIn ==
    ASSUME FeedInv, NEW s \in Streams, NEW pc \in PredictedPcs(s)
    PROVE  pc \in Pcs(s)
<1>1. resteer[s] \in Pcs(s) \cup {AnyPc} /\ 0 \in Pcs(s)
  BY Facts, PcIn
<1> QED
  BY <1>1 DEF PredictedPcs

\* The buffer after SkipOverWrongpath.
LEMMA FetchBuffer ==
    ASSUME FeedInv, NEW s \in Streams, Alive, NEW pc,
           NEW b, b = SkipOverWrongpath(s, trace[s], pc)
    PROVE  /\ b \in Buffers(s) /\ Held(b, pipe[s]) /\ Within(b, pipe[s], ended[s])
           /\ Grown(s, trace[s], b)
<1>1. /\ trace[s] \in Buffers(s) /\ Within(trace[s], pipe[s], ended[s])
      /\ Ordered(s, pipe[s], ended[s]) /\ Held(trace[s], pipe[s])
  BY Facts
<1>2. /\ Grown(s, trace[s], b) /\ b.readPos >= 1
      /\ Off(trace[s], trace[s].head) <= Off(b, b.head) /\ Off(b, b.head) < Limit(b)
  BY <1>1, SkipGrows DEF Within
<1>3. Held(b, pipe[s]) /\ Within(b, pipe[s], ended[s])
  BY <1>1, <1>2, GrowKeeps
<1> QED
  BY <1>2, <1>3 DEF Grown

LEMMA Delivered ==
    ASSUME FeedInv, NEW s \in Streams, NEW d \in Buffers(s),
           NEW id, NEW pc, NEW kind, NEW pos, NEW target,
           Deliver(s, d, id, pc, kind, pos, target), NEW e,
           e = [id |-> id, pc |-> pc, kind |-> kind, pos |-> pos, target |-> target],
           One(s, d, Append(pipe[s], e), ended'[s]), Flags', Steady(s), Status(s)'
    PROVE  FeedInv'
<1>1. /\ trace' = [trace EXCEPT ![s] = d]
      /\ pipe' = [pipe EXCEPT ![s] = Append(@, e)]
      /\ resteer' = [resteer EXCEPT ![s] = AnyPc]
      /\ UNCHANGED <<limitVars, hwc, phase, retired, error>>
  BY DEF Deliver
<1>2. /\ DOMAIN trace = Streams /\ DOMAIN pipe = Streams /\ DOMAIN resteer = Streams
      /\ retired[s] \in Positions(s)
  BY Facts
<1>3. PICK P : P = Append(pipe[s], e)
  OBVIOUS
<1>4. /\ Moves(trace, trace', s, d) /\ Moves(resteer, resteer', s, AnyPc)
      /\ Moves(retired, retired', s, retired[s])
  BY <1>1, <1>2, MovesTo, Rests
<1>5. Moves(pipe, pipe', s, P)
  BY <1>1, <1>2, <1>3, MovesTo
<1>6. Shared'
  BY <1>1, SharedSame
<1>7. One(s, d, P, ended'[s])
  BY <1>3
<1> QED
  BY <1>2, <1>4, <1>5, <1>6, <1>7, Framed

\* Inst(b) when an instruction is handed out.
LEMMA HeadIs ==
    ASSUME NEW s \in Streams, NEW b \in Buffers(s), NEW P, Within(b, P, FALSE), ~Eof(s, b)
    PROVE  /\ Inst(b).pos \in 1 .. Len(Trace[s]) /\ Inst(b).pos \in Positions(s)
           /\ VirtualPc(s, b) = Trace[s][Inst(b).pos].pc /\ VirtualPc(s, b) \in Pcs(s)
<1>1. b.head \in Slots
  BY Members
<1>2. /\ Inst(b).pos \in Nat /\ Inst(b).pos <= EofPos(s) /\ Inst(b).pos \in Positions(s)
      /\ Inst(b).pos # EofPos(s)
  BY <1>1, Members DEF Inst, Eof
<1>3. Inst(b).pos >= 1
  BY <1>1 DEF Within, Inst
<1>4. Inst(b).pos \in 1 .. Len(Trace[s])
  BY <1>2, <1>3, Places
<1> QED
  BY <1>2, <1>4, PcIn DEF VirtualPc

\* Convert notes in a slot whether it holds a no-op.
LEMMA NoteNop ==
    ASSUME NEW s \in Streams, NEW c \in Buffers(s), NEW h \in Slots, NEW z,
           NEW d, d = [c EXCEPT !.slot[h].nop = @ \/ z]
    PROVE  /\ d \in Buffers(s) /\ d.head = c.head /\ d.lastcommit = c.lastcommit
           /\ d.filled = c.filled /\ d.readPos = c.readPos /\ d.fault = c.fault
           /\ \A i \in Slots : /\ d.slot[i].pos = c.slot[i].pos
                               /\ d.slot[i].wrongpath = c.slot[i].wrongpath
                               /\ i # h => d.slot[i] = c.slot[i]
           /\ d.slot[h].nop <=> (c.slot[h].nop \/ z)
<1>1. c.slot \in [Slots -> Cells(s)] /\ c.slot[h] \in Cells(s)
  BY Members
<1>2. PICK n \in BOOLEAN : n = (c.slot[h].nop \/ z)
  OBVIOUS
<1>3. PICK x : x = [c.slot[h] EXCEPT !.nop = n]
  OBVIOUS
<1>4. x \in Cells(s) /\ x.pos = c.slot[h].pos /\ x.wrongpath = c.slot[h].wrongpath /\ x.nop = n
  BY <1>1, <1>3 DEF Cells
<1>5. PICK w : w = [c.slot EXCEPT ![h] = x]
  OBVIOUS
<1>6. /\ w \in [Slots -> Cells(s)] /\ w[h] = x
      /\ \A i \in Slots : i # h => w[i] = c.slot[i]
  BY <1>1, <1>4, <1>5
<1>7. d = [c EXCEPT !.slot = w]
  BY <1>2, <1>3, <1>5
<1>8. /\ d \in Buffers(s) /\ d.head = c.head /\ d.lastcommit = c.lastcommit
      /\ d.filled = c.filled /\ d.readPos = c.readPos /\ d.fault = c.fault /\ d.slot = w
  BY <1>6, <1>7 DEF Buffers, Cells
<1>9. \A i \in Slots : d.slot[i].pos = c.slot[i].pos /\ d.slot[i].wrongpath = c.slot[i].wrongpath
  BY <1>4, <1>6, <1>8
<1>10. d.slot[h].nop <=> (c.slot[h].nop \/ z)
  BY <1>2, <1>4, <1>6, <1>8
<1> QED
  BY <1>6, <1>8, <1>9, <1>10

LEMMA FeedFetch ==
    ASSUME FeedInv, NEW s \in Streams, Fetch(s)
    PROVE  FeedInv'
<1>1. Alive /\ phase[s] = "run" /\ hwc[s] # NoHWC
  BY DEF Fetch
<1>2. PICK pc \in PredictedPcs(s) : \E b \in {SkipOverWrongpath(s, trace[s], pc)} :
         \/ FetchAborts(s, b)
         \/ /\ b.fault = "none"
            /\ \/ FetchSwitch(s, b, pc)
               \/ FetchEnd(s, b, pc)
               \/ FetchStartup(s, b, pc)
               \/ FetchOffPath(s, b, pc)
               \/ FetchInstr(s, b, pc)
  BY DEF Fetch
<1>3. PICK b : b = SkipOverWrongpath(s, trace[s], pc) /\
         \/ FetchAborts(s, b)
         \/ /\ b.fault = "none"
            /\ \/ FetchSwitch(s, b, pc)
               \/ FetchEnd(s, b, pc)
               \/ FetchStartup(s, b, pc)
               \/ FetchOffPath(s, b, pc)
               \/ FetchInstr(s, b, pc)
  BY <1>2
<1>4. pc \in Pcs(s)
  BY PredictedIn
<1>5. b \in Buffers(s) /\ Held(b, pipe[s]) /\ Within(b, pipe[s], ended[s])
  BY <1>1, <1>3, FetchBuffer
<1>6. /\ Ordered(s, pipe[s], ended[s]) /\ DOMAIN trace = Streams
      /\ resteer[s] \in Pcs(s) \cup {AnyPc} /\ retired[s] \in Positions(s) /\ Status(s)
      /\ ended[s] \in BOOLEAN /\ switching[s] \in BOOLEAN /\ b.head \in Slots
  BY <1>5, Facts, Members
<1>7. Flags
  BY DEF FeedInv
<1>8. ~switching[s] => ended[s] = FALSE
  BY <1>1, <1>6 DEF Status
<1>9. ASSUME NEW e \in Instr(s), ~IsPlaced(e), e.id \notin Slots
      PROVE  One(s, b, Append(pipe[s], e), ended[s])
  <2>1. PICK P : P = Append(pipe[s], e)
    OBVIOUS
  <2>2. Ordered(s, P, ended[s]) /\ Held(b, P) /\ Within(b, P, ended[s])
    BY <1>5, <1>6, <1>9, <2>1, UnplacedKeeps
  <2> QED
    BY <2>1, <2>2 DEF One
<1>10. CASE FetchAborts(s, b)
  <2>1. /\ trace' = [trace EXCEPT ![s] = b]
        /\ UNCHANGED <<ended, wrongpath, limitVars, swcVars, phase, pipe, resteer, retired, error>>
    BY <1>10 DEF FetchAborts
  <2>2. /\ Moves(trace, trace', s, b) /\ Moves(pipe, pipe', s, pipe[s])
        /\ Moves(resteer, resteer', s, resteer[s]) /\ Moves(retired, retired', s, retired[s])
    BY <1>6, <2>1, MovesTo, Rests
  <2>3. Flags' /\ Steady(s) /\ Shared' /\ Status(s)'
    BY <1>6, <1>7, <2>1, SharedSame DEF Flags, Steady, Status, swcVars
  <2>4. One(s, b, pipe[s], ended'[s])
    BY <1>5, <1>6, <2>1 DEF One
  <2> QED
    BY <1>5, <1>6, <2>2, <2>3, <2>4, Framed
<1>11. CASE FetchSwitch(s, b, pc)
  <2>1. /\ Deliver(s, b, ArtificialId, pc, "switch", 0, 0)
        /\ UNCHANGED <<ended, wrongpath, running, switching>>
    BY <1>11 DEF FetchSwitch
  <2>2. PICK e : e = [id |-> ArtificialId, pc |-> pc, kind |-> "switch", pos |-> 0, target |-> 0]
    OBVIOUS
  <2>3. e \in Instr(s) /\ ~IsPlaced(e) /\ e.id \notin Slots
    BY <1>4, <2>2, MadeInstr, MadeIds, PcIn DEF IsPlaced
  <2>4. hwc' = hwc /\ phase' = phase
    BY <2>1 DEF Deliver
  <2>5. Flags' /\ Steady(s) /\ Status(s)'
    BY <1>1, <1>6, <1>7, <2>1, <2>4 DEF Flags, Steady, Status
  <2>6. One(s, b, Append(pipe[s], e), ended'[s])
    BY <1>9, <2>1, <2>3
  <2> QED
    BY <1>5, <2>1, <2>2, <2>5, <2>6, Delivered
<1>12. CASE b.fault = "none" /\ FetchEnd(s, b, pc)
  <2>1. /\ ~switching[s]
        /\ Deliver(s, b, b.head, pc, "pad", 0, 0)
        /\ ended' = [ended EXCEPT ![s] = TRUE]
        /\ switching' = [switching EXCEPT ![s] = TRUE]
        /\ running' = [running EXCEPT ![s] = TRUE]
        /\ UNCHANGED wrongpath
    BY <1>12 DEF FetchEnd
  <2>2. PICK e : e = [id |-> b.head, pc |-> pc, kind |-> "pad", pos |-> 0, target |-> 0]
    OBVIOUS
  <2>3. e \in Instr(s) /\ e.kind = "pad" /\ e.id = b.head
    BY <1>4, <1>6, <2>2, MadeInstr, PcIn
  <2>4. hwc' = hwc /\ phase' = phase
    BY <2>1 DEF Deliver
  <2>5. Flags' /\ Steady(s) /\ Status(s)' /\ ended'[s] = TRUE
    BY <1>1, <1>6, <1>7, <2>1, <2>4 DEF Flags, Steady, Status
  <2>6. One(s, b, Append(pipe[s], e), ended'[s])
    <3>1. PICK P : P = Append(pipe[s], e)
      OBVIOUS
    <3>2. ended[s] = FALSE
      BY <1>8, <2>1
    <3>3. Ordered(s, P, TRUE) /\ Held(b, P) /\ Within(b, P, TRUE)
      BY <1>5, <1>6, <2>3, <3>1, <3>2, PadKeeps
    <3> QED
      BY <2>5, <3>1, <3>3 DEF One
  <2> QED
    BY <1>5, <2>1, <2>2, <2>5, <2>6, Delivered
<1>13. CASE b.fault = "none" /\ FetchStartup(s, b, pc)
  <2>1. /\ ~switching[s] /\ ~Eof(s, b)
        /\ Deliver(s, b, ArtificialId, pc, "startup", 0, VirtualPc(s, b))
        /\ running' = [running EXCEPT ![s] = TRUE]
        /\ UNCHANGED <<ended, wrongpath, switching>>
    BY <1>13 DEF FetchStartup
  <2>2. PICK e : e = [id |-> ArtificialId, pc |-> pc, kind |-> "startup", pos |-> 0,
                      target |-> VirtualPc(s, b)]
    OBVIOUS
  <2>3. VirtualPc(s, b) \in Pcs(s)
    <3>1. Within(b, pipe[s], FALSE)
      BY <1>5, <1>8, <2>1
    <3> QED
      BY <1>5, <2>1, <3>1, HeadIs
  <2>4. e \in Instr(s) /\ ~IsPlaced(e) /\ e.id \notin Slots
    BY <1>4, <2>2, <2>3, MadeInstr, MadeIds, PcIn DEF IsPlaced
  <2>5. hwc' = hwc /\ phase' = phase
    BY <2>1 DEF Deliver
  <2>6. Flags' /\ Steady(s) /\ Status(s)'
    BY <1>1, <1>6, <1>7, <2>1, <2>5 DEF Flags, Steady, Status
  <2>7. One(s, b, Append(pipe[s], e), ended'[s])
    BY <1>9, <2>1, <2>4
  <2> QED
    BY <1>5, <2>1, <2>2, <2>6, <2>7, Delivered
<1>14. CASE b.fault = "none" /\ FetchOffPath(s, b, pc)
  <2>1. /\ Deliver(s, b, WrongpathId, pc, "off", 0, 0)
        /\ wrongpath' = [wrongpath EXCEPT ![s] = TRUE]
        /\ running' = [running EXCEPT ![s] = TRUE]
        /\ UNCHANGED <<ended, switching>>
    BY <1>14 DEF FetchOffPath
  <2>2. PICK e : e = [id |-> WrongpathId, pc |-> pc, kind |-> "off", pos |-> 0, target |-> 0]
    OBVIOUS
  <2>3. e \in Instr(s) /\ ~IsPlaced(e) /\ e.id \notin Slots
    BY <1>4, <2>2, MadeInstr, MadeIds, PcIn DEF IsPlaced
  <2>4. hwc' = hwc /\ phase' = phase
    BY <2>1 DEF Deliver
  <2>5. Flags' /\ Steady(s) /\ Status(s)'
    BY <1>1, <1>6, <1>7, <2>1, <2>4 DEF Flags, Steady, Status
  <2>6. One(s, b, Append(pipe[s], e), ended'[s])
    BY <1>9, <2>1, <2>3
  <2> QED
    BY <1>5, <2>1, <2>2, <2>5, <2>6, Delivered
<1>15. CASE b.fault = "none" /\ FetchInstr(s, b, pc)
  <2> DEFINE p == Inst(b).pos
  <2>1. PICK c : c = NextInstr(s, b)
    OBVIOUS
  <2>2. PICK d : d = [c EXCEPT !.slot[b.head].nop = @ \/ Trace[s][p].kind = "nop"]
    OBVIOUS
  <2>3. /\ ~switching[s] /\ ~Eof(s, b)
        /\ Deliver(s, d, b.head, pc, "real", p, 0)
        /\ running' = [running EXCEPT ![s] = TRUE]
        /\ UNCHANGED <<ended, wrongpath, switching>>
    BY <1>15, <2>1, <2>2 DEF FetchInstr
  <2>4. Within(b, pipe[s], FALSE) /\ ended[s] = FALSE
    BY <1>5, <1>8, <2>3
  <2>5. p \in 1 .. Len(Trace[s]) /\ p \in Positions(s)
    BY <1>5, <2>3, <2>4, HeadIs
  <2> HIDE DEF p
  <2>6. PICK e : e = [id |-> b.head, pc |-> pc, kind |-> "real", pos |-> p, target |-> 0]
    OBVIOUS
  <2>7. e \in Instr(s) /\ e.kind = "real" /\ e.id = b.head /\ e.pos = p
    BY <1>4, <1>6, <2>5, <2>6, MadeInstr, PcIn
  <2>8. c \in Buffers(s)
    BY <1>5, <2>1, NextGrows DEF Within, Grown
  <2>9. /\ d \in Buffers(s) /\ d.head = c.head /\ d.lastcommit = c.lastcommit
        /\ d.filled = c.filled /\ d.readPos = c.readPos /\ d.fault = c.fault
        /\ \A i \in Slots : d.slot[i].pos = c.slot[i].pos
    BY <1>6, <2>2, <2>8, NoteNop
  <2>10. hwc' = hwc /\ phase' = phase
    BY <2>3 DEF Deliver
  <2>11. Flags' /\ Steady(s) /\ Status(s)'
    BY <1>1, <1>6, <1>7, <2>3, <2>10 DEF Flags, Steady, Status
  <2>12. One(s, d, Append(pipe[s], e), ended'[s])
    <3>1. PICK P : P = Append(pipe[s], e)
      OBVIOUS
    <3>2. e.pos = Inst(b).pos
      BY <2>7 DEF p
    <3>3. e.pos \in 1 .. Len(Trace[s])
      BY <2>5, <2>7
    <3>4. PICK over : over = ended[s]
      OBVIOUS
    <3>5. over = FALSE
      BY <2>4, <3>4
    <3>6. PICK Q : Q = pipe[s]
      OBVIOUS
    <3>7. Ordered(s, Q, over) /\ Within(b, Q, over) /\ Held(b, Q)
      BY <1>5, <1>6, <3>4, <3>6
    <3>8. P = Append(Q, e)
      BY <3>1, <3>6
    <3>9. Ordered(s, P, over) /\ Held(d, P) /\ (d.fault = "none" => Within(d, P, over))
      <4>1. Handed(s, b, e, d)
        BY <2>1, <2>7, <2>9, <3>2, <3>3 DEF Handed
      <4> QED
        BY <1>5, <3>5, <3>7, <3>8, <4>1, FetchKeeps
    <3> QED
      BY <2>3, <3>1, <3>4, <3>9 DEF One
  <2> QED
    BY <2>3, <2>6, <2>9, <2>11, <2>12, Delivered
<1> QED
  BY <1>3, <1>10, <1>11, <1>12, <1>13, <1>14, <1>15

-----------------------------------------------------------------------------
(* Commit, the dropped no-op and Kill.                                     *)

\* The oldest instruction in flight, and what Retire does.
LEMMA Oldest ==
    ASSUME FeedInv, NEW s \in Streams, pipe[s] # <<>>
    PROVE  /\ Typed(s, Head(pipe[s])) /\ Head(pipe[s]) = pipe[s][1] /\ 1 \in DOMAIN pipe[s]
           /\ Tail(pipe[s]) \in Seq(Instr(s)) /\ Part(Tail(pipe[s]), pipe[s], 1)
           /\ Len(Tail(pipe[s])) = Len(pipe[s]) - 1 /\ Len(pipe[s]) \in Nat /\ Len(pipe[s]) >= 1
           /\ phase[s] = "run" /\ hwc[s] \in HWC
<1>1. pipe[s] \in Seq(Instr(s)) /\ Ordered(s, pipe[s], ended[s]) /\ Status(s)
      /\ hwc[s] \in HWC \cup {NoHWC}
  BY Facts
<1>2. /\ Tail(pipe[s]) \in Seq(Instr(s)) /\ Part(Tail(pipe[s]), pipe[s], 1)
      /\ Len(Tail(pipe[s])) = Len(pipe[s]) - 1
      /\ Head(pipe[s]) = pipe[s][1] /\ 1 \in DOMAIN pipe[s]
  BY <1>1, TailIsPart
<1>3. Typed(s, Head(pipe[s]))
  BY <1>1, <1>2 DEF Ordered
<1>4. phase[s] = "run" /\ hwc[s] \in HWC
  BY <1>1 DEF Status
<1>5. Len(pipe[s]) \in Nat /\ Len(pipe[s]) >= 1
  BY <1>1
<1> QED
  BY <1>2, <1>3, <1>4, <1>5

LEMMA Retires ==
    ASSUME FeedInv, NEW s \in Streams, pipe[s] # <<>>, Retire(s)
    PROVE  /\ Moves(pipe, pipe', s, Tail(pipe[s]))
           /\ \E x \in Pcs(s) \cup {AnyPc} : Moves(resteer, resteer', s, x)
<1>1. /\ DOMAIN pipe = Streams /\ DOMAIN resteer = Streams
      /\ resteer[s] \in Pcs(s) \cup {AnyPc}
  BY Facts
<1>2. pipe' = [pipe EXCEPT ![s] = Tail(pipe[s])]
  BY <1>1 DEF Retire
<1>3. Moves(pipe, pipe', s, Tail(pipe[s]))
  BY <1>1, <1>2, MovesTo
<1>4. CASE Len(pipe[s]) > 1
  <2>1. resteer' = resteer
    BY <1>4 DEF Retire
  <2>2. Moves(resteer, resteer', s, resteer[s])
    BY <2>1, Rests
  <2> QED
    BY <1>1, <1>3, <2>2
<1>5. CASE ~(Len(pipe[s]) > 1)
  <2>1. PICK x : x = IF pipe[s][1].kind \in {"real", "startup"}
                     THEN ResolvedPc(s, pipe[s][1]) ELSE resteer[s]
    OBVIOUS
  <2>2. resteer' = [resteer EXCEPT ![s] = x]
    BY <1>1, <1>5, <2>1 DEF Retire
  <2>3. x \in Pcs(s) \cup {AnyPc}
    <3>1. Typed(s, pipe[s][1])
      BY Oldest
    <3>2. ResolvedPc(s, pipe[s][1]) \in Pcs(s) \cup {AnyPc}
      BY <3>1, Resolves
    <3> QED
      BY <1>1, <2>1, <3>2
  <2>4. Moves(resteer, resteer', s, x)
    BY <1>1, <2>2, MovesTo
  <2> QED
    BY <1>3, <2>3, <2>4
<1> QED
  BY <1>4, <1>5

LEMMA SkippedNat ==
    ASSUME NEW s \in Streams, NEW b \in Buffers(s), NEW id \in Slots
    PROVE  Skipped(b, id) \in Nat
<1>1. b.lastcommit \in Slots
  BY Members
<1>2. Succ(b.lastcommit) \in Slots
  BY <1>1, RingSucc
<1> QED
  BY <1>2, DistIs DEF Skipped

LEMMA Counts ==
    ASSUME FeedInv, NEW h \in HWC, NEW n \in Nat, CountCommitted(h, n), error' = error
    PROVE  Shared' /\ (mtExitCondition => mtExitCondition')
<1>1. Shared
  BY DEF FeedInv
<1>2. CASE MtInstLimit = 0
  <2>1. UNCHANGED limitVars
    BY <1>2 DEF CountCommitted
  <2>2. Shared'
    BY <2>1, SharedSame
  <2>3. mtExitCondition' = mtExitCondition
    BY <2>1 DEF limitVars
  <2> QED
    BY <2>2, <2>3
<1>3. CASE MtInstLimit # 0
  <2>1. /\ committedInsts' = [committedInsts EXCEPT ![h] = @ + n]
        /\ mtThreadsRunningVector' =
               IF committedInsts'[h] >= MtInstLimit
               THEN mtThreadsRunningVector \ {h} ELSE mtThreadsRunningVector
        /\ mtExitCondition' = (mtExitCondition \/ mtThreadsRunningVector' = {})
    BY <1>3 DEF CountCommitted
  <2>2. committedInsts' \in [HWC -> Nat]
    <3>1. committedInsts \in [HWC -> Nat] /\ committedInsts[h] + n \in Nat
      BY <1>1 DEF Shared
    <3> QED
      BY <2>1, <3>1
  <2>3. mtThreadsRunningVector' \subseteq Streams
    BY <1>1, <2>1 DEF Shared
  <2>4. mtExitCondition' \in BOOLEAN /\ (mtExitCondition => mtExitCondition')
    BY <2>1
  <2> QED
    BY <1>1, <2>2, <2>3, <2>4 DEF Shared
<1> QED
  BY <1>2, <1>3

LEMMA FeedCommitTrace ==
    ASSUME FeedInv, Alive, NEW s \in Streams, pipe[s] # <<>>,
           CommitTrace(s, Head(pipe[s])), ended' = ended
    PROVE  FeedInv'
<1>1. PICK e : e = Head(pipe[s])
  OBVIOUS
<1>2. /\ e.kind \in {"real", "pad"}
      /\ trace' = [trace EXCEPT ![s] = CommitInstr(@, e.id)]
      /\ CountCommitted(hwc[s], Skipped(trace[s], e.id) + 1)
      /\ retired' = [retired EXCEPT ![s] = IF e.kind = "real" THEN e.pos ELSE @]
      /\ Retire(s)
      /\ UNCHANGED <<wrongpath, swcVars, phase, error>>
  BY <1>1 DEF CommitTrace
<1>3. IsPlaced(e) /\ Typed(s, e) /\ e.id \in Slots
  BY <1>1, <1>2, Oldest DEF IsPlaced, Typed
<1>4. /\ trace[s] \in Buffers(s) /\ DOMAIN trace = Streams /\ DOMAIN retired = Streams
      /\ retired[s] \in Positions(s) /\ pipe[s] \in Seq(Instr(s)) /\ ended[s] \in BOOLEAN
      /\ Ordered(s, pipe[s], ended[s]) /\ Held(trace[s], pipe[s])
      /\ Within(trace[s], pipe[s], ended[s]) /\ Status(s)
  BY Facts
<1>5. PICK c : c = CommitInstr(trace[s], e.id)
  OBVIOUS
<1>6. /\ c \in Buffers(s) /\ Held(c, Tail(pipe[s]))
      /\ c.fault = "none" => Within(c, Tail(pipe[s]), ended[s])
  BY <1>1, <1>3, <1>4, <1>5, CommitKeeps
<1>7. /\ hwc[s] \in HWC /\ phase[s] = "run" /\ Tail(pipe[s]) \in Seq(Instr(s))
      /\ Part(Tail(pipe[s]), pipe[s], 1)
  BY Oldest
<1>8. Shared'
  <2>1. Skipped(trace[s], e.id) + 1 \in Nat
    BY <1>3, <1>4, SkippedNat
  <2> QED
    BY <1>2, <1>7, <2>1, Counts
<1>9. PICK x \in Pcs(s) \cup {AnyPc} : Moves(resteer, resteer', s, x)
  BY <1>2, Retires
<1>10. Moves(pipe, pipe', s, Tail(pipe[s])) /\ Moves(trace, trace', s, c)
  BY <1>2, <1>4, <1>5, Retires, MovesTo
<1>11. PICK y : y = IF e.kind = "real" THEN e.pos ELSE retired[s]
  OBVIOUS
<1>12. y \in Positions(s) /\ Moves(retired, retired', s, y)
  <2>1. e.pos \in Positions(s)
    BY <1>3, InstrIs DEF Typed
  <2> QED
    BY <1>2, <1>4, <1>11, <2>1, MovesTo
<1>13. Flags'
  BY <1>2 DEF FeedInv, Flags, swcVars
<1>14. Steady(s)
  BY <1>2 DEF Steady, swcVars
<1>15. Status(s)'
  <2>1. pipe[s] # <<>>
    OBVIOUS
  <2> QED
    BY <1>2, <1>4, <1>7 DEF Status, swcVars
<1>16. One(s, c, Tail(pipe[s]), ended'[s])
  BY <1>4, <1>6, <1>7, PartKeeps DEF One
<1> QED
  BY <1>6, <1>8, <1>9, <1>10, <1>12, <1>13, <1>14, <1>15, <1>16, Framed

LEMMA FeedCommitStartup ==
    ASSUME FeedInv, Alive, NEW s \in Streams, pipe[s] # <<>>,
           Retire(s), UNCHANGED <<trace, ended, wrongpath, limitVars, swcVars, phase, error>>,
           NEW y \in Positions(s), Moves(retired, retired', s, y)
    PROVE  FeedInv'
<1>1. /\ trace[s] \in Buffers(s) /\ Ordered(s, pipe[s], ended[s]) /\ Held(trace[s], pipe[s])
      /\ Within(trace[s], pipe[s], ended[s]) /\ Status(s)
  BY Facts
<1>2. /\ hwc[s] \in HWC /\ phase[s] = "run" /\ Tail(pipe[s]) \in Seq(Instr(s))
      /\ Part(Tail(pipe[s]), pipe[s], 1)
  BY Oldest
<1>3. PICK x \in Pcs(s) \cup {AnyPc} : Moves(resteer, resteer', s, x)
  BY Retires
<1>4. Moves(pipe, pipe', s, Tail(pipe[s])) /\ Moves(trace, trace', s, trace[s])
  BY Retires, Rests
<1>5. Flags' /\ Steady(s) /\ Shared' /\ Status(s)'
  <2>1. Flags' /\ Steady(s) /\ Shared'
    BY SharedSame DEF FeedInv, Flags, Steady, swcVars
  <2>2. pipe[s] # <<>>
    OBVIOUS
  <2>3. Status(s)'
    BY <1>1, <1>2, <2>2 DEF Status, swcVars
  <2> QED
    BY <2>1, <2>3
<1>6. One(s, trace[s], Tail(pipe[s]), ended'[s])
  BY <1>1, <1>2, PartKeeps DEF One
<1> QED
  BY <1>1, <1>3, <1>4, <1>5, <1>6, Framed

LEMMA FeedCommitSwitch ==
    ASSUME FeedInv, Alive, NEW s \in Streams, pipe[s] # <<>>,
           CommitSwitch(s, Head(pipe[s])), ended' = ended
    PROVE  FeedInv'
<1>1. /\ hwc' = [hwc EXCEPT ![s] = NoHWC]
      /\ running' = [running EXCEPT ![s] = FALSE]
      /\ switching' = [switching EXCEPT ![s] = FALSE]
      /\ phase' = [phase EXCEPT ![s] = IF ended[s] THEN "gone" ELSE @]
      /\ pipe' = [pipe EXCEPT ![s] = <<>>]
      /\ resteer' = [resteer EXCEPT ![s] = AnyPc]
      /\ UNCHANGED <<trace, wrongpath, limitVars, retired, error>>
  BY DEF CommitSwitch
<1>2. /\ trace[s] \in Buffers(s) /\ DOMAIN pipe = Streams /\ DOMAIN resteer = Streams
      /\ retired[s] \in Positions(s) /\ Within(trace[s], pipe[s], ended[s]) /\ Status(s)
  BY Facts
<1>3. hwc[s] \in HWC /\ phase[s] = "run"
  BY Oldest
<1>4. Moves(pipe, pipe', s, <<>>) /\ Moves(resteer, resteer', s, AnyPc)
  BY <1>1, <1>2, MovesTo
<1>5. Moves(trace, trace', s, trace[s]) /\ Moves(retired, retired', s, retired[s])
  BY <1>1, Rests
<1>6. Flags' /\ Steady(s) /\ Shared' /\ Status(s)'
  <2>1. Flags
    BY DEF FeedInv
  <2>2. Flags'
    BY <1>1, <2>1 DEF Flags
  <2>3. Steady(s) /\ Shared'
    BY <1>1, <2>1, SharedSame DEF Flags, Steady
  <2>4. pipe'[s] = <<>> /\ (phase'[s] = "run" => ended[s] = FALSE) /\ phase'[s] # "warmup"
    BY <1>1, <1>2, <1>3, <2>1 DEF Flags
  <2>5. Status(s)'
    BY <2>4 DEF Status
  <2> QED
    BY <2>2, <2>3, <2>5
<1>7. One(s, trace[s], <<>>, ended'[s])
  <2>1. Part(<<>>, pipe[s], 0) /\ <<>> \in Seq(Instr(s))
    BY DEF Part
  <2>2. Within(trace[s], <<>>, ended[s])
    BY <1>2, <2>1, PartKeeps
  <2> QED
    BY <2>2, EmptyPipe DEF One
<1> QED
  BY <1>2, <1>4, <1>5, <1>6, <1>7, Framed

LEMMA FeedCommit ==
    ASSUME FeedInv, NEW s \in Streams, Commit(s)
    PROVE  FeedInv'
<1>1. Alive /\ pipe[s] # <<>> /\ ended' = ended
  BY DEF Commit
<1>2. PICK e : e = Head(pipe[s])
  OBVIOUS
<1>3. \/ CommitTrace(s, e) \/ CommitStartup(s, e) \/ CommitSwitch(s, e) \/ CommitOffPath(s, e)
  BY <1>2 DEF Commit
<1>4. CASE CommitTrace(s, e)
  BY <1>1, <1>2, <1>4, FeedCommitTrace
<1>5. CASE CommitStartup(s, e)
  <2>1. /\ Retire(s) /\ retired' = retired
        /\ UNCHANGED <<trace, ended, wrongpath, limitVars, swcVars, phase, error>>
    BY <1>1, <1>5 DEF CommitStartup
  <2>2. Moves(retired, retired', s, retired[s]) /\ retired[s] \in Positions(s)
    BY <2>1, Rests, Facts
  <2> QED
    BY <1>1, <2>1, <2>2, FeedCommitStartup
<1>6. CASE CommitSwitch(s, e)
  BY <1>1, <1>2, <1>6, FeedCommitSwitch
<1>7. CASE CommitOffPath(s, e)
  <2>1. /\ error' = "wrongpathCommit"
        /\ UNCHANGED <<trace, ended, wrongpath, limitVars, swcVars, phase, pipe, resteer, retired>>
    BY <1>1, <1>7 DEF CommitOffPath
  <2>2. Flags' /\ Steady(s) /\ Status(s)'
    BY <2>1, Facts DEF FeedInv, Flags, Steady, Status, swcVars
  <2>3. Shared'
    BY <2>1 DEF FeedInv, Shared, limitVars
  <2> QED
    BY <2>1, <2>2, <2>3, FeedStill
<1> QED
  BY <1>3, <1>4, <1>5, <1>6, <1>7

LEMMA FeedDropNop ==
    ASSUME FeedInv, NEW s \in Streams, DropNop(s)
    PROVE  FeedInv'
<1>1. /\ Alive /\ pipe[s] # <<>> /\ Retire(s)
      /\ retired' = [retired EXCEPT ![s] = Head(pipe[s]).pos]
      /\ UNCHANGED <<trace, ended, wrongpath, limitVars, swcVars, phase, error>>
  BY DEF DropNop
<1>2. DOMAIN retired = Streams /\ Head(pipe[s]).pos \in Positions(s)
  BY <1>1, Facts, Oldest, InstrIs DEF Typed
<1>3. Moves(retired, retired', s, Head(pipe[s]).pos)
  BY <1>1, <1>2, MovesTo
<1> QED
  BY <1>1, <1>2, <1>3, FeedCommitStartup

LEMMA FeedKill ==
    ASSUME FeedInv, NEW s \in Streams, NEW i \in DOMAIN pipe[s],
           pipe[s][i].kind \in {"real", "startup"},
           NEW next \in BOOLEAN, NEW me \in BOOLEAN, me \/ next, Kill(s, i, next, me)
    PROVE  FeedInv'
<1>1. PICK e : e = pipe[s][i]
  OBVIOUS
<1>2. /\ Alive
      /\ trace' = [trace EXCEPT ![s] = KillBuffer(s, @, e, next)]
      /\ wrongpath' = [wrongpath EXCEPT ![s] = @ /\ ~ClearsWrongpath(e)]
      /\ pipe' = [pipe EXCEPT ![s] = SubSeq(@, 1, IF me THEN i - 1 ELSE i)]
      /\ resteer' = [resteer EXCEPT ![s] = IF next THEN ResolvedPc(s, e) ELSE e.pc]
      /\ UNCHANGED <<ended, limitVars, swcVars, phase, retired, error>>
  BY <1>1 DEF Kill
<1>3. /\ trace[s] \in Buffers(s) /\ DOMAIN trace = Streams /\ DOMAIN pipe = Streams
      /\ DOMAIN resteer = Streams /\ retired[s] \in Positions(s)
      /\ Ordered(s, pipe[s], ended[s]) /\ Held(trace[s], pipe[s])
      /\ Within(trace[s], pipe[s], ended[s]) /\ Status(s)
      /\ pipe[s] \in Seq(Instr(s))
  BY <1>2, Facts
<1>4. PICK m : m = IF me THEN i - 1 ELSE i
  OBVIOUS
<1>5. PICK P : P = SubSeq(pipe[s], 1, m)
  OBVIOUS
<1>6. PICK c : c = KillBuffer(s, trace[s], e, next)
  OBVIOUS
<1>7. c \in Buffers(s) /\ Ordered(s, P, ended[s]) /\ Held(c, P) /\ Within(c, P, ended[s])
  <2>1. Undoes(s, trace[s], pipe[s], i, next, me, m, P, c)
    BY <1>1, <1>4, <1>5, <1>6 DEF Undoes
  <2> QED
    BY <1>3, <2>1, KillKeeps
<1>8. Typed(s, e)
  BY <1>1, <1>3 DEF Ordered
<1>9. PICK x : x = IF next THEN ResolvedPc(s, e) ELSE e.pc
  OBVIOUS
<1>10. x \in Pcs(s) \cup {AnyPc}
  <2>1. ResolvedPc(s, e) \in Pcs(s) \cup {AnyPc} /\ e.pc \in Pcs(s)
    BY <1>8, Resolves, InstrIs DEF Typed
  <2> QED
    BY <1>9, <2>1
<1>11. /\ Moves(trace, trace', s, c) /\ Moves(resteer, resteer', s, x)
       /\ Moves(retired, retired', s, retired[s])
  BY <1>2, <1>3, <1>6, <1>9, MovesTo, Rests
<1>12. Moves(pipe, pipe', s, P)
  BY <1>2, <1>3, <1>4, <1>5, MovesTo
<1>13. Flags'
  <2>1. Flags
    BY DEF FeedInv
  <2>2. (wrongpath[s] /\ ~ClearsWrongpath(e)) \in BOOLEAN
    OBVIOUS
  <2>3. PICK w \in BOOLEAN : w = (wrongpath[s] /\ ~ClearsWrongpath(e))
    BY <2>2
  <2>4. wrongpath' = [wrongpath EXCEPT ![s] = w]
    BY <1>2, <2>3
  <2> QED
    BY <1>2, <2>1, <2>4 DEF Flags, swcVars
<1>14. Shared' /\ Steady(s)
  BY <1>2, SharedSame DEF Steady, swcVars
<1>15. Status(s)'
  <2>1. pipe[s] # <<>>
    BY <1>3
  <2> QED
    BY <1>2, <1>3, <2>1 DEF Status, swcVars
<1>16. One(s, c, P, ended'[s])
  BY <1>2, <1>7 DEF One
<1> QED
  BY <1>3, <1>7, <1>10, <1>11, <1>12, <1>13, <1>14, <1>15, <1>16, Framed

LEMMA FeedUnchanged == FeedInv /\ UNCHANGED vars => FeedInv'
BY DEF FeedInv, Flags, Shared, Domains, One, Held, Within, Ordered, Status, vars, limitVars, swcVars

LEMMA FeedNext == FeedInv /\ [Next]_vars => FeedInv'
<1> SUFFICES ASSUME FeedInv, [Next]_vars PROVE FeedInv'
  OBVIOUS
<1>1. CASE UNCHANGED vars
  BY <1>1, FeedUnchanged
<1>2. CASE Next
  <2>1. ASSUME NEW s \in Streams, NEW n \in SkipCounts, Skip(s, n) PROVE FeedInv'
    BY <2>1, FeedSkip
  <2>2. ASSUME NEW s \in Streams, WarmUp(s) PROVE FeedInv'
    BY <2>2, FeedWarmUp
  <2>3. ASSUME NEW s \in Streams, WarmUpDone(s) PROVE FeedInv'
    BY <2>3, FeedWarmUpDone
  <2>4. ASSUME NEW s \in Streams, NEW h \in HWC, Schedule(s, h) PROVE FeedInv'
    BY <2>4, FeedSchedule
  <2>5. ASSUME NEW s \in Streams, RequestSwitch(s) PROVE FeedInv'
    BY <2>5, FeedRequestSwitch
  <2>6. ASSUME NEW s \in Streams, Fetch(s) PROVE FeedInv'
    BY <2>6, FeedFetch
  <2>7. ASSUME NEW s \in Streams, Commit(s) PROVE FeedInv'
    BY <2>7, FeedCommit
  <2>8. ASSUME NEW s \in Streams, DropNop(s) PROVE FeedInv'
    BY <2>8, FeedDropNop
  <2>9. ASSUME NEW s \in Streams, Mispredict(s) PROVE FeedInv'
    <3>1. PICK i \in DOMAIN pipe[s] : /\ pipe[s][i].kind \in {"real", "startup"}
                                      /\ Kill(s, i, TRUE, FALSE)
      BY <2>9 DEF Mispredict
    <3> QED
      BY <3>1, FeedKill
  <2>10. ASSUME NEW s \in Streams, Refetch(s) PROVE FeedInv'
    <3>1. PICK i \in DOMAIN pipe[s] : pipe[s][i].kind = "real" /\ Kill(s, i, FALSE, TRUE)
      BY <2>10 DEF Refetch
    <3> QED
      BY <3>1, FeedKill
  <2>11. ASSUME NEW s \in Streams, PalFlow(s) PROVE FeedInv'
    <3>1. PICK i \in DOMAIN pipe[s] : pipe[s][i].kind = "real" /\ Kill(s, i, TRUE, TRUE)
      BY <2>11 DEF PalFlow
    <3> QED
      BY <3>1, FeedKill
  <2>12. CASE Finished
    BY <2>12, FeedUnchanged DEF Finished
  <2> QED
    BY <1>2, <2>1, <2>2, <2>3, <2>4, <2>5, <2>6, <2>7, <2>8, <2>9, <2>10, <2>11, <2>12
       DEF Next
<1> QED
  BY <1>1, <1>2

LEMMA FeedAlways == Spec => []FeedInv
BY FeedInit, FeedNext, PTL DEF Spec

\* The buffers, the feeder's flags and the instructions in flight have their
\* types after any sequence of calls of Fetch, Commit, Kill and Skip.
THEOREM TraceFeederTypes == Spec => []TypeOK
BY FeedAlways, FeedInvTypes, PTL

\* The slot number an instruction carries (TraceID) leads Commit and Kill to the
\* same instruction as when Fetch handed it out: FillBuffer overwrites none in
\* flight.
THEOREM SlotsStay == Spec => []SlotStable
BY FeedAlways, FeedInvTypes, PTL
=============================================================================
