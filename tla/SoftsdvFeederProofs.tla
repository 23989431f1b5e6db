------------------------- MODULE SoftsdvFeederProofs -------------------------
(***************************************************************************)
(* The interrupts of SoftsdvFeeder are precise, and none is missed, for    *)
(* every stream SoftSDV may send.                                          *)
(*                                                                         *)
(* First what the operations of the replay buffer do: reading ahead        *)
(* (Extends), moving nextFetch (Alike), committing (CommitShifts) and      *)
(* dropping (Dropped) an instruction, and the loop of MergeREPInstrs       *)
(* (Turn, Fed).  Then what they do to a pipe, a buffer and an event that   *)
(* fit each other (Steady), and then that every action keeps FeedInv.      *)
(***************************************************************************)
EXTENDS SoftsdvFeeder, WellFoundedInduction, TLAPS

-----------------------------------------------------------------------------
(* The replay buffer.                                                      *)

Entries == [n : 1 .. StreamSize, uid : 1 .. StreamSize, implicit : BOOLEAN]

\* A buffer between two calls: its instructions are in the order of the
\* stream.
Buffers == [list : Seq(Entries), next : Nat, uid : 0 .. StreamSize]
Typed(b) == b \in Buffers /\ b.next <= Len(b.list)
Increasing(b) ==
    /\ \A j \in 1 .. Len(b.list) : b.list[j].n <= b.uid
    /\ \A i, j \in 1 .. Len(b.list) : i < j => b.list[i].n < b.list[j].n

\* The instruction of the stream behind the one at place j.
Following(b, j) == IF j < Len(b.list) THEN b.list[j + 1].n ELSE b.uid + 1

\* Instruction m is taken for one more iteration of the REP n.
Same(n, m) == Stream[m].va = Stream[n].va /\ ~ Stream[m].warm
Merges(n) == Stream[n].rep /\ ~ Stream[n].ctl

\* The feeder knows what follows place j, and has merged what there was.
Whole(b, j) ==
    /\ j < Len(b.list) \/ b.uid = StreamSize
    /\ Merges(b.list[j].n) /\ j < Len(b.list) => ~ Same(b.list[j].n, b.list[j + 1].n)

\* Only merged iterations are missing between two places.
Gap(b, j) == Following(b, j) # b.list[j].n + 1
Linked(b) ==
    \A j \in 1 .. Len(b.list) :
        Gap(b, j) => /\ Merges(b.list[j].n)
                     /\ \A m \in b.list[j].n + 1 .. Following(b, j) - 1 :
                            Same(b.list[j].n, m)
                     /\ \A i \in 1 .. j : Whole(b, i)

Fetched(b, j) == j \in 1 .. Len(b.list) /\ (b.next = Null \/ j < b.next)
FetchedWhole(b) == \A j \in 1 .. Len(b.list) : Fetched(b, j) => Whole(b, j)

BufferOK(b) == Typed(b) /\ Increasing(b) /\ Linked(b)

-----------------------------------------------------------------------------
(* Numbers, and what the assumptions say of the stream.                    *)

LEMMA LeastNat ==
    ASSUME NEW T, T \subseteq Nat, T # {}
    PROVE  \E x \in T : \A y \in T : x <= y
<1>1. PICK x \in T : \A y \in T : ~(<<y, x>> \in OpToRel(<, Nat))
  BY WFMin, NatLessThanWellFounded
<1>2. ASSUME NEW y \in T PROVE x <= y
  <2>1. ~(<<y, x>> \in OpToRel(<, Nat))
    BY <1>1
  <2>2. ~(y < x)
    BY <2>1 DEF OpToRel
  <2> QED
    BY <2>2
<1> QED
  BY <1>2

\* A bounded set of numbers has a largest one.
LEMMA MaxNat ==
    ASSUME NEW T, T \subseteq Nat, T # {}, NEW B \in Nat, \A x \in T : x <= B
    PROVE  Max(T) \in T /\ \A y \in T : y <= Max(T)
<1> DEFINE U == {z \in Nat : \E x \in T : z = B - x}
<1>1. U \subseteq Nat /\ U # {}
  <2>1. PICK x \in T : TRUE
    OBVIOUS
  <2>2. B - x \in U
    BY <2>1
  <2> QED
    BY <2>2
<1>2. PICK z \in U : \A y \in U : z <= y
  <2> HIDE DEF U
  <2> QED
    BY <1>1, LeastNat
<1>3. PICK x \in T : z = B - x
  BY <1>2
<1>4. \A y \in T : x >= y
  <2>1. \A y \in T : B - y \in U
    OBVIOUS
  <2> QED
    BY <1>2, <1>3, <2>1
<1>5. Max(T) \in T /\ \A y \in T : Max(T) >= y
  BY <1>4 DEF Max
<1> QED
  BY <1>5

LEMMA Sizes ==
    /\ StreamSize \in Nat /\ StreamSize > 0 /\ Stream \in Seq(Instruction)
    /\ \A n \in 1 .. StreamSize : Stream[n] \in Instruction
    /\ WarmupChunk \in Nat /\ WarmupChunk > 0
    /\ ExecuteChunk \in Nat /\ ExecuteChunk > 0 /\ Window \in Nat
<1>1. Stream \in Seq(Instruction) /\ StreamSize > 0
  BY StreamAssumption
<1>2. WarmupChunk \in Nat \ {0} /\ ExecuteChunk \in Nat \ {0} /\ Window \in Nat \ {0}
  BY BoundAssumption
<1> QED
  BY <1>1, <1>2 DEF StreamSize

LEMMA BufferMembers ==
    ASSUME NEW b, Typed(b)
    PROVE  /\ b.list \in Seq(Entries) /\ b.next \in Nat /\ b.uid \in Nat
           /\ b.uid <= StreamSize /\ Len(b.list) \in Nat /\ b.next <= Len(b.list)
           /\ \A j \in 1 .. Len(b.list) :
                /\ b.list[j] \in Entries /\ b.list[j].n \in Nat
                /\ b.list[j].n >= 1 /\ b.list[j].n <= StreamSize
<1>1. /\ b.list \in Seq(Entries) /\ b.next \in Nat /\ b.uid \in Nat
      /\ b.uid <= StreamSize /\ b.next <= Len(b.list)
  BY Sizes DEF Typed, Buffers
<1>2. Len(b.list) \in Nat /\ \A j \in 1 .. Len(b.list) : b.list[j] \in Entries
  BY <1>1
<1>3. \A x \in Entries : x.n \in Nat /\ x.n >= 1 /\ x.n <= StreamSize
  BY Sizes DEF Entries
<1> QED
  BY <1>1, <1>2, <1>3

-----------------------------------------------------------------------------
(* Reading ahead.                                                          *)

LEMMA AddPlaces ==
    ASSUME NEW b, Typed(b), NEW m \in Nat, b.uid + m <= StreamSize,
           NEW r, r = AddInstructions(b, m)
    PROVE  /\ Typed(r) /\ r.uid = b.uid + m /\ Len(r.list) = Len(b.list) + m
           /\ \A j \in 1 .. Len(b.list) : r.list[j] = b.list[j]
           /\ \A j \in Len(b.list) + 1 .. Len(r.list) :
                 r.list[j].n = b.uid + (j - Len(b.list))
           /\ r.next = IF b.next = Null /\ m > 0 THEN Len(b.list) + 1 ELSE b.next
<1> DEFINE new == [i \in 1 .. m |->
                     [n |-> b.uid + i, uid |-> b.uid + i, implicit |-> FALSE]]
<1>1. b \in Buffers /\ b.list \in Seq(Entries) /\ b.uid \in Nat /\ StreamSize \in Nat
      /\ b.next \in Nat /\ b.next <= Len(b.list) /\ Len(b.list) \in Nat
  BY Sizes, BufferMembers DEF Typed
<1>2. new \in Seq(Entries) /\ Len(new) = m
  <2>1. \A i \in 1 .. m : new[i] \in Entries
    BY <1>1 DEF Entries
  <2> QED
    BY <2>1
<1>3. \A i \in 1 .. m : new[i].n = b.uid + i
  OBVIOUS
<1>4. PICK w \in Seq(Entries) : w = new
  BY <1>2
<1>4a. Len(w) = m /\ \A i \in 1 .. m : w[i].n = b.uid + i
  BY <1>2, <1>3, <1>4
<1>4b. r = [b EXCEPT !.list = @ \o w, !.uid = @ + m,
                    !.next = IF @ = Null /\ m > 0 THEN Len(b.list) + 1 ELSE @]
  BY <1>4 DEF AddInstructions
<1> HIDE DEF new
<1>5a. PICK l : l = b.list \o w
  OBVIOUS
<1>5. l \in Seq(Entries) /\ Len(l) = Len(b.list) + m
  <2>1. l \in Seq(Entries)
    BY <1>1, <1>5a
  <2>2. Len(l) = Len(b.list) + Len(w)
    BY <1>1, <1>5a
  <2> QED
    BY <2>1, <2>2, <1>4a
<1>5b. \A j \in 1 .. Len(b.list) : l[j] = b.list[j]
  BY <1>1, <1>5a
<1>5c. \A j \in Len(b.list) + 1 .. Len(b.list) + m : l[j] = w[j - Len(b.list)]
  <2>1. PICK s \in Seq(Entries) : s = b.list
    BY <1>1
  <2>2. ASSUME NEW j \in Len(s) + 1 .. Len(s) + Len(w) PROVE (s \o w)[j] = w[j - Len(s)]
    BY <1>4a
  <2> QED
    BY <2>1, <2>2, <1>4a, <1>5a
<1>6. PICK x \in Nat : x = IF b.next = Null /\ m > 0 THEN Len(b.list) + 1 ELSE b.next
  BY <1>1
<1>7. PICK u \in 0 .. StreamSize : u = b.uid + m
  BY <1>1
<1>8. r = [b EXCEPT !.list = l, !.uid = u, !.next = x]
  BY <1>1, <1>4b, <1>5a, <1>6, <1>7 DEF Buffers
<1>9. r \in Buffers /\ r.list = l /\ r.uid = u /\ r.next = x
  BY <1>1, <1>5, <1>8 DEF Buffers
<1>10. x <= Len(l)
  BY <1>1, <1>5, <1>6
<1>11. ASSUME NEW j \in Len(b.list) + 1 .. Len(l)
       PROVE  l[j].n = b.uid + (j - Len(b.list))
  <2>1. j - Len(b.list) \in 1 .. m /\ j \in Len(b.list) + 1 .. Len(b.list) + m
    BY <1>1, <1>5
  <2>2. w[j - Len(b.list)].n = b.uid + (j - Len(b.list))
    BY <2>1, <1>4a
  <2> QED
    BY <2>1, <2>2, <1>5c
<1> QED
  BY <1>5, <1>5b, <1>6, <1>7, <1>9, <1>10, <1>11 DEF Typed

\* r is b after reading ahead.
Extends(b, r) ==
    /\ Typed(r) /\ b.uid <= r.uid /\ Len(r.list) = Len(b.list) + (r.uid - b.uid)
    /\ \A j \in 1 .. Len(b.list) : r.list[j].n = b.list[j].n
    /\ \A j \in Len(b.list) + 1 .. Len(r.list) :
          r.list[j].n = b.uid + (j - Len(b.list))
    /\ r.next = IF b.next = Null /\ b.uid < r.uid THEN Len(b.list) + 1 ELSE b.next
    /\ r.next = Null => r.uid = StreamSize

LEMMA MinTwo ==
    ASSUME NEW x \in Nat, NEW y \in Nat
    PROVE  Min({x, y}) \in {x, y} /\ Min({x, y}) <= x /\ Min({x, y}) <= y
<1>1. \E z \in {x, y} : \A w \in {x, y} : z <= w
  <2>1. CASE x <= y
    BY <2>1
  <2>2. CASE ~(x <= y)
    BY <2>2
  <2> QED
    BY <2>1, <2>2
<1>2. Min({x, y}) \in {x, y} /\ \A w \in {x, y} : Min({x, y}) <= w
  BY <1>1 DEF Min
<1> QED
  BY <1>2

LEMMA FetchExtends ==
    ASSUME NEW b, Typed(b), NEW chunk \in Nat, chunk > 0
    PROVE  Extends(b, FetchIncomingInstructions(b, chunk))
<1>1. /\ b.uid \in Nat /\ b.uid <= StreamSize /\ Len(b.list) \in Nat /\ b.next \in Nat
      /\ StreamSize \in Nat
  BY BufferMembers, Sizes
<1>2. CASE NUnfetchedQueuedInstrs(b) > chunk \div 2
  <2>1. b.next # Null
    <3>1. chunk \div 2 >= 0
      OBVIOUS
    <3> QED
      BY <3>1, <1>2 DEF NUnfetchedQueuedInstrs
  <2>2. FetchIncomingInstructions(b, chunk) = b
    BY <1>2 DEF FetchIncomingInstructions
  <2>3. Extends(b, b)
    BY <1>1, <2>1 DEF Extends
  <2> QED
    BY <2>2, <2>3
<1>3. CASE ~(NUnfetchedQueuedInstrs(b) > chunk \div 2)
  <2>1. PICK m \in Nat : /\ m = Min({chunk, StreamSize - b.uid})
                         /\ m \in {chunk, StreamSize - b.uid} /\ m <= StreamSize - b.uid
    <3>1. StreamSize - b.uid \in Nat
      BY <1>1
    <3> QED
      BY <3>1, MinTwo
  <2>2. PICK r : r = AddInstructions(b, m)
    OBVIOUS
  <2>3. FetchIncomingInstructions(b, chunk) = r
    BY <1>3, <2>1, <2>2 DEF FetchIncomingInstructions
  <2>4. b.uid + m <= StreamSize
    BY <1>1, <2>1
  <2>5. /\ Typed(r) /\ r.uid = b.uid + m /\ Len(r.list) = Len(b.list) + m
        /\ \A j \in 1 .. Len(b.list) : r.list[j] = b.list[j]
        /\ \A j \in Len(b.list) + 1 .. Len(r.list) :
              r.list[j].n = b.uid + (j - Len(b.list))
        /\ r.next = IF b.next = Null /\ m > 0 THEN Len(b.list) + 1 ELSE b.next
    BY <2>2, <2>4, AddPlaces
  <2>6. r.uid - b.uid = m /\ b.uid <= r.uid /\ (b.uid < r.uid <=> m > 0)
    BY <1>1, <2>5
  <2>7. r.next = Null => r.uid = StreamSize
    BY <1>1, <2>1, <2>5 DEF Null
  <2> QED
    BY <2>3, <2>5, <2>6, <2>7 DEF Extends
<1> QED
  BY <1>2, <1>3

LEMMA ExtendsPlaces ==
    ASSUME NEW b, NEW r, Typed(b), Increasing(b), Extends(b, r)
    PROVE  /\ Typed(r) /\ Increasing(r)
           /\ \A j \in 1 .. Len(b.list) :
                /\ Following(r, j) = Following(b, j)
                /\ Gap(r, j) <=> Gap(b, j)
                /\ Whole(b, j) => Whole(r, j)
           /\ \A j \in Len(b.list) + 1 .. Len(r.list) : ~ Gap(r, j)
           /\ \A j \in 1 .. Len(r.list) : Fetched(r, j) <=> Fetched(b, j)
<1>1. Typed(b) /\ Typed(r) /\ Increasing(b)
  BY DEF Extends
<1>2. /\ b.uid \in Nat /\ r.uid \in Nat /\ Len(b.list) \in Nat /\ Len(r.list) \in Nat
      /\ b.next \in Nat /\ r.next \in Nat /\ b.next <= Len(b.list) /\ r.uid <= StreamSize
      /\ \A j \in 1 .. Len(b.list) : b.list[j].n \in Nat
  BY <1>1, BufferMembers
<1>3. /\ b.uid <= r.uid /\ Len(r.list) = Len(b.list) + (r.uid - b.uid)
      /\ \A j \in 1 .. Len(b.list) : r.list[j].n = b.list[j].n
      /\ \A j \in Len(b.list) + 1 .. Len(r.list) :
            r.list[j].n = b.uid + (j - Len(b.list))
      /\ r.next = IF b.next = Null /\ b.uid < r.uid THEN Len(b.list) + 1 ELSE b.next
  BY DEF Extends
<1>4. Increasing(r)
  <2>1. \A j \in 1 .. Len(r.list) : r.list[j].n <= r.uid
    <3>1. \A j \in 1 .. Len(b.list) : b.list[j].n <= b.uid
      BY <1>1 DEF Increasing
    <3>2. ASSUME NEW j \in 1 .. Len(r.list) PROVE r.list[j].n <= r.uid
      <4>1. CASE j <= Len(b.list)
        <5>1. j \in 1 .. Len(b.list)
          BY <4>1, <1>2
        <5>2. r.list[j].n = b.list[j].n /\ b.list[j].n \in Nat /\ b.list[j].n <= b.uid
          BY <5>1, <3>1, <1>2, <1>3
        <5>3. b.uid <= r.uid
          BY <1>3
        <5> QED
          BY <5>2, <5>3, <1>2
      <4>2. CASE ~(j <= Len(b.list))
        <5>1. j \in Len(b.list) + 1 .. Len(r.list)
          BY <4>2, <1>2
        <5>2. r.list[j].n = b.uid + (j - Len(b.list))
          BY <5>1, <1>3
        <5>3. Len(r.list) = Len(b.list) + (r.uid - b.uid)
          BY <1>3
        <5>4. \A x, y, z, w \in Int : x <= y + (z - w) => w + (x - y) <= z
          OBVIOUS
        <5>5. j <= Len(b.list) + (r.uid - b.uid) /\ j \in Int
          BY <5>1, <5>3, <1>2
        <5> QED
          BY <5>2, <5>4, <5>5, <1>2
      <4> QED
        BY <4>1, <4>2
    <3> QED
      BY <3>2
  <2>2. ASSUME NEW i \in 1 .. Len(r.list), NEW j \in 1 .. Len(r.list), i < j
        PROVE  r.list[i].n < r.list[j].n
    <3>1. CASE j <= Len(b.list)
      <4>1. i \in 1 .. Len(b.list) /\ j \in 1 .. Len(b.list)
        BY <3>1, <2>2, <1>2
      <4> QED
        BY <4>1, <2>2, <1>1, <1>3 DEF Increasing
    <3>2. CASE ~(j <= Len(b.list))
      <4>0. j \in Len(b.list) + 1 .. Len(r.list)
        BY <3>2, <1>2
      <4>1. r.list[j].n = b.uid + (j - Len(b.list))
        BY <4>0, <1>3
      <4>2. CASE i <= Len(b.list)
        <5>1. i \in 1 .. Len(b.list)
          BY <4>2, <1>2
        <5>2. r.list[i].n = b.list[i].n /\ b.list[i].n <= b.uid /\ b.list[i].n \in Nat
          BY <5>1, <1>1, <1>2, <1>3 DEF Increasing
        <5>3. j - Len(b.list) \in Nat /\ j - Len(b.list) >= 1
          BY <4>0, <1>2
        <5>4. \A x, u, d \in Nat : x <= u /\ d >= 1 => x < u + d
          OBVIOUS
        <5> QED
          BY <5>2, <5>3, <5>4, <4>1, <1>2
      <4>3. CASE ~(i <= Len(b.list))
        <5>0. i \in Len(b.list) + 1 .. Len(r.list)
          BY <4>3, <1>2
        <5>1. r.list[i].n = b.uid + (i - Len(b.list))
          BY <5>0, <1>3
        <5> QED
          BY <5>1, <4>1, <2>2, <1>2
      <4> QED
        BY <4>2, <4>3
    <3> QED
      BY <3>1, <3>2
  <2> QED
    BY <2>1, <2>2 DEF Increasing
<1>5. ASSUME NEW j \in 1 .. Len(b.list)
      PROVE  Following(r, j) = Following(b, j) /\ r.list[j].n = b.list[j].n
  <2>1. CASE j < Len(b.list)
    <3>1. j + 1 \in 1 .. Len(b.list) /\ j < Len(r.list)
      BY <2>1, <1>2, <1>3
    <3> QED
      BY <3>1, <2>1, <1>3 DEF Following
  <2>2. CASE j = Len(b.list)
    <3>1. CASE r.uid = b.uid
      BY <3>1, <2>2, <1>2, <1>3 DEF Following
    <3>2. CASE b.uid < r.uid
      <4>1. j < Len(r.list) /\ j + 1 \in Len(b.list) + 1 .. Len(r.list)
        BY <3>2, <2>2, <1>2, <1>3
      <4>2. r.list[j + 1].n = b.uid + ((j + 1) - Len(b.list))
        BY <4>1, <1>3
      <4>3. r.list[j + 1].n = b.uid + 1
        BY <4>2, <2>2, <1>2
      <4>4. Following(r, j) = b.uid + 1
        BY <4>1, <4>3 DEF Following
      <4>5. Following(b, j) = b.uid + 1
        BY <2>2, <1>2 DEF Following
      <4> QED
        BY <4>4, <4>5, <1>3
    <3> QED
      BY <3>1, <3>2, <1>2, <1>3
  <2> QED
    BY <2>1, <2>2, <1>2
<1>6. \A j \in 1 .. Len(b.list) : Gap(r, j) <=> Gap(b, j)
  BY <1>5 DEF Gap
<1>7. ASSUME NEW j \in 1 .. Len(b.list), Whole(b, j) PROVE Whole(r, j)
  <2>1. r.list[j].n = b.list[j].n
    BY <1>3
  <2>2. CASE j < Len(b.list)
    <3>1. j + 1 \in 1 .. Len(b.list) /\ j < Len(r.list)
      BY <2>2, <1>2, <1>3
    <3>2. r.list[j + 1].n = b.list[j + 1].n
      BY <3>1, <1>3
    <3> QED
      BY <1>7, <2>1, <2>2, <3>1, <3>2 DEF Whole
  <2>3. CASE j = Len(b.list)
    <3>1. b.uid = StreamSize
      BY <2>3, <1>7, <1>2 DEF Whole
    <3>2. r.uid = StreamSize /\ Len(r.list) = j
      BY <3>1, <2>3, <1>2, <1>3
    <3> QED
      BY <3>2, <1>2 DEF Whole
  <2> QED
    BY <2>2, <2>3, <1>2
<1>8. ASSUME NEW j \in Len(b.list) + 1 .. Len(r.list) PROVE ~ Gap(r, j)
  <2>1. r.list[j].n = b.uid + (j - Len(b.list))
    BY <1>3
  <2>2. CASE j < Len(r.list)
    <3>1. j + 1 \in Len(b.list) + 1 .. Len(r.list)
      BY <2>2, <1>2
    <3>2. r.list[j + 1].n = b.uid + ((j + 1) - Len(b.list))
      BY <3>1, <1>3
    <3>3. Following(r, j) = r.list[j + 1].n
      BY <2>2 DEF Following
    <3>a. j \in Int /\ Len(b.list) \in Int /\ b.uid \in Int
      BY <1>2
    <3>b. \A x, y, z \in Int : x + ((y + 1) - z) = (x + (y - z)) + 1
      OBVIOUS
    <3>4. b.uid + ((j + 1) - Len(b.list)) = (b.uid + (j - Len(b.list))) + 1
      BY <3>a, <3>b
    <3> QED
      BY <3>2, <3>3, <3>4, <2>1 DEF Gap
  <2>3. CASE j = Len(r.list)
    <3>1. Following(r, j) = r.uid + 1
      BY <2>3, <1>2 DEF Following
    <3>2. b.uid + (j - Len(b.list)) = r.uid
      BY <2>3, <1>2, <1>3
    <3> QED
      BY <3>1, <3>2, <2>1 DEF Gap
  <2> QED
    BY <2>2, <2>3, <1>2
<1>9. \A j \in 1 .. Len(r.list) : Fetched(r, j) <=> Fetched(b, j)
  BY <1>2, <1>3 DEF Fetched, Null
<1> QED
  BY <1>1, <1>4, <1>5, <1>6, <1>7, <1>8, <1>9

LEMMA ExtendsKeeps ==
    ASSUME NEW b, NEW r, BufferOK(b), Extends(b, r)
    PROVE  BufferOK(r)
<1>1. Typed(b) /\ Increasing(b) /\ Linked(b)
  BY DEF BufferOK
<1>2. /\ Len(b.list) \in Nat /\ Len(r.list) \in Nat
      /\ \A j \in 1 .. Len(b.list) : r.list[j].n = b.list[j].n
  BY <1>1, BufferMembers DEF Extends
<1>3. /\ Typed(r) /\ Increasing(r)
      /\ \A j \in 1 .. Len(b.list) :
                /\ Following(r, j) = Following(b, j)
                /\ Gap(r, j) <=> Gap(b, j)
                /\ Whole(b, j) => Whole(r, j)
      /\ \A j \in Len(b.list) + 1 .. Len(r.list) : ~ Gap(r, j)
  BY <1>1, ExtendsPlaces
<1>4. Linked(r)
  <2> SUFFICES ASSUME NEW j \in 1 .. Len(r.list), Gap(r, j)
               PROVE  /\ Merges(r.list[j].n)
                      /\ \A m \in r.list[j].n + 1 .. Following(r, j) - 1 :
                             Same(r.list[j].n, m)
                      /\ \A i \in 1 .. j : Whole(r, i)
    BY DEF Linked
  <2>1. j \in 1 .. Len(b.list)
    BY <1>3, <1>2
  <2>2. Gap(b, j) /\ Following(r, j) = Following(b, j) /\ r.list[j].n = b.list[j].n
    BY <2>1, <1>2, <1>3
  <2>3. \A i \in 1 .. j : i \in 1 .. Len(b.list)
    BY <2>1, <1>2
  <2> QED
    BY <2>1, <2>2, <2>3, <1>1, <1>3 DEF Linked
<1> QED
  BY <1>3, <1>4 DEF BufferOK

-----------------------------------------------------------------------------
(* The other operations of the replay buffer.                              *)

LEMMA PlaceFound ==
    ASSUME NEW b, BufferOK(b), NEW k \in 1 .. Len(b.list)
    PROVE  Place(b, b.list[k].n) = k
<1> DEFINE I == {i \in 1 .. Len(b.list) : b.list[i].n = b.list[k].n}
<1>1. Typed(b) /\ Increasing(b)
  BY DEF BufferOK
<1>2. Len(b.list) \in Nat /\ \A j \in 1 .. Len(b.list) : b.list[j].n \in Nat
  BY <1>1, BufferMembers
<1>3. ASSUME NEW i \in I PROVE i = k
  <2>1. i \in 1 .. Len(b.list) /\ b.list[i].n = b.list[k].n /\ i \in Int /\ k \in Int
    BY <1>2
  <2>2. b.list[i].n \in Nat /\ b.list[k].n \in Nat
    BY <2>1, <1>2
  <2>3. ~(i < k) /\ ~(k < i)
    BY <2>1, <2>2, <1>1 DEF Increasing
  <2> QED
    BY <2>1, <2>3
<1>4. I = {k}
  BY <1>3
<1>5. Place(b, b.list[k].n) = IF I # {} THEN Min(I) ELSE 0
  BY DEF Place, SelectInSeq
<1>6. Min({k}) = k
  <2>1. \E x \in {k} : \A y \in {k} : x <= y
    BY <1>2
  <2> QED
    BY <2>1 DEF Min
<1> HIDE DEF I
<1> QED
  BY <1>4, <1>5, <1>6

\* r has the same instructions of the stream as b.
Alike(b, r) ==
    /\ Typed(r) /\ r.uid = b.uid /\ Len(r.list) = Len(b.list)
    /\ \A j \in 1 .. Len(b.list) : r.list[j].n = b.list[j].n

LEMMA AlikeKeeps ==
    ASSUME NEW b, NEW r, BufferOK(b), Alike(b, r)
    PROVE  /\ BufferOK(r)
           /\ \A j \in 1 .. Len(b.list) :
                /\ Following(r, j) = Following(b, j)
                /\ Gap(r, j) <=> Gap(b, j)
                /\ Whole(r, j) <=> Whole(b, j)
<1>1. Typed(b) /\ Typed(r) /\ Increasing(b) /\ Linked(b)
  BY DEF BufferOK, Alike
<1>2. /\ r.uid = b.uid /\ Len(r.list) = Len(b.list)
      /\ \A j \in 1 .. Len(b.list) : r.list[j].n = b.list[j].n
  BY DEF Alike
<1>3. Len(b.list) \in Nat
  BY <1>1, BufferMembers
<1>4. Increasing(r)
  BY <1>1, <1>2 DEF Increasing
<1>5. ASSUME NEW j \in 1 .. Len(b.list)
      PROVE  /\ Following(r, j) = Following(b, j)
             /\ Gap(r, j) <=> Gap(b, j)
             /\ Whole(r, j) <=> Whole(b, j)
  <2>1. j < Len(b.list) => j + 1 \in 1 .. Len(b.list)
    BY <1>3
  <2>2. r.list[j].n = b.list[j].n
        /\ (j < Len(b.list) => r.list[j + 1].n = b.list[j + 1].n)
    BY <2>1, <1>2
  <2>3. Following(r, j) = Following(b, j)
    BY <2>2, <1>2 DEF Following
  <2>4. Whole(r, j) <=> Whole(b, j)
    BY <2>2, <1>2 DEF Whole
  <2> QED
    BY <2>2, <2>3, <2>4 DEF Gap
<1>6. Linked(r)
  <2> SUFFICES ASSUME NEW j \in 1 .. Len(r.list), Gap(r, j)
               PROVE  /\ Merges(r.list[j].n)
                      /\ \A m \in r.list[j].n + 1 .. Following(r, j) - 1 :
                             Same(r.list[j].n, m)
                      /\ \A i \in 1 .. j : Whole(r, i)
    BY DEF Linked
  <2>1. j \in 1 .. Len(b.list) /\ \A i \in 1 .. j : i \in 1 .. Len(b.list)
    BY <1>2, <1>3
  <2>2. Gap(b, j) /\ Following(r, j) = Following(b, j) /\ r.list[j].n = b.list[j].n
    BY <2>1, <1>2, <1>5
  <2> QED
    BY <2>1, <2>2, <1>1, <1>5 DEF Linked
<1> QED
  BY <1>1, <1>4, <1>5, <1>6 DEF BufferOK

\* SetNextFetch and GetNextFetchHandle only move nextFetch.
LEMMA NextMoves ==
    ASSUME NEW b, Typed(b), NEW x \in Nat, x <= Len(b.list),
           NEW r, r = [b EXCEPT !.next = x]
    PROVE  Alike(b, r) /\ r.list = b.list /\ r.next = x
<1>1. b \in Buffers
  BY DEF Typed
<1>2. r \in Buffers /\ r.list = b.list /\ r.next = x /\ r.uid = b.uid
  BY <1>1 DEF Buffers
<1> QED
  BY <1>2 DEF Alike, Typed

LEMMA AfterPlace ==
    ASSUME NEW b, Typed(b), NEW k \in 1 .. Len(b.list)
    PROVE  /\ After(b, k) \in Nat /\ After(b, k) <= Len(b.list)
           /\ After(b, k) = Null => k = Len(b.list)
           /\ After(b, k) # Null => After(b, k) = k + 1
  BY BufferMembers DEF After, Null

LEMMA HandleMoves ==
    ASSUME NEW b, Typed(b), NEW r, r = GetNextFetchHandle(b)
    PROVE  /\ Alike(b, r) /\ r.list = b.list
           /\ r.next = IF b.next = Null THEN Null ELSE After(b, b.next)
<1>1. b.next \in Nat /\ b.next <= Len(b.list) /\ Len(b.list) \in Nat /\ b \in Buffers
  BY BufferMembers DEF Typed
<1>2. PICK x : x = IF b.next = Null THEN Null ELSE After(b, b.next)
  OBVIOUS
<1>3. x \in Nat /\ x <= Len(b.list)
  <2>1. CASE b.next = Null
    BY <2>1, <1>1, <1>2 DEF Null
  <2>2. CASE b.next # Null
    <3>1. b.next \in 1 .. Len(b.list)
      BY <2>2, <1>1 DEF Null
    <3> QED
      BY <3>1, <2>2, <1>2, AfterPlace
  <2> QED
    BY <2>1, <2>2
<1>4. r = [b EXCEPT !.next = x]
  BY <1>1, <1>2 DEF GetNextFetchHandle, Buffers
<1> QED
  BY <1>2, <1>3, <1>4, NextMoves

LEMMA ImplicitAlike ==
    ASSUME NEW b, Typed(b), NEW k \in 1 .. Len(b.list),
           NEW r, r = SetImplicitCommit(b, k)
    PROVE  Alike(b, r) /\ r.next = b.next
<1>1. /\ b \in Buffers /\ b.list \in Seq(Entries) /\ Len(b.list) \in Nat
      /\ \A j \in 1 .. Len(b.list) : b.list[j] \in Entries
  BY BufferMembers DEF Typed
<1>2. PICK l : l = [b.list EXCEPT ![k].implicit = TRUE]
  OBVIOUS
<1>3. PICK e : e = [b.list[k] EXCEPT !.implicit = TRUE]
  OBVIOUS
<1>4. e \in Entries /\ e.n = b.list[k].n
  BY <1>1, <1>3 DEF Entries
<1>5. l = [b.list EXCEPT ![k] = e]
  BY <1>1, <1>2, <1>3
<1>6. l \in Seq(Entries) /\ Len(l) = Len(b.list)
  BY <1>1, <1>4, <1>5
<1>7. \A j \in 1 .. Len(b.list) : l[j].n = b.list[j].n
  BY <1>1, <1>4, <1>5
<1>8. r = [b EXCEPT !.list = l]
  BY <1>1, <1>2 DEF SetImplicitCommit, Buffers
<1>9. r \in Buffers /\ r.list = l /\ r.next = b.next /\ r.uid = b.uid
  BY <1>1, <1>6, <1>8 DEF Buffers
<1> QED
  BY <1>6, <1>7, <1>9 DEF Alike, Typed

LEMMA CommitShifts ==
    ASSUME NEW b, BufferOK(b), NEW k \in 1 .. Len(b.list), Fetched(b, k),
           NEW r, r = CommitInstruction(b, k)
    PROVE  /\ BufferOK(r) /\ r.uid = b.uid /\ Len(r.list) = Len(b.list) - k
           /\ r.next = IF b.next = Null THEN Null ELSE b.next - k
           /\ \A j \in 1 .. Len(r.list) :
                /\ j + k \in 1 .. Len(b.list) /\ r.list[j] = b.list[j + k]
                /\ Gap(r, j) <=> Gap(b, j + k)
                /\ Whole(r, j) <=> Whole(b, j + k)
                /\ Fetched(r, j) <=> Fetched(b, j + k)
<1>1. Typed(b) /\ Increasing(b) /\ Linked(b)
  BY DEF BufferOK
<1>2. /\ b \in Buffers /\ b.list \in Seq(Entries) /\ Len(b.list) \in Nat
      /\ b.next \in Nat /\ b.next <= Len(b.list) /\ k \in Nat /\ k >= 1 /\ k <= Len(b.list)
  BY <1>1, BufferMembers DEF Typed
<1>3. PICK l : l = SubSeq(b.list, k + 1, Len(b.list))
  OBVIOUS
<1>4. l \in Seq(Entries) /\ Len(l) = Len(b.list) - k
  BY <1>2, <1>3
<1>5. \A j \in 1 .. Len(l) : j + k \in 1 .. Len(b.list) /\ l[j] = b.list[j + k]
  BY <1>2, <1>3, <1>4
<1>6. PICK x : x = IF b.next = Null THEN Null ELSE b.next - k
  OBVIOUS
<1>7. x \in Nat /\ x <= Len(l) /\ (x = Null <=> b.next = Null)
  <2>1. b.next = Null \/ b.next > k
    BY <1>2 DEF Fetched
  <2> QED
    BY <2>1, <1>2, <1>4, <1>6 DEF Null
<1>8. r = [b EXCEPT !.list = l, !.next = x]
  BY <1>2, <1>3, <1>6 DEF CommitInstruction, Buffers
<1>9. r \in Buffers /\ r.list = l /\ r.next = x /\ r.uid = b.uid
  BY <1>2, <1>4, <1>7, <1>8 DEF Buffers
<1>10. Typed(r)
  BY <1>7, <1>9 DEF Typed
<1>11. Increasing(r)
  <2>1. \A j \in 1 .. Len(r.list) : r.list[j].n <= r.uid
    BY <1>1, <1>5, <1>9 DEF Increasing
  <2>2. ASSUME NEW i \in 1 .. Len(r.list), NEW j \in 1 .. Len(r.list), i < j
        PROVE  r.list[i].n < r.list[j].n
    <3>1. i + k \in 1 .. Len(b.list) /\ j + k \in 1 .. Len(b.list) /\ i + k < j + k
      BY <2>2, <1>2, <1>4, <1>5, <1>9
    <3> QED
      BY <3>1, <1>1, <1>5, <1>9 DEF Increasing
  <2> QED
    BY <2>1, <2>2 DEF Increasing
<1>12. ASSUME NEW j \in 1 .. Len(r.list)
       PROVE  /\ Following(r, j) = Following(b, j + k)
              /\ Gap(r, j) <=> Gap(b, j + k)
              /\ Whole(r, j) <=> Whole(b, j + k)
              /\ Fetched(r, j) <=> Fetched(b, j + k)
  <2>1. j + k \in 1 .. Len(b.list) /\ r.list[j] = b.list[j + k] /\ j \in Nat
    BY <1>4, <1>5, <1>9
  <2>2. j < Len(r.list) <=> j + k < Len(b.list)
    BY <2>1, <1>2, <1>4, <1>9
  <2>3. ASSUME j < Len(r.list) PROVE r.list[j + 1] = b.list[j + k + 1]
    <3>1. j + 1 \in 1 .. Len(l) /\ (j + 1) + k = j + k + 1
      BY <2>1, <2>3, <1>2, <1>4, <1>9
    <3> QED
      BY <3>1, <1>5, <1>9
  <2>4. Following(r, j) = Following(b, j + k)
    BY <2>2, <2>3, <1>9 DEF Following
  <2>5. Whole(r, j) <=> Whole(b, j + k)
    BY <2>1, <2>2, <2>3, <1>9 DEF Whole
  <2>6. Fetched(r, j) <=> Fetched(b, j + k)
    <3>1. r.next = Null <=> b.next = Null
      BY <1>7, <1>9
    <3>2. b.next # Null => (j < r.next <=> j + k < b.next)
      BY <2>1, <1>2, <1>6, <1>9
    <3> QED
      BY <3>1, <3>2, <2>1 DEF Fetched
  <2> QED
    BY <2>1, <2>4, <2>5, <2>6 DEF Gap
<1>13. Linked(r)
  <2> SUFFICES ASSUME NEW j \in 1 .. Len(r.list), Gap(r, j)
               PROVE  /\ Merges(r.list[j].n)
                      /\ \A m \in r.list[j].n + 1 .. Following(r, j) - 1 :
                             Same(r.list[j].n, m)
                      /\ \A i \in 1 .. j : Whole(r, i)
    BY DEF Linked
  <2>1. /\ j + k \in 1 .. Len(b.list) /\ r.list[j] = b.list[j + k]
        /\ Gap(b, j + k) /\ Following(r, j) = Following(b, j + k)
    BY <1>5, <1>9, <1>12
  <2>2. \A i \in 1 .. j + k : Whole(b, i)
    BY <2>1, <1>1 DEF Linked
  <2>3. ASSUME NEW i \in 1 .. j PROVE Whole(r, i)
    <3>1. i \in 1 .. Len(r.list) /\ i + k \in 1 .. j + k
      BY <1>2, <1>4, <1>9
    <3> QED
      BY <3>1, <2>2, <1>12
  <2> QED
    BY <2>1, <2>3, <1>1 DEF Linked
<1> QED
  BY <1>4, <1>5, <1>6, <1>9, <1>10, <1>11, <1>12, <1>13 DEF BufferOK

\* r is b without the instruction behind place k.
Dropped(b, k, r) ==
    /\ Typed(r) /\ r.uid = b.uid /\ Len(r.list) = Len(b.list) - 1
    /\ \A j \in 1 .. k : r.list[j].n = b.list[j].n
    /\ \A j \in k + 1 .. Len(b.list) - 1 : r.list[j] = b.list[j + 1]
    /\ r.next = IF k + 1 = Len(b.list) THEN Null ELSE k + 1

LEMMA DeletePlaces ==
    ASSUME NEW b, Typed(b), NEW k \in 1 .. Len(b.list), k < Len(b.list), b.next = k + 1,
           NEW r, r = DeleteInstruction(b, k + 1)
    PROVE  Dropped(b, k, r)
<1>1. /\ b \in Buffers /\ b.list \in Seq(Entries) /\ Len(b.list) \in Nat
      /\ b.next \in Nat /\ b.next <= Len(b.list) /\ k \in Nat /\ k >= 1
      /\ \A j \in 1 .. Len(b.list) : b.list[j] \in Entries
  BY BufferMembers DEF Typed
<1>2. PICK e : e = [b.list[k] EXCEPT !.uid = b.list[k + 1].uid]
  OBVIOUS
<1>3. e \in Entries /\ e.n = b.list[k].n
  <2>1. k + 1 \in 1 .. Len(b.list)
    BY <1>1
  <2>2. b.list[k] \in Entries /\ b.list[k + 1] \in Entries
    BY <2>1, <1>1
  <2> QED
    BY <2>2, <1>2 DEF Entries
<1>4. PICK q : q = [b.list EXCEPT ![k] = e]
  OBVIOUS
<1>5. q \in Seq(Entries) /\ Len(q) = Len(b.list)
  BY <1>1, <1>3, <1>4
<1>6. (\A j \in 1 .. Len(b.list) : q[j].n = b.list[j].n)
      /\ \A j \in k + 1 .. Len(b.list) : q[j] = b.list[j]
  BY <1>1, <1>3, <1>4
<1>7. [b.list EXCEPT ![(k + 1) - 1].uid = b.list[k + 1].uid] = q
  <2>1. (k + 1) - 1 = k
    BY <1>1
  <2> QED
    BY <2>1, <1>1, <1>2, <1>4
<1>8. PICK l : l = RemoveAt(q, k + 1)
  OBVIOUS
<1>9. PICK l1 : l1 = SubSeq(q, 1, k)
  OBVIOUS
<1>10. PICK l2 : l2 = SubSeq(q, k + 2, Len(b.list))
  OBVIOUS
<1>11. l1 \in Seq(Entries) /\ Len(l1) = k /\ \A j \in 1 .. k : l1[j] = q[j]
  BY <1>1, <1>5, <1>9
<1>12. l2 \in Seq(Entries) /\ Len(l2) = Len(b.list) - (k + 1)
  BY <1>1, <1>5, <1>10
<1>13. \A j \in 1 .. Len(b.list) - (k + 1) : l2[j] = q[j + (k + 1)]
  BY <1>1, <1>5, <1>10, <1>12
<1>14. l = l1 \o l2
  <2>1. (k + 1) - 1 = k /\ (k + 1) + 1 = k + 2
    BY <1>1
  <2> QED
    BY <2>1, <1>5, <1>8, <1>9, <1>10 DEF RemoveAt
<1>15. l \in Seq(Entries) /\ Len(l) = Len(b.list) - 1
  <2>1. l \in Seq(Entries)
    BY <1>11, <1>12, <1>14
  <2>2. ASSUME NEW x \in Seq(Entries), NEW y \in Seq(Entries)
        PROVE  Len(x \o y) = Len(x) + Len(y)
    OBVIOUS
  <2>3. Len(l) = Len(l1) + Len(l2)
    BY <2>2, <1>11, <1>12, <1>14
  <2> QED
    BY <2>1, <2>3, <1>1, <1>11, <1>12
<1>16. \A j \in 1 .. k : l[j].n = b.list[j].n
  <2>1. ASSUME NEW j \in 1 .. k PROVE l[j].n = b.list[j].n
    <3>1. l[j] = l1[j]
      BY <1>1, <1>11, <1>12, <1>14
    <3>2. j \in 1 .. Len(b.list)
      BY <1>1
    <3> QED
      BY <3>1, <3>2, <1>6, <1>11
  <2> QED
    BY <2>1
<1>17. ASSUME NEW j \in k + 1 .. Len(b.list) - 1 PROVE l[j] = b.list[j + 1]
  <2>1. j - k \in 1 .. Len(b.list) - (k + 1) /\ (j - k) + (k + 1) = j + 1
        /\ j + 1 \in k + 1 .. Len(b.list)
    BY <1>1
  <2>2. j \in Len(l1) + 1 .. Len(l1) + Len(l2)
    BY <1>1, <1>11, <1>12
  <2>3. l[j] = l2[j - Len(l1)]
    BY <2>2, <1>11, <1>12, <1>14
  <2>4. l2[j - k] = q[j + 1]
    BY <2>1, <1>13
  <2> QED
    BY <2>1, <2>3, <2>4, <1>6, <1>11
<1>18. PICK x : x = IF k + 1 = Len(b.list) THEN Null ELSE k + 1
  OBVIOUS
<1>19. x \in Nat /\ x <= Len(l)
  BY <1>1, <1>15, <1>18 DEF Null
<1>20. r = [b EXCEPT !.list = l, !.next = x]
  <2>1. (IF k + 1 = 1 THEN b.list
         ELSE [b.list EXCEPT ![(k + 1) - 1].uid = b.list[k + 1].uid]) = q
    BY <1>1, <1>7
  <2>2. (CASE b.next = k + 1 -> IF k + 1 = Len(b.list) THEN Null ELSE k + 1
           [] b.next > k + 1 -> b.next - 1
           [] OTHER -> b.next) = x
    BY <1>1, <1>18
  <2> QED
    BY <2>1, <2>2, <1>8 DEF DeleteInstruction
<1>21. r \in Buffers /\ r.list = l /\ r.next = x /\ r.uid = b.uid
  BY <1>1, <1>15, <1>19, <1>20 DEF Buffers
<1> QED
  BY <1>15, <1>16, <1>17, <1>18, <1>19, <1>21 DEF Typed, Dropped

-----------------------------------------------------------------------------
(* MergeREPInstrs.                                                         *)

LEMMA IterationsCount ==
    ASSUME NEW b, Typed(b), NEW k \in 1 .. Len(b.list), k < Len(b.list),
           NEW f, f = b.list[k + 1].n, NEW x, x = Iterations(b, k)
    PROVE  /\ x \in Nat /\ x <= StreamSize - f + 1
           /\ \A m \in f .. f + x - 1 : Same(b.list[k].n, m)
           /\ f + x <= StreamSize => ~ Same(b.list[k].n, f + x)
<1> DEFINE T == {0} \cup {j \in 1 .. StreamSize - f + 1 :
                            \A n \in f .. f + j - 1 : Same(b.list[k].n, n)}
<1>1. f \in Nat /\ f <= StreamSize /\ f >= 1 /\ StreamSize \in Nat
  <2>1. k + 1 \in 1 .. Len(b.list)
    BY BufferMembers
  <2> QED
    BY <2>1, BufferMembers, Sizes
<1>2. x = Max(T)
  <2>1. k # Len(b.list)
    BY BufferMembers
  <2> QED
    BY <2>1 DEF Iterations, SameAddress, Same
<1>3. T \subseteq Nat /\ T # {} /\ StreamSize - f + 1 \in Nat
  BY <1>1
<1>4. \A y \in T : y <= StreamSize - f + 1
  BY <1>1
<1>5. x \in T /\ \A y \in T : y <= x
  <2> HIDE DEF T
  <2> QED
    BY <1>2, <1>3, <1>4, MaxNat
<1>6. x \in Nat /\ x <= StreamSize - f + 1
  BY <1>3, <1>4, <1>5
<1>7. \A m \in f .. f + x - 1 : Same(b.list[k].n, m)
  <2>1. CASE x = 0
    <3>1. ~\E m \in f .. f + x - 1 : TRUE
      BY <2>1, <1>1
    <3> QED
      BY <3>1
  <2>2. CASE x # 0
    BY <2>2, <1>5
  <2> QED
    BY <2>1, <2>2
<1>8. ASSUME f + x <= StreamSize, Same(b.list[k].n, f + x) PROVE FALSE
  <2>1. x + 1 \in 1 .. StreamSize - f + 1 /\ ~(x + 1 <= x)
    <3>1. \A p, q, w \in Nat : p + q <= w => q + 1 \in 1 .. w - p + 1 /\ ~(q + 1 <= q)
      OBVIOUS
    <3> QED
      BY <3>1, <1>1, <1>6, <1>8
  <2>2. ASSUME NEW m \in f .. f + (x + 1) - 1 PROVE Same(b.list[k].n, m)
    <3>1. m = f + x \/ m \in f .. f + x - 1
      <4>1. \A p, q \in Nat : \A w \in p .. p + (q + 1) - 1 :
              w = p + q \/ w \in p .. p + q - 1
        OBVIOUS
      <4> QED
        BY <4>1, <1>1, <1>6
    <3> QED
      BY <3>1, <1>7, <1>8
  <2>3. x + 1 \in T
    BY <2>1, <2>2
  <2> HIDE DEF T
  <2> QED
    BY <2>1, <2>3, <1>5
<1> QED
  BY <1>6, <1>7, <1>8

\* One turn of the loop, and what it keeps.
Refilled(c, k) == FetchIncomingInstructions(DeleteInstruction(c, k + 1), ExecuteChunk)

LEMMA MergeLoop ==
    ASSUME NEW b, NEW k, NEW I \in Nat, I = Iterations(b, k),
           NEW G, b \in G[0],
           \A n \in 1 .. I : \A c \in G[n - 1] : Refilled(c, k) \in G[n]
    PROVE  MergeREPInstrs(b, k) \in G[I]
<1> DEFINE Meets(f, x) == f = [n \in 0 .. x |-> IF n = 0 THEN b ELSE Refilled(f[n - 1], k)]
           upTo[i \in 0 .. Iterations(b, k)] ==
             IF i = 0 THEN b
             ELSE FetchIncomingInstructions(DeleteInstruction(upTo[i - 1], k + 1),
                                            ExecuteChunk)
<1>2. MergeREPInstrs(b, k) = upTo[I]
  BY DEF MergeREPInstrs
<1>3. \E f : Meets(f, I)
  <2> DEFINE Short == {x \in 0 .. I : ~\E f : Meets(f, x)}
  <2>1. Short \subseteq Nat
    OBVIOUS
  <2> SUFFICES ASSUME Short # {} PROVE FALSE
    OBVIOUS
  <2>2. PICK x \in Short : \A j \in Short : x <= j
    <3> HIDE DEF Short
    <3> QED
      BY <2>1, LeastNat
  <2>3. x \in 0 .. I /\ ~\E f : Meets(f, x)
    OBVIOUS
  <2>4. x # 0
    <3>1. PICK f : f = [n \in 0 .. 0 |-> b]
      OBVIOUS
    <3>2. Meets(f, 0)
      BY <3>1
    <3> QED
      BY <2>3, <3>2
  <2>5. x - 1 \in 0 .. I /\ x - 1 \notin Short
    <3> HIDE DEF Short
    <3>1. x \in Nat /\ x <= I
      BY <2>3
    <3>2. x - 1 \in 0 .. I
      BY <3>1, <2>4
    <3>3. x - 1 \in Short => x <= x - 1
      BY <2>2
    <3> QED
      BY <3>1, <3>2, <3>3
  <2>6. PICK f : Meets(f, x - 1)
    BY <2>5
  <2>7. PICK g : g = [n \in 0 .. x |-> IF n < x THEN f[n] ELSE Refilled(f[x - 1], k)]
    OBVIOUS
  <2>8. \A n \in 0 .. x - 1 : f[n] = IF n = 0 THEN b ELSE Refilled(f[n - 1], k)
    BY <2>6
  <2>9. \A n \in 0 .. x : g[n] = IF n = 0 THEN b ELSE Refilled(g[n - 1], k)
    <3> SUFFICES ASSUME NEW n \in 0 .. x
                 PROVE  g[n] = IF n = 0 THEN b ELSE Refilled(g[n - 1], k)
      OBVIOUS
    <3>1. \A m \in 0 .. x - 1 : g[m] = f[m]
      BY <2>3, <2>7
    <3>2. CASE n = x
      <4>1. x - 1 \in 0 .. x - 1 /\ x \in 0 .. x
        BY <2>3, <2>4
      <4>2. g[x] = Refilled(f[x - 1], k)
        BY <2>7, <4>1
      <4> QED
        BY <2>4, <3>1, <3>2, <4>1, <4>2
    <3>3. CASE n # x
      <4>1. n \in 0 .. x - 1 /\ (n # 0 => n - 1 \in 0 .. x - 1)
        BY <2>3, <3>3
      <4> QED
        BY <2>8, <3>1, <4>1
    <3> QED
      BY <3>2, <3>3
  <2>10. Meets(g, x)
    BY <2>7, <2>9
  <2> QED
    BY <2>3, <2>10
<1>4. \A n \in 0 .. I : upTo[n] = IF n = 0 THEN b ELSE Refilled(upTo[n - 1], k)
  <2>1. Meets(upTo, I)
    <3>1. upTo = CHOOSE f : f = [i \in 0 .. Iterations(b, k) |-> IF i = 0 THEN b
                    ELSE FetchIncomingInstructions(DeleteInstruction(f[i - 1], k + 1),
                                                   ExecuteChunk)]
      OBVIOUS
    <3>2. \E f : f = [i \in 0 .. Iterations(b, k) |-> IF i = 0 THEN b
                    ELSE FetchIncomingInstructions(DeleteInstruction(f[i - 1], k + 1),
                                                   ExecuteChunk)]
      BY <1>3 DEF Refilled
    <3>3. upTo = [i \in 0 .. Iterations(b, k) |-> IF i = 0 THEN b
                    ELSE FetchIncomingInstructions(DeleteInstruction(upTo[i - 1], k + 1),
                                                   ExecuteChunk)]
      <4> HIDE DEF upTo
      <4> QED
        BY <3>1, <3>2
    <3> HIDE DEF upTo
    <3> QED
      BY <3>3 DEF Refilled
  <2> HIDE DEF upTo
  <2> QED
    BY <2>1
<1> HIDE DEF upTo, Meets
<1> DEFINE Out == {n \in 0 .. I : upTo[n] \notin G[n]}
<1>5. Out = {}
  <2> SUFFICES ASSUME Out # {} PROVE FALSE
    OBVIOUS
  <2>1. Out \subseteq Nat
    OBVIOUS
  <2>2. PICK n \in Out : \A j \in Out : n <= j
    <3> HIDE DEF Out
    <3> QED
      BY <2>1, LeastNat
  <2>3. n \in 0 .. I /\ upTo[n] \notin G[n]
    OBVIOUS
  <2>4. n # 0
    BY <1>4, <2>3
  <2>5. n - 1 \in 0 .. I /\ n \in 1 .. I /\ ~(n <= n - 1)
    BY <2>3, <2>4
  <2>6. upTo[n - 1] \in G[n - 1]
    BY <2>2, <2>5
  <2> QED
    BY <1>4, <2>3, <2>4, <2>5, <2>6
<1> QED
  BY <1>2, <1>5

\* c is b after i iterations behind place k have been dropped.
Turn(b, k, i, c) ==
    /\ Typed(c) /\ Increasing(c) /\ k <= Len(c.list)
    /\ \A j \in 1 .. k : c.list[j].n = b.list[j].n
    /\ Following(c, k) = b.list[k].n + 1 + i
    /\ \A j \in k + 1 .. Len(c.list) : ~ Gap(c, j)
    /\ c.next = IF k < Len(c.list) THEN k + 1 ELSE Null
    /\ k = Len(c.list) => c.uid = StreamSize

LEMMA MergeTurn ==
    ASSUME NEW b, NEW k \in Nat \ {0}, NEW i \in Nat, NEW c, Turn(b, k, i, c),
           b.list[k].n \in Nat, b.list[k].n + 1 + i <= StreamSize
    PROVE  Turn(b, k, i + 1, Refilled(c, k))
<1>1. /\ Typed(c) /\ Increasing(c) /\ k <= Len(c.list)
      /\ \A j \in 1 .. k : c.list[j].n = b.list[j].n
      /\ Following(c, k) = b.list[k].n + 1 + i
      /\ \A j \in k + 1 .. Len(c.list) : ~ Gap(c, j)
      /\ c.next = IF k < Len(c.list) THEN k + 1 ELSE Null
      /\ k = Len(c.list) => c.uid = StreamSize
  BY DEF Turn
<1>2. /\ Len(c.list) \in Nat /\ c.uid \in Nat /\ StreamSize \in Nat
      /\ \A j \in 1 .. Len(c.list) : c.list[j].n \in Nat
  BY <1>1, BufferMembers, Sizes
<1>3. k < Len(c.list)
  <2> SUFFICES ASSUME k = Len(c.list) PROVE FALSE
    BY <1>1, <1>2
  <2>1. Following(c, k) = StreamSize + 1
    BY <1>1, <1>2 DEF Following
  <2> QED
    BY <2>1, <1>1, <1>2
<1>4. PICK d : d = DeleteInstruction(c, k + 1)
  OBVIOUS
<1>5. /\ Typed(d) /\ d.uid = c.uid /\ Len(d.list) = Len(c.list) - 1
      /\ \A j \in 1 .. k : d.list[j].n = c.list[j].n
      /\ \A j \in k + 1 .. Len(c.list) - 1 : d.list[j] = c.list[j + 1]
      /\ d.next = IF k + 1 = Len(c.list) THEN Null ELSE k + 1
  <2>1. k \in 1 .. Len(c.list) /\ c.next = k + 1
    BY <1>1, <1>2, <1>3
  <2>2. Typed(c)
    BY <1>1
  <2>3. Dropped(c, k, d)
    BY <2>1, <2>2, <1>3, <1>4, DeletePlaces
  <2> QED
    BY <2>3 DEF Dropped
<1>6. ASSUME NEW j \in 1 .. Len(d.list)
      PROVE  \E m \in 1 .. Len(c.list) :
                /\ m = IF j <= k THEN j ELSE j + 1
                /\ d.list[j].n = c.list[m].n
  <2>1. CASE j <= k
    <3>1. j \in 1 .. k /\ j \in 1 .. Len(c.list)
      BY <2>1, <1>2, <1>5
    <3> QED
      BY <3>1, <2>1, <1>5
  <2>2. CASE ~(j <= k)
    <3>1. j \in k + 1 .. Len(c.list) - 1 /\ j + 1 \in 1 .. Len(c.list)
      BY <2>2, <1>2, <1>5
    <3> QED
      BY <3>1, <2>2, <1>5
  <2> QED
    BY <2>1, <2>2
<1>7. Increasing(d)
  <2>1. ASSUME NEW j \in 1 .. Len(d.list) PROVE d.list[j].n <= d.uid
    <3>1. PICK m \in 1 .. Len(c.list) : d.list[j].n = c.list[m].n
      BY <1>6
    <3> QED
      BY <3>1, <1>1, <1>5 DEF Increasing
  <2>2. ASSUME NEW x \in 1 .. Len(d.list), NEW y \in 1 .. Len(d.list), x < y
        PROVE  d.list[x].n < d.list[y].n
    <3>1. PICK p \in 1 .. Len(c.list) : p = (IF x <= k THEN x ELSE x + 1)
                                        /\ d.list[x].n = c.list[p].n
      BY <1>6
    <3>2. PICK q \in 1 .. Len(c.list) : q = (IF y <= k THEN y ELSE y + 1)
                                        /\ d.list[y].n = c.list[q].n
      BY <1>6
    <3>3. p < q
      BY <2>2, <3>1, <3>2, <1>2, <1>5
    <3> QED
      BY <3>1, <3>2, <3>3, <1>1 DEF Increasing
  <2> QED
    BY <2>1, <2>2 DEF Increasing
<1>8. ASSUME NEW j \in k .. Len(d.list) PROVE Following(d, j) = Following(c, j + 1)
  <2>1. j < Len(d.list) <=> j + 1 < Len(c.list)
    BY <1>2, <1>5
  <2>2. ASSUME j < Len(d.list) PROVE d.list[j + 1] = c.list[j + 1 + 1]
    <3>1. j + 1 \in k + 1 .. Len(c.list) - 1
      BY <2>2, <1>2, <1>5
    <3> QED
      BY <3>1, <1>5
  <2> QED
    BY <2>1, <2>2, <1>5 DEF Following
<1>9. Following(d, k) = b.list[k].n + 1 + (i + 1)
  <2>1. Following(d, k) = Following(c, k + 1)
    BY <1>2, <1>3, <1>5, <1>8
  <2>2. k + 1 \in k + 1 .. Len(c.list)
    BY <1>2, <1>3
  <2>3. Following(c, k + 1) = c.list[k + 1].n + 1
    BY <2>2, <1>1 DEF Gap
  <2>4. c.list[k + 1].n = b.list[k].n + 1 + i
    BY <1>1, <1>3 DEF Following
  <2> QED
    BY <2>1, <2>3, <2>4
<1>10. ASSUME NEW j \in k + 1 .. Len(d.list) PROVE ~ Gap(d, j)
  <2>1. j \in k .. Len(d.list) /\ j + 1 \in k + 1 .. Len(c.list)
        /\ j \in k + 1 .. Len(c.list) - 1
    BY <1>2, <1>5
  <2>2. Following(d, j) = Following(c, j + 1) /\ d.list[j] = c.list[j + 1]
    BY <2>1, <1>5, <1>8
  <2>3. Following(c, j + 1) = c.list[j + 1].n + 1
    BY <2>1, <1>1 DEF Gap
  <2> QED
    BY <2>2, <2>3 DEF Gap
<1>11. PICK r : r = FetchIncomingInstructions(d, ExecuteChunk)
  OBVIOUS
<1>12. Extends(d, r)
  BY <1>5, <1>11, FetchExtends, Sizes
<1>13. /\ Typed(r) /\ Increasing(r)
       /\ \A j \in 1 .. Len(d.list) :
            Following(r, j) = Following(d, j) /\ (Gap(r, j) <=> Gap(d, j))
       /\ \A j \in Len(d.list) + 1 .. Len(r.list) : ~ Gap(r, j)
  BY <1>5, <1>7, <1>12, ExtendsPlaces
<1>14. /\ Len(r.list) = Len(d.list) + (r.uid - d.uid) /\ d.uid <= r.uid
       /\ \A j \in 1 .. Len(d.list) : r.list[j].n = d.list[j].n
       /\ r.next = IF d.next = Null /\ d.uid < r.uid THEN Len(d.list) + 1 ELSE d.next
       /\ r.next = Null => r.uid = StreamSize
  BY <1>12 DEF Extends
<1>15. Len(r.list) \in Nat /\ r.uid \in Nat /\ Len(d.list) \in Nat /\ k <= Len(d.list)
       /\ Len(d.list) <= Len(r.list) /\ k \in 1 .. Len(d.list)
  <2>1. Len(r.list) \in Nat /\ r.uid \in Nat
    BY <1>13, BufferMembers
  <2>2. Len(d.list) \in Nat /\ d.uid \in Nat
    BY <1>5, BufferMembers
  <2>3. k <= Len(d.list)
    BY <1>2, <1>3, <1>5
  <2> QED
    BY <2>1, <2>2, <2>3, <1>2, <1>14
<1>16. \A j \in 1 .. k : r.list[j].n = b.list[j].n
  BY <1>1, <1>5, <1>14, <1>15
<1>17. Following(r, k) = b.list[k].n + 1 + (i + 1)
  BY <1>9, <1>13, <1>15
<1>18. \A j \in k + 1 .. Len(r.list) : ~ Gap(r, j)
  <2>1. ASSUME NEW j \in k + 1 .. Len(r.list) PROVE ~ Gap(r, j)
    <3>1. CASE j <= Len(d.list)
      <4>1. j \in 1 .. Len(d.list) /\ j \in k + 1 .. Len(d.list)
        BY <3>1, <1>15
      <4> QED
        BY <4>1, <1>10, <1>13
    <3>2. CASE ~(j <= Len(d.list))
      BY <3>2, <1>13, <1>15
    <3> QED
      BY <3>1, <3>2
  <2> QED
    BY <2>1
<1>19. r.next = (IF k < Len(r.list) THEN k + 1 ELSE Null) /\ (r.next = Null <=> ~(k < Len(r.list)))
  <2>1. CASE k + 1 = Len(c.list)
    <3>1. d.next = Null /\ Len(d.list) = k
      BY <2>1, <1>2, <1>5
    <3>2. d.uid < r.uid <=> k < Len(r.list)
      BY <3>1, <1>2, <1>5, <1>14, <1>15
    <3> QED
      BY <3>1, <3>2, <1>14 DEF Null
  <2>2. CASE k + 1 # Len(c.list)
    <3>1. d.next = k + 1 /\ k < Len(d.list)
      BY <2>2, <1>2, <1>3, <1>5
    <3> QED
      BY <3>1, <1>14, <1>15 DEF Null
  <2> QED
    BY <2>1, <2>2
<1>20. k = Len(r.list) => r.uid = StreamSize
  BY <1>14, <1>15, <1>19
<1> QED
  BY <1>4, <1>11, <1>13, <1>15, <1>16, <1>17, <1>18, <1>19, <1>20 DEF Turn, Refilled

\* b is a after the instruction at place k has been made ready: what follows
\* it is known, and it is nextFetch.
Fed(a, k, b) ==
    /\ BufferOK(b) /\ k <= Len(b.list)
    /\ \A j \in 1 .. k : b.list[j].n = a.list[j].n
    /\ \A j \in 1 .. k : Whole(b, j)
    /\ b.next = IF k < Len(b.list) THEN k + 1 ELSE Null

LEMMA MergeNothing ==
    ASSUME NEW a, NEW k, Iterations(a, k) = 0
    PROVE  MergeREPInstrs(a, k) = a
<1>1. PICK G : G = [n \in {0} |-> {a}]
  OBVIOUS
<1>2. G[0] = {a}
  BY <1>1
<1>3. \A n \in 1 .. 0 : \A c \in G[n - 1] : Refilled(c, k) \in G[n]
  <2>1. ~\E n \in 1 .. 0 : TRUE
    OBVIOUS
  <2> QED
    BY <2>1
<1>4. MergeREPInstrs(a, k) \in G[0]
  BY <1>2, <1>3, MergeLoop
<1> QED
  BY <1>2, <1>4

LEMMA MergeAll ==
    ASSUME NEW a, BufferOK(a), NEW k \in 1 .. Len(a.list), k < Len(a.list),
           a.next = k + 1, \A j \in k .. Len(a.list) : ~ Gap(a, j),
           NEW I, I = Iterations(a, k)
    PROVE  /\ I \in Nat
           /\ Turn(a, k, I, MergeREPInstrs(a, k))
           /\ \A m \in a.list[k].n + 1 .. a.list[k].n + I : Same(a.list[k].n, m)
           /\ a.list[k].n + 1 + I <= StreamSize => ~ Same(a.list[k].n, a.list[k].n + 1 + I)
<1>1. Typed(a) /\ Increasing(a)
  BY DEF BufferOK
<1>2. /\ Len(a.list) \in Nat /\ k \in Nat \ {0} /\ k \in k .. Len(a.list)
      /\ a.list[k].n \in Nat /\ StreamSize \in Nat
  BY <1>1, BufferMembers, Sizes
<1>3. PICK n \in Nat : n = a.list[k].n
  BY <1>2
<1>4. a.list[k + 1].n = n + 1 /\ Following(a, k) = n + 1
  BY <1>2, <1>3 DEF Gap, Following
<1>5. PICK f \in Nat : f = n + 1
  BY <1>3
<1>6. /\ I \in Nat /\ I <= StreamSize - f + 1
      /\ \A m \in f .. f + I - 1 : Same(a.list[k].n, m)
      /\ f + I <= StreamSize => ~ Same(a.list[k].n, f + I)
  BY <1>1, <1>4, <1>5, IterationsCount
<1>7. Turn(a, k, 0, a)
  <2>1. a.list[k].n + 1 + 0 = n + 1
    BY <1>3
  <2>2. \A j \in k + 1 .. Len(a.list) : ~ Gap(a, j)
    BY <1>2
  <2>3. k # Len(a.list) /\ k <= Len(a.list)
    BY <1>2
  <2> QED
    BY <2>1, <2>2, <2>3, <1>1, <1>4 DEF Turn
<1>8. PICK G : G = [i \in 0 .. I |-> {c \in Buffers : Turn(a, k, i, c)}]
  OBVIOUS
<1>9. \A i \in 0 .. I : \A c : c \in G[i] <=> Turn(a, k, i, c)
  BY <1>8 DEF Turn, Typed
<1>10. ASSUME NEW i \in 1 .. I, NEW c \in G[i - 1] PROVE Refilled(c, k) \in G[i]
  <2>1. i - 1 \in 0 .. I /\ i \in 0 .. I /\ (i - 1) + 1 = i /\ i - 1 \in Nat
    BY <1>6
  <2>2. Turn(a, k, i - 1, c)
    BY <2>1, <1>9
  <2>3. a.list[k].n + 1 + (i - 1) <= StreamSize
    <3>1. \A p, q, w, z \in Nat : q \in 1 .. z /\ z <= w - (p + 1) + 1
            => p + 1 + (q - 1) <= w
      OBVIOUS
    <3>2. i \in Nat /\ I <= StreamSize - (n + 1) + 1
      BY <1>5, <1>6
    <3>3. n + 1 + (i - 1) <= StreamSize
      BY <3>1, <3>2, <1>2, <1>6
    <3> QED
      BY <3>3, <1>3
  <2>4. Turn(a, k, (i - 1) + 1, Refilled(c, k))
    BY <2>1, <2>2, <2>3, <1>2, MergeTurn
  <2> QED
    BY <2>1, <2>4, <1>9
<1>11. MergeREPInstrs(a, k) \in G[I]
  <2>1. a \in G[0]
    BY <1>6, <1>7, <1>9
  <2> QED
    BY <2>1, <1>6, <1>10, MergeLoop
<1>12. Turn(a, k, I, MergeREPInstrs(a, k))
  BY <1>6, <1>9, <1>11
<1>13. a.list[k].n + 1 = f /\ a.list[k].n + I = f + I - 1 /\ a.list[k].n + 1 + I = f + I
  <2>1. \A p, q \in Nat : p + q = (p + 1) + q - 1 /\ p + 1 + q = (p + 1) + q
    OBVIOUS
  <2>2. n + I = f + I - 1 /\ n + 1 + I = f + I
    BY <2>1, <1>5, <1>6
  <2> QED
    BY <2>2, <1>3, <1>5
<1> QED
  BY <1>6, <1>12, <1>13

LEMMA MergeFeeds ==
    ASSUME NEW a, BufferOK(a), NEW k \in 1 .. Len(a.list),
           \A j \in 1 .. k - 1 : Whole(a, j),
           a.next = IF k < Len(a.list) THEN k + 1 ELSE Null,
           k = Len(a.list) => a.uid = StreamSize
    PROVE  /\ Merges(a.list[k].n) => Fed(a, k, MergeREPInstrs(a, k))
           /\ ~ Merges(a.list[k].n) => Fed(a, k, a)
<1>1. Typed(a) /\ Increasing(a) /\ Linked(a)
  BY DEF BufferOK
<1>2. Len(a.list) \in Nat /\ k \in Nat /\ k >= 1 /\ k <= Len(a.list)
      /\ a.list[k].n \in Nat /\ StreamSize \in Nat
  BY <1>1, BufferMembers, Sizes
<1>3. ASSUME Whole(a, k) PROVE Fed(a, k, a)
  <2>1. \A j \in 1 .. k : j \in 1 .. k - 1 \/ j = k
    BY <1>2
  <2> QED
    BY <2>1, <1>2, <1>3 DEF Fed
<1>4. ASSUME ~ Merges(a.list[k].n) PROVE Fed(a, k, a)
  BY <1>2, <1>3, <1>4 DEF Whole
<1>5. CASE k = Len(a.list)
  <2>1. Whole(a, k)
    BY <1>2, <1>5 DEF Whole
  <2>2. MergeREPInstrs(a, k) = a
    BY <1>5, MergeNothing DEF Iterations
  <2> QED
    BY <2>1, <2>2, <1>3
<1>6. CASE k < Len(a.list) /\ \E j \in k .. Len(a.list) : Gap(a, j)
  <2>1. Whole(a, k)
    <3>1. PICK j \in k .. Len(a.list) : Gap(a, j)
      BY <1>6
    <3>2. j \in 1 .. Len(a.list) /\ k \in 1 .. j
      BY <1>2
    <3> QED
      BY <3>1, <3>2, <1>1 DEF Linked
  <2>2. ASSUME Merges(a.list[k].n) PROVE MergeREPInstrs(a, k) = a
    <3>1. ~ Same(a.list[k].n, a.list[k + 1].n)
      BY <2>1, <2>2, <1>6 DEF Whole
    <3>2. PICK f : f = a.list[k + 1].n
      OBVIOUS
    <3>3. f \in Nat
      <4>1. k + 1 \in 1 .. Len(a.list)
        BY <1>2, <1>6
      <4> QED
        BY <4>1, <3>2, <1>1, BufferMembers
    <3>4. PICK I : I = Iterations(a, k)
      OBVIOUS
    <3>5. I \in Nat /\ \A m \in f .. f + I - 1 : Same(a.list[k].n, m)
      <4>1. Typed(a) /\ k < Len(a.list)
        BY <1>1, <1>6
      <4>2. /\ I \in Nat /\ I <= StreamSize - f + 1
            /\ \A m \in f .. f + I - 1 : Same(a.list[k].n, m)
            /\ f + I <= StreamSize => ~ Same(a.list[k].n, f + I)
        BY <4>1, <3>2, <3>4, IterationsCount
      <4> QED
        BY <4>2
    <3>6. I = 0
      <4> SUFFICES ASSUME I # 0 PROVE FALSE
        OBVIOUS
      <4>1. f \in f .. f + I - 1
        BY <3>3, <3>5
      <4> QED
        BY <4>1, <3>1, <3>2, <3>5
    <3> QED
      BY <3>4, <3>6, MergeNothing
  <2> QED
    BY <2>1, <2>2, <1>3
<1>7. CASE k < Len(a.list) /\ ~\E j \in k .. Len(a.list) : Gap(a, j)
  <2> SUFFICES ASSUME Merges(a.list[k].n) PROVE Fed(a, k, MergeREPInstrs(a, k))
    BY <1>4
  <2>1. PICK I : I = Iterations(a, k)
    OBVIOUS
  <2>2. PICK c : c = MergeREPInstrs(a, k)
    OBVIOUS
  <2>3. PICK n \in Nat : n = a.list[k].n
    BY <1>2
  <2>4. /\ I \in Nat /\ Turn(a, k, I, c) /\ \A m \in n + 1 .. n + I : Same(n, m)
        /\ n + 1 + I <= StreamSize => ~ Same(n, n + 1 + I)
    BY <2>1, <2>2, <2>3, <1>7, MergeAll
  <2>5. /\ Typed(c) /\ Increasing(c) /\ k <= Len(c.list)
        /\ \A j \in 1 .. k : c.list[j].n = a.list[j].n
        /\ Following(c, k) = n + 1 + I
        /\ \A j \in k + 1 .. Len(c.list) : ~ Gap(c, j)
        /\ c.next = IF k < Len(c.list) THEN k + 1 ELSE Null
        /\ k = Len(c.list) => c.uid = StreamSize
    BY <2>3, <2>4 DEF Turn
  <2>6. /\ Len(c.list) \in Nat /\ c.list[k].n = n /\ k \in 1 .. k
        /\ \A j \in 1 .. Len(c.list) : c.list[j].n <= StreamSize
    <3>1. /\ Len(c.list) \in Nat
          /\ \A j \in 1 .. Len(c.list) : c.list[j].n <= StreamSize
      BY <2>5, BufferMembers
    <3>2. k \in 1 .. k
      BY <1>2
    <3> QED
      BY <3>1, <3>2, <2>3, <2>5
  <2>7. Whole(c, k)
    <3>1. CASE k < Len(c.list)
      <4>1. c.list[k + 1].n = n + 1 + I
        BY <3>1, <2>5 DEF Following
      <4>2. k + 1 \in 1 .. Len(c.list)
        BY <3>1, <2>6, <1>2
      <4>3. n + 1 + I <= StreamSize
        BY <4>1, <4>2, <2>6
      <4> QED
        BY <3>1, <4>1, <4>3, <2>4, <2>6 DEF Whole
    <3>2. CASE ~(k < Len(c.list))
      BY <3>2, <2>5, <2>6, <1>2 DEF Whole
    <3> QED
      BY <3>1, <3>2
  <2>8. ASSUME NEW j \in 1 .. k - 1
        PROVE  Whole(c, j) /\ Following(c, j) = Following(a, j) /\ c.list[j].n = a.list[j].n
    <3>1. j \in 1 .. k /\ j + 1 \in 1 .. k /\ j < Len(a.list) /\ j < Len(c.list)
      BY <2>5, <2>6, <1>2
    <3>2. c.list[j].n = a.list[j].n /\ c.list[j + 1].n = a.list[j + 1].n
      BY <3>1, <2>5
    <3>3. Following(c, j) = Following(a, j)
      BY <3>1, <3>2 DEF Following
    <3>4. Whole(a, j)
      OBVIOUS
    <3>5. Whole(c, j)
      BY <3>1, <3>2, <3>4 DEF Whole
    <3> QED
      BY <3>2, <3>3, <3>5
  <2>9. \A j \in 1 .. k : Whole(c, j)
    <3>1. \A j \in 1 .. k : j \in 1 .. k - 1 \/ j = k
      BY <1>2
    <3> QED
      BY <3>1, <2>7, <2>8
  <2>10. Linked(c)
    <3> SUFFICES ASSUME NEW j \in 1 .. Len(c.list), Gap(c, j)
                 PROVE  /\ Merges(c.list[j].n)
                        /\ \A m \in c.list[j].n + 1 .. Following(c, j) - 1 :
                               Same(c.list[j].n, m)
                        /\ \A i \in 1 .. j : Whole(c, i)
      BY DEF Linked
    <3>1. j <= k
      <4>1. j \notin k + 1 .. Len(c.list)
        BY <2>5
      <4> QED
        BY <4>1, <2>6, <1>2
    <3>2. \A i \in 1 .. j : Whole(c, i)
      BY <3>1, <2>9, <1>2
    <3>3. CASE j = k
      <4>1. Following(c, k) - 1 = n + I
        BY <2>4, <2>5
      <4> QED
        BY <4>1, <3>2, <3>3, <2>3, <2>4, <2>6
    <3>4. CASE j # k
      <4>1. j \in 1 .. k - 1 /\ j \in 1 .. Len(a.list)
        BY <3>1, <3>4, <1>2
      <4>2. Following(c, j) = Following(a, j) /\ c.list[j].n = a.list[j].n
        BY <4>1, <2>8
      <4>3. Gap(a, j)
        BY <4>2 DEF Gap
      <4>4. /\ Merges(a.list[j].n)
            /\ \A m \in a.list[j].n + 1 .. Following(a, j) - 1 : Same(a.list[j].n, m)
        BY <4>1, <4>3, <1>1 DEF Linked
      <4> QED
        BY <3>2, <4>2, <4>4
    <3> QED
      BY <3>3, <3>4
  <2> QED
    BY <2>2, <2>5, <2>9, <2>10 DEF Fed, BufferOK
<1> QED
  BY <1>2, <1>5, <1>6, <1>7

-----------------------------------------------------------------------------
(* Pipeline and buffer.  Below, p is the model's pipe, b the buffer and e  *)
(* the pending event.                                                      *)

Events == [at : Nat, target : Addresses]

\* The good instruction p[i] is at place k, in front of nextFetch.
Flies(p, b, i, k) ==
    p[i].tid = "good" /\ Fetched(b, k) /\ b.list[k].n = p[i].n

InFlight(p, b) ==
    /\ \A i \in 1 .. Len(p) : p[i].tid = "good" =>
           \E k \in 1 .. Len(b.list) : Flies(p, b, i, k)
    /\ \A i, j \in 1 .. Len(p) :
           i < j /\ p[i].tid = "good" /\ p[j].tid = "good" => p[i].n < p[j].n

\* An event is precise; that of a good instruction is the one that is in
\* front of nextFetch.
Pending(p, b, e) ==
    e # NoEvent =>
        /\ e.at \in 1 .. Len(p)
        /\ p[e.at].tid \in {"good", "artificial"}
        /\ \A i \in e.at + 1 .. Len(p) : p[i].tid \in {"wrong", "switch"}
        /\ b.next # Null
        /\ Stream[b.list[b.next].n].new
        /\ Stream[b.list[b.next].n].va = e.target
        /\ p[e.at].tid = "good" => Flies(p, b, e.at, b.next - 1)

\* What is followed by a new sequence has raised its event.
Raised(p, b, e) ==
    \A i \in 1 .. Len(p), k \in 1 .. Len(b.list) :
        Flies(p, b, i, k) /\ k < Len(b.list) /\ Stream[b.list[k + 1].n].new
        => e.at = i

Steady(p, b, e) ==
    /\ p \in Seq(Instr) /\ e \in Events /\ BufferOK(b) /\ FetchedWhole(b)
    /\ InFlight(p, b) /\ Pending(p, b, e) /\ Raised(p, b, e)

LEMMA OnePlace ==
    ASSUME NEW b, BufferOK(b), NEW i \in 1 .. Len(b.list), NEW j \in 1 .. Len(b.list)
    PROVE  /\ b.list[i].n = b.list[j].n => i = j
           /\ b.list[i].n < b.list[j].n => i < j
<1>1. Typed(b) /\ Increasing(b)
  BY DEF BufferOK
<1>2. Len(b.list) \in Nat /\ b.list[i].n \in Nat /\ b.list[j].n \in Nat
  BY <1>1, BufferMembers
<1>3. (i < j => b.list[i].n < b.list[j].n) /\ (j < i => b.list[j].n < b.list[i].n)
  BY <1>1 DEF Increasing
<1> QED
  BY <1>2, <1>3

LEMMA PipeMembers ==
    ASSUME NEW p, p \in Seq(Instr)
    PROVE  Len(p) \in Nat /\ \A i \in 1 .. Len(p) : p[i] \in Instr /\ p[i].n \in Nat
<1>1. Len(p) \in Nat /\ \A i \in 1 .. Len(p) : p[i] \in Instr
  OBVIOUS
<1>2. \A x \in Instr : x.n \in Nat
  BY Sizes DEF Instr
<1> QED
  BY <1>1, <1>2

LEMMA NoEventIsEvent == NoEvent \in Events /\ NoEvent.at = 0 /\ NoEvent.target = 0
  BY DEF NoEvent, Events, Addresses

\* A pending event is of an instruction.
LEMMA EventAt ==
    ASSUME NEW p, NEW b, NEW e, Steady(p, b, e)
    PROVE  e.at \in Nat /\ (e.at = 0 <=> e = NoEvent) /\ e.at <= Len(p)
<1>1. e.at \in Nat /\ Len(p) \in Nat
  BY PipeMembers DEF Steady, Events
<1>2. CASE e = NoEvent
  BY <1>1, <1>2, NoEventIsEvent
<1>3. CASE e # NoEvent
  <2>1. e.at \in 1 .. Len(p)
    BY <1>3 DEF Steady, Pending
  <2> QED
    BY <2>1, <1>1, <1>3
<1> QED
  BY <1>2, <1>3

\* When instructions are squashed, or nothing is, and nextFetch moves back.
LEMMA PrefixSteady ==
    ASSUME NEW p, NEW b, NEW e, Steady(p, b, e),
           NEW l \in 0 .. Len(p), NEW q, q = SubSeq(p, 1, l),
           NEW r, Alike(b, r), r.list = b.list,
           \A j \in 1 .. Len(b.list) : Fetched(r, j) => Fetched(b, j),
           \A i \in 1 .. l : \A k \in 1 .. Len(b.list) :
              Flies(p, b, i, k) => Fetched(r, k),
           NEW f \in Events, Pending(q, r, f), \A i \in 1 .. l : e.at = i => f.at = i
    PROVE  Steady(q, r, f)
<1>1. p \in Seq(Instr) /\ BufferOK(b) /\ FetchedWhole(b) /\ InFlight(p, b) /\ Raised(p, b, e)
  BY DEF Steady
<1>2. Len(p) \in Nat
  BY <1>1, PipeMembers
<1>3. q \in Seq(Instr) /\ Len(q) = l /\ \A i \in 1 .. l : q[i] = p[i] /\ i \in 1 .. Len(p)
  BY <1>1, <1>2
<1>4. BufferOK(r) /\ \A j \in 1 .. Len(b.list) : Whole(r, j) <=> Whole(b, j)
  BY <1>1, AlikeKeeps
<1>5. FetchedWhole(r)
  BY <1>1, <1>4 DEF FetchedWhole
<1>6. \A i \in 1 .. l : \A k \in 1 .. Len(b.list) : Flies(q, r, i, k) <=> Flies(p, b, i, k)
  BY <1>3 DEF Flies
<1>7. InFlight(q, r)
  <2>1. ASSUME NEW i \in 1 .. Len(q), q[i].tid = "good"
        PROVE  \E k \in 1 .. Len(r.list) : Flies(q, r, i, k)
    <3>1. i \in 1 .. l /\ i \in 1 .. Len(p) /\ p[i].tid = "good"
      BY <2>1, <1>3
    <3>2. PICK k \in 1 .. Len(b.list) : Flies(p, b, i, k)
      BY <3>1, <1>1 DEF InFlight
    <3> QED
      BY <3>1, <3>2, <1>6
  <2>2. \A i, j \in 1 .. Len(q) :
           i < j /\ q[i].tid = "good" /\ q[j].tid = "good" => q[i].n < q[j].n
    BY <1>1, <1>3 DEF InFlight
  <2> QED
    BY <2>1, <2>2 DEF InFlight
<1>8. Raised(q, r, f)
  <2> SUFFICES ASSUME NEW i \in 1 .. Len(q), NEW k \in 1 .. Len(r.list),
                      Flies(q, r, i, k), k < Len(r.list), Stream[r.list[k + 1].n].new
               PROVE  f.at = i
    BY DEF Raised
  <2>1. i \in 1 .. l /\ i \in 1 .. Len(p) /\ Flies(p, b, i, k)
    BY <1>3, <1>6
  <2>2. e.at = i
    BY <2>1, <1>1 DEF Raised
  <2> QED
    BY <2>1, <2>2
<1> QED
  BY <1>3, <1>4, <1>5, <1>7, <1>8 DEF Steady

\* An instruction of the path is not behind the one with the event.
LEMMA NoneBehind ==
    ASSUME NEW p, NEW b, NEW e, Steady(p, b, e), NEW i \in 1 .. Len(p),
           p[i].tid \in {"good", "artificial"}, e # NoEvent
    PROVE  e.at >= i
<1>1. e.at \in Nat /\ Len(p) \in Nat
  BY EventAt, PipeMembers DEF Steady
<1>2. \A j \in e.at + 1 .. Len(p) : p[j].tid \in {"wrong", "switch"}
  BY DEF Steady, Pending
<1>3. ASSUME e.at < i PROVE FALSE
  <2>1. i \in e.at + 1 .. Len(p)
    BY <1>1, <1>3
  <2> QED
    BY <2>1, <1>2
<1> QED
  BY <1>1, <1>3

\* Where a good instruction and those before it are.
LEMMA Places ==
    ASSUME NEW p, NEW b, NEW e, Steady(p, b, e), NEW i \in 1 .. Len(p),
           NEW k \in 1 .. Len(b.list), Flies(p, b, i, k)
    PROVE  /\ Place(b, p[i].n) = k
           /\ \A j \in 1 .. Len(p), m \in 1 .. Len(b.list) : Flies(p, b, j, m) =>
                 (j = i => m = k) /\ (j < i => m < k) /\ (i < j => k < m)
<1>1. BufferOK(b) /\ b.list[k].n = p[i].n /\ p[i].tid = "good" /\ InFlight(p, b)
  BY DEF Steady, Flies
<1>2. Place(b, p[i].n) = k
  BY <1>1, PlaceFound
<1>3. ASSUME NEW j \in 1 .. Len(p), NEW m \in 1 .. Len(b.list), Flies(p, b, j, m)
      PROVE  (j = i => m = k) /\ (j < i => m < k) /\ (i < j => k < m)
  <2>1. b.list[m].n = p[j].n /\ p[j].tid = "good"
    BY <1>3 DEF Flies
  <2>2. (j < i => p[j].n < p[i].n) /\ (i < j => p[i].n < p[j].n)
    BY <1>1, <2>1 DEF InFlight
  <2> QED
    BY <1>1, <2>1, <2>2, OnePlace
<1> QED
  BY <1>2, <1>3

\* Kill of what is behind a good instruction.
LEMMA SquashBehind ==
    ASSUME NEW p, NEW b, NEW e, Steady(p, b, e), NEW i \in 1 .. Len(p),
           p[i].tid = "good",
           NEW r, r = GetNextFetchHandle(SetNextFetch(b, Place(b, p[i].n))),
           NEW f, f = IF e.at > i THEN NoEvent ELSE e
    PROVE  Steady(SubSeq(p, 1, i), r, f)
<1>1. p \in Seq(Instr) /\ e \in Events /\ BufferOK(b) /\ Typed(b) /\ InFlight(p, b)
  BY DEF Steady, BufferOK
<1>2. Len(p) \in Nat /\ Len(b.list) \in Nat /\ b.next \in Nat /\ b.next <= Len(b.list)
  BY <1>1, PipeMembers, BufferMembers
<1>3. PICK k \in 1 .. Len(b.list) : Flies(p, b, i, k)
  BY <1>1 DEF InFlight
<1>4. /\ Place(b, p[i].n) = k
      /\ \A j \in 1 .. Len(p), m \in 1 .. Len(b.list) : Flies(p, b, j, m) =>
            (j = i => m = k) /\ (j < i => m < k) /\ (i < j => k < m)
  BY <1>3, Places
<1>5. PICK s : s = [b EXCEPT !.next = k]
  OBVIOUS
<1>6. Alike(b, s) /\ s.list = b.list /\ s.next = k /\ Typed(s)
  <2>1. k \in Nat /\ k <= Len(b.list)
    BY <1>2
  <2>2. Alike(b, s) /\ s.list = b.list /\ s.next = k
    BY <2>1, <1>1, <1>5, NextMoves
  <2> QED
    BY <2>2 DEF Alike
<1>7. r = GetNextFetchHandle(s)
  BY <1>4, <1>5 DEF SetNextFetch
<1>8. Alike(s, r) /\ r.list = b.list /\ r.next = After(b, k)
  <2>1. k # Null
    BY <1>2 DEF Null
  <2> QED
    BY <2>1, <1>6, <1>7, HandleMoves DEF After
<1>9. Alike(b, r)
  BY <1>6, <1>8 DEF Alike
<1>10. (r.next = Null => k = Len(b.list)) /\ (r.next # Null => r.next = k + 1)
  BY <1>1, <1>8, AfterPlace
<1>11. \A j \in 1 .. Len(b.list) : Fetched(r, j) <=> j <= k
  BY <1>2, <1>8, <1>10 DEF Fetched
<1>12. \A j \in 1 .. Len(b.list) : Fetched(r, j) => Fetched(b, j)
  <2>1. b.next = Null \/ k < b.next
    BY <1>3 DEF Flies, Fetched
  <2> QED
    BY <2>1, <1>2, <1>11 DEF Fetched
<1>13. ASSUME NEW j \in 1 .. i, NEW m \in 1 .. Len(b.list), Flies(p, b, j, m)
       PROVE  Fetched(r, m)
  <2>1. j \in 1 .. Len(p) /\ (j = i \/ j < i)
    BY <1>2
  <2>2. m <= k
    BY <2>1, <1>2, <1>4, <1>13
  <2> QED
    BY <2>2, <1>11
<1>14. PICK q : q = SubSeq(p, 1, i)
  OBVIOUS
<1>15. Len(q) = i /\ \A j \in 1 .. i : q[j] = p[j]
  BY <1>1, <1>2, <1>14
<1>16. f \in Events
  BY <1>1, NoEventIsEvent
<1>17. Pending(q, r, f)
  <2> SUFFICES ASSUME f # NoEvent
               PROVE  Pending(q, r, f)
    BY DEF Pending
  <2>1. f = e /\ e # NoEvent /\ ~(e.at > i)
    OBVIOUS
  <2>2. e.at = i
    <3>1. e.at >= i /\ e.at \in Nat
      BY <2>1, NoneBehind, EventAt
    <3> QED
      BY <3>1, <2>1, <1>2
  <2>3. /\ b.next # Null
        /\ Stream[b.list[b.next].n].new
        /\ Stream[b.list[b.next].n].va = e.target
        /\ Flies(p, b, i, b.next - 1)
    BY <2>1, <2>2 DEF Steady, Pending
  <2>4. b.next - 1 = k
    <3>1. b.next - 1 \in 1 .. Len(b.list)
      BY <2>3 DEF Flies, Fetched
    <3> QED
      BY <2>3, <3>1, <1>4
  <2>5. r.next = b.next /\ r.next - 1 = k
    <3>1. k # Len(b.list) /\ b.next = k + 1
      BY <2>4, <1>2
    <3> QED
      BY <3>1, <2>4, <1>10
  <2>6. Flies(q, r, i, k)
    <3>1. k <= k /\ i \in 1 .. i
      BY <1>2
    <3>2. Fetched(r, k)
      BY <3>1, <1>11
    <3> QED
      BY <3>1, <3>2, <1>3, <1>8, <1>15 DEF Flies
  <2>7. ~\E j \in i + 1 .. Len(q) : TRUE
    BY <1>2, <1>15
  <2>8. i \in 1 .. Len(q) /\ q[i].tid = "good"
    BY <1>2, <1>15
  <2> QED
    BY <2>1, <2>2, <2>3, <2>5, <2>6, <2>7, <2>8, <1>8 DEF Pending
<1>18. \A j \in 1 .. i : e.at = j => f.at = j
  BY <1>2
<1>19. i \in 0 .. Len(p)
  BY <1>2
<1> QED
  BY <1>8, <1>9, <1>12, <1>13, <1>14, <1>16, <1>17, <1>18, <1>19, PrefixSteady

\* Kill of an instruction and what is behind it.
LEMMA SquashFrom ==
    ASSUME NEW p, NEW b, NEW e, Steady(p, b, e), NEW i \in 1 .. Len(p),
           p[i].tid \in {"good", "artificial"},
           NEW r, r = IF p[i].tid = "good" THEN SetNextFetch(b, Place(b, p[i].n)) ELSE b,
           NEW f, f = IF e.at > i \/ e.at = i THEN NoEvent ELSE e
    PROVE  Steady(SubSeq(p, 1, i - 1), r, f)
<1>1. p \in Seq(Instr) /\ e \in Events /\ BufferOK(b) /\ Typed(b) /\ InFlight(p, b)
  BY DEF Steady, BufferOK
<1>2. Len(p) \in Nat /\ Len(b.list) \in Nat /\ b.next \in Nat /\ b.next <= Len(b.list)
  BY <1>1, PipeMembers, BufferMembers
<1>3. f = NoEvent
  <2>1. e.at \in Nat /\ (e # NoEvent => e.at >= i)
    BY NoneBehind, EventAt
  <2> QED
    BY <2>1, <1>2
<1>4. PICK q : q = SubSeq(p, 1, i - 1)
  OBVIOUS
<1>5. Pending(q, r, f) /\ f \in Events
  BY <1>3, NoEventIsEvent DEF Pending
<1>6. i - 1 \in 0 .. Len(p)
  BY <1>2
<1>7. ASSUME NEW j \in 1 .. i - 1, e.at = j PROVE FALSE
  <2>1. e # NoEvent => e.at >= i
    BY NoneBehind
  <2>2. e # NoEvent
    BY <1>2, <1>7, NoEventIsEvent
  <2> QED
    BY <2>1, <2>2, <1>2, <1>7
<1>8. CASE p[i].tid # "good"
  <2>1. r = b /\ Alike(b, b)
    BY <1>1, <1>8 DEF Alike
  <2>2. \A j \in 1 .. i - 1 : \A k \in 1 .. Len(b.list) : Flies(p, b, j, k) => Fetched(r, k)
    BY <2>1 DEF Flies
  <2>3. /\ r.list = b.list /\ Alike(b, r)
        /\ \A j \in 1 .. Len(b.list) : Fetched(r, j) => Fetched(b, j)
    BY <2>1
  <2>4. \A j \in 1 .. i - 1 : e.at = j => f.at = j
    BY <1>7
  <2>5. Steady(q, r, f)
    BY <2>2, <2>3, <2>4, <1>4, <1>5, <1>6, PrefixSteady
  <2> QED
    BY <2>5, <1>4
<1>9. CASE p[i].tid = "good"
  <2>1. PICK k \in 1 .. Len(b.list) : Flies(p, b, i, k)
    BY <1>1, <1>9 DEF InFlight
  <2>2. /\ Place(b, p[i].n) = k
        /\ \A j \in 1 .. Len(p), m \in 1 .. Len(b.list) : Flies(p, b, j, m) =>
              (j = i => m = k) /\ (j < i => m < k) /\ (i < j => k < m)
    BY <2>1, Places
  <2>3. k \in Nat /\ k <= Len(b.list) /\ k # Null
    BY <1>2 DEF Null
  <2>4. Alike(b, r) /\ r.list = b.list /\ r.next = k
    BY <2>2, <2>3, <1>1, <1>9, NextMoves DEF SetNextFetch
  <2>5. \A j \in 1 .. Len(b.list) : Fetched(r, j) <=> j < k
    BY <2>3, <2>4 DEF Fetched
  <2>6. \A j \in 1 .. Len(b.list) : Fetched(r, j) => Fetched(b, j)
    <3>1. b.next = Null \/ k < b.next
      BY <2>1 DEF Flies, Fetched
    <3> QED
      BY <3>1, <2>3, <2>5, <1>2 DEF Fetched
  <2>7. ASSUME NEW j \in 1 .. i - 1, NEW m \in 1 .. Len(b.list), Flies(p, b, j, m)
        PROVE  Fetched(r, m)
    <3>1. j \in 1 .. Len(p) /\ j < i
      BY <1>2
    <3> QED
      BY <3>1, <2>2, <2>5, <2>7
  <2> QED
    BY <2>4, <2>6, <2>7, <1>4, <1>5, <1>6, <1>7, PrefixSteady
<1> QED
  BY <1>8, <1>9

\* What is off the path follows the path; onBadPath says whether there is
\* such an instruction.
Straight(p, bad) ==
    /\ \A i, j \in 1 .. Len(p) : i < j /\ p[i].tid = "wrong" => p[j].tid \in {"wrong", "switch"}
    /\ ~ bad => \A i \in 1 .. Len(p) : p[i].tid # "wrong"

\* Kill behind an instruction off the path.
LEMMA SquashWrong ==
    ASSUME NEW p, NEW b, NEW e, Steady(p, b, e), NEW i \in 1 .. Len(p),
           p[i].tid = "wrong", NEW bad, e # NoEvent => Straight(p, bad)
    PROVE  Steady(SubSeq(p, 1, i), b, e)
<1>1. p \in Seq(Instr) /\ e \in Events /\ Typed(b) /\ Pending(p, b, e)
  BY DEF Steady, BufferOK
<1>2. Len(p) \in Nat
  BY <1>1, PipeMembers
<1>3. PICK q : q = SubSeq(p, 1, i)
  OBVIOUS
<1>4. Len(q) = i /\ \A j \in 1 .. i : q[j] = p[j]
  BY <1>1, <1>2, <1>3
<1>5. Pending(q, b, e)
  <2> SUFFICES ASSUME e # NoEvent PROVE Pending(q, b, e)
    BY DEF Pending
  <2>1. /\ e.at \in 1 .. Len(p)
        /\ p[e.at].tid \in {"good", "artificial"}
        /\ \A j \in e.at + 1 .. Len(p) : p[j].tid \in {"wrong", "switch"}
        /\ b.next # Null
        /\ Stream[b.list[b.next].n].new
        /\ Stream[b.list[b.next].n].va = e.target
        /\ p[e.at].tid = "good" => Flies(p, b, e.at, b.next - 1)
    BY <1>1 DEF Pending
  <2>2. ~(i < e.at)
    BY <2>1 DEF Straight
  <2>3. e.at \in 1 .. i
    BY <2>1, <2>2, <1>2
  <2>4. q[e.at] = p[e.at]
    BY <2>3, <1>4
  <2>5. \A j \in e.at + 1 .. Len(q) : q[j].tid \in {"wrong", "switch"}
    <3>1. \A j \in e.at + 1 .. Len(q) : j \in 1 .. i /\ j \in e.at + 1 .. Len(p)
      BY <2>3, <1>2, <1>4
    <3> QED
      BY <3>1, <2>1, <1>4
  <2>6. q[e.at].tid = "good" => Flies(q, b, e.at, b.next - 1)
    BY <2>1, <2>4 DEF Flies
  <2> QED
    BY <2>1, <2>3, <2>4, <2>5, <2>6, <1>4 DEF Pending
<1>6. Alike(b, b)
  BY <1>1 DEF Alike
<1>7. \A j \in 1 .. i : \A k \in 1 .. Len(b.list) : Flies(p, b, j, k) => Fetched(b, k)
  BY DEF Flies
<1>8. i \in 0 .. Len(p)
  BY <1>2
<1> QED
  BY <1>1, <1>3, <1>5, <1>6, <1>7, <1>8, PrefixSteady

\* r is b without its first c instructions.
Shift(b, c, r) ==
    /\ BufferOK(r) /\ Len(r.list) = Len(b.list) - c
    /\ b.next = Null => r.next = Null
    /\ b.next # Null => r.next = b.next - c /\ r.next # Null
    /\ \A j \in 1 .. Len(r.list) :
          /\ j + c \in 1 .. Len(b.list) /\ r.list[j] = b.list[j + c]
          /\ Whole(r, j) <=> Whole(b, j + c)
          /\ Fetched(r, j) <=> Fetched(b, j + c)

LEMMA PlaceShifted ==
    ASSUME NEW c \in Nat, NEW y \in Nat, NEW z \in Nat, NEW w \in 1 .. z, w < z, z = y - c
    PROVE  w + c < y /\ w + 1 \in 1 .. z /\ (w + 1) + c = (w + c) + 1
<1>1. w \in Nat /\ w >= 1 /\ w + 1 <= z
  OBVIOUS
<1>2. y = z + c
  OBVIOUS
<1>3. w + c < z + c
  OBVIOUS
<1>4. (w + 1) + c = (w + c) + 1
  BY <1>1
<1> QED
  BY <1>1, <1>2, <1>3, <1>4

\* The oldest instruction leaves the pipe, and what it committed the buffer.
LEMMA ShiftSteady ==
    ASSUME NEW p, NEW b, NEW e, Steady(p, b, e), p # <<>>, e.at # 1,
           NEW c \in Nat, NEW r, Shift(b, c, r),
           \A i \in 2 .. Len(p), k \in 1 .. Len(b.list) : Flies(p, b, i, k) => c < k,
           NEW f, f = [e EXCEPT !.at = IF @ = 0 THEN 0 ELSE @ - 1]
    PROVE  Steady(Tail(p), r, f)
<1>1. /\ p \in Seq(Instr) /\ e \in Events /\ BufferOK(b) /\ Typed(b) /\ FetchedWhole(b)
      /\ InFlight(p, b) /\ Pending(p, b, e) /\ Raised(p, b, e)
  BY DEF Steady, BufferOK
<1>2. Len(p) \in Nat /\ Len(b.list) \in Nat /\ b.next \in Nat /\ b.next <= Len(b.list)
      /\ Len(p) > 0
  BY <1>1, PipeMembers, BufferMembers
<1>3. /\ BufferOK(r) /\ Typed(r) /\ Len(r.list) = Len(b.list) - c
      /\ b.next = Null => r.next = Null
      /\ b.next # Null => r.next = b.next - c /\ r.next # Null
      /\ \A j \in 1 .. Len(r.list) :
            /\ j + c \in 1 .. Len(b.list) /\ r.list[j] = b.list[j + c]
            /\ Whole(r, j) <=> Whole(b, j + c)
            /\ Fetched(r, j) <=> Fetched(b, j + c)
  BY DEF Shift, BufferOK
<1>4. Len(r.list) \in Nat /\ r.next \in Nat /\ r.next <= Len(r.list)
  BY <1>3, BufferMembers
<1>5. PICK q : q = Tail(p)
  OBVIOUS
<1>6. /\ q \in Seq(Instr) /\ Len(q) = Len(p) - 1
      /\ \A i \in 1 .. Len(q) : q[i] = p[i + 1] /\ i + 1 \in 2 .. Len(p) /\ i + 1 \in 1 .. Len(p)
  BY <1>1, <1>2, <1>5
<1>7. e.at \in Nat /\ (e.at = 0 <=> e = NoEvent) /\ e.at <= Len(p)
  BY EventAt
<1>8. f \in Events /\ f.at = (IF e.at = 0 THEN 0 ELSE e.at - 1) /\ f.target = e.target
  BY <1>1, <1>7 DEF Events
<1>9. e = NoEvent => f = NoEvent
  BY <1>8, NoEventIsEvent DEF NoEvent, Events
<1>10. FetchedWhole(r)
  BY <1>1, <1>3 DEF FetchedWhole
<1>11. \A i \in 1 .. Len(q), j \in 1 .. Len(r.list) :
         Flies(q, r, i, j) <=> Flies(p, b, i + 1, j + c)
  BY <1>3, <1>6 DEF Flies
<1>12. ASSUME NEW i \in 1 .. Len(q), NEW k \in 1 .. Len(b.list), Flies(p, b, i + 1, k)
       PROVE  k - c \in 1 .. Len(r.list) /\ Flies(q, r, i, k - c)
  <2>1. c < k
    BY <1>6, <1>12
  <2>2. k - c \in 1 .. Len(r.list) /\ (k - c) + c = k
    BY <2>1, <1>2, <1>3
  <2> QED
    BY <2>2, <1>11, <1>12
<1>13. InFlight(q, r)
  <2>1. ASSUME NEW i \in 1 .. Len(q), q[i].tid = "good"
        PROVE  \E k \in 1 .. Len(r.list) : Flies(q, r, i, k)
    <3>1. PICK k \in 1 .. Len(b.list) : Flies(p, b, i + 1, k)
      BY <2>1, <1>1, <1>6 DEF InFlight
    <3> QED
      BY <3>1, <1>12
  <2>2. ASSUME NEW i \in 1 .. Len(q), NEW j \in 1 .. Len(q), i < j,
               q[i].tid = "good", q[j].tid = "good"
        PROVE  q[i].n < q[j].n
    <3>1. i + 1 < j + 1
      BY <2>2, <1>2, <1>6
    <3> QED
      BY <3>1, <2>2, <1>1, <1>6 DEF InFlight
  <2> QED
    BY <2>1, <2>2 DEF InFlight
<1>14. Pending(q, r, f)
  <2> SUFFICES ASSUME f # NoEvent PROVE Pending(q, r, f)
    BY DEF Pending
  <2>1. e # NoEvent
    BY <1>9
  <2>2. /\ e.at \in 1 .. Len(p)
        /\ p[e.at].tid \in {"good", "artificial"}
        /\ \A j \in e.at + 1 .. Len(p) : p[j].tid \in {"wrong", "switch"}
        /\ b.next # Null
        /\ Stream[b.list[b.next].n].new
        /\ Stream[b.list[b.next].n].va = e.target
        /\ p[e.at].tid = "good" => Flies(p, b, e.at, b.next - 1)
    BY <2>1, <1>1 DEF Pending
  <2>3. f.at \in 1 .. Len(q) /\ f.at + 1 = e.at
    BY <2>2, <1>2, <1>6, <1>7, <1>8
  <2>4. q[f.at] = p[e.at]
    BY <2>3, <1>6
  <2>5. \A j \in f.at + 1 .. Len(q) : q[j].tid \in {"wrong", "switch"}
    <3>1. \A j \in f.at + 1 .. Len(q) : j + 1 \in e.at + 1 .. Len(p) /\ j \in 1 .. Len(q)
      <4>1. f.at \in Nat /\ e.at \in Nat /\ Len(q) \in Nat /\ Len(p) = Len(q) + 1
        BY <2>3, <1>2, <1>6
      <4>2. \A x, y, z, u \in Nat : x + 1 = y /\ u = z + 1 =>
               \A j \in x + 1 .. z : j + 1 \in y + 1 .. u /\ j \in 1 .. z
        OBVIOUS
      <4> QED
        BY <4>1, <4>2, <2>3, <1>2
    <3> QED
      BY <3>1, <2>2, <1>6
  <2>6. r.next # Null /\ r.list[r.next] = b.list[b.next]
    <3>1. r.next # Null /\ r.next = b.next - c
      BY <2>2, <1>3
    <3>2. r.next \in 1 .. Len(r.list) /\ r.next + c = b.next
      BY <3>1, <1>2, <1>4 DEF Null
    <3> QED
      BY <3>1, <3>2, <1>3
  <2>7. ASSUME q[f.at].tid = "good" PROVE Flies(q, r, f.at, r.next - 1)
    <3>1. Flies(p, b, f.at + 1, b.next - 1)
      BY <2>2, <2>3, <2>4, <2>7
    <3>2. b.next - 1 \in 1 .. Len(b.list)
      BY <3>1 DEF Flies, Fetched
    <3>3. Flies(q, r, f.at, (b.next - 1) - c)
      BY <3>1, <3>2, <2>3, <1>12
    <3>4. (b.next - 1) - c = r.next - 1
      <4>1. r.next = b.next - c
        BY <2>2, <1>3
      <4> QED
        BY <4>1, <1>2
    <3> QED
      BY <3>3, <3>4
  <2> QED
    BY <2>2, <2>3, <2>4, <2>5, <2>6, <2>7, <1>8 DEF Pending
<1>15. Raised(q, r, f)
  <2> SUFFICES ASSUME NEW i \in 1 .. Len(q), NEW k \in 1 .. Len(r.list),
                      Flies(q, r, i, k), k < Len(r.list), Stream[r.list[k + 1].n].new
               PROVE  f.at = i
    BY DEF Raised
  <2>1. /\ i + 1 \in 1 .. Len(p) /\ k + c \in 1 .. Len(b.list) /\ Flies(p, b, i + 1, k + c)
    BY <1>3, <1>6, <1>11
  <2>2. k + c < Len(b.list) /\ k + 1 \in 1 .. Len(r.list) /\ (k + 1) + c = (k + c) + 1
    <3>1. Len(r.list) = Len(b.list) - c
      BY <1>3
    <3>2. \A y, z \in Nat : \A w \in 1 .. z : w < z /\ z = y - c =>
             w + c < y /\ w + 1 \in 1 .. z /\ (w + 1) + c = (w + c) + 1
      BY PlaceShifted
    <3> QED
      BY <3>1, <3>2, <1>2, <1>4
  <2>3. r.list[k + 1] = b.list[(k + c) + 1]
    BY <2>2, <1>3
  <2>4. e.at = i + 1
    BY <2>1, <2>2, <2>3, <1>1 DEF Raised
  <2> QED
    BY <2>4, <1>2, <1>6, <1>8
<1> QED
  BY <1>3, <1>5, <1>6, <1>8, <1>10, <1>13, <1>14, <1>15 DEF Steady

LEMMA CommitSteady ==
    ASSUME NEW p, NEW b, NEW e, Steady(p, b, e), p # <<>>, e.at # 1,
           NEW r, r = IF p[1].tid # "good" THEN b
                      ELSE CommitInstruction(b, Place(b, p[1].n)),
           NEW f, f = [e EXCEPT !.at = IF @ = 0 THEN 0 ELSE @ - 1]
    PROVE  Steady(Tail(p), r, f)
<1>1. p \in Seq(Instr) /\ BufferOK(b) /\ Typed(b) /\ InFlight(p, b)
  BY DEF Steady, BufferOK
<1>2. Len(p) \in Nat /\ 1 \in 1 .. Len(p) /\ Len(b.list) \in Nat /\ b.next \in Nat
  BY <1>1, PipeMembers, BufferMembers
<1>3. CASE p[1].tid # "good"
  <2>1. Shift(b, 0, b)
    BY <1>1, <1>2 DEF Shift
  <2>2. \A i \in 2 .. Len(p), k \in 1 .. Len(b.list) : Flies(p, b, i, k) => 0 < k
    BY <1>2
  <2> QED
    BY <2>1, <2>2, <1>3, ShiftSteady
<1>4. CASE p[1].tid = "good"
  <2>1. PICK k \in 1 .. Len(b.list) : Flies(p, b, 1, k)
    BY <1>1, <1>2, <1>4 DEF InFlight
  <2>2. /\ Place(b, p[1].n) = k
        /\ \A j \in 1 .. Len(p), m \in 1 .. Len(b.list) : Flies(p, b, j, m) =>
              (j = 1 => m = k) /\ (j < 1 => m < k) /\ (1 < j => k < m)
    BY <2>1, <1>2, Places
  <2>3. r = CommitInstruction(b, k) /\ Fetched(b, k) /\ k \in Nat
    BY <2>1, <2>2, <1>2, <1>4 DEF Flies
  <2>4. /\ BufferOK(r) /\ Len(r.list) = Len(b.list) - k
        /\ r.next = IF b.next = Null THEN Null ELSE b.next - k
        /\ \A j \in 1 .. Len(r.list) :
                /\ j + k \in 1 .. Len(b.list) /\ r.list[j] = b.list[j + k]
                /\ Whole(r, j) <=> Whole(b, j + k)
                /\ Fetched(r, j) <=> Fetched(b, j + k)
    BY <2>3, <1>1, CommitShifts
  <2>5. b.next # Null => r.next # Null
    BY <2>3, <2>4, <1>2 DEF Fetched, Null
  <2>6. Shift(b, k, r)
    BY <2>4, <2>5 DEF Shift
  <2>7. \A i \in 2 .. Len(p), m \in 1 .. Len(b.list) : Flies(p, b, i, m) => k < m
    BY <2>2, <1>2
  <2> QED
    BY <2>3, <2>6, <2>7, ShiftSteady
<1> QED
  BY <1>3, <1>4

\* Something that is not of the path is fetched; r has all that b has.
LEMMA AppendSteady ==
    ASSUME NEW p, NEW b, NEW e, Steady(p, b, e), NEW x \in Instr, x.tid # "good",
           NEW q, q = Append(p, x),
           NEW r, BufferOK(r), FetchedWhole(r), Len(b.list) <= Len(r.list),
           \A j \in 1 .. Len(b.list) : r.list[j].n = b.list[j].n,
           \A j \in 1 .. Len(b.list) : Fetched(b, j) => Fetched(r, j),
           b.uid = StreamSize => Len(r.list) = Len(b.list),
           NEW f \in Events, e # NoEvent => f = e, Pending(q, r, f)
    PROVE  Steady(q, r, f)
<1>1. /\ p \in Seq(Instr) /\ e \in Events /\ BufferOK(b) /\ Typed(b) /\ FetchedWhole(b)
      /\ InFlight(p, b) /\ Raised(p, b, e)
  BY DEF Steady, BufferOK
<1>2. Len(p) \in Nat /\ Len(b.list) \in Nat /\ Typed(r)
  BY <1>1, PipeMembers, BufferMembers DEF BufferOK
<1>3. Len(r.list) \in Nat
  BY <1>2, BufferMembers
<1>4. /\ q \in Seq(Instr) /\ Len(q) = Len(p) + 1 /\ q[Len(p) + 1] = x
      /\ \A i \in 1 .. Len(p) : q[i] = p[i]
  BY <1>1, <1>2
<1>5. \A i \in 1 .. Len(q) : q[i].tid = "good" => i \in 1 .. Len(p) /\ q[i] = p[i]
  <2>1. \A i \in 1 .. Len(q) : i = Len(p) + 1 \/ i \in 1 .. Len(p)
    BY <1>2, <1>4
  <2> QED
    BY <2>1, <1>4
<1>6. ASSUME NEW i \in 1 .. Len(q), q[i].tid = "good"
      PROVE  \E k \in 1 .. Len(b.list) :
               Flies(p, b, i, k) /\ k \in 1 .. Len(r.list) /\ Flies(q, r, i, k)
  <2>1. i \in 1 .. Len(p) /\ q[i] = p[i]
    BY <1>5, <1>6
  <2>2. PICK k \in 1 .. Len(b.list) : Flies(p, b, i, k)
    BY <2>1, <1>1, <1>6 DEF InFlight
  <2>3. k \in 1 .. Len(r.list)
    BY <1>2, <1>3
  <2> QED
    BY <2>1, <2>2, <2>3 DEF Flies
<1>7. InFlight(q, r)
  <2>1. \A i, j \in 1 .. Len(q) :
           i < j /\ q[i].tid = "good" /\ q[j].tid = "good" => q[i].n < q[j].n
    <3>1. ASSUME NEW i \in 1 .. Len(q), NEW j \in 1 .. Len(q), i < j,
                 q[i].tid = "good", q[j].tid = "good"
          PROVE  q[i].n < q[j].n
      <4>1. /\ i \in 1 .. Len(p) /\ q[i] = p[i] /\ j \in 1 .. Len(p) /\ q[j] = p[j]
        BY <3>1, <1>5
      <4>2. p[i].n < p[j].n
        BY <3>1, <4>1, <1>1 DEF InFlight
      <4> QED
        BY <4>1, <4>2
    <3> QED
      BY <3>1
  <2> QED
    BY <2>1, <1>6 DEF InFlight
<1>8. Raised(q, r, f)
  <2> SUFFICES ASSUME NEW i \in 1 .. Len(q), NEW k \in 1 .. Len(r.list),
                      Flies(q, r, i, k), k < Len(r.list), Stream[r.list[k + 1].n].new
               PROVE  f.at = i
    BY DEF Raised
  <2>1. q[i].tid = "good"
    BY DEF Flies
  <2>2. i \in 1 .. Len(p)
    BY <2>1, <1>5
  <2>3. PICK m \in 1 .. Len(b.list) :
             Flies(p, b, i, m) /\ m \in 1 .. Len(r.list) /\ Flies(q, r, i, m)
    BY <2>1, <1>6
  <2>4. m = k
    <3>1. r.list[m].n = r.list[k].n
      BY <2>3 DEF Flies
    <3> QED
      BY <3>1, <2>3, OnePlace
  <2>5. k < Len(b.list)
    <3>1. Whole(b, k)
      BY <2>3, <2>4, <1>1 DEF FetchedWhole, Flies
    <3>2. k < Len(b.list) \/ Len(r.list) = Len(b.list)
      BY <3>1 DEF Whole
    <3> QED
      BY <3>2
  <2>6. k + 1 \in 1 .. Len(b.list)
    BY <2>5, <1>2, <1>3
  <2>7. e.at = i
    BY <2>2, <2>3, <2>4, <2>5, <2>6, <1>1 DEF Raised
  <2>8. e # NoEvent
    BY <2>2, <2>7, <1>2, NoEventIsEvent
  <2> QED
    BY <2>7, <2>8
<1> QED
  BY <1>4, <1>7, <1>8 DEF Steady

\* An instruction of the path is fetched, with all that belongs to it merged
\* into it, and raises the event of a new sequence behind it.
LEMMA FeedSteady ==
    ASSUME NEW p, NEW b, Steady(p, b, NoEvent), NEW a, NEW k \in Nat \ {0},
           NEW c, Fed(a, k, c),
           \A j \in 1 .. Len(b.list) : j <= k => c.list[j].n = b.list[j].n,
           \A j \in 1 .. Len(b.list) : Fetched(b, j) => j < k,
           b.uid = StreamSize => k <= Len(b.list),
           NEW x \in Instr, x.tid = "good", x.n = c.list[k].n, NEW q, q = Append(p, x),
           NEW r, Alike(c, r), r.next = c.next,
           NEW f, f = IF NextIsNew(c, k)
                      THEN [at |-> Len(p) + 1, target |-> Stream[c.list[k + 1].n].va]
                      ELSE NoEvent
    PROVE  Steady(q, r, f)
<1>1. /\ p \in Seq(Instr) /\ BufferOK(b) /\ Typed(b) /\ FetchedWhole(b)
      /\ InFlight(p, b) /\ Raised(p, b, NoEvent)
  BY DEF Steady, BufferOK
<1>2. Len(p) \in Nat /\ Len(b.list) \in Nat
  BY <1>1, PipeMembers, BufferMembers
<1>3. /\ BufferOK(c) /\ k <= Len(c.list) /\ \A j \in 1 .. k : Whole(c, j)
      /\ c.next = IF k < Len(c.list) THEN k + 1 ELSE Null
  BY DEF Fed
<1>4. /\ BufferOK(r) /\ Typed(r) /\ Len(r.list) = Len(c.list)
      /\ \A j \in 1 .. Len(c.list) : r.list[j].n = c.list[j].n /\ (Whole(r, j) <=> Whole(c, j))
  <2>1. BufferOK(r) /\ \A j \in 1 .. Len(c.list) : Whole(r, j) <=> Whole(c, j)
    BY <1>3, AlikeKeeps
  <2> QED
    BY <2>1 DEF Alike
<1>5. Len(c.list) \in Nat /\ k \in 1 .. Len(c.list) /\ k \in 1 .. Len(r.list)
      /\ Len(r.list) \in Nat /\ \A j \in 1 .. Len(r.list) : r.list[j].n \in 1 .. StreamSize
  <2>1. Len(r.list) \in Nat
    BY <1>4, BufferMembers
  <2>2. \A j \in 1 .. Len(r.list) : r.list[j].n \in 1 .. StreamSize
    BY <1>4, BufferMembers, Sizes
  <2> QED
    BY <2>1, <2>2, <1>3, <1>4
<1>6. \A j \in 1 .. Len(r.list) : Fetched(r, j) <=> j <= k
  BY <1>3, <1>4, <1>5 DEF Fetched, Null
<1>7. FetchedWhole(r)
  <2>1. \A j \in 1 .. Len(r.list) : j <= k => j \in 1 .. k
    BY <1>5
  <2> QED
    BY <2>1, <1>3, <1>4, <1>6 DEF FetchedWhole
<1>8. /\ q \in Seq(Instr) /\ Len(q) = Len(p) + 1 /\ q[Len(p) + 1] = x
      /\ \A i \in 1 .. Len(p) : q[i] = p[i]
  BY <1>1, <1>2
<1>9. \A i \in 1 .. Len(q) : i = Len(p) + 1 \/ i \in 1 .. Len(p)
  BY <1>2, <1>8
<1>10. x.n = r.list[k].n /\ Flies(q, r, Len(p) + 1, k)
  <2>1. Fetched(r, k)
    BY <1>5, <1>6
  <2> QED
    BY <2>1, <1>4, <1>5, <1>8 DEF Flies
<1>11. ASSUME NEW i \in 1 .. Len(p), q[i].tid = "good"
       PROVE  \E m \in 1 .. Len(b.list) : /\ Flies(p, b, i, m) /\ m < k
                                          /\ m \in 1 .. Len(r.list) /\ Flies(q, r, i, m)
                                          /\ r.list[m].n = p[i].n
  <2>1. PICK m \in 1 .. Len(b.list) : Flies(p, b, i, m)
    BY <1>1, <1>8, <1>11 DEF InFlight
  <2>2. m < k /\ b.list[m].n = p[i].n
    BY <2>1 DEF Flies
  <2>3. m <= k /\ m \in 1 .. Len(r.list) /\ m \in 1 .. Len(c.list)
    BY <2>2, <1>2, <1>3, <1>4, <1>5
  <2>4. r.list[m].n = p[i].n
    BY <2>2, <2>3, <1>4
  <2>5. Fetched(r, m)
    BY <2>3, <1>6
  <2> QED
    BY <2>1, <2>2, <2>3, <2>4, <2>5, <1>8, <1>11 DEF Flies
<1>12. InFlight(q, r)
  <2>1. ASSUME NEW i \in 1 .. Len(q), q[i].tid = "good"
        PROVE  \E m \in 1 .. Len(r.list) : Flies(q, r, i, m)
    BY <2>1, <1>5, <1>9, <1>10, <1>11
  <2>2. ASSUME NEW i \in 1 .. Len(q), NEW j \in 1 .. Len(q), i < j,
               q[i].tid = "good", q[j].tid = "good"
        PROVE  q[i].n < q[j].n
    <3>1. i \in 1 .. Len(p)
      BY <2>2, <1>2, <1>8
    <3>2. CASE j \in 1 .. Len(p)
      <4>1. p[i].n < p[j].n
        BY <2>2, <3>1, <3>2, <1>1, <1>8 DEF InFlight
      <4> QED
        BY <4>1, <3>1, <3>2, <1>8
    <3>3. CASE j = Len(p) + 1
      <4>1. PICK m \in 1 .. Len(b.list) : m < k /\ m \in 1 .. Len(r.list) /\ r.list[m].n = p[i].n
        BY <2>2, <3>1, <1>11
      <4>2. r.list[m].n < r.list[k].n
        BY <4>1, <1>4, <1>5 DEF BufferOK, Increasing
      <4> QED
        BY <4>1, <4>2, <3>1, <3>3, <1>8, <1>10
    <3> QED
      BY <3>2, <3>3, <1>9
  <2> QED
    BY <2>1, <2>2 DEF InFlight
<1>13. f \in Events
  <2>1. CASE NextIsNew(c, k)
    <3>1. k < Len(c.list)
      BY <2>1 DEF NextIsNew
    <3>2. k + 1 \in 1 .. Len(c.list)
      BY <3>1, <1>5
    <3>3. c.list[k + 1].n \in 1 .. StreamSize
      BY <3>2, <1>4, <1>5
    <3>4. Stream[c.list[k + 1].n].va \in Addresses
      BY <3>3, Sizes DEF Instruction
    <3> QED
      BY <2>1, <3>4, <1>2 DEF Events
  <2>2. CASE ~ NextIsNew(c, k)
    BY <2>2, NoEventIsEvent
  <2> QED
    BY <2>1, <2>2
<1>14. ASSUME NEW i \in 1 .. Len(p), NEW m \in 1 .. Len(r.list), Flies(q, r, i, m),
              m < Len(r.list), Stream[r.list[m + 1].n].new
       PROVE  FALSE
  <2>1. q[i].tid = "good" /\ r.list[m].n = q[i].n
    BY <1>14 DEF Flies
  <2>2. PICK j \in 1 .. Len(b.list) : /\ Flies(p, b, i, j) /\ j < k
                                      /\ j \in 1 .. Len(r.list) /\ r.list[j].n = p[i].n
    BY <2>1, <1>11
  <2>3. j = m
    BY <2>1, <2>2, <1>4, <1>8, OnePlace
  <2>4. m < Len(b.list)
    <3>1. Whole(b, m)
      BY <2>2, <2>3, <1>1 DEF FetchedWhole, Flies
    <3>2. m < Len(b.list) \/ k <= Len(b.list)
      BY <3>1 DEF Whole
    <3> QED
      BY <3>2, <2>2, <2>3, <1>2
  <2>5. m + 1 \in 1 .. Len(b.list) /\ m + 1 <= k /\ m + 1 \in 1 .. Len(c.list)
    BY <2>2, <2>3, <2>4, <1>2, <1>4, <1>5, <1>14
  <2>6. r.list[m + 1].n = b.list[m + 1].n
    BY <2>5, <1>4
  <2>7. NoEvent.at = i
    BY <2>2, <2>3, <2>4, <2>6, <1>1, <1>14 DEF Raised
  <2> QED
    BY <2>7, <1>2, NoEventIsEvent
<1>15. ASSUME NEW m \in 1 .. Len(r.list), Flies(q, r, Len(p) + 1, m) PROVE m = k
  <2>1. r.list[m].n = r.list[k].n
    BY <1>8, <1>10, <1>15 DEF Flies
  <2> QED
    BY <2>1, <1>4, <1>5, OnePlace
<1>16. CASE NextIsNew(c, k)
  <2>1. k < Len(c.list) /\ Stream[c.list[k + 1].n].new
    BY <1>16 DEF NextIsNew
  <2>2. f.at = Len(p) + 1 /\ f.target = Stream[c.list[k + 1].n].va
    BY <1>16
  <2>3. r.next = k + 1 /\ k + 1 \in 1 .. Len(c.list) /\ r.next - 1 = k /\ r.next # Null
    BY <2>1, <1>3, <1>5 DEF Null
  <2>4. r.list[r.next].n = c.list[k + 1].n
    BY <2>3, <1>4
  <2>5. Pending(q, r, f)
    <3>1. f.at \in 1 .. Len(q) /\ ~\E i \in f.at + 1 .. Len(q) : TRUE
      BY <2>2, <1>2, <1>8
    <3>2. q[f.at].tid = "good" /\ Flies(q, r, f.at, r.next - 1)
      BY <2>2, <2>3, <1>8, <1>10
    <3> QED
      BY <2>1, <2>2, <2>3, <2>4, <3>1, <3>2 DEF Pending
  <2>6. Raised(q, r, f)
    BY <2>2, <1>9, <1>14 DEF Raised
  <2> QED
    BY <2>5, <2>6, <1>4, <1>7, <1>8, <1>12, <1>13 DEF Steady
<1>17. CASE ~ NextIsNew(c, k)
  <2>1. f = NoEvent
    BY <1>17
  <2>2. Pending(q, r, f)
    BY <2>1 DEF Pending
  <2>3. Raised(q, r, f)
    <3> SUFFICES ASSUME NEW i \in 1 .. Len(q), NEW m \in 1 .. Len(r.list),
                        Flies(q, r, i, m), m < Len(r.list), Stream[r.list[m + 1].n].new
                 PROVE  FALSE
      BY DEF Raised
    <3>1. i = Len(p) + 1
      BY <1>9, <1>14
    <3>2. m = k
      BY <3>1, <1>15
    <3>3. k + 1 \in 1 .. Len(c.list) /\ k < Len(c.list)
      BY <3>2, <1>4, <1>5
    <3> QED
      BY <3>2, <3>3, <1>4, <1>17 DEF NextIsNew
  <2> QED
    BY <2>2, <2>3, <1>4, <1>7, <1>8, <1>12, <1>13 DEF Steady
<1> QED
  BY <1>16, <1>17

\* Nothing more comes, and nothing is left to merge.
AllWhole(b) == b.uid = StreamSize /\ \A j \in 1 .. Len(b.list) : Whole(b, j)

\* r is b after the feeder has read ahead for a fetch.
ReadyFor(b, r) ==
    /\ BufferOK(r) /\ FetchedWhole(r) /\ Len(b.list) <= Len(r.list)
    /\ \A j \in 1 .. Len(b.list) : r.list[j].n = b.list[j].n
    /\ \A j \in 1 .. Len(b.list) : Fetched(b, j) <=> Fetched(r, j)
    /\ b.uid = StreamSize => Len(r.list) = Len(b.list)
    /\ r.next = Null => b.next = Null /\ AllWhole(r)
    /\ b.next # Null => r.next = b.next
    /\ AllWhole(b) => AllWhole(r)

LEMMA ReadyIsReady ==
    ASSUME NEW b, BufferOK(b), FetchedWhole(b)
    PROVE  ReadyFor(b, FetchIncomingInstructions(b, ExecuteChunk))
<1>1. PICK r : r = FetchIncomingInstructions(b, ExecuteChunk)
  OBVIOUS
<1>2. Typed(b) /\ Increasing(b)
  BY DEF BufferOK
<1>3. Extends(b, r)
  BY <1>1, <1>2, FetchExtends, Sizes
<1>4. BufferOK(r)
  BY <1>3, ExtendsKeeps
<1>5. /\ \A j \in 1 .. Len(b.list) : Whole(b, j) => Whole(r, j)
      /\ \A j \in 1 .. Len(r.list) : Fetched(r, j) <=> Fetched(b, j)
  BY <1>2, <1>3, ExtendsPlaces
<1>6. /\ b.uid <= r.uid /\ Len(r.list) = Len(b.list) + (r.uid - b.uid)
      /\ \A j \in 1 .. Len(b.list) : r.list[j].n = b.list[j].n
      /\ r.next = IF b.next = Null /\ b.uid < r.uid THEN Len(b.list) + 1 ELSE b.next
      /\ r.next = Null => r.uid = StreamSize
  BY <1>3 DEF Extends
<1>7. Len(b.list) \in Nat /\ Len(r.list) \in Nat /\ b.uid \in Nat /\ r.uid \in Nat
      /\ r.uid <= StreamSize /\ StreamSize \in Nat
  BY <1>2, <1>4, BufferMembers, Sizes DEF BufferOK
<1>8. FetchedWhole(r)
  BY <1>5 DEF FetchedWhole, Fetched
<1>9. Len(b.list) <= Len(r.list) /\ \A j \in 1 .. Len(b.list) : j \in 1 .. Len(r.list)
  BY <1>6, <1>7
<1>10. b.uid = StreamSize => Len(r.list) = Len(b.list) /\ r.uid = StreamSize
  BY <1>6, <1>7
<1>11. ASSUME r.next = Null PROVE b.next = Null /\ AllWhole(r)
  <2>1. b.next = Null
    BY <1>6, <1>7, <1>11 DEF Null
  <2>2. \A j \in 1 .. Len(r.list) : Whole(r, j)
    BY <1>8, <1>11 DEF FetchedWhole, Fetched
  <2> QED
    BY <2>1, <2>2, <1>6, <1>11 DEF AllWhole
<1>12. AllWhole(b) => AllWhole(r)
  BY <1>5, <1>10 DEF AllWhole
<1> QED
  BY <1>1, <1>4, <1>5, <1>6, <1>8, <1>9, <1>10, <1>11, <1>12 DEF ReadyFor

LEMMA EmptySteady ==
    ASSUME NEW b, BufferOK(b), FetchedWhole(b)
    PROVE  Steady(<<>>, b, NoEvent)
<1>1. <<>> \in Seq(Instr) /\ Len(<<>>) = 0
  OBVIOUS
<1>2. ~\E i \in 1 .. Len(<<>>) : TRUE
  BY <1>1
<1>3. InFlight(<<>>, b) /\ Raised(<<>>, b, NoEvent)
  BY <1>2 DEF InFlight, Raised
<1>4. Pending(<<>>, b, NoEvent)
  BY DEF Pending
<1> QED
  BY <1>1, <1>3, <1>4, NoEventIsEvent DEF Steady

-----------------------------------------------------------------------------
(* The inductive invariant.                                                *)

\* While the warm-up manager calls WarmUp, only the instruction that is held
\* back has been fetched, and nothing is merged.
Waits(b) == /\ BufferOK(b) /\ \A j \in 1 .. Len(b.list) : ~ Gap(b, j)
            /\ b.next = IF Len(b.list) = 0 THEN Null ELSE 1
Holds(b, n) == /\ BufferOK(b) /\ \A j \in 1 .. Len(b.list) : ~ Gap(b, j)
               /\ 1 \in 1 .. Len(b.list) /\ b.list[1].n = n /\ b.next = After(b, 1)

WarmingUp ==
    /\ warming = TRUE /\ simComplete = FALSE /\ pipe = <<>> /\ event = NoEvent
    /\ IF lastWarmup = 0 THEN Waits(buffer) ELSE Holds(buffer, lastWarmup)

Feeding ==
    /\ warming = FALSE /\ lastWarmup = 0 /\ Steady(pipe, buffer, event)
    /\ simComplete = FALSE => Straight(pipe, onBadPath)
    /\ simComplete = TRUE => event = NoEvent /\ AllWhole(buffer)

FeedInv ==
    error = "none" =>
        /\ simComplete \in BOOLEAN /\ onBadPath \in BOOLEAN /\ predicted \subseteq Addresses
        /\ WarmingUp \/ Feeding

LEMMA InitFeeds == Init => FeedInv
<1> SUFFICES ASSUME Init PROVE FeedInv
  OBVIOUS
<1>1. /\ buffer = NewBuffer /\ event = NoEvent /\ lastWarmup = 0 /\ simComplete = FALSE
      /\ onBadPath = FALSE /\ warming \in BOOLEAN /\ pipe = <<>> /\ predicted = {0}
  BY DEF Init
<1>2. buffer \in Buffers /\ buffer.list = <<>> /\ buffer.next = Null /\ buffer.uid = 0
  <2>1. <<>> \in Seq(Entries) /\ 0 \in 0 .. StreamSize
    BY Sizes
  <2> QED
    BY <2>1, <1>1 DEF NewBuffer, Buffers, Null
<1>3. Len(buffer.list) = 0 /\ ~\E j \in 1 .. Len(buffer.list) : TRUE
  BY <1>2
<1>4. Typed(buffer)
  BY <1>2, <1>3 DEF Typed, Null
<1>5. BufferOK(buffer)
  BY <1>3, <1>4 DEF BufferOK, Increasing, Linked
<1>6. Waits(buffer) /\ FetchedWhole(buffer)
  BY <1>2, <1>3, <1>5 DEF Waits, FetchedWhole
<1>7. Steady(pipe, buffer, event)
  BY <1>1, <1>5, <1>6, EmptySteady
<1>8. Straight(pipe, onBadPath)
  <2>1. ~\E i \in 1 .. Len(pipe) : TRUE
    BY <1>1
  <2> QED
    BY <2>1 DEF Straight
<1>9. predicted \subseteq Addresses
  BY <1>1 DEF Addresses
<1>10. simComplete \in BOOLEAN /\ onBadPath \in BOOLEAN
  BY <1>1
<1>11. CASE warming = TRUE
  <2>1. WarmingUp
    BY <1>1, <1>6, <1>11 DEF WarmingUp
  <2> QED
    BY <2>1, <1>9, <1>10 DEF FeedInv
<1>12. CASE warming = FALSE
  <2>1. Feeding
    BY <1>1, <1>7, <1>8, <1>12 DEF Feeding
  <2> QED
    BY <2>1, <1>9, <1>10 DEF FeedInv
<1> QED
  BY <1>1, <1>11, <1>12

LEMMA WarmUpFeeds ==
    ASSUME FeedInv, WarmUp, error' = "none"
    PROVE  FeedInv'
<1>1. warming = TRUE \/ warming = FALSE
  BY DEF WarmUp, FeedInv, WarmingUp, Feeding
<1>2. /\ warming /\ error = "none" /\ event' = event /\ pipe' = pipe
      /\ onBadPath' = onBadPath /\ predicted' = predicted
  BY DEF WarmUp
<1>3. /\ onBadPath \in BOOLEAN /\ predicted \subseteq Addresses /\ WarmingUp
  BY <1>2 DEF FeedInv, Feeding
<1>4. /\ simComplete = FALSE /\ pipe = <<>> /\ event = NoEvent
      /\ IF lastWarmup = 0 THEN Waits(buffer) ELSE Holds(buffer, lastWarmup)
  BY <1>3 DEF WarmingUp
<1>5. PICK rel : rel = IF lastWarmup = 0 THEN buffer
                       ELSE CommitInstruction(buffer, Place(buffer, lastWarmup))
  OBVIOUS
<1>6. Waits(rel)
  <2>1. CASE lastWarmup = 0
    BY <2>1, <1>4, <1>5
  <2>2. CASE lastWarmup # 0
    <3>1. /\ BufferOK(buffer) /\ \A j \in 1 .. Len(buffer.list) : ~ Gap(buffer, j)
          /\ 1 \in 1 .. Len(buffer.list) /\ buffer.list[1].n = lastWarmup
          /\ buffer.next = After(buffer, 1)
      BY <2>2, <1>4 DEF Holds
    <3>2. Place(buffer, lastWarmup) = 1
      BY <3>1, PlaceFound
    <3>3. Len(buffer.list) \in Nat /\ Typed(buffer)
      BY <3>1, BufferMembers DEF BufferOK
    <3>4. /\ buffer.next = Null => Len(buffer.list) = 1
          /\ buffer.next # Null => buffer.next = 2 /\ Len(buffer.list) # 1
      BY <3>1, <3>3 DEF After, Null
    <3>5. Fetched(buffer, 1)
      BY <3>1, <3>4 DEF Fetched
    <3>6. /\ BufferOK(rel) /\ Len(rel.list) = Len(buffer.list) - 1
          /\ rel.next = IF buffer.next = Null THEN Null ELSE buffer.next - 1
          /\ \A j \in 1 .. Len(rel.list) :
               j + 1 \in 1 .. Len(buffer.list) /\ (Gap(rel, j) <=> Gap(buffer, j + 1))
      BY <3>1, <3>2, <3>5, <2>2, <1>5, CommitShifts
    <3>7. rel.next = IF Len(rel.list) = 0 THEN Null ELSE 1
      BY <3>3, <3>4, <3>6
    <3> QED
      BY <3>1, <3>6, <3>7 DEF Waits
  <2> QED
    BY <2>1, <2>2
<1>7. PICK r : r = FetchIncomingInstructions(rel, WarmupChunk)
  OBVIOUS
<1>8. BufferOK(rel) /\ Typed(rel) /\ Increasing(rel) /\ Len(rel.list) \in Nat
      /\ rel.next = (IF Len(rel.list) = 0 THEN Null ELSE 1) /\ rel.uid \in Nat
  BY <1>6, BufferMembers DEF Waits, BufferOK
<1>9. Extends(rel, r)
  BY <1>7, <1>8, FetchExtends, Sizes
<1>10. BufferOK(r) /\ Typed(r)
  BY <1>8, <1>9, ExtendsKeeps DEF BufferOK
<1>11. Len(r.list) \in Nat /\ r.uid \in Nat
       /\ \A j \in 1 .. Len(r.list) : r.list[j].n \in Nat /\ r.list[j].n >= 1
  BY <1>10, BufferMembers
<1>12. /\ Len(r.list) = Len(rel.list) + (r.uid - rel.uid) /\ rel.uid <= r.uid
       /\ r.next = IF rel.next = Null /\ rel.uid < r.uid THEN Len(rel.list) + 1 ELSE rel.next
       /\ r.next = Null => r.uid = StreamSize
  BY <1>9 DEF Extends
<1>13. r.next = IF Len(r.list) = 0 THEN Null ELSE 1
  <2>1. CASE Len(rel.list) = 0
    BY <2>1, <1>8, <1>11, <1>12
  <2>2. CASE Len(rel.list) # 0
    BY <2>2, <1>8, <1>11, <1>12 DEF Null
  <2> QED
    BY <2>1, <2>2
<1>14. \A j \in 1 .. Len(r.list) : ~ Gap(r, j)
  <2>1. /\ \A j \in 1 .. Len(rel.list) : Gap(r, j) <=> Gap(rel, j)
        /\ \A j \in Len(rel.list) + 1 .. Len(r.list) : ~ Gap(r, j)
    BY <1>8, <1>9, ExtendsPlaces
  <2>2. \A j \in 1 .. Len(rel.list) : ~ Gap(rel, j)
    BY <1>6 DEF Waits
  <2>3. \A j \in 1 .. Len(r.list) : j \in 1 .. Len(rel.list) \/ j \in Len(rel.list) + 1 .. Len(r.list)
    BY <1>8, <1>11
  <2> QED
    BY <2>1, <2>2, <2>3
<1>15. IF r.next = Null \/ simComplete
       THEN /\ simComplete' = TRUE /\ warming' = FALSE
            /\ lastWarmup' = 0
            /\ buffer' = GetNextFetchHandle(r)
       ELSE /\ warming' = Stream[r.list[r.next].n].warm
            /\ lastWarmup' = IF warming' THEN r.list[r.next].n ELSE 0
            /\ buffer' = IF warming' THEN GetNextFetchHandle(r) ELSE r
            /\ UNCHANGED simComplete
  BY <1>5, <1>7 DEF WarmUp
<1>16. CASE r.next = Null
  <2>1. Len(r.list) = 0 /\ r.uid = StreamSize
    BY <1>12, <1>13, <1>16 DEF Null
  <2>2. buffer' = GetNextFetchHandle(r)
    BY <1>15, <1>16
  <2>3. Alike(r, buffer')
    BY <2>2, <1>10, HandleMoves
  <2>4. BufferOK(buffer')
    BY <2>3, <1>10, AlikeKeeps
  <2>5. ~\E j \in 1 .. Len(buffer'.list) : TRUE
    BY <2>1, <2>3 DEF Alike
  <2>6. FetchedWhole(buffer') /\ AllWhole(buffer')
    BY <2>1, <2>3, <2>5 DEF FetchedWhole, AllWhole, Alike
  <2>7. Steady(pipe', buffer', event')
    BY <2>4, <2>6, <1>2, <1>4, EmptySteady
  <2>8. Feeding'
    BY <2>6, <2>7, <1>2, <1>4, <1>15, <1>16 DEF Feeding
  <2>9. simComplete' = TRUE
    BY <1>15, <1>16
  <2> QED
    BY <2>8, <2>9, <1>2, <1>3 DEF FeedInv
<1>17. CASE r.next # Null
  <2>1. r.next = 1 /\ 1 \in 1 .. Len(r.list)
    BY <1>11, <1>13, <1>17
  <2>2. /\ warming' = Stream[r.list[1].n].warm
        /\ lastWarmup' = IF warming' THEN r.list[1].n ELSE 0
        /\ buffer' = IF warming' THEN GetNextFetchHandle(r) ELSE r
        /\ simComplete' = FALSE
    BY <2>1, <1>4, <1>15, <1>17
  <2>3. r.list[1].n \in 1 .. StreamSize
    BY <2>1, <1>10, BufferMembers, Sizes
  <2>4. warming' \in BOOLEAN
    BY <2>2, <2>3, Sizes DEF Instruction
  <2>5. CASE warming' = TRUE
    <3>1. buffer' = GetNextFetchHandle(r) /\ lastWarmup' = r.list[1].n
      BY <2>2, <2>5
    <3>2. Alike(r, buffer') /\ buffer'.list = r.list /\ buffer'.next = After(r, 1)
      BY <3>1, <2>1, <1>10, <1>17, HandleMoves
    <3>3. BufferOK(buffer') /\ \A j \in 1 .. Len(r.list) : Gap(buffer', j) <=> Gap(r, j)
      BY <3>2, <1>10, AlikeKeeps
    <3>4. Holds(buffer', lastWarmup')
      BY <3>1, <3>2, <3>3, <2>1, <1>14 DEF Holds, After
    <3>5. lastWarmup' # 0
      BY <3>1, <2>3, Sizes
    <3>6. WarmingUp'
      BY <3>4, <3>5, <2>2, <2>5, <1>2, <1>4 DEF WarmingUp
    <3> QED
      BY <3>6, <2>2, <1>2, <1>3 DEF FeedInv
  <2>6. CASE warming' = FALSE
    <3>1. buffer' = r /\ lastWarmup' = 0
      BY <2>2, <2>6
    <3>2. FetchedWhole(r)
      <4>1. ~\E j \in 1 .. Len(r.list) : Fetched(r, j)
        BY <2>1, <1>11, <1>17 DEF Fetched
      <4> QED
        BY <4>1 DEF FetchedWhole
    <3>3. Steady(pipe', buffer', event')
      BY <3>1, <3>2, <1>2, <1>4, <1>10, EmptySteady
    <3>4. Straight(pipe', onBadPath')
      <4>1. ~\E i \in 1 .. Len(pipe') : TRUE
        BY <1>2, <1>4
      <4> QED
        BY <4>1 DEF Straight
    <3>5. Feeding'
      BY <3>1, <3>3, <3>4, <2>2, <2>6 DEF Feeding
    <3> QED
      BY <3>5, <2>2, <1>2, <1>3 DEF FeedInv
  <2> QED
    BY <2>4, <2>5, <2>6
<1> QED
  BY <1>16, <1>17

-----------------------------------------------------------------------------
(* Fetch.                                                                  *)

\* The pending event stays precise when the pipe grows off the path.
LEMMA PendingAppend ==
    ASSUME NEW p, NEW b, NEW e, Steady(p, b, e), NEW x \in Instr,
           x.tid \in {"wrong", "switch"}, NEW q, q = Append(p, x),
           NEW r, \A j \in 1 .. Len(b.list) : r.list[j].n = b.list[j].n,
           \A j \in 1 .. Len(b.list) : Fetched(b, j) => Fetched(r, j),
           b.next # Null => r.next = b.next
    PROVE  Pending(q, r, e)
<1> SUFFICES ASSUME e # NoEvent PROVE Pending(q, r, e)
  BY DEF Pending
<1>1. p \in Seq(Instr) /\ BufferOK(b) /\ Typed(b)
  BY DEF Steady, BufferOK
<1>2. Len(p) \in Nat /\ Len(b.list) \in Nat /\ b.next \in Nat /\ b.next <= Len(b.list)
  BY <1>1, PipeMembers, BufferMembers
<1>3. /\ e.at \in 1 .. Len(p)
      /\ p[e.at].tid \in {"good", "artificial"}
      /\ \A j \in e.at + 1 .. Len(p) : p[j].tid \in {"wrong", "switch"}
      /\ b.next # Null
      /\ Stream[b.list[b.next].n].new
      /\ Stream[b.list[b.next].n].va = e.target
      /\ p[e.at].tid = "good" => Flies(p, b, e.at, b.next - 1)
  BY DEF Steady, Pending
<1>4. /\ Len(q) = Len(p) + 1 /\ q[Len(p) + 1] = x /\ \A i \in 1 .. Len(p) : q[i] = p[i]
  BY <1>1, <1>2
<1>5. e.at \in 1 .. Len(q) /\ q[e.at] = p[e.at]
  BY <1>2, <1>3, <1>4
<1>6. \A j \in e.at + 1 .. Len(q) : q[j].tid \in {"wrong", "switch"}
  <2>1. \A j \in e.at + 1 .. Len(q) : j = Len(p) + 1 \/ (j \in e.at + 1 .. Len(p) /\ j \in 1 .. Len(p))
    BY <1>2, <1>3, <1>4
  <2> QED
    BY <2>1, <1>3, <1>4
<1>7. r.next = b.next /\ r.list[r.next].n = b.list[b.next].n
  <2>1. b.next \in 1 .. Len(b.list)
    BY <1>2, <1>3 DEF Null
  <2> QED
    BY <2>1, <1>3
<1>8. q[e.at].tid = "good" => Flies(q, r, e.at, r.next - 1)
  <2>1. ASSUME Flies(p, b, e.at, b.next - 1) PROVE Flies(q, r, e.at, b.next - 1)
    <3>1. b.next - 1 \in 1 .. Len(b.list) /\ Fetched(b, b.next - 1)
      BY <2>1 DEF Flies, Fetched
    <3>2. Fetched(r, b.next - 1) /\ r.list[b.next - 1].n = b.list[b.next - 1].n
      BY <3>1
    <3> QED
      BY <2>1, <3>2, <1>5 DEF Flies
  <2> QED
    BY <2>1, <1>3, <1>5, <1>7
<1> QED
  BY <1>3, <1>5, <1>6, <1>7, <1>8 DEF Pending

LEMMA StraightAppend ==
    ASSUME NEW p, p \in Seq(Instr), NEW bad, Straight(p, bad), NEW x \in Instr,
           NEW q, q = Append(p, x), NEW now,
           x.tid \in {"wrong", "switch"} \/ ~ bad,
           ~ now => ~ bad /\ x.tid # "wrong"
    PROVE  Straight(q, now)
<1>1. Len(p) \in Nat
  BY PipeMembers
<1>2. /\ Len(q) = Len(p) + 1 /\ q[Len(p) + 1] = x /\ \A i \in 1 .. Len(p) : q[i] = p[i]
  BY <1>1
<1>3. \A i \in 1 .. Len(q) : i = Len(p) + 1 \/ i \in 1 .. Len(p)
  BY <1>1, <1>2
<1>4. ~ bad => \A i \in 1 .. Len(p) : q[i].tid # "wrong"
  BY <1>2 DEF Straight
<1>5. ~ now => \A i \in 1 .. Len(q) : q[i].tid # "wrong"
  BY <1>2, <1>3, <1>4
<1>6. ASSUME NEW i \in 1 .. Len(q), NEW j \in 1 .. Len(q), i < j, q[i].tid = "wrong"
      PROVE  q[j].tid \in {"wrong", "switch"}
  <2>1. i \in 1 .. Len(p)
    BY <1>1, <1>2, <1>6
  <2>2. CASE j \in 1 .. Len(p)
    BY <2>1, <2>2, <1>2, <1>6 DEF Straight
  <2>3. CASE j = Len(p) + 1
    BY <2>1, <2>3, <1>2, <1>4, <1>6
  <2> QED
    BY <2>2, <2>3, <1>3
<1> QED
  BY <1>5, <1>6 DEF Straight

\* What a fetch begins with.
LEMMA FetchBegins ==
    ASSUME FeedInv, CanFetch
    PROVE  /\ error = "none" /\ Feeding /\ simComplete \in BOOLEAN /\ onBadPath \in BOOLEAN
           /\ predicted \subseteq Addresses /\ ReadyFor(buffer, Ready)
<1>1. error = "none" /\ ~ warming
  BY DEF CanFetch
<1>2. /\ Feeding /\ simComplete \in BOOLEAN /\ onBadPath \in BOOLEAN
      /\ predicted \subseteq Addresses
  BY <1>1 DEF FeedInv, WarmingUp
<1>3. BufferOK(buffer) /\ FetchedWhole(buffer)
  BY <1>2 DEF Feeding, Steady
<1>4. ReadyFor(buffer, Ready)
  BY <1>3, ReadyIsReady DEF Ready
<1> QED
  BY <1>1, <1>2, <1>4

LEMMA FetchEndFeeds ==
    ASSUME FeedInv, CanFetch, NEW pc \in predicted, FetchEnd(pc)
    PROVE  FeedInv'
<1>1. /\ Feeding /\ simComplete \in BOOLEAN /\ onBadPath \in BOOLEAN
      /\ predicted \subseteq Addresses /\ ReadyFor(buffer, Ready)
  BY FetchBegins
<1>2. /\ Ready.next = Null \/ simComplete
      /\ simComplete' = TRUE /\ buffer' = GetNextFetchHandle(Ready)
      /\ pipe' = Append(pipe, [tid |-> "artificial", n |-> 0, pc |-> pc])
      /\ predicted' = {pc} /\ onBadPath' = onBadPath /\ event' = event
      /\ warming' = warming /\ lastWarmup' = lastWarmup
  BY DEF FetchEnd, AtEnd, Deliver, warmup
<1>3. /\ warming = FALSE /\ lastWarmup = 0 /\ Steady(pipe, buffer, event)
      /\ simComplete = TRUE => event = NoEvent /\ AllWhole(buffer)
  BY <1>1 DEF Feeding
<1>4. PICK r : r = Ready
  OBVIOUS
<1>5. /\ BufferOK(r) /\ FetchedWhole(r) /\ Len(buffer.list) <= Len(r.list)
      /\ \A j \in 1 .. Len(buffer.list) : r.list[j].n = buffer.list[j].n
      /\ \A j \in 1 .. Len(buffer.list) : Fetched(buffer, j) <=> Fetched(r, j)
      /\ buffer.uid = StreamSize => Len(r.list) = Len(buffer.list)
      /\ r.next = Null => buffer.next = Null /\ AllWhole(r)
      /\ AllWhole(buffer) => AllWhole(r)
  BY <1>1, <1>4 DEF ReadyFor
<1>6. event = NoEvent
  <2>1. CASE simComplete
    BY <2>1, <1>1, <1>3
  <2>2. CASE r.next = Null
    BY <2>2, <1>3, <1>5 DEF Steady, Pending
  <2> QED
    BY <2>1, <2>2, <1>2, <1>4
<1>7. AllWhole(r)
  BY <1>1, <1>2, <1>3, <1>4, <1>5
<1>8. PICK w : w = buffer'
  OBVIOUS
<1>9. Typed(r) /\ r.next \in Nat /\ Len(r.list) \in Nat /\ r.next <= Len(r.list)
      /\ Len(buffer.list) \in Nat
  BY <1>3, <1>5, BufferMembers DEF BufferOK, Steady
<1>10. /\ Alike(r, w) /\ w.list = r.list
       /\ w.next = IF r.next = Null THEN Null ELSE After(r, r.next)
  BY <1>2, <1>4, <1>8, <1>9, HandleMoves
<1>11. BufferOK(w) /\ \A j \in 1 .. Len(r.list) : Whole(w, j) <=> Whole(r, j)
  BY <1>5, <1>10, AlikeKeeps
<1>12. AllWhole(w) /\ FetchedWhole(w)
  BY <1>7, <1>10, <1>11 DEF AllWhole, FetchedWhole, Alike
<1>13. \A j \in 1 .. Len(r.list) : Fetched(r, j) => Fetched(w, j)
  <2>1. CASE r.next = Null
    BY <2>1, <1>10 DEF Fetched
  <2>2. CASE r.next # Null
    <3>1. w.next = Null \/ w.next = r.next + 1
      BY <2>2, <1>10 DEF After
    <3> QED
      BY <2>2, <3>1, <1>9, <1>10 DEF Fetched
  <2> QED
    BY <2>1, <2>2
<1>14. PICK x : x = [tid |-> "artificial", n |-> 0, pc |-> pc]
  OBVIOUS
<1>15. x \in Instr /\ x.tid # "good"
  BY <1>1, <1>14, Sizes DEF Instr
<1>16. Len(buffer.list) <= Len(w.list) /\ \A j \in 1 .. Len(buffer.list) : j \in 1 .. Len(r.list)
  BY <1>5, <1>9, <1>10
<1>17. PICK q : q = Append(pipe, x)
  OBVIOUS
<1>18. Steady(q, w, event)
  <2>1. event \in Events /\ Pending(q, w, event)
    BY <1>6, NoEventIsEvent DEF Pending
  <2>2. \A j \in 1 .. Len(buffer.list) : w.list[j].n = buffer.list[j].n
    BY <1>5, <1>10
  <2>3. \A j \in 1 .. Len(buffer.list) : Fetched(buffer, j) => Fetched(w, j)
    BY <1>5, <1>13, <1>16
  <2>4. buffer.uid = StreamSize => Len(w.list) = Len(buffer.list)
    BY <1>5, <1>10
  <2> QED
    BY <2>1, <2>2, <2>3, <2>4, <1>3, <1>11, <1>12, <1>15, <1>16, <1>17, AppendSteady
<1>19. Steady(pipe', buffer', event')
  BY <1>2, <1>8, <1>14, <1>17, <1>18
<1>20. Feeding'
  BY <1>2, <1>3, <1>6, <1>8, <1>12, <1>19 DEF Feeding
<1>21. predicted' \subseteq Addresses
  BY <1>1, <1>2
<1>22. simComplete' \in BOOLEAN /\ onBadPath' \in BOOLEAN
  BY <1>1, <1>2
<1> QED
  BY <1>20, <1>21, <1>22 DEF FeedInv

\* What a fetch in front of the end of the stream begins with.
LEMMA FetchHandle ==
    ASSUME FeedInv, CanFetch, ~ AtEnd, NEW r, r = Ready
    PROVE  /\ error = "none" /\ warming = FALSE /\ lastWarmup = 0 /\ simComplete = FALSE
           /\ onBadPath \in BOOLEAN /\ predicted \subseteq Addresses
           /\ Steady(pipe, buffer, event) /\ Straight(pipe, onBadPath)
           /\ ReadyFor(buffer, r) /\ BufferOK(r)
           /\ Len(r.list) \in Nat /\ r.next \in 1 .. Len(r.list) /\ r.next # Null
           /\ Handle = r.list[r.next].n /\ Handle \in 1 .. StreamSize
           /\ Stream[Handle].va \in Addresses /\ Stream[Handle].to \in Addresses
<1>1. /\ error = "none" /\ Feeding /\ simComplete \in BOOLEAN /\ onBadPath \in BOOLEAN
      /\ predicted \subseteq Addresses /\ ReadyFor(buffer, r)
  BY FetchBegins
<1>2. r.next # Null /\ simComplete = FALSE
  BY <1>1 DEF AtEnd
<1>3. /\ warming = FALSE /\ lastWarmup = 0 /\ Steady(pipe, buffer, event)
      /\ Straight(pipe, onBadPath)
  BY <1>1, <1>2 DEF Feeding
<1>4. BufferOK(r) /\ Typed(r)
  BY <1>1 DEF ReadyFor, BufferOK
<1>5. r.next \in Nat /\ r.next <= Len(r.list) /\ Len(r.list) \in Nat
  BY <1>4, BufferMembers
<1>6. r.next \in 1 .. Len(r.list)
  BY <1>2, <1>5 DEF Null
<1>7. Handle = r.list[r.next].n
  BY DEF Handle
<1>8. Handle \in 1 .. StreamSize
  BY <1>4, <1>6, <1>7, BufferMembers, Sizes
<1>9. Stream[Handle] \in Instruction
  BY <1>8, Sizes
<1>10. \A i \in Instruction : i.va \in Addresses /\ i.to \in Addresses
  BY DEF Instruction
<1> QED
  BY <1>1, <1>2, <1>3, <1>4, <1>5, <1>6, <1>7, <1>8, <1>9, <1>10

\* Fetch of something that is not of the path leaves nextFetch alone.
LEMMA ReadySteady ==
    ASSUME NEW p, NEW b, NEW e, Steady(p, b, e), NEW r, ReadyFor(b, r),
           NEW x \in Instr, x.tid # "good", NEW q, q = Append(p, x),
           NEW f \in Events, e # NoEvent => f = e, Pending(q, r, f)
    PROVE  Steady(q, r, f)
<1>1. /\ BufferOK(r) /\ FetchedWhole(r) /\ Len(b.list) <= Len(r.list)
      /\ \A j \in 1 .. Len(b.list) : r.list[j].n = b.list[j].n
      /\ \A j \in 1 .. Len(b.list) : Fetched(b, j) => Fetched(r, j)
      /\ b.uid = StreamSize => Len(r.list) = Len(b.list)
  BY DEF ReadyFor
<1> QED
  BY <1>1, AppendSteady

LEMMA FetchJMPFeeds ==
    ASSUME FeedInv, CanFetch, NEW pc \in predicted, FetchJMP(pc)
    PROVE  FeedInv'
<1>1. /\ ~ AtEnd /\ ~ onBadPath /\ event = NoEvent /\ Stream[Handle].new
      /\ PushSystemEvent(Stream[Handle].va)
      /\ simComplete' = simComplete /\ buffer' = Ready
      /\ pipe' = Append(pipe, [tid |-> "artificial", n |-> 0, pc |-> pc])
      /\ predicted' = {Wild} /\ onBadPath' = onBadPath
      /\ warming' = warming /\ lastWarmup' = lastWarmup
  BY DEF FetchJMP, JumpNeeded, Deliver, warmup
<1>2. PICK r : r = Ready
  OBVIOUS
<1>3. /\ error = "none" /\ warming = FALSE /\ lastWarmup = 0 /\ simComplete = FALSE
      /\ onBadPath \in BOOLEAN /\ predicted \subseteq Addresses
      /\ Steady(pipe, buffer, event) /\ Straight(pipe, onBadPath)
      /\ ReadyFor(buffer, r) /\ BufferOK(r)
      /\ Len(r.list) \in Nat /\ r.next \in 1 .. Len(r.list) /\ r.next # Null
      /\ Handle = r.list[r.next].n /\ Handle \in 1 .. StreamSize
      /\ Stream[Handle].va \in Addresses
  BY <1>1, <1>2, FetchHandle
<1>4. PICK x : x = [tid |-> "artificial", n |-> 0, pc |-> pc]
  OBVIOUS
<1>5. x \in Instr /\ x.tid = "artificial"
  BY <1>3, <1>4, Sizes DEF Instr
<1>6. PICK q : q = Append(pipe, x)
  OBVIOUS
<1>7. pipe \in Seq(Instr) /\ Len(pipe) \in Nat
  BY <1>3, PipeMembers DEF Steady
<1>8. Len(q) = Len(pipe) + 1 /\ q[Len(pipe) + 1] = x
  BY <1>5, <1>6, <1>7
<1>9. PICK f : f = [at |-> Len(pipe) + 1, target |-> Stream[Handle].va]
  OBVIOUS
<1>10. event' = f
  BY <1>1, <1>9 DEF PushSystemEvent
<1>11. f.at = Len(pipe) + 1 /\ f.target = Stream[Handle].va
  BY <1>9
<1>12. f \in Events
  BY <1>3, <1>7, <1>9 DEF Events
<1>13. Pending(q, r, f)
  <2>1. f.at \in 1 .. Len(q) /\ q[f.at].tid = "artificial"
    BY <1>5, <1>7, <1>8, <1>11
  <2>2. ~\E i \in f.at + 1 .. Len(q) : TRUE
    BY <1>7, <1>8, <1>11
  <2>3. Stream[r.list[r.next].n].new /\ Stream[r.list[r.next].n].va = f.target
    BY <1>1, <1>3, <1>11
  <2> QED
    BY <2>1, <2>2, <2>3, <1>3 DEF Pending
<1>14. Steady(q, r, f)
  BY <1>1, <1>3, <1>5, <1>6, <1>12, <1>13, ReadySteady
<1>15. Straight(q, onBadPath)
  BY <1>1, <1>3, <1>5, <1>6, <1>7, StraightAppend
<1>16. Steady(pipe', buffer', event') /\ Straight(pipe', onBadPath')
  BY <1>1, <1>2, <1>4, <1>6, <1>10, <1>14, <1>15
<1>17. simComplete' = FALSE /\ warming' = FALSE /\ lastWarmup' = 0
  BY <1>1, <1>3
<1>18. Feeding'
  BY <1>16, <1>17 DEF Feeding
<1>19. predicted' \subseteq Addresses
  BY <1>1 DEF Wild, Addresses
<1>20. onBadPath' \in BOOLEAN
  BY <1>1, <1>3
<1> QED
  BY <1>17, <1>18, <1>19, <1>20 DEF FeedInv

LEMMA FetchBadPathFeeds ==
    ASSUME FeedInv, CanFetch, NEW pc \in predicted, FetchBadPath(pc)
    PROVE  FeedInv'
<1>1. /\ ~ AtEnd /\ event' = event
      /\ simComplete' = simComplete /\ buffer' = Ready
      /\ pipe' = Append(pipe, [tid |-> "wrong", n |-> 0, pc |-> pc])
      /\ predicted' = {Wild, Stream[Handle].va} /\ onBadPath' = TRUE
      /\ warming' = warming /\ lastWarmup' = lastWarmup
  BY DEF FetchBadPath, Deliver, warmup
<1>2. PICK r : r = Ready
  OBVIOUS
<1>3. /\ error = "none" /\ warming = FALSE /\ lastWarmup = 0 /\ simComplete = FALSE
      /\ onBadPath \in BOOLEAN /\ predicted \subseteq Addresses
      /\ Steady(pipe, buffer, event) /\ Straight(pipe, onBadPath)
      /\ ReadyFor(buffer, r) /\ Stream[Handle].va \in Addresses
  BY <1>1, <1>2, FetchHandle
<1>4. PICK x : x = [tid |-> "wrong", n |-> 0, pc |-> pc]
  OBVIOUS
<1>5. x \in Instr /\ x.tid = "wrong"
  BY <1>3, <1>4, Sizes DEF Instr
<1>6. PICK q : q = Append(pipe, x)
  OBVIOUS
<1>7. pipe \in Seq(Instr) /\ event \in Events
  BY <1>3 DEF Steady
<1>8. /\ \A j \in 1 .. Len(buffer.list) : r.list[j].n = buffer.list[j].n
      /\ \A j \in 1 .. Len(buffer.list) : Fetched(buffer, j) => Fetched(r, j)
      /\ buffer.next # Null => r.next = buffer.next
  BY <1>3 DEF ReadyFor
<1>9. Pending(q, r, event)
  BY <1>3, <1>5, <1>6, <1>8, PendingAppend
<1>10. Steady(q, r, event)
  BY <1>3, <1>5, <1>6, <1>7, <1>9, ReadySteady
<1>11. Straight(q, TRUE)
  BY <1>3, <1>5, <1>6, <1>7, StraightAppend
<1>12. Steady(pipe', buffer', event') /\ Straight(pipe', onBadPath')
  BY <1>1, <1>2, <1>4, <1>6, <1>10, <1>11
<1>13. simComplete' = FALSE /\ warming' = FALSE /\ lastWarmup' = 0
  BY <1>1, <1>3
<1>14. Feeding'
  BY <1>12, <1>13 DEF Feeding
<1>15. predicted' \subseteq Addresses
  BY <1>1, <1>3 DEF Wild, Addresses
<1>16. onBadPath' \in BOOLEAN
  BY <1>1
<1> QED
  BY <1>13, <1>14, <1>15, <1>16 DEF FeedInv

LEMMA FetchSwitchFeeds ==
    ASSUME FeedInv, FetchSwitch
    PROVE  FeedInv'
<1>1. /\ CanFetch /\ event' = event /\ onBadPath' = onBadPath
      /\ simComplete' = simComplete /\ buffer' = buffer
      /\ warming' = warming /\ lastWarmup' = lastWarmup
  BY DEF FetchSwitch, warmup, feeder
<1>2. PICK pc \in predicted : /\ pipe' = Append(pipe, [tid |-> "switch", n |-> 0, pc |-> pc])
                              /\ predicted' = {pc}
  BY DEF FetchSwitch
<1>3. /\ Feeding /\ simComplete \in BOOLEAN /\ onBadPath \in BOOLEAN
      /\ predicted \subseteq Addresses
  BY <1>1, FetchBegins
<1>4. /\ warming = FALSE /\ lastWarmup = 0 /\ Steady(pipe, buffer, event)
      /\ simComplete = FALSE => Straight(pipe, onBadPath)
      /\ simComplete = TRUE => event = NoEvent /\ AllWhole(buffer)
  BY <1>3 DEF Feeding
<1>5. PICK x : x = [tid |-> "switch", n |-> 0, pc |-> pc]
  OBVIOUS
<1>6. x \in Instr /\ x.tid = "switch"
  BY <1>2, <1>3, <1>5, Sizes DEF Instr
<1>6a. x.tid # "good" /\ x.tid # "wrong" /\ x.tid \in {"wrong", "switch"}
  BY <1>6
<1>7. PICK q : q = Append(pipe, x)
  OBVIOUS
<1>8. pipe \in Seq(Instr) /\ event \in Events /\ BufferOK(buffer) /\ FetchedWhole(buffer)
      /\ Len(buffer.list) \in Nat
  BY <1>4, BufferMembers DEF Steady, BufferOK
<1>9. Pending(q, buffer, event)
  BY <1>4, <1>6, <1>7, PendingAppend
<1>10. Steady(q, buffer, event)
  <2>1. Len(buffer.list) <= Len(buffer.list)
    BY <1>8
  <2> QED
    BY <2>1, <1>4, <1>6, <1>6a, <1>7, <1>8, <1>9, AppendSteady
<1>11. ASSUME simComplete = FALSE PROVE Straight(q, onBadPath)
  <2>1. Straight(pipe, onBadPath)
    BY <1>4, <1>11
  <2>2. CASE onBadPath = TRUE
    <3>1. Straight(pipe, TRUE)
      BY <2>1, <2>2
    <3>2. Straight(q, TRUE)
      BY <3>1, <1>6, <1>6a, <1>7, <1>8, StraightAppend
    <3> QED
      BY <3>2, <2>2
  <2>3. CASE onBadPath = FALSE
    <3>1. Straight(pipe, FALSE)
      BY <2>1, <2>3
    <3>2. Straight(q, FALSE)
      BY <3>1, <1>6, <1>6a, <1>7, <1>8, StraightAppend
    <3> QED
      BY <3>2, <2>3
  <2> QED
    BY <2>2, <2>3, <1>3
<1>12. pipe' = q
  BY <1>2, <1>5, <1>7
<1>13. Feeding'
  BY <1>1, <1>4, <1>10, <1>11, <1>12 DEF Feeding
<1>14. predicted' \subseteq Addresses
  BY <1>2, <1>3
<1> QED
  BY <1>1, <1>3, <1>13, <1>14 DEF FeedInv

\* The next instruction is taken, and the feeder reads ahead for it.
LEMMA AheadPlaces ==
    ASSUME NEW b, BufferOK(b), FetchedWhole(b), NEW k \in 1 .. Len(b.list), b.next = k,
           NEW a, a = FetchIncomingInstructions(GetNextFetchHandle(b), ExecuteChunk)
    PROVE  /\ BufferOK(a) /\ k \in 1 .. Len(a.list) /\ Len(b.list) <= Len(a.list)
           /\ \A j \in 1 .. Len(b.list) : a.list[j].n = b.list[j].n
           /\ \A j \in 1 .. k - 1 : Whole(a, j)
           /\ a.next = IF k < Len(a.list) THEN k + 1 ELSE Null
           /\ k = Len(a.list) => a.uid = StreamSize
<1>1. Typed(b) /\ Len(b.list) \in Nat /\ b.uid \in Nat /\ k \in Nat /\ k >= 1 /\ k <= Len(b.list)
  BY BufferMembers DEF BufferOK
<1>2. PICK g : g = GetNextFetchHandle(b)
  OBVIOUS
<1>3. Alike(b, g) /\ g.list = b.list /\ g.next = After(b, k)
  <2>1. /\ Alike(b, g) /\ g.list = b.list
        /\ g.next = IF b.next = Null THEN Null ELSE After(b, b.next)
    BY <1>1, <1>2, HandleMoves
  <2>2. b.next # Null
    BY <1>1 DEF Null
  <2> QED
    BY <2>1, <2>2
<1>4. BufferOK(g) /\ \A j \in 1 .. Len(b.list) : Whole(g, j) <=> Whole(b, j)
  BY <1>3, AlikeKeeps
<1>5. Typed(g) /\ Increasing(g) /\ g.uid \in Nat
  BY <1>4, BufferMembers DEF BufferOK
<1>6. Extends(g, a)
  BY <1>2, <1>5, FetchExtends, Sizes
<1>7. BufferOK(a) /\ Typed(a) /\ a.uid \in Nat /\ Len(a.list) \in Nat
  <2>1. BufferOK(a)
    BY <1>4, <1>6, ExtendsKeeps
  <2> QED
    BY <2>1, BufferMembers DEF BufferOK
<1>8. \A j \in 1 .. Len(b.list) : Whole(g, j) => Whole(a, j)
  BY <1>3, <1>5, <1>6, ExtendsPlaces
<1>9. /\ g.uid <= a.uid /\ Len(a.list) = Len(b.list) + (a.uid - g.uid)
      /\ \A j \in 1 .. Len(b.list) : a.list[j].n = b.list[j].n
      /\ a.next = IF g.next = Null /\ g.uid < a.uid THEN Len(b.list) + 1 ELSE g.next
      /\ a.next = Null => a.uid = StreamSize
  BY <1>3, <1>6 DEF Extends
<1>10. Len(b.list) <= Len(a.list) /\ k \in 1 .. Len(a.list)
  BY <1>1, <1>5, <1>7, <1>9
<1>11. ASSUME NEW j \in 1 .. k - 1 PROVE Whole(a, j)
  <2>1. j \in 1 .. Len(b.list) /\ j < b.next
    BY <1>1
  <2>2. Whole(b, j)
    BY <2>1 DEF FetchedWhole, Fetched
  <2> QED
    BY <2>1, <2>2, <1>4, <1>8
<1>12. a.next = IF k < Len(a.list) THEN k + 1 ELSE Null
  <2>1. CASE g.next = Null
    <3>1. k = Len(b.list)
      BY <2>1, <1>1, <1>3, AfterPlace
    <3>2. CASE g.uid < a.uid
      <4>1. k < Len(a.list)
        BY <3>1, <3>2, <1>1, <1>5, <1>7, <1>9
      <4> QED
        BY <2>1, <3>1, <3>2, <4>1, <1>9
    <3>3. CASE ~(g.uid < a.uid)
      <4>1. Len(a.list) = k
        BY <3>1, <3>3, <1>1, <1>5, <1>7, <1>9
      <4> QED
        BY <2>1, <3>3, <4>1, <1>1, <1>9
    <3> QED
      BY <3>2, <3>3
  <2>2. CASE g.next # Null
    <3>1. g.next = k + 1 /\ g.next <= Len(b.list)
      BY <2>2, <1>1, <1>3, AfterPlace
    <3>2. k < Len(a.list)
      BY <3>1, <1>1, <1>7, <1>10
    <3> QED
      BY <2>2, <3>1, <3>2, <1>9
  <2> QED
    BY <2>1, <2>2
<1>13. k = Len(a.list) => a.uid = StreamSize
  BY <1>7, <1>9, <1>12
<1> QED
  BY <1>7, <1>9, <1>10, <1>11, <1>12, <1>13

LEMMA FetchGoodFeeds ==
    ASSUME FeedInv, CanFetch, NEW pc \in predicted, FetchGood(pc)
    PROVE  FeedInv'
<1>1. PICK r : r = Ready
  OBVIOUS
<1>2. PICK k : k = r.next
  OBVIOUS
<1>3. PICK a : a = FetchIncomingInstructions(GetNextFetchHandle(r), ExecuteChunk)
  OBVIOUS
<1>4. PICK c : /\ c = IF Merges(Handle) THEN MergeREPInstrs(a, k) ELSE a
               /\ IF NextIsNew(c, k)
                  THEN /\ buffer' = SetImplicitCommit(c, k)
                       /\ PushSystemEvent(Stream[c.list[k + 1].n].va)
                  ELSE buffer' = c /\ event' = event
  BY <1>1, <1>2, <1>3 DEF FetchGood, Merges
<1>5. /\ ~ AtEnd /\ ~ onBadPath /\ event = NoEvent
      /\ simComplete' = simComplete /\ onBadPath' = onBadPath
      /\ pipe' = Append(pipe, [tid |-> "good", n |-> Handle, pc |-> pc])
      /\ predicted' = Guesses(Handle)
      /\ warming' = warming /\ lastWarmup' = lastWarmup
  BY DEF FetchGood, OffPath, Deliver, warmup
<1>6. /\ error = "none" /\ warming = FALSE /\ lastWarmup = 0 /\ simComplete = FALSE
      /\ onBadPath \in BOOLEAN /\ predicted \subseteq Addresses
      /\ Steady(pipe, buffer, event) /\ Straight(pipe, onBadPath)
      /\ ReadyFor(buffer, r) /\ BufferOK(r)
      /\ Len(r.list) \in Nat /\ k \in 1 .. Len(r.list) /\ k # Null
      /\ Handle = r.list[k].n /\ Handle \in 1 .. StreamSize
      /\ Stream[Handle].va \in Addresses /\ Stream[Handle].to \in Addresses
  BY <1>1, <1>2, <1>5, FetchHandle
<1>7. FetchedWhole(r)
  BY <1>6 DEF ReadyFor
<1>8. /\ BufferOK(a) /\ k \in 1 .. Len(a.list) /\ Len(r.list) <= Len(a.list)
      /\ \A j \in 1 .. Len(r.list) : a.list[j].n = r.list[j].n
      /\ \A j \in 1 .. k - 1 : Whole(a, j)
      /\ a.next = IF k < Len(a.list) THEN k + 1 ELSE Null
      /\ k = Len(a.list) => a.uid = StreamSize
  BY <1>2, <1>3, <1>6, <1>7, AheadPlaces
<1>9. a.list[k].n = Handle
  BY <1>6, <1>8
<1>10. Fed(a, k, c)
  <2>1. /\ Merges(a.list[k].n) => Fed(a, k, MergeREPInstrs(a, k))
        /\ ~ Merges(a.list[k].n) => Fed(a, k, a)
    BY <1>8, MergeFeeds
  <2>2. CASE Merges(Handle)
    BY <2>1, <2>2, <1>4, <1>9
  <2>3. CASE ~ Merges(Handle)
    BY <2>1, <2>3, <1>4, <1>9
  <2> QED
    BY <2>2, <2>3
<1>11. /\ BufferOK(c) /\ Typed(c) /\ k <= Len(c.list) /\ Len(c.list) \in Nat
       /\ \A j \in 1 .. k : c.list[j].n = a.list[j].n
  BY <1>10, BufferMembers DEF Fed, BufferOK
<1>12. k \in Nat /\ k >= 1 /\ k \in 1 .. Len(c.list) /\ k \in Nat \ {0}
  BY <1>6, <1>11
<1>13. /\ Len(buffer.list) <= Len(r.list) /\ Len(buffer.list) \in Nat
       /\ \A j \in 1 .. Len(buffer.list) : r.list[j].n = buffer.list[j].n
       /\ \A j \in 1 .. Len(buffer.list) : Fetched(buffer, j) => Fetched(r, j)
       /\ buffer.uid = StreamSize => Len(r.list) = Len(buffer.list)
  BY <1>6, BufferMembers DEF ReadyFor, Steady, BufferOK
<1>14. \A j \in 1 .. Len(buffer.list) : j <= k => c.list[j].n = buffer.list[j].n
  <2> SUFFICES ASSUME NEW j \in 1 .. Len(buffer.list), j <= k
               PROVE  c.list[j].n = buffer.list[j].n
    OBVIOUS
  <2>1. j \in 1 .. k /\ j \in 1 .. Len(r.list)
    BY <1>6, <1>12, <1>13
  <2> QED
    BY <2>1, <1>8, <1>11, <1>13
<1>15. \A j \in 1 .. Len(buffer.list) : Fetched(buffer, j) => j < k
  BY <1>2, <1>6, <1>13 DEF Fetched
<1>16. buffer.uid = StreamSize => k <= Len(buffer.list)
  BY <1>6, <1>13
<1>17. PICK x : x = [tid |-> "good", n |-> Handle, pc |-> pc]
  OBVIOUS
<1>18. x \in Instr /\ x.tid = "good" /\ x.n = Handle
  <2>1. Handle \in 0 .. StreamSize /\ pc \in Addresses
    BY <1>6, Sizes
  <2> QED
    BY <2>1, <1>17 DEF Instr
<1>19. x.n = c.list[k].n
  BY <1>9, <1>11, <1>12, <1>18
<1>20. PICK q : q = Append(pipe, x)
  OBVIOUS
<1>21. PICK w : w = buffer'
  OBVIOUS
<1>22. Alike(c, w) /\ w.next = c.next
  <2>1. CASE NextIsNew(c, k)
    <3>1. w = SetImplicitCommit(c, k)
      BY <2>1, <1>4, <1>21
    <3> QED
      BY <3>1, <1>11, <1>12, ImplicitAlike
  <2>2. CASE ~ NextIsNew(c, k)
    <3>1. w = c
      BY <2>2, <1>4, <1>21
    <3> QED
      BY <3>1, <1>11 DEF Alike
  <2> QED
    BY <2>1, <2>2
<1>23. PICK f : f = IF NextIsNew(c, k)
                    THEN [at |-> Len(pipe) + 1, target |-> Stream[c.list[k + 1].n].va]
                    ELSE NoEvent
  OBVIOUS
<1>24. event' = f
  <2>1. CASE NextIsNew(c, k)
    BY <2>1, <1>4, <1>5, <1>23 DEF PushSystemEvent
  <2>2. CASE ~ NextIsNew(c, k)
    BY <2>2, <1>4, <1>5, <1>23
  <2> QED
    BY <2>1, <2>2
<1>25. Steady(pipe, buffer, NoEvent)
  BY <1>5, <1>6
<1>26. Steady(q, w, f)
  BY <1>10, <1>12, <1>14, <1>15, <1>16, <1>18, <1>19, <1>20, <1>22, <1>23, <1>25, FeedSteady
<1>27. Straight(q, onBadPath)
  <2>1. x.tid # "wrong"
    BY <1>18
  <2>2. pipe \in Seq(Instr)
    BY <1>6 DEF Steady
  <2> QED
    BY <2>1, <2>2, <1>5, <1>6, <1>18, <1>20, StraightAppend
<1>28. Steady(pipe', buffer', event') /\ Straight(pipe', onBadPath')
  <2>1. pipe' = q
    BY <1>5, <1>17, <1>20
  <2> QED
    BY <2>1, <1>5, <1>21, <1>24, <1>26, <1>27
<1>29. simComplete' = FALSE /\ warming' = FALSE /\ lastWarmup' = 0
  BY <1>5, <1>6
<1>30. Feeding'
  BY <1>28, <1>29 DEF Feeding
<1>31. predicted' \subseteq Addresses
  <2>1. Wild \in Addresses
    BY DEF Wild, Addresses
  <2>2. Guesses(Handle) \subseteq {Stream[Handle].to, Wild}
    BY DEF Guesses
  <2> QED
    BY <2>1, <2>2, <1>5, <1>6
<1>32. onBadPath' \in BOOLEAN
  BY <1>5, <1>6
<1> QED
  BY <1>29, <1>30, <1>31, <1>32 DEF FeedInv

-----------------------------------------------------------------------------
(* Commit and Kill.                                                        *)

\* While something is in the pipe the model is fed.
LEMMA PipeFeeds ==
    ASSUME FeedInv, error = "none", pipe # <<>>
    PROVE  /\ simComplete \in BOOLEAN /\ onBadPath \in BOOLEAN /\ predicted \subseteq Addresses
           /\ warming = FALSE /\ lastWarmup = 0 /\ Steady(pipe, buffer, event)
           /\ simComplete = FALSE => Straight(pipe, onBadPath)
           /\ simComplete = TRUE => event = NoEvent /\ AllWhole(buffer)
           /\ pipe \in Seq(Instr) /\ Len(pipe) \in Nat /\ Len(pipe) >= 1
<1>1. /\ Feeding /\ simComplete \in BOOLEAN /\ onBadPath \in BOOLEAN
      /\ predicted \subseteq Addresses
  BY DEF FeedInv, WarmingUp
<1>2. /\ warming = FALSE /\ lastWarmup = 0 /\ Steady(pipe, buffer, event)
      /\ simComplete = FALSE => Straight(pipe, onBadPath)
      /\ simComplete = TRUE => event = NoEvent /\ AllWhole(buffer)
  BY <1>1 DEF Feeding
<1>3. pipe \in Seq(Instr)
  BY <1>2 DEF Steady
<1>4. Len(pipe) \in Nat /\ Len(pipe) >= 1
  BY <1>3
<1> QED
  BY <1>1, <1>2, <1>3, <1>4

\* The part of the pipe in front of an instruction on the path is on it too.
LEMMA StraightPrefix ==
    ASSUME NEW p, p \in Seq(Instr), NEW bad, Straight(p, bad),
           NEW l \in 0 .. Len(p), NEW q, q = SubSeq(p, 1, l)
    PROVE  /\ Straight(q, bad)
           /\ (\E i \in 1 .. Len(p) : i >= l /\ p[i].tid \in {"good", "artificial"})
              => Straight(q, FALSE)
<1>1. Len(p) \in Nat /\ l \in Nat /\ l <= Len(p)
  BY PipeMembers
<1>2. Len(q) = l /\ \A i \in 1 .. l : q[i] = p[i]
  BY <1>1
<1>3. \A i \in 1 .. l : i \in 1 .. Len(p)
  BY <1>1
<1>4. Straight(q, bad)
  BY <1>2, <1>3 DEF Straight
<1>5. ASSUME NEW i \in 1 .. Len(p), i >= l, p[i].tid \in {"good", "artificial"}
      PROVE  Straight(q, FALSE)
  <2>1. ASSUME NEW j \in 1 .. l, p[j].tid = "wrong" PROVE FALSE
    <3>1. j # i
      BY <2>1, <1>5
    <3>2. j < i /\ j \in 1 .. Len(p)
      BY <3>1, <1>1, <1>5
    <3>3. p[i].tid \in {"wrong", "switch"}
      BY <3>2, <2>1 DEF Straight
    <3> QED
      BY <3>3, <1>5
  <2>2. \A j \in 1 .. Len(q) : q[j].tid # "wrong"
    BY <2>1, <1>2
  <2> QED
    BY <2>2, <1>4 DEF Straight
<1> QED
  BY <1>4, <1>5

LEMMA StraightTail ==
    ASSUME NEW p, p \in Seq(Instr), p # <<>>, NEW bad, Straight(p, bad)
    PROVE  Straight(Tail(p), bad)
<1>1. PICK q : q = Tail(p)
  OBVIOUS
<1>2. Len(p) \in Nat /\ Len(q) = Len(p) - 1 /\ \A i \in 1 .. Len(q) : q[i] = p[i + 1]
  BY <1>1
<1>3. \A i \in 1 .. Len(q) : i + 1 \in 1 .. Len(p)
  BY <1>2
<1>4. ASSUME NEW i \in 1 .. Len(q), NEW j \in 1 .. Len(q), i < j, q[i].tid = "wrong"
      PROVE  q[j].tid \in {"wrong", "switch"}
  <2>1. i + 1 < j + 1
    BY <1>2, <1>4
  <2> QED
    BY <2>1, <1>2, <1>3, <1>4 DEF Straight
<1>5. ~ bad => \A i \in 1 .. Len(q) : q[i].tid # "wrong"
  BY <1>2, <1>3 DEF Straight
<1> QED
  BY <1>1, <1>4, <1>5 DEF Straight

\* Where the model goes on is an address.
LEMMA GoesSomewhere ==
    ASSUME Steady(pipe, buffer, event), NEW i \in 1 .. Len(pipe)
    PROVE  GoesTo(i) \in Addresses /\ pipe[i].pc \in Addresses
<1>1. pipe \in Seq(Instr)
  BY DEF Steady
<1>2. pipe[i] \in Instr
  BY <1>1, PipeMembers
<1>3. pipe[i].pc \in Addresses
  BY <1>2 DEF Instr
<1>4. ASSUME pipe[i].tid = "good" PROVE Stream[pipe[i].n].to \in Addresses
  <2>1. PICK k \in 1 .. Len(buffer.list) : Flies(pipe, buffer, i, k)
    BY <1>4 DEF Steady, InFlight
  <2>2. buffer.list[k].n = pipe[i].n
    BY <2>1 DEF Flies
  <2>3. pipe[i].n \in 1 .. StreamSize
    <3>1. Typed(buffer)
      BY DEF Steady, BufferOK
    <3>2. buffer.list[k].n \in Nat /\ buffer.list[k].n >= 1 /\ buffer.list[k].n <= StreamSize
      BY <3>1, BufferMembers
    <3> QED
      BY <3>2, <2>2, Sizes
  <2>4. Stream[pipe[i].n] \in Instruction
    BY <2>3, Sizes
  <2> QED
    BY <2>4 DEF Instruction
<1> QED
  BY <1>3, <1>4 DEF GoesTo

\* When all is merged, it stays so when something is committed.
LEMMA CommitWhole ==
    ASSUME NEW p, NEW b, NEW e, Steady(p, b, e), p # <<>>, AllWhole(b),
           NEW r, r = IF p[1].tid # "good" THEN b
                      ELSE CommitInstruction(b, Place(b, p[1].n))
    PROVE  AllWhole(r)
<1>1. CASE p[1].tid # "good"
  BY <1>1
<1>2. CASE p[1].tid = "good"
  <2>1. p \in Seq(Instr) /\ BufferOK(b)
    BY DEF Steady
  <2>2. 1 \in 1 .. Len(p)
    BY <2>1
  <2>3. PICK k \in 1 .. Len(b.list) : Flies(p, b, 1, k)
    BY <2>2, <1>2 DEF Steady, InFlight
  <2>4. Place(b, p[1].n) = k /\ Fetched(b, k)
    BY <2>2, <2>3, Places DEF Flies
  <2>5. r = CommitInstruction(b, k)
    BY <2>4, <1>2
  <2>6. /\ r.uid = b.uid
        /\ \A j \in 1 .. Len(r.list) : /\ j + k \in 1 .. Len(b.list)
                                       /\ Whole(r, j) <=> Whole(b, j + k)
    BY <2>1, <2>4, <2>5, CommitShifts
  <2> QED
    BY <2>6 DEF AllWhole
<1> QED
  BY <1>1, <1>2

LEMMA CommitFeeds ==
    ASSUME FeedInv, Commit, error' = "none"
    PROVE  FeedInv'
<1>1. /\ pipe # <<>> /\ error = "none" /\ event.at # 1
      /\ buffer' = Commits(buffer) /\ pipe' = Tail(pipe)
      /\ predicted' = IF Len(pipe) = 1 /\ pipe[1].tid = "good" THEN {GoesTo(1)} ELSE predicted
      /\ event' = [event EXCEPT !.at = IF @ = 0 THEN 0 ELSE @ - 1]
      /\ onBadPath' = onBadPath /\ simComplete' = simComplete
      /\ warming' = warming /\ lastWarmup' = lastWarmup
  BY DEF Commit, warmup
<1>2. /\ simComplete \in BOOLEAN /\ onBadPath \in BOOLEAN /\ predicted \subseteq Addresses
      /\ warming = FALSE /\ lastWarmup = 0 /\ Steady(pipe, buffer, event)
      /\ simComplete = FALSE => Straight(pipe, onBadPath)
      /\ simComplete = TRUE => event = NoEvent /\ AllWhole(buffer)
      /\ pipe \in Seq(Instr) /\ Len(pipe) \in Nat /\ Len(pipe) >= 1
  BY <1>1, PipeFeeds
<1>3. PICK r : /\ r = IF pipe[1].tid # "good" THEN buffer
                      ELSE CommitInstruction(buffer, Place(buffer, pipe[1].n))
               /\ buffer' = r
  BY <1>1 DEF Commits
<1>4. PICK f : f = [event EXCEPT !.at = IF @ = 0 THEN 0 ELSE @ - 1] /\ event' = f
  BY <1>1
<1>5. Steady(Tail(pipe), r, f)
  BY <1>1, <1>2, <1>3, <1>4, CommitSteady
<1>6. Steady(pipe', buffer', event')
  BY <1>1, <1>3, <1>4, <1>5
<1>7. simComplete = FALSE => Straight(pipe', onBadPath')
  BY <1>1, <1>2, StraightTail
<1>8. ASSUME simComplete = TRUE PROVE event' = NoEvent /\ AllWhole(buffer')
  <2>1. event = NoEvent /\ AllWhole(buffer)
    BY <1>2, <1>8
  <2>2. AllWhole(r)
    BY <2>1, <1>1, <1>2, <1>3, CommitWhole
  <2>3. f = NoEvent
    BY <2>1, <1>4 DEF NoEvent
  <2> QED
    BY <2>2, <2>3, <1>3, <1>4
<1>9. Feeding'
  BY <1>1, <1>2, <1>6, <1>7, <1>8 DEF Feeding
<1>10. predicted' \subseteq Addresses
  <2>1. 1 \in 1 .. Len(pipe)
    BY <1>2
  <2>2. GoesTo(1) \in Addresses
    BY <2>1, <1>2, GoesSomewhere
  <2> QED
    BY <2>2, <1>1, <1>2
<1> QED
  BY <1>1, <1>2, <1>9, <1>10 DEF FeedInv

\* What is whole stays whole when only nextFetch moves.
LEMMA RewindWhole ==
    ASSUME NEW p, NEW b, NEW e, Steady(p, b, e), NEW i \in 1 .. Len(p), p[i].tid = "good",
           AllWhole(b)
    PROVE  /\ AllWhole(SetNextFetch(b, Place(b, p[i].n)))
           /\ AllWhole(GetNextFetchHandle(SetNextFetch(b, Place(b, p[i].n))))
<1>1. BufferOK(b) /\ Typed(b)
  BY DEF Steady, BufferOK
<1>2. PICK k \in 1 .. Len(b.list) : Flies(p, b, i, k)
  BY DEF Steady, InFlight
<1>3. Place(b, p[i].n) = k
  BY <1>2, Places
<1>4. k \in Nat /\ k <= Len(b.list)
  BY <1>1, BufferMembers
<1>5. PICK r : r = SetNextFetch(b, k)
  OBVIOUS
<1>6. Alike(b, r)
  BY <1>1, <1>4, <1>5, NextMoves DEF SetNextFetch
<1>7. PICK s : s = GetNextFetchHandle(r)
  OBVIOUS
<1>8. Alike(r, s)
  BY <1>6, <1>7, HandleMoves DEF Alike
<1>9. BufferOK(r) /\ \A j \in 1 .. Len(b.list) : Whole(r, j) <=> Whole(b, j)
  BY <1>1, <1>6, AlikeKeeps
<1>10. \A j \in 1 .. Len(r.list) : Whole(s, j) <=> Whole(r, j)
  BY <1>8, <1>9, AlikeKeeps
<1>11. AllWhole(r)
  BY <1>6, <1>9 DEF AllWhole, Alike
<1>12. AllWhole(s)
  BY <1>8, <1>10, <1>11 DEF AllWhole, Alike
<1> QED
  BY <1>3, <1>5, <1>7, <1>11, <1>12

\* What is behind a good instruction is squashed.
LEMMA KillBehindFeeds ==
    ASSUME FeedInv, error = "none", NEW i \in 1 .. Len(pipe), pipe # <<>>,
           pipe[i].tid = "good", Kill(i, TRUE, FALSE), pipe' = SubSeq(pipe, 1, i),
           predicted' = {GoesTo(i)}, UNCHANGED warmup
    PROVE  FeedInv'
<1>1. /\ simComplete \in BOOLEAN /\ onBadPath \in BOOLEAN /\ predicted \subseteq Addresses
      /\ warming = FALSE /\ lastWarmup = 0 /\ Steady(pipe, buffer, event)
      /\ simComplete = FALSE => Straight(pipe, onBadPath)
      /\ simComplete = TRUE => event = NoEvent /\ AllWhole(buffer)
      /\ pipe \in Seq(Instr) /\ Len(pipe) \in Nat /\ Len(pipe) >= 1
  BY PipeFeeds
<1>2. warming' = FALSE /\ lastWarmup' = 0
  BY <1>1 DEF warmup
<1>3. /\ buffer' = GetNextFetchHandle(SetNextFetch(buffer, Place(buffer, pipe[i].n)))
      /\ onBadPath' = FALSE /\ simComplete' = simComplete
      /\ event' = IF event.at > i THEN NoEvent ELSE event
  BY DEF Kill, Rewound, EventAfterKill
<1>4. PICK r : /\ r = GetNextFetchHandle(SetNextFetch(buffer, Place(buffer, pipe[i].n)))
               /\ buffer' = r
  BY <1>3
<1>5. PICK f : f = (IF event.at > i THEN NoEvent ELSE event) /\ event' = f
  BY <1>3
<1>6. Steady(SubSeq(pipe, 1, i), r, f)
  BY <1>1, <1>4, <1>5, SquashBehind
<1>7. Steady(pipe', buffer', event')
  BY <1>4, <1>5, <1>6
<1>8. ASSUME simComplete' = FALSE PROVE Straight(pipe', onBadPath')
  <2>1. Straight(pipe, onBadPath)
    BY <1>1, <1>3, <1>8
  <2>2. i \in 0 .. Len(pipe) /\ i >= i
    BY <1>1
  <2>3. Straight(pipe', FALSE)
    BY <2>1, <2>2, <1>1, StraightPrefix
  <2> QED
    BY <2>3, <1>3
<1>9. ASSUME simComplete' = TRUE PROVE event' = NoEvent /\ AllWhole(buffer')
  <2>1. event = NoEvent /\ AllWhole(buffer)
    BY <1>1, <1>3, <1>9
  <2>2. AllWhole(r)
    BY <2>1, <1>1, <1>4, RewindWhole
  <2> QED
    BY <2>1, <2>2, <1>4, <1>5
<1>10. Feeding'
  BY <1>2, <1>7, <1>8, <1>9 DEF Feeding
<1>11. predicted' \subseteq Addresses
  BY <1>1, GoesSomewhere
<1>12. simComplete' \in BOOLEAN /\ onBadPath' \in BOOLEAN
  BY <1>1, <1>3
<1> QED
  BY <1>10, <1>11, <1>12 DEF FeedInv

LEMMA ResteerFeeds ==
    ASSUME FeedInv, Resteer
    PROVE  FeedInv'
<1>1. error = "none" /\ UNCHANGED warmup
  BY DEF Resteer
<1>2. PICK i \in DOMAIN pipe :
        /\ Mispredicted(i) /\ Kill(i, TRUE, FALSE)
        /\ pipe' = SubSeq(pipe, 1, i) /\ predicted' = {GoesTo(i)}
  BY DEF Resteer
<1>3. pipe[i].tid = "good"
  BY <1>2 DEF Mispredicted
<1>4. pipe # <<>>
  BY <1>2
<1>5. i \in 1 .. Len(pipe)
  BY <1>1, <1>2, <1>4, PipeFeeds
<1> QED
  BY <1>1, <1>2, <1>3, <1>4, <1>5, KillBehindFeeds

LEMMA TrapInsideFeeds ==
    ASSUME FeedInv, TrapInside
    PROVE  FeedInv'
<1>1. UNCHANGED warmup
  BY DEF TrapInside
<1>2. PICK i \in 1 .. Window :
        /\ MayTrap(i) /\ pipe[i].tid = "good" /\ Kill(i, TRUE, FALSE)
        /\ pipe' = SubSeq(pipe, 1, i) /\ predicted' = {GoesTo(i)}
  BY DEF TrapInside
<1>3. error = "none" /\ i \in DOMAIN pipe
  BY <1>2 DEF MayTrap
<1>4. pipe # <<>>
  BY <1>3
<1>5. i \in 1 .. Len(pipe)
  BY <1>3, <1>4, PipeFeeds
<1> QED
  BY <1>1, <1>2, <1>3, <1>4, <1>5, KillBehindFeeds

LEMMA TrapFeeds ==
    ASSUME FeedInv, Trap
    PROVE  FeedInv'
<1>1. UNCHANGED warmup
  BY DEF Trap
<1>2. PICK i \in 1 .. Window :
        /\ MayTrap(i) /\ pipe[i].tid # "wrong" /\ Kill(i, FALSE, TRUE)
        /\ pipe' = SubSeq(pipe, 1, i - 1) /\ predicted' = {pipe[i].pc}
  BY DEF Trap
<1>3. error = "none" /\ i \in DOMAIN pipe /\ pipe[i].tid # "switch"
  BY <1>2 DEF MayTrap
<1>4. pipe # <<>>
  BY <1>3
<1>5. /\ simComplete \in BOOLEAN /\ onBadPath \in BOOLEAN /\ predicted \subseteq Addresses
      /\ warming = FALSE /\ lastWarmup = 0 /\ Steady(pipe, buffer, event)
      /\ simComplete = FALSE => Straight(pipe, onBadPath)
      /\ simComplete = TRUE => event = NoEvent /\ AllWhole(buffer)
      /\ pipe \in Seq(Instr) /\ Len(pipe) \in Nat /\ Len(pipe) >= 1
  BY <1>3, <1>4, PipeFeeds
<1>6. i \in 1 .. Len(pipe)
  BY <1>3, <1>5
<1>7. pipe[i].tid \in {"good", "artificial"}
  <2>1. pipe[i] \in Instr
    BY <1>5, <1>6, PipeMembers
  <2>2. pipe[i].tid \in {"good", "wrong", "artificial", "switch"}
    BY <2>1 DEF Instr
  <2> QED
    BY <2>2, <1>2, <1>3
<1>8. warming' = FALSE /\ lastWarmup' = 0
  BY <1>1, <1>5 DEF warmup
<1>9. /\ buffer' = IF pipe[i].tid = "good"
                   THEN SetNextFetch(buffer, Place(buffer, pipe[i].n)) ELSE buffer
      /\ onBadPath' = FALSE /\ simComplete' = simComplete
      /\ event' = IF event.at > i \/ event.at = i THEN NoEvent ELSE event
  BY <1>2 DEF Kill, Rewound, EventAfterKill
<1>10. PICK r : /\ r = IF pipe[i].tid = "good"
                       THEN SetNextFetch(buffer, Place(buffer, pipe[i].n)) ELSE buffer
                /\ buffer' = r
  BY <1>9
<1>11. PICK f : f = (IF event.at > i \/ event.at = i THEN NoEvent ELSE event) /\ event' = f
  BY <1>9
<1>12. Steady(SubSeq(pipe, 1, i - 1), r, f)
  BY <1>5, <1>6, <1>7, <1>10, <1>11, SquashFrom
<1>13. Steady(pipe', buffer', event')
  BY <1>2, <1>10, <1>11, <1>12
<1>14. ASSUME simComplete' = FALSE PROVE Straight(pipe', onBadPath')
  <2>1. Straight(pipe, onBadPath)
    BY <1>5, <1>9, <1>14
  <2>2. i - 1 \in 0 .. Len(pipe) /\ i >= i - 1
    BY <1>5, <1>6
  <2>3. Straight(SubSeq(pipe, 1, i - 1), FALSE)
    BY <2>1, <2>2, <1>5, <1>6, <1>7, StraightPrefix
  <2> QED
    BY <2>3, <1>2, <1>9
<1>15. ASSUME simComplete' = TRUE PROVE event' = NoEvent /\ AllWhole(buffer')
  <2>1. event = NoEvent /\ AllWhole(buffer)
    BY <1>5, <1>9, <1>15
  <2>2. AllWhole(r)
    <3>1. CASE pipe[i].tid = "good"
      BY <3>1, <2>1, <1>5, <1>6, <1>10, RewindWhole
    <3>2. CASE pipe[i].tid # "good"
      BY <3>2, <2>1, <1>10
    <3> QED
      BY <3>1, <3>2
  <2> QED
    BY <2>1, <2>2, <1>10, <1>11
<1>16. Feeding'
  BY <1>8, <1>13, <1>14, <1>15 DEF Feeding
<1>17. predicted' \subseteq Addresses
  BY <1>2, <1>5, <1>6, GoesSomewhere
<1>18. simComplete' \in BOOLEAN /\ onBadPath' \in BOOLEAN
  BY <1>5, <1>9
<1> QED
  BY <1>16, <1>17, <1>18 DEF FeedInv

LEMMA KillWrongPathFeeds ==
    ASSUME FeedInv, KillWrongPath
    PROVE  FeedInv'
<1>1. UNCHANGED warmup /\ predicted' = {Wild} \cup predicted
  BY DEF KillWrongPath
<1>2. PICK i \in 1 .. Window :
        /\ MayTrap(i) /\ pipe[i].tid = "wrong" /\ Kill(i, TRUE, FALSE)
        /\ pipe' = SubSeq(pipe, 1, i)
  BY DEF KillWrongPath
<1>3. error = "none" /\ i \in DOMAIN pipe
  BY <1>2 DEF MayTrap
<1>4. pipe # <<>>
  BY <1>3
<1>5. /\ simComplete \in BOOLEAN /\ onBadPath \in BOOLEAN /\ predicted \subseteq Addresses
      /\ warming = FALSE /\ lastWarmup = 0 /\ Steady(pipe, buffer, event)
      /\ simComplete = FALSE => Straight(pipe, onBadPath)
      /\ simComplete = TRUE => event = NoEvent /\ AllWhole(buffer)
      /\ pipe \in Seq(Instr) /\ Len(pipe) \in Nat /\ Len(pipe) >= 1
  BY <1>3, <1>4, PipeFeeds
<1>6. i \in 1 .. Len(pipe)
  BY <1>3, <1>5
<1>7. /\ buffer' = buffer /\ onBadPath' = onBadPath /\ simComplete' = simComplete
      /\ event' = event /\ warming' = FALSE /\ lastWarmup' = 0
  BY <1>1, <1>2, <1>5 DEF Kill, feeder, warmup
<1>8. Steady(SubSeq(pipe, 1, i), buffer, event)
  BY <1>2, <1>5, <1>6, SquashWrong
<1>9. ASSUME simComplete = FALSE PROVE Straight(pipe', onBadPath')
  <2>1. i \in 0 .. Len(pipe) /\ Straight(pipe, onBadPath)
    BY <1>5, <1>6, <1>9
  <2>2. Straight(SubSeq(pipe, 1, i), onBadPath)
    BY <2>1, <1>5, StraightPrefix
  <2> QED
    BY <2>2, <1>2, <1>7
<1>10. Steady(pipe', buffer', event')
  BY <1>2, <1>7, <1>8
<1>11. simComplete = TRUE => event' = NoEvent /\ AllWhole(buffer')
  BY <1>5, <1>7
<1>12. Feeding'
  BY <1>7, <1>9, <1>10, <1>11 DEF Feeding
<1>13. predicted' \subseteq Addresses
  BY <1>1, <1>5 DEF Wild, Addresses
<1>14. simComplete' \in BOOLEAN /\ onBadPath' \in BOOLEAN
  BY <1>5, <1>7
<1> QED
  BY <1>12, <1>13, <1>14 DEF FeedInv

\* The oldest instruction commits with nothing behind it.
LEMMA CommitAlone ==
    ASSUME NEW p, NEW b, NEW e, Steady(p, b, e), 1 \in 1 .. Len(p), p[1].tid = "good",
           NEW r, r = CommitInstruction(b, Place(b, p[1].n))
    PROVE  BufferOK(r) /\ FetchedWhole(r)
<1>1. BufferOK(b) /\ FetchedWhole(b)
  BY DEF Steady
<1>2. PICK k \in 1 .. Len(b.list) : Flies(p, b, 1, k)
  BY DEF Steady, InFlight
<1>3. Place(b, p[1].n) = k /\ Fetched(b, k)
  BY <1>2, Places DEF Flies
<1>4. /\ BufferOK(r)
      /\ \A j \in 1 .. Len(r.list) : /\ j + k \in 1 .. Len(b.list)
                                     /\ Whole(r, j) <=> Whole(b, j + k)
                                     /\ Fetched(r, j) <=> Fetched(b, j + k)
  BY <1>1, <1>3, CommitShifts
<1> QED
  BY <1>1, <1>4 DEF FetchedWhole

LEMMA TakeInterruptFeeds ==
    ASSUME FeedInv, TakeInterrupt, error' = "none"
    PROVE  FeedInv'
<1>1. /\ pipe # <<>> /\ error = "none" /\ event.at = 1
      /\ predicted' = {event.target} /\ event' = NoEvent /\ onBadPath' = FALSE
      /\ pipe' = <<>> /\ simComplete' = simComplete
      /\ warming' = warming /\ lastWarmup' = lastWarmup
  BY DEF TakeInterrupt, Handled, warmup
<1>2. PICK b : /\ b = Rewound(pipe[1], TRUE)
               /\ \/ buffer' = b
                  \/ pipe[1].tid = "good" /\ buffer' = Commits(b)
  <2>1. PICK b \in {Rewound(pipe[1], TRUE)}, bypass \in BOOLEAN :
          IF bypass \/ pipe[1].tid # "good"
          THEN buffer' = b /\ UNCHANGED <<retired, error>>
          ELSE buffer' = IF error' = "none" THEN Commits(b) ELSE b
    BY DEF TakeInterrupt
  <2>2. buffer' = b \/ (pipe[1].tid = "good" /\ buffer' = Commits(b))
    BY <2>1
  <2> QED
    BY <2>1, <2>2
<1>3. /\ simComplete \in BOOLEAN /\ onBadPath \in BOOLEAN /\ predicted \subseteq Addresses
      /\ warming = FALSE /\ lastWarmup = 0 /\ Steady(pipe, buffer, event)
      /\ simComplete = TRUE => event = NoEvent /\ AllWhole(buffer)
      /\ pipe \in Seq(Instr) /\ Len(pipe) \in Nat /\ Len(pipe) >= 1
  BY <1>1, PipeFeeds
<1>4. simComplete = FALSE /\ event \in Events
  <2>1. event # NoEvent
    BY <1>1, NoEventIsEvent
  <2> QED
    BY <2>1, <1>3 DEF Steady
<1>5. 1 \in 1 .. Len(pipe)
  BY <1>3
<1>6. PICK p : p = SubSeq(pipe, 1, 1)
  OBVIOUS
<1>7. Len(p) = 1 /\ p[1] = pipe[1]
  BY <1>3, <1>6
<1>8. pipe[1].tid = "good" => Steady(p, b, event)
  <2> SUFFICES ASSUME pipe[1].tid = "good" PROVE Steady(p, b, event)
    OBVIOUS
  <2>1. b = GetNextFetchHandle(SetNextFetch(buffer, Place(buffer, pipe[1].n)))
    BY <1>2 DEF Rewound
  <2>2. event = IF event.at > 1 THEN NoEvent ELSE event
    BY <1>1
  <2> QED
    BY <2>1, <2>2, <1>3, <1>5, <1>6, SquashBehind
<1>9. BufferOK(b) /\ FetchedWhole(b)
  <2>1. CASE pipe[1].tid = "good"
    BY <2>1, <1>8 DEF Steady
  <2>2. CASE pipe[1].tid # "good"
    <3>1. b = buffer
      BY <2>2, <1>2 DEF Rewound
    <3> QED
      BY <3>1, <1>3 DEF Steady
  <2> QED
    BY <2>1, <2>2
<1>10. PICK r : r = buffer'
  OBVIOUS
<1>11. BufferOK(r) /\ FetchedWhole(r)
  <2>1. CASE r = b
    BY <2>1, <1>9
  <2>2. CASE pipe[1].tid = "good" /\ r = Commits(b)
    <3>1. r = CommitInstruction(b, Place(b, p[1].n))
      BY <2>2, <1>7 DEF Commits
    <3>2. 1 \in 1 .. Len(p) /\ p[1].tid = "good" /\ Steady(p, b, event)
      BY <2>2, <1>7, <1>8
    <3> QED
      BY <3>1, <3>2, CommitAlone
  <2> QED
    BY <2>1, <2>2, <1>2, <1>10
<1>12. Steady(<<>>, r, NoEvent)
  BY <1>11, EmptySteady
<1>13. Steady(pipe', buffer', event')
  BY <1>1, <1>10, <1>12
<1>14. Straight(pipe', onBadPath')
  <2>1. ~\E i \in 1 .. Len(pipe') : TRUE
    BY <1>1
  <2> QED
    BY <2>1 DEF Straight
<1>15. simComplete' = FALSE /\ warming' = FALSE /\ lastWarmup' = 0
  BY <1>1, <1>3, <1>4
<1>16. Feeding'
  BY <1>13, <1>14, <1>15 DEF Feeding
<1>17. predicted' \subseteq Addresses
  <2>1. event.target \in Addresses
    BY <1>4 DEF Events
  <2> QED
    BY <2>1, <1>1
<1>18. onBadPath' \in BOOLEAN
  BY <1>1
<1> QED
  BY <1>15, <1>16, <1>17, <1>18 DEF FeedInv

-----------------------------------------------------------------------------
(* The theorems.                                                           *)

LEMMA NextFeeds == FeedInv /\ [Next]_vars => FeedInv'
<1> SUFFICES ASSUME FeedInv, [Next]_vars, error' = "none" PROVE FeedInv'
  BY DEF FeedInv
<1>1. CASE WarmUp
  BY <1>1, WarmUpFeeds
<1>2. CASE Fetch
  <2>1. CanFetch
    BY <1>2 DEF Fetch
  <2>2. PICK pc \in predicted : FetchEnd(pc) \/ FetchJMP(pc) \/ FetchBadPath(pc) \/ FetchGood(pc)
    BY <1>2 DEF Fetch
  <2> QED
    BY <2>1, <2>2, FetchEndFeeds, FetchJMPFeeds, FetchBadPathFeeds, FetchGoodFeeds
<1>3. CASE FetchSwitch
  BY <1>3, FetchSwitchFeeds
<1>4. CASE Commit
  BY <1>4, CommitFeeds
<1>5. CASE Resteer
  BY <1>5, ResteerFeeds
<1>6. CASE TakeInterrupt
  BY <1>6, TakeInterruptFeeds
<1>7. CASE Trap
  BY <1>7, TrapFeeds
<1>8. CASE TrapInside
  BY <1>8, TrapInsideFeeds
<1>9. CASE KillWrongPath
  BY <1>9, KillWrongPathFeeds
<1>10. CASE UNCHANGED vars
  <2>1. /\ buffer' = buffer /\ onBadPath' = onBadPath /\ event' = event
        /\ simComplete' = simComplete /\ lastWarmup' = lastWarmup /\ warming' = warming
        /\ pipe' = pipe /\ predicted' = predicted /\ error' = error
    BY <1>10 DEF vars, feeder, warmup, model
  <2> QED
    BY <2>1 DEF FeedInv, WarmingUp, Feeding
<1> QED
  BY <1>1, <1>2, <1>3, <1>4, <1>5, <1>6, <1>7, <1>8, <1>9, <1>10 DEF Next

\* As long as no commit has failed the feeder warms up, or its replay buffer,
\* its pending event and what the model has in flight fit each other
\* (WarmUp, FetchMacro, MergeREPInstrs, CommitInstruction, Kill).
THEOREM FeedInvariant == Spec => []FeedInv
<1>1. Init => FeedInv
  BY InitFeeds
<1>2. FeedInv /\ [Next]_vars => FeedInv'
  BY NextFeeds
<1> QED
  BY <1>1, <1>2, PTL DEF Spec

\* A pending interrupt belongs to an instruction in flight or to an injected
\* NOP, nothing of the stream is fed behind it, and the next instruction of
\* the stream is the new sequence it announces (FetchMacro, Kill,
\* HandleSystemEvent), whatever SoftSDV sends.
THEOREM InterruptsArePrecise == Spec => []InterruptIsPrecise
<1>1. FeedInv => InterruptIsPrecise
  <2> SUFFICES ASSUME FeedInv, error = "none", event # NoEvent
               PROVE  /\ event.at \in DOMAIN pipe
                      /\ pipe[event.at].tid \in {"good", "artificial"}
                      /\ \A i \in event.at + 1 .. Len(pipe) : pipe[i].tid \in {"wrong", "switch"}
                      /\ buffer.next # Null
                      /\ LET next == Stream[buffer.list[buffer.next].n]
                         IN next.new /\ next.va = event.target
    BY DEF InterruptIsPrecise
  <2>1. Feeding
    BY DEF FeedInv, WarmingUp
  <2>2. pipe \in Seq(Instr) /\ Pending(pipe, buffer, event)
    BY <2>1 DEF Feeding, Steady
  <2>3. /\ event.at \in 1 .. Len(pipe)
        /\ pipe[event.at].tid \in {"good", "artificial"}
        /\ \A i \in event.at + 1 .. Len(pipe) : pipe[i].tid \in {"wrong", "switch"}
        /\ buffer.next # Null
        /\ Stream[buffer.list[buffer.next].n].new
        /\ Stream[buffer.list[buffer.next].n].va = event.target
    BY <2>2 DEF Pending
  <2>4. event.at \in DOMAIN pipe
    BY <2>2, <2>3
  <2> QED
    BY <2>3, <2>4
<1> QED
  BY <1>1, FeedInvariant, PTL

\* A fetched instruction that a new sequence follows, its own iterations apart,
\* is in front of that sequence.
LEMMA NewFollows ==
    ASSUME NewLeavesREP, NEW b, BufferOK(b), FetchedWhole(b),
           NEW k \in 1 .. Len(b.list), Fetched(b, k), NEW n, n = b.list[k].n,
           NEW m \in n + 1 .. StreamSize, Stream[m].new, MergedInto(n, m - 1)
    PROVE  k < Len(b.list) /\ b.list[k + 1].n = m
<1>1. Typed(b) /\ Increasing(b) /\ Linked(b) /\ Whole(b, k)
  BY DEF BufferOK, FetchedWhole
<1>2. /\ Len(b.list) \in Nat /\ b.uid \in Nat /\ n \in Nat /\ n >= 1 /\ n <= StreamSize
      /\ StreamSize \in Nat /\ \A j \in 1 .. Len(b.list) : b.list[j].n \in Nat
  BY <1>1, BufferMembers, Sizes
<1>3. m \in Nat /\ n < m /\ m <= StreamSize /\ m - 1 \in Nat
  BY <1>2
<1>4. PICK f : f = Following(b, k)
  OBVIOUS
<1>5. f \in Nat /\ n < f /\ (k = Len(b.list) => f = StreamSize + 1)
      /\ (k < Len(b.list) => f = b.list[k + 1].n)
  <2>1. CASE k < Len(b.list)
    <3>1. k + 1 \in 1 .. Len(b.list) /\ k < k + 1 /\ k # Len(b.list)
      BY <2>1, <1>2
    <3>2. b.list[k].n < b.list[k + 1].n
      BY <3>1, <1>1 DEF Increasing
    <3> QED
      BY <3>1, <3>2, <2>1, <1>2, <1>4 DEF Following
  <2>2. CASE ~(k < Len(b.list))
    <3>1. k = Len(b.list)
      BY <2>2, <1>2
    <3>2. f = b.uid + 1 /\ b.uid = StreamSize
      BY <2>2, <1>1, <1>4 DEF Following, Whole
    <3> QED
      BY <3>1, <3>2, <2>2, <1>2
  <2> QED
    BY <2>1, <2>2
<1>6. \A j \in n + 1 .. m - 1 : Merges(n) /\ Same(n, j) /\ Stream[j].rep
  BY DEF MergedInto, Merges, Same
<1>7. ~(f < m)
  <2> SUFFICES ASSUME f < m PROVE FALSE
    OBVIOUS
  <2>1. f \in n + 1 .. m - 1
    BY <1>2, <1>3, <1>5
  <2>2. k < Len(b.list) /\ f = b.list[k + 1].n
    BY <1>2, <1>3, <1>5
  <2>3. ~ Same(n, f)
    BY <2>1, <2>2, <1>1, <1>6 DEF Whole
  <2> QED
    BY <2>1, <2>3, <1>6
<1>8. ~(m < f)
  <2> SUFFICES ASSUME m < f PROVE FALSE
    OBVIOUS
  <2>1. f # n + 1
    BY <1>2, <1>3, <1>5
  <2>2. Merges(n) /\ \A j \in n + 1 .. f - 1 : Same(n, j)
    BY <2>1, <1>1, <1>4 DEF Linked, Gap
  <2>3. m \in n + 1 .. f - 1
    BY <1>3, <1>2, <1>5
  <2>4. Stream[m].va = Stream[n].va /\ ~ Stream[m].warm
    BY <2>2, <2>3 DEF Same
  <2>5. Stream[m - 1].va = Stream[n].va /\ Stream[m - 1].rep
    <3>1. CASE m - 1 = n
      BY <3>1, <2>2 DEF Merges
    <3>2. CASE m - 1 # n
      <4>1. m - 1 \in n + 1 .. m - 1
        <5>1. n \in Nat /\ m - 1 \in Nat /\ n <= m - 1
          BY <1>2, <1>3
        <5>2. \A x, y \in Nat : x <= y /\ y # x => y \in x + 1 .. y
          OBVIOUS
        <5> QED
          BY <5>1, <5>2, <3>2
      <4> QED
        BY <4>1, <1>6 DEF Same
    <3> QED
      BY <3>1, <3>2
  <2>6. m \in 2 .. StreamSize
    BY <1>2, <1>3
  <2> QED
    BY <2>4, <2>5, <2>6 DEF NewLeavesREP
<1>9. f = m
  BY <1>3, <1>5, <1>7, <1>8
<1>10. k < Len(b.list)
  BY <1>2, <1>3, <1>5, <1>9
<1> QED
  BY <1>5, <1>9, <1>10

\* No interrupt is missed: an instruction in flight that a new sequence
\* follows has raised its event, however far ahead the feeder had to read and
\* whatever it merged on the way (FetchIncomingInstructions, MergeREPInstrs),
\* unless the new sequence begins at the address of a REP in front of it.
THEOREM InterruptsAreRaised ==
    ASSUME NewLeavesREP
    PROVE  Spec => []InterruptIsRaised
<1>1. FeedInv => InterruptIsRaised
  <2> SUFFICES ASSUME FeedInv, error = "none", NEW i \in DOMAIN pipe, pipe[i].tid = "good",
                      NEW m \in pipe[i].n + 1 .. StreamSize,
                      Stream[m].new, MergedInto(pipe[i].n, m - 1)
               PROVE  event.at = i
    BY DEF InterruptIsRaised
  <2>1. pipe # <<>>
    OBVIOUS
  <2>2. Steady(pipe, buffer, event) /\ pipe \in Seq(Instr)
    BY <2>1, PipeFeeds
  <2>3. i \in 1 .. Len(pipe)
    BY <2>2
  <2>4. BufferOK(buffer) /\ FetchedWhole(buffer) /\ Raised(pipe, buffer, event)
    BY <2>2 DEF Steady
  <2>5. PICK k \in 1 .. Len(buffer.list) : Flies(pipe, buffer, i, k)
    BY <2>2, <2>3 DEF Steady, InFlight
  <2>6. Fetched(buffer, k) /\ buffer.list[k].n = pipe[i].n
    BY <2>5 DEF Flies
  <2>7. k < Len(buffer.list) /\ buffer.list[k + 1].n = m
    BY <2>4, <2>6, NewFollows
  <2> QED
    BY <2>3, <2>4, <2>5, <2>7 DEF Raised
<1> QED
  BY <1>1, FeedInvariant, PTL

-----------------------------------------------------------------------------
(* Nothing is lost.  What FeedInv says of the buffer does not say what     *)
(* became of the instructions in front of nextFetch, and of those in front *)
(* of the buffer; nor why a feeder that has come to the end of the stream  *)
(* stays there.                                                            *)

\* The instruction that is fetched next, and the oldest not committed.
Upcoming(b) == IF b.next = Null THEN b.uid + 1 ELSE b.list[b.next].n
Oldest(b) == IF Len(b.list) = 0 THEN b.uid + 1 ELSE b.list[1].n

\* What has been fetched is in flight, or was bypassed before that was fetched.
Counted(p, b, by) ==
    /\ by \subseteq 1 .. StreamSize
    /\ \A k \in 1 .. Len(b.list) : Fetched(b, k) =>
         b.list[k].n \in by \/ \E i \in 1 .. Len(p) : Flies(p, b, i, k)
    /\ \A m \in by : m < Upcoming(b)
    /\ \A m \in by, i \in 1 .. Len(p) : p[i].tid = "good" => m < p[i].n

\* The model goes on where an instruction goes, or off the path; in that case
\* no instruction of the path comes behind it.
Onward(n, pc) == pc = Stream[n].to \/ pc = Wild
Aligned(p, pred) ==
    /\ \A j \in 1 .. Len(p) - 1 : p[j].tid = "good" => Onward(p[j].n, p[j + 1].pc)
    /\ Len(p) > 0 /\ p[Len(p)].tid = "good" => \A pc \in pred : Onward(p[Len(p)].n, pc)
    /\ \A j \in 1 .. Len(p) - 1 : \A k \in j + 1 .. Len(p) :
         p[j].tid = "good" /\ p[k].tid = "good" => p[j + 1].pc = Stream[p[j].n].to

\* A NOP is injected for an event, until the stream ends.
Injected(p, e) == \A i \in 1 .. Len(p) : p[i].tid = "artificial" => e.at = i

\* Everything in front of the buffer is retired, or merged into what is.
Retires(b, n) == n < Oldest(b) /\ MergedInto(n, Oldest(b) - 1)

Keeping ==
    /\ Retires(buffer, retired)
    /\ warming = TRUE => bypassed = {}
    /\ warming = FALSE =>
         /\ Counted(pipe, buffer, bypassed) /\ Aligned(pipe, predicted)
         /\ simComplete = FALSE => Injected(pipe, event)
         /\ simComplete = TRUE => buffer.next = Null

KeepInv == TypeOK /\ FeedInv /\ (error = "none" => Keeping)

LEMMA FollowingGrows ==
    ASSUME NEW b, BufferOK(b), NEW k \in 1 .. Len(b.list)
    PROVE  Following(b, k) \in Nat /\ b.list[k].n \in Nat /\ b.list[k].n < Following(b, k)
<1>1. Typed(b) /\ Increasing(b)
  BY DEF BufferOK
<1>2. /\ Len(b.list) \in Nat /\ b.uid \in Nat
      /\ \A j \in 1 .. Len(b.list) : b.list[j].n \in Nat
  BY <1>1, BufferMembers
<1>3. CASE k < Len(b.list)
  <2>1. k + 1 \in 1 .. Len(b.list) /\ k < k + 1
    BY <1>2, <1>3
  <2>2. b.list[k].n < b.list[k + 1].n
    BY <2>1, <1>1 DEF Increasing
  <2> QED
    BY <2>1, <2>2, <1>2, <1>3 DEF Following
<1>4. CASE ~(k < Len(b.list))
  <2>1. b.list[k].n <= b.uid
    BY <1>1 DEF Increasing
  <2> QED
    BY <2>1, <1>2, <1>4 DEF Following
<1> QED
  BY <1>3, <1>4

\* The numbers that mark where the buffer begins and goes on.
LEMMA MarksAreNumbers ==
    ASSUME NEW b, BufferOK(b)
    PROVE  Upcoming(b) \in Nat /\ Oldest(b) \in Nat
<1>1. Typed(b)
  BY DEF BufferOK
<1>2. /\ Len(b.list) \in Nat /\ b.uid \in Nat /\ b.next \in Nat /\ b.next <= Len(b.list)
      /\ \A j \in 1 .. Len(b.list) : b.list[j].n \in Nat
  BY <1>1, BufferMembers
<1>3. b.next # Null => b.next \in 1 .. Len(b.list)
  BY <1>2 DEF Null
<1>4. Len(b.list) # 0 => 1 \in 1 .. Len(b.list)
  BY <1>2
<1> QED
  BY <1>2, <1>3, <1>4 DEF Upcoming, Oldest

\* Where SetNextFetch and the GetNextFetchHandle behind it lead.
LEMMA Rewinds ==
    ASSUME NEW b, BufferOK(b), NEW k \in 1 .. Len(b.list),
           NEW s, s = SetNextFetch(b, k), NEW r, r = GetNextFetchHandle(s)
    PROVE  /\ BufferOK(s) /\ s.list = b.list /\ s.uid = b.uid /\ Upcoming(s) = b.list[k].n
           /\ \A j \in 1 .. Len(b.list) : Fetched(s, j) <=> j < k
           /\ BufferOK(r) /\ r.list = b.list /\ r.uid = b.uid /\ Upcoming(r) = Following(b, k)
           /\ r.next = Null <=> k = Len(b.list)
           /\ \A j \in 1 .. Len(b.list) : Fetched(r, j) <=> j <= k
<1>1. Typed(b) /\ Len(b.list) \in Nat /\ k \in Nat /\ k # Null /\ k <= Len(b.list)
  <2>1. Typed(b)
    BY DEF BufferOK
  <2> QED
    BY <2>1, BufferMembers DEF Null
<1>2. Alike(b, s) /\ s.list = b.list /\ s.next = k
  BY <1>1, NextMoves DEF SetNextFetch
<1>3. BufferOK(s) /\ Typed(s) /\ s.uid = b.uid
  BY <1>2, AlikeKeeps DEF Alike
<1>4. Alike(s, r) /\ r.list = b.list /\ r.next = After(b, k)
  <2>1. After(s, k) = After(b, k)
    BY <1>2 DEF After
  <2> QED
    BY <2>1, <1>1, <1>2, <1>3, HandleMoves
<1>5. BufferOK(r) /\ r.uid = b.uid
  BY <1>3, <1>4, AlikeKeeps DEF Alike
<1>6. /\ r.next = Null <=> k = Len(b.list)
      /\ r.next # Null => r.next = k + 1 /\ k < Len(b.list)
  BY <1>1, <1>4 DEF After, Null
<1>7. Upcoming(s) = b.list[k].n /\ Upcoming(r) = Following(b, k)
  <2>1. Upcoming(s) = b.list[k].n
    BY <1>1, <1>2 DEF Upcoming
  <2>2. ASSUME r.next = Null PROVE Upcoming(r) = Following(b, k)
    <3>1. ~(k < Len(b.list))
      BY <2>2, <1>1, <1>6
    <3> QED
      BY <3>1, <2>2, <1>5 DEF Upcoming, Following
  <2>3. ASSUME r.next # Null PROVE Upcoming(r) = Following(b, k)
    BY <2>3, <1>4, <1>6 DEF Upcoming, Following
  <2> QED
    BY <2>1, <2>2, <2>3
<1>8. \A j \in 1 .. Len(b.list) : Fetched(s, j) <=> j < k
  BY <1>1, <1>2 DEF Fetched
<1>9. \A j \in 1 .. Len(b.list) : Fetched(r, j) <=> j <= k
  BY <1>1, <1>4, <1>6 DEF Fetched
<1> QED
  BY <1>2, <1>3, <1>4, <1>5, <1>6, <1>7, <1>8, <1>9

\* When instructions are squashed and nextFetch moves back with them, what is
\* still fetched is accounted for as before, or has been bypassed now.
LEMMA Recount ==
    ASSUME NEW p, p \in Seq(Instr), NEW b, NEW by, Counted(p, b, by),
           NEW l \in 0 .. Len(p), NEW q, q = SubSeq(p, 1, l),
           NEW r, r.list = b.list, NEW on, by \subseteq on, on \subseteq 1 .. StreamSize,
           \A k \in 1 .. Len(b.list) : Fetched(r, k) => Fetched(b, k),
           \A k \in 1 .. Len(b.list) : Fetched(r, k) =>
              b.list[k].n \in on \/ \A j \in l + 1 .. Len(p) : ~ Flies(p, b, j, k),
           \A m \in on : m < Upcoming(r),
           \A m \in on, i \in 1 .. l : p[i].tid = "good" => m < p[i].n
    PROVE  Counted(q, r, on)
<1>1. Len(p) \in Nat /\ l \in Nat /\ l <= Len(p)
  BY PipeMembers
<1>2. Len(q) = l /\ \A i \in 1 .. l : q[i] = p[i]
  BY <1>1
<1>3. ASSUME NEW k \in 1 .. Len(b.list), Fetched(r, k), b.list[k].n \notin on
      PROVE  \E i \in 1 .. l : Flies(q, r, i, k)
  <2>1. PICK i \in 1 .. Len(p) : Flies(p, b, i, k)
    BY <1>3 DEF Counted
  <2>2. ~(i \in l + 1 .. Len(p))
    BY <2>1, <1>3
  <2>3. i \in 1 .. l
    BY <2>2, <1>1
  <2>4. Flies(q, r, i, k)
    BY <2>1, <2>3, <1>2, <1>3 DEF Flies
  <2> QED
    BY <2>3, <2>4
<1> QED
  BY <1>2, <1>3 DEF Counted

\* The oldest instruction leaves the pipe, with what it commits.
LEMMA CommitCounts ==
    ASSUME NEW p, NEW b, NEW e, Steady(p, b, e), p # <<>>, NEW by, Counted(p, b, by),
           NEW r, r = IF p[1].tid # "good" THEN b
                      ELSE CommitInstruction(b, Place(b, p[1].n))
    PROVE  /\ Counted(Tail(p), r, by)
           /\ b.next = Null => r.next = Null
           /\ p[1].tid = "good" =>
                /\ Linked(b) /\ p[1].n \in 1 .. StreamSize
                /\ \E k \in 1 .. Len(b.list) :
                      b.list[k].n = p[1].n /\ Oldest(r) = Following(b, k)
<1>1. p \in Seq(Instr) /\ BufferOK(b) /\ Typed(b) /\ Linked(b) /\ InFlight(p, b)
  BY DEF Steady, BufferOK
<1>2. /\ Len(p) \in Nat /\ 1 \in 1 .. Len(p) /\ Len(b.list) \in Nat /\ b.uid \in Nat
      /\ b.next \in Nat /\ b.next <= Len(b.list)
  BY <1>1, PipeMembers, BufferMembers
<1>3. PICK q : q = Tail(p)
  OBVIOUS
<1>4. /\ Len(q) = Len(p) - 1 /\ \A i \in 1 .. Len(q) : q[i] = p[i + 1] /\ i + 1 \in 1 .. Len(p)
  BY <1>1, <1>2, <1>3
<1>5. \A i \in 1 .. Len(p) : i = 1 \/ (i - 1 \in 1 .. Len(q) /\ (i - 1) + 1 = i)
  BY <1>2, <1>4
<1>6. CASE p[1].tid # "good"
  <2>1. r = b
    BY <1>6
  <2>2. ASSUME NEW k \in 1 .. Len(b.list), Fetched(b, k), b.list[k].n \notin by
        PROVE  \E i \in 1 .. Len(q) : Flies(q, b, i, k)
    <3>1. PICK i \in 1 .. Len(p) : Flies(p, b, i, k)
      BY <2>2 DEF Counted
    <3>2. i - 1 \in 1 .. Len(q) /\ (i - 1) + 1 = i
      BY <3>1, <1>5, <1>6 DEF Flies
    <3>3. q[i - 1] = p[i]
      BY <3>2, <1>4
    <3> QED
      BY <3>1, <3>2, <3>3 DEF Flies
  <2>3. Counted(q, b, by)
    BY <2>2, <1>4 DEF Counted
  <2> QED
    BY <2>1, <2>3, <1>3, <1>6
<1>7. CASE p[1].tid = "good"
  <2>1. PICK k \in 1 .. Len(b.list) : Flies(p, b, 1, k)
    BY <1>1, <1>2, <1>7 DEF InFlight
  <2>2. Place(b, p[1].n) = k
    BY <2>1, <1>2, Places
  <2>3. r = CommitInstruction(b, k) /\ Fetched(b, k) /\ k \in Nat /\ b.list[k].n = p[1].n
    BY <2>1, <2>2, <1>2, <1>7 DEF Flies
  <2>4. /\ BufferOK(r) /\ r.uid = b.uid /\ Len(r.list) = Len(b.list) - k
        /\ r.next = IF b.next = Null THEN Null ELSE b.next - k
        /\ \A j \in 1 .. Len(r.list) :
                /\ j + k \in 1 .. Len(b.list) /\ r.list[j] = b.list[j + k]
                /\ Fetched(r, j) <=> Fetched(b, j + k)
    <3>1. /\ BufferOK(r) /\ r.uid = b.uid /\ Len(r.list) = Len(b.list) - k
          /\ r.next = IF b.next = Null THEN Null ELSE b.next - k
          /\ \A j \in 1 .. Len(r.list) :
                /\ j + k \in 1 .. Len(b.list) /\ r.list[j] = b.list[j + k]
                /\ Gap(r, j) <=> Gap(b, j + k)
                /\ Whole(r, j) <=> Whole(b, j + k)
                /\ Fetched(r, j) <=> Fetched(b, j + k)
      BY <2>3, <1>1, CommitShifts
    <3> QED
      BY <3>1
  <2>5. Upcoming(r) = Upcoming(b)
    <3>1. CASE b.next = Null
      <4>1. r.next = Null
        BY <3>1, <2>4
      <4> QED
        BY <3>1, <4>1, <2>4 DEF Upcoming
    <3>2. CASE b.next # Null
      <4>1. k < b.next
        BY <3>2, <2>3 DEF Fetched
      <4>2. r.next = b.next - k /\ r.next # Null /\ r.next \in 1 .. Len(r.list)
            /\ r.next + k = b.next
        <5>1. \A x, y, z \in Nat : z < x /\ x <= y =>
                x - z # 0 /\ x - z \in 1 .. y - z /\ (x - z) + z = x
          OBVIOUS
        <5>2. r.next = b.next - k /\ Len(r.list) = Len(b.list) - k
          BY <3>2, <2>4
        <5>3. /\ b.next - k # 0 /\ b.next - k \in 1 .. Len(b.list) - k
              /\ (b.next - k) + k = b.next
          BY <5>1, <4>1, <2>3, <1>2
        <5> QED
          BY <5>2, <5>3 DEF Null
      <4>3. PICK j \in 1 .. Len(r.list) : j = r.next
        BY <4>2
      <4>4. r.list[j] = b.list[j + k] /\ j + k = b.next
        BY <4>2, <4>3, <2>4
      <4> QED
        BY <3>2, <4>2, <4>3, <4>4 DEF Upcoming
    <3> QED
      BY <3>1, <3>2
  <2>6. ASSUME NEW j \in 1 .. Len(r.list), Fetched(r, j), r.list[j].n \notin by
        PROVE  \E i \in 1 .. Len(q) : Flies(q, r, i, j)
    <3>1. j + k \in 1 .. Len(b.list) /\ r.list[j] = b.list[j + k] /\ Fetched(b, j + k)
      BY <2>4, <2>6
    <3>2. PICK i \in 1 .. Len(p) : Flies(p, b, i, j + k)
      BY <3>1, <2>6 DEF Counted
    <3>3. i # 1
      <4>1. j + k # k
        BY <2>3
      <4>2. i = 1 => j + k = k
        BY <3>1, <3>2, <2>1, <1>2, Places
      <4> QED
        BY <4>1, <4>2
    <3>4. i - 1 \in 1 .. Len(q) /\ (i - 1) + 1 = i
      BY <3>3, <1>5
    <3>4a. q[i - 1] = p[i]
      BY <3>4, <1>4
    <3>5. Flies(q, r, i - 1, j)
      BY <3>1, <3>2, <3>4, <3>4a, <2>6 DEF Flies
    <3> QED
      BY <3>4, <3>5
  <2>7. Counted(q, r, by)
    BY <2>5, <2>6, <1>4 DEF Counted
  <2>8. Oldest(r) = Following(b, k)
    <3>1. CASE Len(r.list) = 0
      BY <3>1, <2>3, <2>4, <1>2 DEF Oldest, Following
    <3>2. CASE Len(r.list) # 0
      <4>1. 1 \in 1 .. Len(r.list) /\ k < Len(b.list) /\ 1 + k = k + 1
        BY <3>2, <2>3, <2>4, <1>2
      <4>2. r.list[1] = b.list[k + 1]
        BY <4>1, <2>4
      <4> QED
        BY <3>2, <4>1, <4>2 DEF Oldest, Following
    <3> QED
      BY <3>1, <3>2
  <2>9. p[1].n \in 1 .. StreamSize
    <3>1. b.list[k].n \in Nat /\ b.list[k].n >= 1 /\ b.list[k].n <= StreamSize
      BY <1>1, BufferMembers
    <3> QED
      BY <3>1, <2>3, Sizes
  <2> QED
    BY <2>3, <2>4, <2>7, <2>8, <2>9, <1>1, <1>3
<1> QED
  BY <1>6, <1>7

\* Reading ahead leaves the marks alone.
LEMMA ReadCounts ==
    ASSUME NEW p, NEW b, BufferOK(b), NEW by, Counted(p, b, by), NEW r, Extends(b, r)
    PROVE  /\ Counted(p, r, by) /\ Upcoming(r) = Upcoming(b) /\ Oldest(r) = Oldest(b)
           /\ b.next = Null /\ b.uid = StreamSize => r.next = Null
<1>1. Typed(b) /\ Increasing(b) /\ Typed(r)
  BY DEF BufferOK, Extends
<1>2. /\ Len(b.list) \in Nat /\ b.uid \in Nat /\ b.next \in Nat /\ b.next <= Len(b.list)
      /\ Len(r.list) \in Nat /\ r.uid \in Nat /\ r.uid <= StreamSize
  BY <1>1, BufferMembers
<1>3. /\ b.uid <= r.uid /\ Len(r.list) = Len(b.list) + (r.uid - b.uid)
      /\ \A j \in 1 .. Len(b.list) : r.list[j].n = b.list[j].n
      /\ \A j \in Len(b.list) + 1 .. Len(r.list) :
            r.list[j].n = b.uid + (j - Len(b.list))
      /\ r.next = IF b.next = Null /\ b.uid < r.uid THEN Len(b.list) + 1 ELSE b.next
  BY DEF Extends
<1>4. \A j \in 1 .. Len(r.list) : Fetched(r, j) <=> Fetched(b, j)
  BY <1>1, ExtendsPlaces
<1>5. b.uid < r.uid => Len(b.list) + 1 \in Len(b.list) + 1 .. Len(r.list)
  BY <1>2, <1>3
<1>6. b.uid < r.uid => r.list[Len(b.list) + 1].n = b.uid + 1
  <2>1. Len(b.list) + 1 - Len(b.list) = 1
    BY <1>2
  <2> QED
    BY <2>1, <1>3, <1>5
<1>7. Upcoming(r) = Upcoming(b)
  <2>1. CASE b.next # Null
    <3>1. b.next \in 1 .. Len(b.list)
      BY <2>1, <1>2 DEF Null
    <3> QED
      BY <3>1, <2>1, <1>3 DEF Upcoming
  <2>2. CASE b.next = Null /\ b.uid < r.uid
    <3>1. r.next # Null /\ r.next = Len(b.list) + 1
      BY <2>2, <1>2, <1>3 DEF Null
    <3> QED
      BY <3>1, <2>2, <1>6 DEF Upcoming
  <2>3. CASE b.next = Null /\ ~(b.uid < r.uid)
    BY <2>3, <1>2, <1>3 DEF Upcoming
  <2> QED
    BY <2>1, <2>2, <2>3
<1>8. Oldest(r) = Oldest(b)
  <2>1. CASE Len(b.list) # 0
    <3>1. 1 \in 1 .. Len(b.list) /\ Len(r.list) # 0
      BY <2>1, <1>2, <1>3
    <3> QED
      BY <3>1, <2>1, <1>3 DEF Oldest
  <2>2. CASE Len(b.list) = 0 /\ b.uid < r.uid
    <3>1. Len(r.list) # 0 /\ r.list[1].n = b.uid + 1
      BY <2>2, <1>2, <1>3, <1>6
    <3> QED
      BY <3>1, <2>2 DEF Oldest
  <2>3. CASE Len(b.list) = 0 /\ ~(b.uid < r.uid)
    <3>1. Len(r.list) = 0 /\ r.uid = b.uid
      BY <2>3, <1>2, <1>3
    <3> QED
      BY <3>1, <2>3 DEF Oldest
  <2> QED
    BY <2>1, <2>2, <2>3
<1>9. ASSUME NEW j \in 1 .. Len(r.list), Fetched(r, j), r.list[j].n \notin by
      PROVE  \E i \in 1 .. Len(p) : Flies(p, r, i, j)
  <2>1. Fetched(b, j) /\ j \in 1 .. Len(b.list)
    BY <1>4, <1>9 DEF Fetched
  <2>2. r.list[j].n = b.list[j].n
    BY <2>1, <1>3
  <2>3. PICK i \in 1 .. Len(p) : Flies(p, b, i, j)
    BY <2>1, <2>2, <1>9 DEF Counted
  <2>4. Flies(p, r, i, j)
    BY <2>2, <2>3, <1>9 DEF Flies
  <2> QED
    BY <2>4
<1>10. Counted(p, r, by)
  BY <1>7, <1>9 DEF Counted
<1>11. b.next = Null /\ b.uid = StreamSize => r.next = Null
  BY <1>2, <1>3
<1> QED
  BY <1>7, <1>8, <1>10, <1>11

\* What is fetched and not of the path is not accounted for.
LEMMA AppendCounts ==
    ASSUME NEW p, p \in Seq(Instr), NEW b, NEW by, Counted(p, b, by),
           NEW x \in Instr, x.tid # "good", NEW q, q = Append(p, x)
    PROVE  Counted(q, b, by)
<1>1. Len(p) \in Nat
  BY PipeMembers
<1>2. Len(q) = Len(p) + 1 /\ q[Len(p) + 1] = x /\ \A i \in 1 .. Len(p) : q[i] = p[i]
  BY <1>1
<1>3. \A i \in 1 .. Len(p) : i \in 1 .. Len(q)
  BY <1>1, <1>2
<1>4. \A i \in 1 .. Len(q) : i = Len(p) + 1 \/ i \in 1 .. Len(p)
  BY <1>1, <1>2
<1>5. ASSUME NEW k \in 1 .. Len(b.list), Fetched(b, k), b.list[k].n \notin by
      PROVE  \E i \in 1 .. Len(q) : Flies(q, b, i, k)
  <2>1. PICK i \in 1 .. Len(p) : Flies(p, b, i, k)
    BY <1>5 DEF Counted
  <2>2. Flies(q, b, i, k) /\ i \in 1 .. Len(q)
    BY <2>1, <1>2, <1>3 DEF Flies
  <2> QED
    BY <2>2
<1>6. ASSUME NEW m \in by, NEW i \in 1 .. Len(q), q[i].tid = "good" PROVE m < q[i].n
  <2>1. i \in 1 .. Len(p) /\ q[i] = p[i]
    BY <1>2, <1>4, <1>6
  <2> QED
    BY <2>1, <1>6 DEF Counted
<1> QED
  BY <1>5, <1>6 DEF Counted

\* An instruction of the path is fetched.
Advanced(b, k, w) ==
    /\ BufferOK(b) /\ k \in 1 .. Len(b.list) /\ b.next = k
    /\ BufferOK(w) /\ k <= Len(w.list)
    /\ w.next = IF k < Len(w.list) THEN k + 1 ELSE Null
    /\ \A j \in 1 .. k : w.list[j].n = b.list[j].n

LEMMA FeedCounts ==
    ASSUME NEW p, p \in Seq(Instr), NEW b, NEW by, Counted(p, b, by),
           NEW k, NEW w, Advanced(b, k, w),
           NEW x \in Instr, x.tid = "good", x.n = b.list[k].n, NEW q, q = Append(p, x)
    PROVE  Counted(q, w, by) /\ Oldest(w) = Oldest(b)
<1>0. /\ BufferOK(b) /\ k \in 1 .. Len(b.list) /\ b.next = k
      /\ BufferOK(w) /\ k <= Len(w.list)
      /\ w.next = IF k < Len(w.list) THEN k + 1 ELSE Null
      /\ \A j \in 1 .. k : w.list[j].n = b.list[j].n
  BY DEF Advanced
<1>1. Len(p) \in Nat /\ Len(b.list) \in Nat /\ k \in Nat /\ k >= 1 /\ Typed(b)
  BY <1>0, PipeMembers, BufferMembers DEF BufferOK
<1>2. /\ Len(q) = Len(p) + 1 /\ q[Len(p) + 1] = x /\ \A i \in 1 .. Len(p) : q[i] = p[i]
      /\ \A i \in 1 .. Len(p) : i \in 1 .. Len(q)
      /\ \A i \in 1 .. Len(q) : i = Len(p) + 1 \/ i \in 1 .. Len(p)
      /\ Len(p) + 1 \in 1 .. Len(q)
  <2>1. Len(q) = Len(p) + 1 /\ q[Len(p) + 1] = x /\ \A i \in 1 .. Len(p) : q[i] = p[i]
    BY <1>0, <1>1
  <2> QED
    BY <2>1, <1>0, <1>1
<1>3. Typed(w) /\ Len(w.list) \in Nat
  BY <1>0, BufferMembers DEF BufferOK
<1>5. k \in 1 .. Len(w.list) /\ \A j \in 1 .. k : j \in 1 .. Len(w.list) /\ j \in 1 .. Len(b.list)
  BY <1>0, <1>1, <1>3
<1>6. \A j \in 1 .. k : w.list[j].n = b.list[j].n
  BY <1>0
<1>7. \A j \in 1 .. Len(w.list) : Fetched(w, j) => j \in 1 .. k
  BY <1>0, <1>1, <1>3 DEF Fetched, Null
<1>8. w.list[k].n < Upcoming(w) /\ w.list[k].n = x.n /\ Upcoming(w) \in Nat
  <2>1. Upcoming(w) = Following(w, k)
    <3>1. CASE k < Len(w.list)
      <4>1. w.next = k + 1 /\ w.next # Null
        BY <3>1, <1>0, <1>1, <1>3 DEF Null
      <4> QED
        BY <1>0, <3>1, <4>1 DEF Upcoming, Following
    <3>2. CASE ~(k < Len(w.list))
      <4>1. w.next = Null
        BY <1>0, <3>2, <1>3
      <4> QED
        BY <1>0, <3>2, <4>1 DEF Upcoming, Following
    <3> QED
      BY <3>1, <3>2
  <2>2. k \in 1 .. k
    BY <1>0, <1>1
  <2> QED
    BY <1>0, <2>1, <2>2, <1>5, <1>6, FollowingGrows
<1>9. by \subseteq 1 .. StreamSize /\ \A m \in by : m \in Nat /\ m < x.n
  <2>1. Upcoming(b) = b.list[k].n
    BY <1>0, <1>1 DEF Upcoming, Null
  <2> QED
    BY <2>1, Sizes DEF Counted
<1>10. x.n \in Nat
  BY <1>0, <1>1, BufferMembers
<1>11. \A m \in by : m < Upcoming(w)
  BY <1>8, <1>9, <1>10
<1>12. ASSUME NEW j \in 1 .. Len(w.list), Fetched(w, j), w.list[j].n \notin by
       PROVE  \E i \in 1 .. Len(q) : Flies(q, w, i, j)
  <2>1. j \in 1 .. k /\ w.list[j].n = b.list[j].n
    BY <1>6, <1>7, <1>12
  <2>2. CASE j = k
    <3>1. Flies(q, w, Len(p) + 1, j)
      BY <2>2, <1>2, <1>8, <1>12 DEF Flies
    <3> QED
      BY <3>1, <1>2
  <2>3. CASE j # k
    <3>1. j \in 1 .. Len(b.list) /\ Fetched(b, j)
      BY <2>1, <2>3, <1>0, <1>1, <1>5 DEF Fetched
    <3>2. PICK i \in 1 .. Len(p) : Flies(p, b, i, j)
      BY <2>1, <3>1, <1>12 DEF Counted
    <3>3. Flies(q, w, i, j)
      BY <2>1, <3>2, <1>2, <1>12 DEF Flies
    <3> QED
      BY <3>3, <1>2
  <2> QED
    BY <2>2, <2>3
<1>13. ASSUME NEW m \in by, NEW i \in 1 .. Len(q), q[i].tid = "good" PROVE m < q[i].n
  <2>1. CASE i = Len(p) + 1
    BY <2>1, <1>2, <1>9
  <2>2. CASE i \in 1 .. Len(p)
    BY <2>2, <1>2, <1>13 DEF Counted
  <2> QED
    BY <2>1, <2>2, <1>2
<1>14. Oldest(w) = Oldest(b)
  <2>1. 1 \in 1 .. k /\ Len(w.list) # 0 /\ Len(b.list) # 0
    BY <1>0, <1>1, <1>5
  <2> QED
    BY <2>1, <1>6 DEF Oldest
<1> QED
  BY <1>9, <1>11, <1>12, <1>13, <1>14 DEF Counted

\* The model fetches at one of the places it was to go on at.
LEMMA AlignedAppend ==
    ASSUME NEW p, p \in Seq(Instr), NEW pred, Aligned(p, pred),
           NEW x \in Instr, x.pc \in pred, NEW q, q = Append(p, x), NEW on,
           x.tid = "good" => /\ x.pc # Wild
                             /\ \A i \in 1 .. Len(p) : p[i].tid = "good"
                             /\ \A pc \in on : Onward(x.n, pc)
    PROVE  Aligned(q, on)
<1>1. Len(p) \in Nat
  BY PipeMembers
<1>2. Len(q) = Len(p) + 1 /\ q[Len(p) + 1] = x /\ \A i \in 1 .. Len(p) : q[i] = p[i]
  BY <1>1
<1>3. ASSUME NEW j \in 1 .. Len(q) - 1, q[j].tid = "good"
      PROVE  Onward(q[j].n, q[j + 1].pc)
  <2>1. j \in 1 .. Len(p) /\ (j = Len(p) \/ (j \in 1 .. Len(p) - 1 /\ j + 1 \in 1 .. Len(p)))
    <3>1. Len(q) - 1 = Len(p)
      BY <1>1, <1>2
    <3> QED
      BY <3>1, <1>1
  <2>2. CASE j = Len(p)
    <3>1. Len(p) > 0 /\ q[j] = p[Len(p)] /\ q[j + 1] = x
      BY <2>1, <2>2, <1>1, <1>2
    <3>2. p[Len(p)].tid = "good"
      BY <3>1, <1>3
    <3>3. \A pc \in pred : Onward(p[Len(p)].n, pc)
      BY <3>1, <3>2 DEF Aligned
    <3> QED
      BY <3>1, <3>3
  <2>3. CASE j \in 1 .. Len(p) - 1 /\ j + 1 \in 1 .. Len(p)
    <3>1. q[j] = p[j] /\ q[j + 1] = p[j + 1]
      BY <2>1, <2>3, <1>2
    <3> QED
      BY <3>1, <2>3, <1>3 DEF Aligned
  <2> QED
    BY <2>1, <2>2, <2>3
<1>4. ASSUME NEW j \in 1 .. Len(q) - 1, NEW k \in j + 1 .. Len(q),
             q[j].tid = "good", q[k].tid = "good"
      PROVE  q[j + 1].pc = Stream[q[j].n].to
  <2>1. j \in 1 .. Len(p) /\ q[j] = p[j] /\ (k = Len(p) + 1 \/ k \in j + 1 .. Len(p))
    BY <1>1, <1>2
  <2>2. CASE k \in j + 1 .. Len(p)
    <3>1. j \in 1 .. Len(p) - 1 /\ j + 1 \in 1 .. Len(p) /\ k \in 1 .. Len(p)
      BY <2>1, <2>2, <1>1
    <3>2. p[j].tid = "good" /\ p[k].tid = "good" /\ q[j + 1] = p[j + 1]
      BY <2>1, <3>1, <1>2, <1>4
    <3> QED
      BY <2>1, <2>2, <3>1, <3>2 DEF Aligned
  <2>3. CASE k = Len(p) + 1 /\ j = Len(p)
    <3>1. q[j + 1] = x /\ x.tid = "good" /\ Len(p) > 0
      BY <2>1, <2>3, <1>1, <1>2, <1>4
    <3>2. Onward(p[Len(p)].n, x.pc)
      BY <2>1, <2>3, <3>1, <1>4 DEF Aligned
    <3> QED
      BY <2>1, <2>3, <3>1, <3>2 DEF Onward
  <2>4. CASE k = Len(p) + 1 /\ j # Len(p)
    <3>1. x.tid = "good"
      BY <2>4, <1>2, <1>4
    <3>2. /\ j \in 1 .. Len(p) - 1 /\ j + 1 \in 1 .. Len(p) /\ Len(p) \in j + 1 .. Len(p)
          /\ Len(p) \in 1 .. Len(p)
      BY <2>1, <2>4, <1>1
    <3>3. p[j].tid = "good" /\ p[Len(p)].tid = "good" /\ q[j + 1] = p[j + 1]
      BY <2>1, <3>1, <3>2, <1>2, <1>4
    <3> QED
      BY <2>1, <3>2, <3>3 DEF Aligned
  <2> QED
    BY <2>1, <2>2, <2>3, <2>4
<1>5. ASSUME q[Len(q)].tid = "good", NEW pc \in on PROVE Onward(q[Len(q)].n, pc)
  BY <1>2, <1>5
<1> QED
  BY <1>3, <1>4, <1>5 DEF Aligned

LEMMA AlignedPrefix ==
    ASSUME NEW p, p \in Seq(Instr), NEW pred, Aligned(p, pred),
           NEW l \in 0 .. Len(p), NEW q, q = SubSeq(p, 1, l), NEW on,
           l > 0 /\ p[l].tid = "good" => \A pc \in on : Onward(p[l].n, pc)
    PROVE  Aligned(q, on)
<1>1. Len(p) \in Nat /\ l \in Nat /\ l <= Len(p)
  BY PipeMembers
<1>2. Len(q) = l /\ \A i \in 1 .. l : q[i] = p[i]
  BY <1>1
<1>3. \A j \in 1 .. l - 1 : j \in 1 .. l /\ j + 1 \in 1 .. l /\ j \in 1 .. Len(p) - 1
  BY <1>1
<1>4. \A j \in 1 .. l - 1 : \A k \in j + 1 .. l : k \in 1 .. l /\ k \in j + 1 .. Len(p)
  BY <1>1
<1>5. \A j \in 1 .. l - 1 : q[j].tid = "good" => Onward(q[j].n, q[j + 1].pc)
  BY <1>2, <1>3 DEF Aligned
<1>6. ASSUME NEW j \in 1 .. l - 1, NEW k \in j + 1 .. l, q[j].tid = "good", q[k].tid = "good"
      PROVE  q[j + 1].pc = Stream[q[j].n].to
  <2>1. q[j] = p[j] /\ q[k] = p[k] /\ q[j + 1] = p[j + 1]
    BY <1>2, <1>3, <1>4
  <2> QED
    BY <2>1, <1>3, <1>4, <1>6 DEF Aligned
<1>7. l > 0 => l \in 1 .. l
  BY <1>1
<1> QED
  BY <1>2, <1>5, <1>6, <1>7 DEF Aligned

LEMMA AlignedTail ==
    ASSUME NEW p, p \in Seq(Instr), p # <<>>, NEW pred, Aligned(p, pred),
           NEW on, Len(p) # 1 => on = pred
    PROVE  Aligned(Tail(p), on)
<1>1. PICK q : q = Tail(p)
  OBVIOUS
<1>2. /\ Len(p) \in Nat /\ Len(q) \in Nat /\ Len(q) = Len(p) - 1
      /\ \A i \in 1 .. Len(q) : q[i] = p[i + 1]
  BY <1>1
<1>3. \A j \in 1 .. Len(q) - 1 : /\ j \in 1 .. Len(q) /\ j + 1 \in 1 .. Len(q)
                                /\ j + 1 \in 1 .. Len(p) - 1
  BY <1>2
<1>4. \A j \in 1 .. Len(q) - 1 : \A k \in j + 1 .. Len(q) :
        k \in 1 .. Len(q) /\ k + 1 \in (j + 1) + 1 .. Len(p)
  BY <1>2
<1>5. \A j \in 1 .. Len(q) - 1 : q[j].tid = "good" => Onward(q[j].n, q[j + 1].pc)
  BY <1>2, <1>3 DEF Aligned
<1>6. ASSUME NEW j \in 1 .. Len(q) - 1, NEW k \in j + 1 .. Len(q),
             q[j].tid = "good", q[k].tid = "good"
      PROVE  q[j + 1].pc = Stream[q[j].n].to
  <2>1. q[j] = p[j + 1] /\ q[k] = p[k + 1] /\ q[j + 1] = p[(j + 1) + 1]
    BY <1>2, <1>3, <1>4
  <2> QED
    BY <2>1, <1>3, <1>4, <1>6 DEF Aligned
<1>7. ASSUME Len(q) > 0 PROVE q[Len(q)] = p[Len(p)] /\ Len(p) > 0 /\ on = pred
  <2>1. Len(q) \in 1 .. Len(q) /\ Len(q) + 1 = Len(p) /\ Len(p) # 1
    BY <1>2, <1>7
  <2> QED
    BY <2>1, <1>2
<1>8. Len(q) > 0 /\ q[Len(q)].tid = "good" => \A pc \in on : Onward(q[Len(q)].n, pc)
  BY <1>7 DEF Aligned
<1> QED
  BY <1>1, <1>5, <1>6, <1>8 DEF Aligned

\* What is missing behind an instruction of the buffer is merged into it.
LEMMA GapMerged ==
    ASSUME OnlyREPsRepeat, NEW b, BufferOK(b), NEW k \in 1 .. Len(b.list),
           NEW n, n = b.list[k].n, NEW f, f = Following(b, k)
    PROVE  n \in Nat /\ f \in Nat /\ n < f /\ MergedInto(n, f - 1)
<1>1. n \in Nat /\ f \in Nat /\ n < f
  BY FollowingGrows
<1>2. Typed(b) /\ Linked(b)
  BY DEF BufferOK
<1>3. n >= 1 /\ n <= StreamSize /\ f <= StreamSize + 1 /\ StreamSize \in Nat
  <2>1. /\ b.uid \in Nat /\ b.uid <= StreamSize /\ Len(b.list) \in Nat
        /\ \A j \in 1 .. Len(b.list) : b.list[j].n \in Nat /\ b.list[j].n <= StreamSize
                                       /\ b.list[j].n >= 1
    BY <1>2, BufferMembers
  <2>2. k < Len(b.list) => k + 1 \in 1 .. Len(b.list)
    BY <2>1
  <2> QED
    BY <2>1, <2>2, <1>1, Sizes DEF Following
<1>4. CASE f = n + 1
  <2>1. ~\E j \in n + 1 .. f - 1 : TRUE
    BY <1>1, <1>4
  <2> QED
    BY <2>1, <1>1 DEF MergedInto
<1>5. CASE f # n + 1
  <2>1. Stream[n].rep /\ ~ Stream[n].ctl
        /\ \A m \in n + 1 .. f - 1 : Stream[m].va = Stream[n].va /\ ~ Stream[m].warm
    BY <1>2, <1>5 DEF Linked, Gap, Merges, Same
  <2>2. ASSUME NEW S, S = {m \in n + 1 .. f - 1 : ~ Stream[m].rep}, S # {} PROVE FALSE
    <3>1. S \subseteq Nat
      BY <2>2, <1>1
    <3>2. PICK m \in S : \A x \in S : m <= x
      BY <2>2, <3>1, LeastNat
    <3>3. m \in n + 1 .. f - 1 /\ ~ Stream[m].rep /\ m - 1 \notin S /\ m \in Nat
      BY <2>2, <3>1, <3>2
    <3>4. m - 1 = n \/ m - 1 \in n + 1 .. f - 1
      BY <3>3, <1>1
    <3>5. Stream[m - 1].rep /\ Stream[m - 1].va = Stream[n].va
      BY <3>3, <3>4, <2>1, <2>2
    <3>6. m \in 2 .. StreamSize
      BY <3>3, <1>1, <1>3
    <3> QED
      BY <3>3, <3>5, <3>6, <2>1 DEF OnlyREPsRepeat
  <2>3. \A m \in n + 1 .. f - 1 : Stream[m].rep
    BY <2>2
  <2> QED
    BY <2>1, <2>3, <1>1, <1>3 DEF MergedInto
<1> QED
  BY <1>1, <1>4, <1>5

\* What an injected NOP has to do with the event stays so.
LEMMA InjectedAppend ==
    ASSUME NEW p, p \in Seq(Instr), NEW e, Injected(p, e), NEW x \in Instr,
           NEW q, q = Append(p, x), NEW f, \A i \in 1 .. Len(p) : e.at = i => f.at = i,
           x.tid = "artificial" => f.at = Len(p) + 1
    PROVE  Injected(q, f)
<1>1. Len(p) \in Nat
  BY PipeMembers
<1>2. Len(q) = Len(p) + 1 /\ q[Len(p) + 1] = x /\ \A i \in 1 .. Len(p) : q[i] = p[i]
  BY <1>1
<1>3. \A i \in 1 .. Len(q) : i = Len(p) + 1 \/ i \in 1 .. Len(p)
  BY <1>1, <1>2
<1> QED
  BY <1>2, <1>3 DEF Injected

LEMMA InjectedPrefix ==
    ASSUME NEW p, p \in Seq(Instr), NEW e, Injected(p, e), NEW l \in 0 .. Len(p),
           NEW q, q = SubSeq(p, 1, l), NEW f, \A i \in 1 .. l : e.at = i => f.at = i
    PROVE  Injected(q, f)
<1>1. Len(p) \in Nat /\ l \in Nat /\ l <= Len(p)
  BY PipeMembers
<1>2. Len(q) = l /\ \A i \in 1 .. l : q[i] = p[i] /\ i \in 1 .. Len(p)
  BY <1>1
<1> QED
  BY <1>2 DEF Injected

LEMMA InjectedTail ==
    ASSUME NEW p, p \in Seq(Instr), p # <<>>, NEW e, Injected(p, e), e.at \in Nat,
           NEW f, f.at = IF e.at = 0 THEN 0 ELSE e.at - 1
    PROVE  Injected(Tail(p), f)
<1>1. PICK q : q = Tail(p)
  OBVIOUS
<1>2. Len(p) \in Nat /\ Len(q) = Len(p) - 1 /\ \A i \in 1 .. Len(q) : q[i] = p[i + 1]
  BY <1>1
<1>3. \A i \in 1 .. Len(q) : i \in Nat /\ i + 1 \in 1 .. Len(p)
  BY <1>2
<1>4. ASSUME NEW i \in 1 .. Len(q), q[i].tid = "artificial" PROVE f.at = i
  <2>1. e.at = i + 1
    BY <1>2, <1>3, <1>4 DEF Injected
  <2> QED
    BY <2>1, <1>3
<1> QED
  BY <1>1, <1>4 DEF Injected

-----------------------------------------------------------------------------
(* Every action keeps it.                                                  *)

\* The bounds, for as long as no commit has failed.
Limits ==
    /\ retired \in 0 .. StreamSize /\ events \in 0 .. MaxEvents
    /\ Len(pipe) <= Window

LEMMA BufferTyped ==
    ASSUME NEW b, BufferOK(b)
    PROVE  /\ b.list \in Seq([n : 1 .. StreamSize, uid : 1 .. StreamSize, implicit : BOOLEAN])
           /\ b.next \in 0 .. Len(b.list) /\ b.uid \in 0 .. StreamSize
<1>1. Typed(b) /\ b \in Buffers
  BY DEF BufferOK, Typed
<1>2. /\ b.list \in Seq(Entries) /\ b.next \in Nat /\ b.next <= Len(b.list)
      /\ Len(b.list) \in Nat
  BY <1>1, BufferMembers
<1>3. b.uid \in 0 .. StreamSize
  BY <1>1 DEF Buffers
<1>4. b.next \in 0 .. Len(b.list)
  BY <1>2
<1> QED
  BY <1>2, <1>3, <1>4 DEF Entries

LEMMA KeptTyped == FeedInv /\ error = "none" /\ Keeping /\ Limits => TypeOK
<1> SUFFICES ASSUME FeedInv, error = "none", Keeping, Limits PROVE TypeOK
  OBVIOUS
<1>1. /\ simComplete \in BOOLEAN /\ onBadPath \in BOOLEAN /\ predicted \subseteq Addresses
      /\ WarmingUp \/ Feeding
  BY DEF FeedInv
<1>2. retired \in 0 .. StreamSize /\ events \in 0 .. MaxEvents /\ Len(pipe) <= Window
  BY DEF Limits
<1>3. /\ BufferOK(buffer) /\ warming \in BOOLEAN /\ lastWarmup \in 0 .. StreamSize
      /\ pipe \in Seq(Instr) /\ event \in Events /\ event.at <= Len(pipe)
      /\ bypassed \subseteq 1 .. StreamSize
  <2>1. CASE WarmingUp
    <3>1. /\ warming = TRUE /\ pipe = <<>> /\ event = NoEvent
          /\ IF lastWarmup = 0 THEN Waits(buffer) ELSE Holds(buffer, lastWarmup)
      BY <2>1 DEF WarmingUp
    <3>2. pipe \in Seq(Instr) /\ event \in Events /\ event.at <= Len(pipe)
      BY <3>1, NoEventIsEvent
    <3>3. BufferOK(buffer) /\ lastWarmup \in 0 .. StreamSize
      <4>1. CASE lastWarmup = 0
        BY <4>1, <3>1, Sizes DEF Waits
      <4>2. CASE lastWarmup # 0
        <5>1. BufferOK(buffer) /\ 1 \in 1 .. Len(buffer.list) /\ buffer.list[1].n = lastWarmup
          BY <4>2, <3>1 DEF Holds
        <5>2. lastWarmup \in Nat /\ lastWarmup <= StreamSize
          BY <5>1, BufferMembers DEF BufferOK
        <5> QED
          BY <5>1, <5>2, Sizes
      <4> QED
        BY <4>1, <4>2
    <3>4. bypassed = {}
      BY <3>1 DEF Keeping
    <3>5. bypassed \subseteq 1 .. StreamSize /\ warming \in BOOLEAN
      BY <3>1, <3>4
    <3> QED
      BY <3>2, <3>3, <3>5
  <2>2. CASE Feeding
    <3>1. warming = FALSE /\ lastWarmup = 0 /\ Steady(pipe, buffer, event)
      BY <2>2 DEF Feeding
    <3>2. Counted(pipe, buffer, bypassed)
      BY <3>1 DEF Keeping
    <3>3. event.at <= Len(pipe)
      BY <3>1, EventAt
    <3>4. BufferOK(buffer) /\ pipe \in Seq(Instr) /\ event \in Events
      BY <3>1 DEF Steady
    <3>5. bypassed \subseteq 1 .. StreamSize
      BY <3>2 DEF Counted
    <3>6. lastWarmup \in 0 .. StreamSize
      <4>1. 0 \in 0 .. StreamSize
        BY Sizes
      <4> QED
        BY <3>1, <4>1
    <3>7. warming \in BOOLEAN
      BY <3>1
    <3> QED
      BY <3>3, <3>4, <3>5, <3>6, <3>7
  <2> QED
    BY <2>1, <2>2, <1>1
<1>4. event \in [at : 0 .. Window, target : Addresses]
  <2>1. event.at \in Nat /\ Len(pipe) \in Nat /\ Window \in Nat
    BY <1>3, PipeMembers, Sizes DEF Events
  <2>2. event.at \in 0 .. Window
    BY <2>1, <1>2, <1>3
  <2> QED
    BY <2>2, <1>3 DEF Events
<1> QED
  BY <1>1, <1>2, <1>3, <1>4, BufferTyped DEF TypeOK

LEMMA InitKeeps == Init => KeepInv
<1> SUFFICES ASSUME Init PROVE KeepInv
  OBVIOUS
<1>1. /\ buffer = NewBuffer /\ event = NoEvent /\ simComplete = FALSE /\ pipe = <<>>
      /\ predicted = {0} /\ events = 0 /\ retired = 0 /\ bypassed = {} /\ error = "none"
  BY DEF Init
<1>2. buffer.list = <<>> /\ buffer.next = Null /\ buffer.uid = 0 /\ Len(buffer.list) = 0
  BY <1>1 DEF NewBuffer
<1>3. Len(pipe) = 0 /\ ~\E i \in 1 .. Len(pipe) : TRUE
  BY <1>1
<1>4. ~\E j \in 1 .. Len(buffer.list) : TRUE
  BY <1>2
<1>5. Retires(buffer, retired)
  <2>1. Oldest(buffer) = 1
    BY <1>2 DEF Oldest
  <2>2. ~\E j \in 0 + 1 .. 1 - 1 : TRUE
    OBVIOUS
  <2> QED
    BY <2>1, <2>2, <1>1 DEF Retires, MergedInto
<1>6. Counted(pipe, buffer, bypassed) /\ Injected(pipe, event)
  BY <1>1, <1>3, <1>4 DEF Counted, Injected
<1>7. Aligned(pipe, predicted)
  <2>1. ~\E j \in 1 .. Len(pipe) - 1 : TRUE
    BY <1>3
  <2> QED
    BY <2>1, <1>3 DEF Aligned
<1>8. Keeping
  BY <1>1, <1>5, <1>6, <1>7 DEF Keeping
<1>9. Limits
  BY <1>1, <1>3, Sizes, BoundAssumption DEF Limits
<1> QED
  BY <1>1, <1>8, <1>9, InitFeeds, KeptTyped DEF KeepInv

\* Reading ahead for a fetch keeps it.
LEMMA ReadyKeeps ==
    ASSUME FeedInv, CanFetch, Keeping, NEW r, r = Ready
    PROVE  /\ error = "none" /\ warming = FALSE /\ pipe \in Seq(Instr) /\ Len(pipe) \in Nat
           /\ BufferOK(r) /\ Counted(pipe, r, bypassed) /\ Aligned(pipe, predicted)
           /\ Retires(r, retired) /\ simComplete \in BOOLEAN /\ Steady(pipe, buffer, event)
           /\ simComplete = FALSE => Injected(pipe, event)
           /\ simComplete = TRUE => r.next = Null
<1>1. /\ error = "none" /\ Feeding /\ simComplete \in BOOLEAN /\ ReadyFor(buffer, r)
  BY FetchBegins
<1>2. /\ warming = FALSE /\ Steady(pipe, buffer, event)
      /\ simComplete = TRUE => AllWhole(buffer)
  BY <1>1 DEF Feeding
<1>3. pipe \in Seq(Instr) /\ BufferOK(buffer) /\ Typed(buffer) /\ BufferOK(r)
  BY <1>1, <1>2 DEF Steady, BufferOK, ReadyFor
<1>4. /\ Retires(buffer, retired) /\ Counted(pipe, buffer, bypassed) /\ Aligned(pipe, predicted)
      /\ simComplete = FALSE => Injected(pipe, event)
      /\ simComplete = TRUE => buffer.next = Null
  BY <1>2 DEF Keeping
<1>5. Extends(buffer, r)
  BY <1>3, FetchExtends, Sizes DEF Ready
<1>6. /\ Counted(pipe, r, bypassed) /\ Oldest(r) = Oldest(buffer)
      /\ buffer.next = Null /\ buffer.uid = StreamSize => r.next = Null
  BY <1>3, <1>4, <1>5, ReadCounts
<1>7. Retires(r, retired)
  BY <1>4, <1>6 DEF Retires
<1>8. simComplete = TRUE => r.next = Null
  BY <1>2, <1>4, <1>6 DEF AllWhole
<1> QED
  BY <1>1, <1>2, <1>3, <1>4, <1>6, <1>7, <1>8, PipeMembers

LEMMA FetchLimits ==
    ASSUME CanFetch, Limits, pipe \in Seq(Instr), NEW x \in Instr, pipe' = Append(pipe, x),
           retired' = retired, events' \in 0 .. MaxEvents
    PROVE  Limits'
<1>1. Len(pipe) \in Nat /\ Window \in Nat /\ Len(pipe) < Window
  BY PipeMembers, Sizes DEF CanFetch
<1>2. Len(pipe') = Len(pipe) + 1
  BY <1>1
<1> QED
  BY <1>1, <1>2 DEF Limits

LEMMA FetchEndKeeps ==
    ASSUME FeedInv, CanFetch, Keeping, Limits, NEW pc \in predicted, predicted \subseteq Addresses,
           FetchEnd(pc)
    PROVE  Keeping' /\ Limits'
<1>1. /\ Ready.next = Null \/ simComplete
      /\ simComplete' = TRUE /\ buffer' = GetNextFetchHandle(Ready)
      /\ pipe' = Append(pipe, [tid |-> "artificial", n |-> 0, pc |-> pc])
      /\ predicted' = {pc} /\ event' = event /\ warming' = warming
      /\ retired' = retired /\ bypassed' = bypassed /\ events' = events
  BY DEF FetchEnd, AtEnd, Deliver, warmup
<1>2. PICK r : r = Ready
  OBVIOUS
<1>3. /\ warming = FALSE /\ pipe \in Seq(Instr) /\ Len(pipe) \in Nat
      /\ BufferOK(r) /\ Counted(pipe, r, bypassed) /\ Aligned(pipe, predicted)
      /\ Retires(r, retired) /\ simComplete \in BOOLEAN
      /\ simComplete = TRUE => r.next = Null
  BY <1>2, ReadyKeeps
<1>4. r.next = Null
  BY <1>1, <1>2, <1>3
<1>5. PICK w : w = buffer'
  OBVIOUS
<1>6. w = r
  <2>1. r \in Buffers
    BY <1>3 DEF BufferOK, Typed
  <2>2. w = [r EXCEPT !.next = Null]
    BY <1>1, <1>2, <1>4, <1>5 DEF GetNextFetchHandle
  <2> QED
    BY <2>1, <2>2, <1>4 DEF Buffers
<1>7. PICK x : x = [tid |-> "artificial", n |-> 0, pc |-> pc]
  OBVIOUS
<1>8. x \in Instr /\ x.tid # "good" /\ x.pc = pc
  BY <1>7, Sizes DEF Instr
<1>9. PICK q : q = Append(pipe, x)
  OBVIOUS
<1>10. Counted(q, r, bypassed)
  BY <1>3, <1>8, <1>9, AppendCounts
<1>11. Aligned(q, {pc})
  BY <1>3, <1>8, <1>9, AlignedAppend
<1>12. pipe' = q /\ warming' = FALSE /\ buffer' = r
  BY <1>1, <1>3, <1>5, <1>6, <1>7, <1>9
<1>13. Limits'
  BY <1>1, <1>3, <1>8, <1>9, <1>12, FetchLimits DEF Limits
<1> QED
  BY <1>1, <1>3, <1>4, <1>10, <1>11, <1>12, <1>13 DEF Keeping

LEMMA FetchJMPKeeps ==
    ASSUME FeedInv, CanFetch, Keeping, Limits, NEW pc \in predicted, predicted \subseteq Addresses,
           FetchJMP(pc)
    PROVE  Keeping' /\ Limits'
<1>1. /\ event = NoEvent /\ PushSystemEvent(Stream[Handle].va)
      /\ simComplete' = simComplete /\ buffer' = Ready
      /\ pipe' = Append(pipe, [tid |-> "artificial", n |-> 0, pc |-> pc])
      /\ predicted' = {Wild} /\ warming' = warming
      /\ retired' = retired /\ bypassed' = bypassed /\ events' = events
  BY DEF FetchJMP, JumpNeeded, Deliver, warmup
<1>2. PICK r : r = Ready
  OBVIOUS
<1>3. /\ warming = FALSE /\ pipe \in Seq(Instr) /\ Len(pipe) \in Nat
      /\ Counted(pipe, r, bypassed) /\ Aligned(pipe, predicted) /\ Retires(r, retired)
      /\ simComplete = FALSE => Injected(pipe, event)
      /\ simComplete = TRUE => r.next = Null
  BY <1>2, ReadyKeeps
<1>4. PICK x : x = [tid |-> "artificial", n |-> 0, pc |-> pc]
  OBVIOUS
<1>5. x \in Instr /\ x.tid # "good" /\ x.pc = pc
  BY <1>4, Sizes DEF Instr
<1>6. PICK q : q = Append(pipe, x)
  OBVIOUS
<1>7. event'.at = Len(pipe) + 1
  BY <1>1 DEF PushSystemEvent
<1>8. \A i \in 1 .. Len(pipe) : event.at = i => event'.at = i
  BY <1>1, <1>3, NoEventIsEvent
<1>9. simComplete = FALSE => Injected(q, event')
  BY <1>3, <1>5, <1>6, <1>7, <1>8, InjectedAppend
<1>10. Counted(q, r, bypassed)
  BY <1>3, <1>5, <1>6, AppendCounts
<1>11. Aligned(q, {Wild})
  BY <1>3, <1>5, <1>6, AlignedAppend
<1>12. pipe' = q /\ warming' = FALSE /\ buffer' = r
  BY <1>1, <1>2, <1>3, <1>4, <1>6
<1>13. Limits'
  BY <1>1, <1>3, <1>5, <1>6, <1>12, FetchLimits DEF Limits
<1> QED
  BY <1>1, <1>3, <1>9, <1>10, <1>11, <1>12, <1>13 DEF Keeping

\* What is fetched off the path, or for a context switch.
LEMMA FetchAsideKeeps ==
    ASSUME FeedInv, CanFetch, Keeping, Limits, predicted \subseteq Addresses,
           NEW x \in Instr, x.tid \in {"wrong", "switch"}, x.pc \in predicted,
           pipe' = Append(pipe, x), buffer' = Ready \/ buffer' = buffer,
           event' = event, simComplete' = simComplete, warming' = warming,
           retired' = retired, bypassed' = bypassed, events' \in 0 .. MaxEvents
    PROVE  Keeping' /\ Limits'
<1>1. PICK r : r = Ready
  OBVIOUS
<1>2. /\ warming = FALSE /\ pipe \in Seq(Instr) /\ Len(pipe) \in Nat
      /\ Counted(pipe, r, bypassed) /\ Aligned(pipe, predicted) /\ Retires(r, retired)
      /\ simComplete = FALSE => Injected(pipe, event)
      /\ simComplete = TRUE => r.next = Null
  BY <1>1, ReadyKeeps
<1>3. PICK w : w = buffer'
  OBVIOUS
<1>4. /\ Counted(pipe, w, bypassed) /\ Retires(w, retired)
      /\ simComplete = TRUE => w.next = Null
  <2>1. CASE w = r
    BY <2>1, <1>2
  <2>2. CASE w = buffer
    BY <2>2, <1>2 DEF Keeping
  <2> QED
    BY <2>1, <2>2, <1>1, <1>3
<1>5. PICK q : q = Append(pipe, x)
  OBVIOUS
<1>6. x.tid # "good" /\ x.tid # "artificial"
  OBVIOUS
<1>7. simComplete = FALSE => Injected(q, event)
  <2>1. \A i \in 1 .. Len(pipe) : event.at = i => event.at = i
    OBVIOUS
  <2> QED
    BY <2>1, <1>2, <1>5, <1>6, InjectedAppend
<1>8. Counted(q, w, bypassed)
  BY <1>2, <1>4, <1>5, <1>6, AppendCounts
<1>9. Aligned(q, predicted')
  <2>1. PICK on : on = predicted'
    OBVIOUS
  <2>2. Aligned(q, on)
    BY <1>2, <1>5, <1>6, AlignedAppend
  <2> QED
    BY <2>1, <2>2
<1>10. pipe' = q /\ warming' = FALSE /\ buffer' = w
  BY <1>2, <1>3, <1>5
<1>11. Limits'
  BY <1>2, FetchLimits
<1>12. simComplete' = FALSE => Injected(pipe', event')
  BY <1>7, <1>10
<1>13. simComplete' = TRUE => buffer'.next = Null
  BY <1>4, <1>10
<1>14. Retires(buffer', retired') /\ Counted(pipe', buffer', bypassed') /\ Aligned(pipe', predicted')
  BY <1>4, <1>8, <1>9, <1>10
<1> QED
  BY <1>10, <1>11, <1>12, <1>13, <1>14 DEF Keeping

LEMMA FetchBadPathKeeps ==
    ASSUME FeedInv, CanFetch, Keeping, Limits, NEW pc \in predicted, predicted \subseteq Addresses,
           FetchBadPath(pc)
    PROVE  Keeping' /\ Limits'
<1>1. /\ event' = event /\ simComplete' = simComplete /\ buffer' = Ready
      /\ pipe' = Append(pipe, [tid |-> "wrong", n |-> 0, pc |-> pc])
      /\ warming' = warming /\ retired' = retired /\ bypassed' = bypassed /\ events' = events
  BY DEF FetchBadPath, Deliver, warmup
<1>2. PICK x : x = [tid |-> "wrong", n |-> 0, pc |-> pc]
  OBVIOUS
<1>3. x \in Instr /\ x.tid \in {"wrong", "switch"} /\ x.pc = pc
  BY <1>2, Sizes DEF Instr
<1>4. events' \in 0 .. MaxEvents
  BY <1>1 DEF Limits
<1> QED
  BY <1>1, <1>2, <1>3, <1>4, FetchAsideKeeps

LEMMA FetchSwitchKeeps ==
    ASSUME FeedInv, Keeping, Limits, predicted \subseteq Addresses, FetchSwitch
    PROVE  Keeping' /\ Limits'
<1>1. /\ CanFetch /\ events < MaxEvents /\ events' = events + 1
      /\ event' = event /\ simComplete' = simComplete /\ buffer' = buffer
      /\ warming' = warming /\ retired' = retired /\ bypassed' = bypassed
  BY DEF FetchSwitch, warmup, feeder
<1>2. PICK pc \in predicted : pipe' = Append(pipe, [tid |-> "switch", n |-> 0, pc |-> pc])
  BY DEF FetchSwitch
<1>3. PICK x : x = [tid |-> "switch", n |-> 0, pc |-> pc]
  OBVIOUS
<1>4. x \in Instr /\ x.tid \in {"wrong", "switch"} /\ x.pc = pc
  BY <1>2, <1>3, Sizes DEF Instr
<1>5. events' \in 0 .. MaxEvents
  BY <1>1, BoundAssumption DEF Limits
<1> QED
  BY <1>1, <1>2, <1>3, <1>4, <1>5, FetchAsideKeeps

LEMMA FetchGoodKeeps ==
    ASSUME FeedInv, CanFetch, Keeping, Limits, NEW pc \in predicted, predicted \subseteq Addresses,
           FetchGood(pc)
    PROVE  Keeping' /\ Limits'
<1>1. PICK r : r = Ready
  OBVIOUS
<1>2. PICK k : k = r.next
  OBVIOUS
<1>3. PICK a : a = FetchIncomingInstructions(GetNextFetchHandle(r), ExecuteChunk)
  OBVIOUS
<1>4. PICK c : /\ c = IF Merges(Handle) THEN MergeREPInstrs(a, k) ELSE a
               /\ IF NextIsNew(c, k)
                  THEN /\ buffer' = SetImplicitCommit(c, k)
                       /\ PushSystemEvent(Stream[c.list[k + 1].n].va)
                  ELSE buffer' = c /\ event' = event
  BY <1>1, <1>2, <1>3 DEF FetchGood, Merges
<1>5. /\ ~ AtEnd /\ ~ onBadPath /\ event = NoEvent /\ pc = Stream[Handle].va
      /\ simComplete' = simComplete
      /\ pipe' = Append(pipe, [tid |-> "good", n |-> Handle, pc |-> pc])
      /\ predicted' = Guesses(Handle) /\ warming' = warming
      /\ retired' = retired /\ bypassed' = bypassed /\ events' = events
  BY DEF FetchGood, OffPath, Elsewhere, Deliver, warmup
<1>6. /\ simComplete = FALSE /\ Straight(pipe, onBadPath)
      /\ ReadyFor(buffer, r) /\ BufferOK(r)
      /\ Len(r.list) \in Nat /\ k \in 1 .. Len(r.list) /\ k # Null
      /\ Handle = r.list[k].n /\ Handle \in 1 .. StreamSize
  BY <1>1, <1>2, <1>5, FetchHandle
<1>7. /\ warming = FALSE /\ pipe \in Seq(Instr) /\ Len(pipe) \in Nat
      /\ Counted(pipe, r, bypassed) /\ Aligned(pipe, predicted) /\ Retires(r, retired)
      /\ Injected(pipe, event)
  BY <1>1, <1>6, ReadyKeeps
<1>8. FetchedWhole(r)
  BY <1>6 DEF ReadyFor
<1>9. /\ BufferOK(a) /\ k \in 1 .. Len(a.list) /\ Len(r.list) <= Len(a.list)
      /\ \A j \in 1 .. Len(r.list) : a.list[j].n = r.list[j].n
      /\ \A j \in 1 .. k - 1 : Whole(a, j)
      /\ a.next = IF k < Len(a.list) THEN k + 1 ELSE Null
      /\ k = Len(a.list) => a.uid = StreamSize
  BY <1>2, <1>3, <1>6, <1>8, AheadPlaces
<1>10. a.list[k].n = Handle
  BY <1>6, <1>9
<1>11. Fed(a, k, c)
  <2>1. /\ Merges(a.list[k].n) => Fed(a, k, MergeREPInstrs(a, k))
        /\ ~ Merges(a.list[k].n) => Fed(a, k, a)
    BY <1>9, MergeFeeds
  <2>2. CASE Merges(Handle)
    BY <2>1, <2>2, <1>4, <1>10
  <2>3. CASE ~ Merges(Handle)
    BY <2>1, <2>3, <1>4, <1>10
  <2> QED
    BY <2>2, <2>3
<1>12. /\ BufferOK(c) /\ Typed(c) /\ k <= Len(c.list) /\ Len(c.list) \in Nat
       /\ \A j \in 1 .. k : c.list[j].n = a.list[j].n
  BY <1>11, BufferMembers DEF Fed, BufferOK
<1>13. k \in 1 .. Len(c.list)
  BY <1>6, <1>12
<1>14. \A j \in 1 .. k : c.list[j].n = r.list[j].n
  <2> SUFFICES ASSUME NEW j \in 1 .. k PROVE c.list[j].n = r.list[j].n
    OBVIOUS
  <2>1. j \in 1 .. Len(r.list)
    BY <1>6
  <2> QED
    BY <2>1, <1>9, <1>12
<1>15. PICK x : x = [tid |-> "good", n |-> Handle, pc |-> pc]
  OBVIOUS
<1>16. x \in Instr /\ x.tid = "good" /\ x.n = Handle /\ x.pc = pc
  <2>1. Handle \in 0 .. StreamSize /\ pc \in Addresses
    BY <1>6, Sizes
  <2> QED
    BY <2>1, <1>15 DEF Instr
<1>17. PICK q : q = Append(pipe, x)
  OBVIOUS
<1>18. PICK w : w = buffer'
  OBVIOUS
<1>19. Alike(c, w) /\ w.next = c.next
  <2>1. CASE NextIsNew(c, k)
    <3>1. w = SetImplicitCommit(c, k)
      BY <2>1, <1>4, <1>18
    <3> QED
      BY <3>1, <1>12, <1>13, ImplicitAlike
  <2>2. CASE ~ NextIsNew(c, k)
    <3>1. w = c
      BY <2>2, <1>4, <1>18
    <3> QED
      BY <3>1, <1>12 DEF Alike
  <2> QED
    BY <2>1, <2>2
<1>20. Counted(q, w, bypassed) /\ Oldest(w) = Oldest(r)
  <2>1. /\ r.next = k /\ x.n = r.list[k].n /\ x \in Instr /\ x.tid = "good"
        /\ k \in 1 .. Len(r.list)
    BY <1>2, <1>6, <1>16
  <2>2. pipe \in Seq(Instr) /\ BufferOK(r) /\ Counted(pipe, r, bypassed)
    BY <1>6, <1>7
  <2>3. BufferOK(w) /\ Len(w.list) = Len(c.list) /\ k <= Len(w.list)
    BY <1>12, <1>19, AlikeKeeps DEF Alike
  <2>4. w.next = IF k < Len(w.list) THEN k + 1 ELSE Null
    BY <2>3, <1>11, <1>19 DEF Fed
  <2>5. \A j \in 1 .. k : w.list[j].n = r.list[j].n
    <3>1. \A j \in 1 .. k : j \in 1 .. Len(c.list)
      BY <1>6, <1>12
    <3> QED
      BY <3>1, <1>14, <1>19 DEF Alike
  <2>6. Advanced(r, k, w)
    BY <2>1, <2>2, <2>3, <2>4, <2>5 DEF Advanced
  <2>7. Counted(q, w, bypassed)
    BY <2>1, <2>2, <2>6, <1>17, FeedCounts
  <2>8. Oldest(w) = Oldest(r)
    BY <2>1, <2>2, <2>6, <1>17, FeedCounts
  <2> QED
    BY <2>7, <2>8
<1>21. Retires(w, retired)
  BY <1>7, <1>20 DEF Retires
<1>22. \A i \in 1 .. Len(pipe) : pipe[i].tid = "good"
  <2> SUFFICES ASSUME NEW i \in 1 .. Len(pipe) PROVE pipe[i].tid = "good"
    OBVIOUS
  <2>1. pipe[i].tid \in {"good", "wrong", "artificial", "switch"}
    <3>1. pipe[i] \in Instr
      BY <1>7, PipeMembers
    <3> QED
      BY <3>1 DEF Instr
  <2>2. pipe[i].tid # "wrong"
    BY <1>5, <1>6 DEF Straight
  <2>3. pipe[i].tid # "switch"
    <3>1. i \in DOMAIN pipe
      BY <1>7
    <3> QED
      BY <3>1 DEF CanFetch
  <2>4. pipe[i].tid # "artificial"
    <3>1. event.at # i
      BY <1>5, <1>7, NoEventIsEvent
    <3> QED
      BY <3>1, <1>7 DEF Injected
  <2> QED
    BY <2>1, <2>2, <2>3, <2>4
<1>23. pc # Wild
  <2>1. Stream[Handle] \in Instruction
    BY <1>6, Sizes
  <2>2. Stream[Handle].va \in Addresses \ {0, Wild}
    BY <2>1 DEF Instruction
  <2> QED
    BY <2>2, <1>5
<1>24. \A y \in Guesses(Handle) : Onward(Handle, y)
  BY DEF Guesses, Onward
<1>25. Aligned(q, Guesses(Handle))
  BY <1>7, <1>16, <1>17, <1>22, <1>23, <1>24, AlignedAppend
<1>26. Injected(q, event')
  <2>1. \A i \in 1 .. Len(pipe) : event.at # i
    BY <1>5, <1>7, NoEventIsEvent
  <2>2. x.tid # "artificial"
    BY <1>16
  <2>3. PICK f : f = event'
    OBVIOUS
  <2>4. Injected(q, f)
    BY <2>1, <2>2, <1>7, <1>16, <1>17, InjectedAppend
  <2> QED
    BY <2>3, <2>4
<1>27. pipe' = q /\ warming' = FALSE /\ simComplete' = FALSE
  BY <1>5, <1>6, <1>7, <1>15, <1>17
<1>28. Limits'
  BY <1>5, <1>7, <1>16, <1>17, <1>27, FetchLimits DEF Limits
<1> QED
  BY <1>5, <1>18, <1>20, <1>21, <1>25, <1>26, <1>27, <1>28 DEF Keeping

\* No more in flight than before, and one event more than before.
LEMMA ShorterLimits ==
    ASSUME Limits, pipe' \in Seq(Instr), Len(pipe') <= Len(pipe), pipe \in Seq(Instr),
           retired' \in 0 .. StreamSize, events' = events \/ (events' = events + 1 /\ events < MaxEvents)
    PROVE  Limits'
<1>1. Len(pipe) \in Nat /\ Len(pipe') \in Nat /\ Window \in Nat /\ MaxEvents \in Nat
  BY PipeMembers, Sizes, BoundAssumption
<1>2. events \in 0 .. MaxEvents /\ Len(pipe) <= Window
  BY DEF Limits
<1>3. events' \in 0 .. MaxEvents /\ Len(pipe') <= Window
  BY <1>1, <1>2
<1> QED
  BY <1>3 DEF Limits

LEMMA PrefixTyped ==
    ASSUME NEW p, p \in Seq(Instr), NEW l \in 0 .. Len(p), NEW q, q = SubSeq(p, 1, l)
    PROVE  q \in Seq(Instr) /\ Len(q) = l /\ Len(q) <= Len(p)
<1>1. Len(p) \in Nat /\ l \in Nat /\ l <= Len(p)
  BY PipeMembers
<1>2. q \in Seq(Instr)
  BY <1>1
<1>3. Len(q) = l
  BY <1>1
<1> QED
  BY <1>1, <1>2, <1>3

\* Only the list and the last uid matter for what has been retired.
LEMMA RetiresSame ==
    ASSUME NEW b, NEW r, r.list = b.list, r.uid = b.uid, NEW n, Retires(b, n)
    PROVE  Retires(r, n)
  BY DEF Retires, Oldest

\* What is squashed behind instruction i, which is of the path, is counted on.
LEMMA BehindCounts ==
    ASSUME NEW p, NEW b, NEW e, Steady(p, b, e), NEW by, Counted(p, b, by),
           NEW i \in 1 .. Len(p), p[i].tid = "good",
           NEW r, r = GetNextFetchHandle(SetNextFetch(b, Place(b, p[i].n)))
    PROVE  /\ Counted(SubSeq(p, 1, i), r, by)
           /\ r.list = b.list /\ r.uid = b.uid
           /\ \E k \in 1 .. Len(b.list) : /\ Flies(p, b, i, k)
                                          /\ Upcoming(r) = Following(b, k)
                                          /\ r.next = Null <=> k = Len(b.list)
                                          /\ \A j \in 1 .. Len(b.list) : Fetched(r, j) <=> j <= k
<1>1. p \in Seq(Instr) /\ BufferOK(b) /\ Typed(b)
  BY DEF Steady, BufferOK
<1>2. PICK k \in 1 .. Len(b.list) : Flies(p, b, i, k)
  BY DEF Steady, InFlight
<1>3. Place(b, p[i].n) = k
  BY <1>2, Places
<1>4. PICK s : s = SetNextFetch(b, k)
  OBVIOUS
<1>5. r = GetNextFetchHandle(s)
  BY <1>3, <1>4
<1>6. /\ r.list = b.list /\ r.uid = b.uid /\ Upcoming(r) = Following(b, k)
      /\ r.next = Null <=> k = Len(b.list)
      /\ \A j \in 1 .. Len(b.list) : Fetched(r, j) <=> j <= k
  BY <1>1, <1>4, <1>5, Rewinds
<1>7. Fetched(b, k) /\ b.list[k].n = p[i].n
  BY <1>2 DEF Flies
<1>8. Len(p) \in Nat /\ Len(b.list) \in Nat /\ b.next \in Nat /\ i \in 0 .. Len(p)
  BY <1>1, PipeMembers, BufferMembers
<1>9. \A j \in 1 .. Len(b.list) : Fetched(r, j) => Fetched(b, j)
  BY <1>6, <1>7, <1>8 DEF Fetched
<1>10. ASSUME NEW j \in 1 .. Len(b.list), Fetched(r, j), NEW m \in i + 1 .. Len(p)
       PROVE  ~ Flies(p, b, m, j)
  <2> SUFFICES ASSUME Flies(p, b, m, j) PROVE FALSE
    OBVIOUS
  <2>1. m \in 1 .. Len(p) /\ i < m
    BY <1>8
  <2>2. k < j
    BY <2>1, <1>2, Places
  <2> QED
    BY <2>2, <1>6, <1>8, <1>10
<1>11. ASSUME NEW m \in by PROVE m < Upcoming(r)
  <2>1. m < p[i].n
    BY <1>11 DEF Counted
  <2>2. Following(b, k) \in Nat /\ b.list[k].n \in Nat /\ b.list[k].n < Following(b, k)
    BY <1>1, FollowingGrows
  <2>3. m \in Nat
    BY <1>11, Sizes DEF Counted
  <2> QED
    BY <2>1, <2>2, <2>3, <1>6, <1>7
<1>12. /\ by \subseteq 1 .. StreamSize
       /\ \A m \in by, j \in 1 .. i : p[j].tid = "good" => m < p[j].n
  <2>1. \A j \in 1 .. i : j \in 1 .. Len(p)
    BY <1>8
  <2> QED
    BY <2>1 DEF Counted
<1>13. PICK q : q = SubSeq(p, 1, i)
  OBVIOUS
<1>14. Counted(q, r, by)
  BY <1>1, <1>6, <1>8, <1>9, <1>10, <1>11, <1>12, <1>13, Recount
<1> QED
  BY <1>2, <1>6, <1>13, <1>14

\* What every squash has to do with the model's side.
LEMMA KillBehindKeeps ==
    ASSUME FeedInv, error = "none", Keeping, NEW i \in 1 .. Len(pipe), pipe # <<>>,
           pipe[i].tid = "good", Kill(i, TRUE, FALSE), pipe' = SubSeq(pipe, 1, i),
           predicted' = {GoesTo(i)}, UNCHANGED <<warmup, retired, bypassed>>,
           simComplete = TRUE => \A j \in i + 1 .. Len(pipe) : pipe[j].tid # "good"
    PROVE  Keeping'
<1>1. /\ simComplete \in BOOLEAN /\ warming = FALSE /\ Steady(pipe, buffer, event)
      /\ pipe \in Seq(Instr) /\ Len(pipe) \in Nat
  BY PipeFeeds
<1>2. /\ Retires(buffer, retired) /\ Counted(pipe, buffer, bypassed) /\ Aligned(pipe, predicted)
      /\ simComplete = FALSE => Injected(pipe, event)
      /\ simComplete = TRUE => buffer.next = Null
  BY <1>1 DEF Keeping
<1>3. /\ buffer' = GetNextFetchHandle(SetNextFetch(buffer, Place(buffer, pipe[i].n)))
      /\ simComplete' = simComplete /\ event' = IF event.at > i THEN NoEvent ELSE event
      /\ warming' = FALSE /\ retired' = retired /\ bypassed' = bypassed
  BY <1>1 DEF Kill, Rewound, EventAfterKill, warmup
<1>4. PICK r : /\ r = GetNextFetchHandle(SetNextFetch(buffer, Place(buffer, pipe[i].n)))
               /\ buffer' = r
  BY <1>3
<1>5. PICK f : f = (IF event.at > i THEN NoEvent ELSE event) /\ event' = f
  BY <1>3
<1>6. PICK q : q = SubSeq(pipe, 1, i) /\ pipe' = q
  OBVIOUS
<1>7. /\ Counted(q, r, bypassed) /\ r.list = buffer.list /\ r.uid = buffer.uid
  BY <1>1, <1>2, <1>4, <1>6, BehindCounts
<1>8. PICK k \in 1 .. Len(buffer.list) :
        Flies(pipe, buffer, i, k) /\ (r.next = Null <=> k = Len(buffer.list))
  BY <1>1, <1>2, <1>4, BehindCounts
<1>9. Retires(r, retired)
  BY <1>2, <1>7, RetiresSame
<1>10. i \in 0 .. Len(pipe)
  BY <1>1
<1>11. Aligned(q, {GoesTo(i)})
  <2>1. \A pc \in {GoesTo(i)} : Onward(pipe[i].n, pc)
    BY DEF GoesTo, Onward
  <2> QED
    BY <2>1, <1>1, <1>2, <1>6, <1>10, AlignedPrefix
<1>12. ASSUME simComplete = FALSE PROVE Injected(q, f)
  <2>1. event.at \in Nat
    BY <1>1, EventAt
  <2>2. \A j \in 1 .. i : event.at = j => f.at = j
    BY <2>1, <1>5, <1>10
  <2>3. Injected(pipe, event)
    BY <1>2, <1>12
  <2> QED
    BY <2>2, <2>3, <1>1, <1>6, <1>10, InjectedPrefix
<1>13. ASSUME simComplete = TRUE PROVE r.next = Null
  <2> SUFFICES ASSUME k # Len(buffer.list) PROVE FALSE
    BY <1>8
  <2>1. BufferOK(buffer) /\ Typed(buffer) /\ Increasing(buffer)
    BY <1>1 DEF Steady, BufferOK
  <2>2. Len(buffer.list) \in Nat /\ k + 1 \in 1 .. Len(buffer.list) /\ k < k + 1
    BY <2>1, BufferMembers
  <2>3. Fetched(buffer, k + 1)
    BY <2>2, <1>2, <1>13 DEF Fetched
  <2>4. buffer.list[k].n = pipe[i].n
    BY <1>8 DEF Flies
  <2>5. buffer.list[k].n < buffer.list[k + 1].n
    BY <2>1, <2>2 DEF Increasing
  <2>6. buffer.list[k].n \in Nat /\ buffer.list[k + 1].n \in Nat
    BY <2>1, <2>2, BufferMembers
  <2>7. CASE buffer.list[k + 1].n \in bypassed
    <3>1. buffer.list[k + 1].n < pipe[i].n
      BY <2>7, <1>2 DEF Counted
    <3> QED
      BY <3>1, <2>4, <2>5, <2>6
  <2>8. CASE \E m \in 1 .. Len(pipe) : Flies(pipe, buffer, m, k + 1)
    <3>1. PICK m \in 1 .. Len(pipe) : Flies(pipe, buffer, m, k + 1)
      BY <2>8
    <3>2. i < m
      <4>1. i = m => k = k + 1
        BY <3>1, <2>2, <1>1, <1>8, Places
      <4>2. m < i => k + 1 < k
        BY <3>1, <2>2, <1>1, <1>8, Places
      <4> QED
        BY <4>1, <4>2, <2>2, <1>1
    <3>3. m \in i + 1 .. Len(pipe)
      BY <3>2, <1>1
    <3>4. pipe[m].tid = "good"
      BY <3>1 DEF Flies
    <3> QED
      BY <3>3, <3>4, <1>13
  <2> QED
    BY <2>2, <2>3, <2>7, <2>8, <1>2 DEF Counted
<1> QED
  BY <1>3, <1>4, <1>5, <1>6, <1>7, <1>9, <1>11, <1>12, <1>13 DEF Keeping

\* An instruction behind a mispredicted one is not of the path.
LEMMA ResteerKeeps ==
    ASSUME FeedInv, Keeping, Limits, Resteer
    PROVE  Keeping' /\ Limits'
<1>1. error = "none" /\ UNCHANGED <<warmup, retired, bypassed>> /\ events' = events
  BY DEF Resteer
<1>2. PICK i \in DOMAIN pipe :
        /\ Mispredicted(i) /\ Kill(i, TRUE, FALSE)
        /\ pipe' = SubSeq(pipe, 1, i) /\ predicted' = {GoesTo(i)}
  BY DEF Resteer
<1>3. pipe[i].tid = "good" /\ i < Len(pipe) /\ pipe[i + 1].pc # Stream[pipe[i].n].to
  BY <1>2 DEF Mispredicted, GoesTo
<1>4. pipe # <<>>
  BY <1>2
<1>5. warming = FALSE /\ pipe \in Seq(Instr) /\ Len(pipe) \in Nat /\ i \in 1 .. Len(pipe)
  BY <1>1, <1>2, <1>4, PipeFeeds
<1>6. Aligned(pipe, predicted)
  BY <1>5 DEF Keeping
<1>7. \A j \in i + 1 .. Len(pipe) : pipe[j].tid # "good"
  <2>1. i \in 1 .. Len(pipe) - 1
    BY <1>3, <1>5
  <2> QED
    BY <2>1, <1>3, <1>6 DEF Aligned
<1>8. Keeping'
  BY <1>1, <1>2, <1>3, <1>4, <1>5, <1>7, KillBehindKeeps
<1>9. i \in 0 .. Len(pipe)
  BY <1>5
<1>10. pipe' \in Seq(Instr) /\ Len(pipe') <= Len(pipe)
  BY <1>2, <1>5, <1>9, PrefixTyped
<1>11. Limits'
  <2>1. retired' \in 0 .. StreamSize
    BY <1>1 DEF Limits
  <2> QED
    BY <2>1, <1>1, <1>5, <1>10, ShorterLimits
<1> QED
  BY <1>8, <1>11

LEMMA TrapInsideKeeps ==
    ASSUME ~ LateTraps, FeedInv, Keeping, Limits, TrapInside
    PROVE  Keeping' /\ Limits'
<1>1. UNCHANGED <<warmup, retired, bypassed>> /\ events' = events + 1
  BY DEF TrapInside
<1>2. PICK i \in 1 .. Window :
        /\ MayTrap(i) /\ pipe[i].tid = "good" /\ Kill(i, TRUE, FALSE)
        /\ pipe' = SubSeq(pipe, 1, i) /\ predicted' = {GoesTo(i)}
  BY DEF TrapInside
<1>3. error = "none" /\ i \in DOMAIN pipe /\ ~ simComplete /\ events < MaxEvents
  BY <1>2 DEF MayTrap
<1>4. pipe # <<>>
  BY <1>3
<1>5. pipe \in Seq(Instr) /\ Len(pipe) \in Nat /\ i \in 1 .. Len(pipe)
  BY <1>3, <1>4, PipeFeeds
<1>6. Keeping'
  BY <1>1, <1>2, <1>3, <1>4, <1>5, KillBehindKeeps
<1>7. i \in 0 .. Len(pipe)
  BY <1>5
<1>8. pipe' \in Seq(Instr) /\ Len(pipe') <= Len(pipe)
  BY <1>2, <1>5, <1>7, PrefixTyped
<1>9. Limits'
  <2>1. retired' \in 0 .. StreamSize
    BY <1>1 DEF Limits
  <2> QED
    BY <2>1, <1>1, <1>3, <1>5, <1>8, ShorterLimits
<1> QED
  BY <1>6, <1>9

\* A trap of an instruction of the path, or of an injected NOP.
LEMMA TrapKeeps ==
    ASSUME ~ LateTraps, FeedInv, Keeping, Limits, Trap
    PROVE  Keeping' /\ Limits'
<1>1. UNCHANGED <<warmup, retired, bypassed>> /\ events' = events + 1
  BY DEF Trap
<1>2. PICK i \in 1 .. Window :
        /\ MayTrap(i) /\ pipe[i].tid # "wrong" /\ Kill(i, FALSE, TRUE)
        /\ pipe' = SubSeq(pipe, 1, i - 1) /\ predicted' = {pipe[i].pc}
  BY DEF Trap
<1>3. /\ error = "none" /\ i \in DOMAIN pipe /\ pipe[i].tid # "switch"
      /\ ~ simComplete /\ events < MaxEvents
  BY <1>2 DEF MayTrap
<1>4. pipe # <<>>
  BY <1>3
<1>5. /\ simComplete = FALSE /\ warming = FALSE /\ Steady(pipe, buffer, event)
      /\ pipe \in Seq(Instr) /\ Len(pipe) \in Nat
  BY <1>3, <1>4, PipeFeeds
<1>6. i \in 1 .. Len(pipe) /\ i \in Nat /\ i - 1 \in 0 .. Len(pipe)
  BY <1>3, <1>5
<1>7. pipe[i].tid \in {"good", "artificial"}
  <2>1. pipe[i] \in Instr
    BY <1>5, <1>6, PipeMembers
  <2> QED
    BY <2>1, <1>2, <1>3 DEF Instr
<1>8. /\ Retires(buffer, retired) /\ Counted(pipe, buffer, bypassed) /\ Aligned(pipe, predicted)
      /\ Injected(pipe, event)
  BY <1>5 DEF Keeping
<1>9. /\ buffer' = IF pipe[i].tid = "good"
                   THEN SetNextFetch(buffer, Place(buffer, pipe[i].n)) ELSE buffer
      /\ simComplete' = FALSE /\ warming' = FALSE /\ retired' = retired /\ bypassed' = bypassed
      /\ event' = IF event.at > i \/ event.at = i THEN NoEvent ELSE event
  BY <1>1, <1>2, <1>5 DEF Kill, Rewound, EventAfterKill, warmup
<1>10. PICK r : /\ r = IF pipe[i].tid = "good"
                       THEN SetNextFetch(buffer, Place(buffer, pipe[i].n)) ELSE buffer
                /\ buffer' = r
  BY <1>9
<1>11. PICK f : f = (IF event.at > i \/ event.at = i THEN NoEvent ELSE event) /\ event' = f
  BY <1>9
<1>12. PICK q : q = SubSeq(pipe, 1, i - 1) /\ pipe' = q
  BY <1>2
<1>13. /\ bypassed \subseteq 1 .. StreamSize
       /\ \A m \in bypassed, j \in 1 .. i - 1 : pipe[j].tid = "good" => m < pipe[j].n
  <2>1. \A j \in 1 .. i - 1 : j \in 1 .. Len(pipe)
    BY <1>5, <1>6
  <2> QED
    BY <2>1, <1>8 DEF Counted
<1>14. r.list = buffer.list /\ r.uid = buffer.uid /\ Counted(q, r, bypassed)
  <2>1. CASE pipe[i].tid = "good"
    <3>1. PICK k \in 1 .. Len(buffer.list) : Flies(pipe, buffer, i, k)
      BY <2>1, <1>5, <1>6 DEF Steady, InFlight
    <3>2. Place(buffer, pipe[i].n) = k
      BY <3>1, <1>5, <1>6, Places
    <3>3. r = SetNextFetch(buffer, k)
      BY <2>1, <3>2, <1>10
    <3>4. BufferOK(buffer) /\ Typed(buffer)
      BY <1>5 DEF Steady, BufferOK
    <3>5. /\ r.list = buffer.list /\ r.uid = buffer.uid /\ Upcoming(r) = buffer.list[k].n
          /\ \A j \in 1 .. Len(buffer.list) : Fetched(r, j) <=> j < k
      BY <3>3, <3>4, Rewinds
    <3>6. Fetched(buffer, k) /\ buffer.list[k].n = pipe[i].n
      BY <3>1 DEF Flies
    <3>7. Len(buffer.list) \in Nat /\ buffer.next \in Nat
      BY <3>4, BufferMembers
    <3>8. \A j \in 1 .. Len(buffer.list) : Fetched(r, j) => Fetched(buffer, j)
      BY <3>5, <3>6, <3>7 DEF Fetched
    <3>9. ASSUME NEW j \in 1 .. Len(buffer.list), Fetched(r, j), NEW m \in i - 1 + 1 .. Len(pipe)
          PROVE  ~ Flies(pipe, buffer, m, j)
      <4> SUFFICES ASSUME Flies(pipe, buffer, m, j) PROVE FALSE
        OBVIOUS
      <4>1. m \in 1 .. Len(pipe) /\ (i = m \/ i < m)
        BY <1>5, <1>6
      <4>2. k = j \/ k < j
        BY <4>1, <3>1, <1>5, <1>6, Places
      <4>3. j < k
        BY <3>5, <3>9
      <4> QED
        BY <4>2, <4>3, <3>7
    <3>10. \A m \in bypassed : m < Upcoming(r)
      BY <2>1, <3>5, <3>6, <1>6, <1>8 DEF Counted
    <3>11. Counted(q, r, bypassed)
      BY <3>5, <3>8, <3>9, <3>10, <1>5, <1>6, <1>8, <1>12, <1>13, Recount
    <3> QED
      BY <3>5, <3>11
  <2>2. CASE pipe[i].tid = "artificial"
    <3>1. r = buffer
      BY <2>2, <1>10
    <3>2. event.at = i
      BY <2>2, <1>6, <1>8 DEF Injected
    <3>3. event # NoEvent
      BY <3>2, <1>6, NoEventIsEvent
    <3>4. \A m \in i + 1 .. Len(pipe) : pipe[m].tid \in {"wrong", "switch"}
      BY <3>2, <3>3, <1>5 DEF Steady, Pending
    <3>5. \A m \in i - 1 + 1 .. Len(pipe) : pipe[m].tid # "good"
      <4>1. \A m \in i - 1 + 1 .. Len(pipe) : m = i \/ m \in i + 1 .. Len(pipe)
        BY <1>5, <1>6
      <4> QED
        BY <4>1, <3>4, <2>2
    <3>6. \A k \in 1 .. Len(buffer.list), m \in i - 1 + 1 .. Len(pipe) : ~ Flies(pipe, buffer, m, k)
      BY <3>5 DEF Flies
    <3>7. \A m \in bypassed : m < Upcoming(buffer)
      BY <1>8 DEF Counted
    <3>8. Counted(q, buffer, bypassed)
      BY <3>6, <3>7, <1>5, <1>6, <1>8, <1>12, <1>13, Recount
    <3> QED
      BY <3>1, <3>8
  <2> QED
    BY <2>1, <2>2, <1>7
<1>15. Retires(r, retired)
  BY <1>8, <1>14, RetiresSame
<1>16. Aligned(q, {pipe[i].pc})
  <2>1. ASSUME i - 1 > 0, pipe[i - 1].tid = "good" PROVE Onward(pipe[i - 1].n, pipe[i].pc)
    <3>1. i - 1 \in 1 .. Len(pipe) - 1 /\ i - 1 + 1 = i
      BY <2>1, <1>5, <1>6
    <3> QED
      BY <3>1, <2>1, <1>8 DEF Aligned
  <2>2. PICK l \in 0 .. Len(pipe) : l = i - 1
    BY <1>6
  <2>3. l > 0 /\ pipe[l].tid = "good" => \A pc \in {pipe[i].pc} : Onward(pipe[l].n, pc)
    BY <2>1, <2>2
  <2>4. q = SubSeq(pipe, 1, l)
    BY <2>2, <1>12
  <2> QED
    BY <2>3, <2>4, <1>5, <1>8, AlignedPrefix
<1>17. Injected(q, f)
  <2>1. event.at \in Nat
    BY <1>5, EventAt
  <2>2. \A j \in 1 .. i - 1 : event.at = j => f.at = j
    BY <2>1, <1>6, <1>11
  <2> QED
    BY <2>2, <1>5, <1>6, <1>8, <1>12, InjectedPrefix
<1>18. Keeping'
  BY <1>2, <1>9, <1>10, <1>11, <1>12, <1>14, <1>15, <1>16, <1>17 DEF Keeping
<1>19. pipe' \in Seq(Instr) /\ Len(pipe') <= Len(pipe)
  BY <1>5, <1>6, <1>12, PrefixTyped
<1>20. Limits'
  <2>1. retired' \in 0 .. StreamSize
    BY <1>1 DEF Limits
  <2> QED
    BY <2>1, <1>1, <1>3, <1>5, <1>19, ShorterLimits
<1> QED
  BY <1>18, <1>20

\* A squash off the path.
LEMMA KillWrongPathKeeps ==
    ASSUME ~ LateTraps, FeedInv, Keeping, Limits, KillWrongPath
    PROVE  Keeping' /\ Limits'
<1>1. UNCHANGED <<warmup, retired, bypassed>> /\ events' = events + 1
  BY DEF KillWrongPath
<1>2. PICK i \in 1 .. Window :
        /\ MayTrap(i) /\ pipe[i].tid = "wrong" /\ Kill(i, TRUE, FALSE)
        /\ pipe' = SubSeq(pipe, 1, i)
  BY DEF KillWrongPath
<1>3. error = "none" /\ i \in DOMAIN pipe /\ ~ simComplete /\ events < MaxEvents
  BY <1>2 DEF MayTrap
<1>4. pipe # <<>>
  BY <1>3
<1>5. /\ simComplete = FALSE /\ warming = FALSE /\ Steady(pipe, buffer, event)
      /\ pipe \in Seq(Instr) /\ Len(pipe) \in Nat /\ Straight(pipe, onBadPath)
  BY <1>3, <1>4, PipeFeeds
<1>6. i \in 1 .. Len(pipe) /\ i \in 0 .. Len(pipe)
  BY <1>3, <1>5
<1>7. /\ Retires(buffer, retired) /\ Counted(pipe, buffer, bypassed) /\ Aligned(pipe, predicted)
      /\ Injected(pipe, event)
  BY <1>5 DEF Keeping
<1>8. /\ buffer' = buffer /\ simComplete' = FALSE /\ event' = event /\ warming' = FALSE
      /\ retired' = retired /\ bypassed' = bypassed
  BY <1>1, <1>2, <1>5 DEF Kill, feeder, warmup
<1>9. PICK q : q = SubSeq(pipe, 1, i) /\ pipe' = q
  BY <1>2
<1>10. \A m \in i + 1 .. Len(pipe) : m \in 1 .. Len(pipe) /\ i < m
  BY <1>5, <1>6
<1>11. \A m \in i + 1 .. Len(pipe) : pipe[m].tid # "good"
  BY <1>2, <1>5, <1>6, <1>10 DEF Straight
<1>12. \A k \in 1 .. Len(buffer.list), m \in i + 1 .. Len(pipe) : ~ Flies(pipe, buffer, m, k)
  BY <1>11 DEF Flies
<1>13. /\ bypassed \subseteq 1 .. StreamSize /\ \A m \in bypassed : m < Upcoming(buffer)
       /\ \A m \in bypassed, j \in 1 .. i : pipe[j].tid = "good" => m < pipe[j].n
  <2>1. \A j \in 1 .. i : j \in 1 .. Len(pipe)
    BY <1>5, <1>6
  <2> QED
    BY <2>1, <1>7 DEF Counted
<1>14. Counted(q, buffer, bypassed)
  BY <1>5, <1>6, <1>7, <1>9, <1>12, <1>13, Recount
<1>15. PICK on : on = predicted'
  OBVIOUS
<1>16. Aligned(q, on)
  <2>1. pipe[i].tid # "good"
    BY <1>2
  <2> QED
    BY <2>1, <1>5, <1>6, <1>7, <1>9, AlignedPrefix
<1>17. Injected(q, event)
  <2>1. \A j \in 1 .. i : event.at = j => event.at = j
    OBVIOUS
  <2> QED
    BY <2>1, <1>5, <1>6, <1>7, <1>9, InjectedPrefix
<1>18. Keeping'
  BY <1>7, <1>8, <1>9, <1>14, <1>15, <1>16, <1>17 DEF Keeping
<1>19. pipe' \in Seq(Instr) /\ Len(pipe') <= Len(pipe)
  BY <1>5, <1>6, <1>9, PrefixTyped
<1>20. Limits'
  <2>1. retired' \in 0 .. StreamSize
    BY <1>1 DEF Limits
  <2> QED
    BY <2>1, <1>1, <1>3, <1>5, <1>19, ShorterLimits
<1> QED
  BY <1>18, <1>20

\* The oldest instruction commits.
LEMMA CommitKeeps ==
    ASSUME OnlyREPsRepeat, FeedInv, Keeping, Limits, Commit, error' = "none"
    PROVE  Keeping' /\ Limits'
<1>1. /\ pipe # <<>> /\ error = "none" /\ event.at # 1
      /\ buffer' = Commits(buffer) /\ pipe' = Tail(pipe)
      /\ predicted' = IF Len(pipe) = 1 /\ pipe[1].tid = "good" THEN {GoesTo(1)} ELSE predicted
      /\ event' = [event EXCEPT !.at = IF @ = 0 THEN 0 ELSE @ - 1]
      /\ retired' = IF pipe[1].tid = "good" THEN pipe[1].n ELSE retired
      /\ simComplete' = simComplete /\ warming' = warming /\ bypassed' = bypassed
      /\ events' = events
  BY DEF Commit, warmup
<1>2. /\ simComplete \in BOOLEAN /\ warming = FALSE /\ Steady(pipe, buffer, event)
      /\ pipe \in Seq(Instr) /\ Len(pipe) \in Nat /\ Len(pipe) >= 1
  BY <1>1, PipeFeeds
<1>3. /\ Retires(buffer, retired) /\ Counted(pipe, buffer, bypassed) /\ Aligned(pipe, predicted)
      /\ simComplete = FALSE => Injected(pipe, event)
      /\ simComplete = TRUE => buffer.next = Null
  BY <1>2 DEF Keeping
<1>4. PICK r : /\ r = IF pipe[1].tid # "good" THEN buffer
                      ELSE CommitInstruction(buffer, Place(buffer, pipe[1].n))
               /\ buffer' = r
  BY <1>1 DEF Commits
<1>5. PICK f : f = [event EXCEPT !.at = IF @ = 0 THEN 0 ELSE @ - 1] /\ event' = f
  BY <1>1
<1>6. Counted(Tail(pipe), r, bypassed)
  BY <1>1, <1>2, <1>3, <1>4, CommitCounts
<1>7. buffer.next = Null => r.next = Null
  BY <1>1, <1>2, <1>3, <1>4, CommitCounts
<1>8. retired' \in 0 .. StreamSize /\ Retires(r, retired')
  <2>1. CASE pipe[1].tid = "good"
    <3>1. BufferOK(buffer)
      BY <1>2 DEF Steady
    <3>2. pipe[1].n \in 1 .. StreamSize
      BY <2>1, <1>1, <1>2, <1>3, <1>4, CommitCounts
    <3>3. PICK k \in 1 .. Len(buffer.list) :
            buffer.list[k].n = pipe[1].n /\ Oldest(r) = Following(buffer, k)
      BY <2>1, <1>1, <1>2, <1>3, <1>4, CommitCounts
    <3>4. /\ buffer.list[k].n < Following(buffer, k)
          /\ MergedInto(buffer.list[k].n, Following(buffer, k) - 1)
      BY <3>1, GapMerged
    <3>5. retired' = buffer.list[k].n
      BY <2>1, <3>3, <1>1
    <3>6. Retires(r, retired')
      BY <3>3, <3>4, <3>5 DEF Retires
    <3>7. retired' \in 0 .. StreamSize
      BY <2>1, <3>2, <1>1, Sizes
    <3> QED
      BY <3>6, <3>7
  <2>2. CASE pipe[1].tid # "good"
    BY <2>2, <1>1, <1>3, <1>4 DEF Limits
  <2> QED
    BY <2>1, <2>2
<1>9. PICK on : on = predicted'
  OBVIOUS
<1>10. Aligned(Tail(pipe), on)
  <2>1. Len(pipe) # 1 => on = predicted
    BY <1>1, <1>9
  <2> QED
    BY <2>1, <1>1, <1>2, <1>3, AlignedTail
<1>11. ASSUME simComplete = FALSE PROVE Injected(Tail(pipe), f)
  <2>1. event.at \in Nat /\ event \in Events
    BY <1>2, EventAt DEF Steady
  <2>2. f.at = IF event.at = 0 THEN 0 ELSE event.at - 1
    BY <2>1, <1>5 DEF Events
  <2>3. Injected(pipe, event)
    BY <1>3, <1>11
  <2> QED
    BY <2>1, <2>2, <2>3, <1>1, <1>2, InjectedTail
<1>12. Keeping'
  <2>1. Retires(buffer', retired') /\ warming' = FALSE
    BY <1>1, <1>2, <1>4, <1>8
  <2>2. Counted(pipe', buffer', bypassed') /\ Aligned(pipe', predicted')
    BY <1>1, <1>4, <1>6, <1>9, <1>10
  <2>3. simComplete' = FALSE => Injected(pipe', event')
    BY <1>1, <1>5, <1>11
  <2>4. simComplete' = TRUE => buffer'.next = Null
    BY <1>1, <1>3, <1>4, <1>7
  <2> QED
    BY <2>1, <2>2, <2>3, <2>4 DEF Keeping
<1>13. pipe' \in Seq(Instr) /\ Len(pipe') <= Len(pipe)
  BY <1>1, <1>2
<1>14. Limits'
  BY <1>1, <1>2, <1>8, <1>13, ShorterLimits
<1> QED
  BY <1>12, <1>14

\* Nothing in flight, and nothing fetched that has not been bypassed.
LEMMA EmptyKeeps ==
    ASSUME NEW pred, NEW e
    PROVE  Aligned(<<>>, pred) /\ Injected(<<>>, e)
<1>1. PICK q : q = <<>>
  OBVIOUS
<1>2. Len(q) = 0
  BY <1>1
<1>3. /\ ~\E i \in 1 .. Len(q) : TRUE
      /\ ~\E i \in 1 .. Len(q) - 1 : TRUE
  BY <1>2
<1>4. Aligned(q, pred) /\ Injected(q, e)
  BY <1>2, <1>3 DEF Aligned, Injected
<1> QED
  BY <1>1, <1>4

\* The model bypasses the oldest instruction for an interrupt.
LEMMA BypassCounts ==
    ASSUME NEW p, NEW b, NEW e, Steady(p, b, e), NEW by, Counted(p, b, by),
           1 \in 1 .. Len(p), p[1].tid = "good",
           NEW r, r = GetNextFetchHandle(SetNextFetch(b, Place(b, p[1].n)))
    PROVE  Counted(<<>>, r, by \cup {p[1].n})
<1>1. BufferOK(b) /\ Typed(b) /\ p \in Seq(Instr)
  BY DEF Steady, BufferOK
<1>2. PICK q : q = SubSeq(p, 1, 1)
  OBVIOUS
<1>3. Len(p) \in Nat /\ Len(p) >= 1 /\ 1 \in 0 .. Len(p)
  BY <1>1, PipeMembers
<1>4. q \in Seq(Instr) /\ Len(q) = 1 /\ q[1] = p[1]
  BY <1>1, <1>2, <1>3
<1>5. Counted(q, r, by) /\ r.list = b.list
  BY <1>2, BehindCounts
<1>6. PICK k \in 1 .. Len(b.list) : Flies(p, b, 1, k) /\ Upcoming(r) = Following(b, k)
  BY BehindCounts
<1>7. PICK n : n = p[1].n
  OBVIOUS
<1>8. b.list[k].n = n
  BY <1>6, <1>7 DEF Flies
<1>9. n \in 1 .. StreamSize /\ n < Upcoming(r)
  <2>1. b.list[k].n \in Nat /\ b.list[k].n >= 1 /\ b.list[k].n <= StreamSize
    BY <1>1, BufferMembers
  <2>2. b.list[k].n < Following(b, k)
    BY <1>1, FollowingGrows
  <2> QED
    BY <2>1, <2>2, <1>6, <1>8, Sizes
<1>10. PICK on : on = by \cup {n}
  OBVIOUS
<1>11. by \subseteq on /\ on \subseteq 1 .. StreamSize
  BY <1>5, <1>9, <1>10 DEF Counted
<1>12. \A m \in on : m < Upcoming(r)
  BY <1>5, <1>9, <1>10 DEF Counted
<1>13. ASSUME NEW j \in 1 .. Len(r.list), Fetched(r, j)
       PROVE  r.list[j].n \in on \/ \A i \in 0 + 1 .. Len(q) : ~ Flies(q, r, i, j)
  <2> SUFFICES ASSUME NEW i \in 0 + 1 .. Len(q), Flies(q, r, i, j) PROVE r.list[j].n \in on
    OBVIOUS
  <2>1. i = 1
    BY <1>4
  <2>2. r.list[j].n = n
    BY <2>1, <1>4, <1>7 DEF Flies
  <2> QED
    BY <2>2, <1>10
<1>14. PICK z : z = SubSeq(q, 1, 0)
  OBVIOUS
<1>15. z = <<>>
  BY <1>4, <1>14
<1>16. 0 \in 0 .. Len(q) /\ ~\E i \in 1 .. 0 : TRUE
  BY <1>4
<1>17. Counted(z, r, on)
  BY <1>4, <1>5, <1>11, <1>12, <1>13, <1>14, <1>16, Recount
<1> QED
  BY <1>7, <1>10, <1>15, <1>17

\* The oldest instruction of the path commits with its event.
LEMMA AloneCounts ==
    ASSUME OnlyREPsRepeat, NEW p, NEW b, NEW e, Steady(p, b, e), NEW by, Counted(p, b, by),
           e.at = 1, 1 \in 1 .. Len(p), p[1].tid = "good",
           NEW r, r = GetNextFetchHandle(SetNextFetch(b, Place(b, p[1].n))),
           NEW c, c = CommitInstruction(r, Place(r, p[1].n))
    PROVE  Counted(<<>>, c, by) /\ Retires(c, p[1].n) /\ p[1].n \in 1 .. StreamSize
<1>1. p \in Seq(Instr)
  BY DEF Steady
<1>2. PICK q : q = SubSeq(p, 1, 1)
  OBVIOUS
<1>3. Len(p) \in Nat /\ Len(p) >= 1
  BY <1>1, PipeMembers
<1>4. q \in Seq(Instr) /\ Len(q) = 1 /\ q[1] = p[1] /\ q # <<>> /\ Tail(q) = <<>>
  BY <1>1, <1>2, <1>3
<1>5. Counted(q, r, by)
  BY <1>2, BehindCounts
<1>6. Steady(q, r, e)
  <2>1. e = IF e.at > 1 THEN NoEvent ELSE e
    OBVIOUS
  <2> QED
    BY <2>1, <1>2, SquashBehind
<1>7. BufferOK(r)
  BY <1>6 DEF Steady
<1>8. c = IF q[1].tid # "good" THEN r ELSE CommitInstruction(r, Place(r, q[1].n))
  BY <1>4
<1>9. Counted(Tail(q), c, by)
  BY <1>4, <1>5, <1>6, <1>8, CommitCounts
<1>10. q[1].tid = "good"
  BY <1>4
<1>11. q[1].n \in 1 .. StreamSize
  BY <1>4, <1>5, <1>6, <1>8, <1>10, CommitCounts
<1>12. PICK k \in 1 .. Len(r.list) : r.list[k].n = q[1].n /\ Oldest(c) = Following(r, k)
  BY <1>4, <1>5, <1>6, <1>8, <1>10, CommitCounts
<1>13. /\ r.list[k].n < Following(r, k)
       /\ MergedInto(r.list[k].n, Following(r, k) - 1)
  BY <1>7, GapMerged
<1>14. Retires(c, q[1].n)
  BY <1>12, <1>13 DEF Retires
<1> QED
  BY <1>4, <1>9, <1>11, <1>14

LEMMA TakeInterruptKeeps ==
    ASSUME OnlyREPsRepeat, FeedInv, Keeping, Limits, TakeInterrupt, error' = "none"
    PROVE  Keeping' /\ Limits'
<1>1. /\ pipe # <<>> /\ error = "none" /\ event.at = 1
      /\ pipe' = <<>> /\ simComplete' = simComplete /\ warming' = warming /\ events' = events
  BY DEF TakeInterrupt, warmup
<1>2. /\ simComplete \in BOOLEAN /\ warming = FALSE /\ Steady(pipe, buffer, event)
      /\ simComplete = TRUE => event = NoEvent
      /\ pipe \in Seq(Instr) /\ Len(pipe) \in Nat /\ Len(pipe) >= 1
  BY <1>1, PipeFeeds
<1>3. event # NoEvent /\ simComplete = FALSE
  BY <1>1, <1>2, NoEventIsEvent
<1>4. Retires(buffer, retired) /\ Counted(pipe, buffer, bypassed)
  BY <1>2 DEF Keeping
<1>5. 1 \in 1 .. Len(pipe)
  BY <1>2
<1>6. PICK b : b = Rewound(pipe[1], TRUE)
  OBVIOUS
<1>7. PICK bypass \in BOOLEAN :
        /\ bypass => pipe[1].tid = "good"
        /\ bypassed' = IF bypass THEN bypassed \cup {pipe[1].n} ELSE bypassed
        /\ IF bypass \/ pipe[1].tid # "good"
           THEN buffer' = b /\ retired' = retired
           ELSE buffer' = Commits(b) /\ retired' = pipe[1].n
  BY <1>6 DEF TakeInterrupt
<1>8. retired \in 0 .. StreamSize
  BY DEF Limits
<1>9. PICK r : r = buffer'
  OBVIOUS
<1>10. Counted(<<>>, r, bypassed') /\ Retires(r, retired') /\ retired' \in 0 .. StreamSize
  <2>1. CASE pipe[1].tid = "good"
    <3>1. b = GetNextFetchHandle(SetNextFetch(buffer, Place(buffer, pipe[1].n)))
      BY <2>1, <1>6 DEF Rewound
    <3>2. CASE bypass
      <4>1. r = b /\ retired' = retired /\ bypassed' = bypassed \cup {pipe[1].n}
        BY <3>2, <1>7, <1>9
      <4>2. Counted(<<>>, b, bypassed \cup {pipe[1].n})
        BY <2>1, <3>1, <1>2, <1>4, <1>5, BypassCounts
      <4>3. b.list = buffer.list /\ b.uid = buffer.uid
        BY <2>1, <3>1, <1>2, <1>4, <1>5, BehindCounts
      <4>4. Retires(b, retired)
        BY <4>3, <1>4, RetiresSame
      <4> QED
        BY <4>1, <4>2, <4>4, <1>8
    <3>3. CASE ~ bypass
      <4>1. /\ r = CommitInstruction(b, Place(b, pipe[1].n))
            /\ retired' = pipe[1].n /\ bypassed' = bypassed
        BY <2>1, <3>3, <1>7, <1>9 DEF Commits
      <4>2. Counted(<<>>, r, bypassed)
        BY <2>1, <3>1, <4>1, <1>1, <1>2, <1>4, <1>5, AloneCounts
      <4>3. Retires(r, pipe[1].n)
        BY <2>1, <3>1, <4>1, <1>1, <1>2, <1>4, <1>5, AloneCounts
      <4>4. pipe[1].n \in 1 .. StreamSize
        BY <2>1, <3>1, <4>1, <1>1, <1>2, <1>4, <1>5, AloneCounts
      <4>5. pipe[1].n \in 0 .. StreamSize
        BY <4>4, Sizes
      <4> QED
        BY <4>1, <4>2, <4>3, <4>5
    <3> QED
      BY <3>2, <3>3
  <2>2. CASE pipe[1].tid # "good"
    <3>1. r = buffer /\ retired' = retired /\ bypassed' = bypassed
      BY <2>2, <1>6, <1>7, <1>9 DEF Rewound
    <3>2. \A m \in 1 + 1 .. Len(pipe) : pipe[m].tid \in {"wrong", "switch"}
      BY <1>1, <1>2, <1>3 DEF Steady, Pending
    <3>3. \A m \in 0 + 1 .. Len(pipe) : pipe[m].tid # "good"
      <4>1. \A m \in 0 + 1 .. Len(pipe) : m = 1 \/ m \in 1 + 1 .. Len(pipe)
        BY <1>2
      <4> QED
        BY <4>1, <3>2, <2>2
    <3>4. \A k \in 1 .. Len(buffer.list), m \in 0 + 1 .. Len(pipe) : ~ Flies(pipe, buffer, m, k)
      BY <3>3 DEF Flies
    <3>5. bypassed \subseteq 1 .. StreamSize /\ \A m \in bypassed : m < Upcoming(buffer)
      BY <1>4 DEF Counted
    <3>6. PICK z : z = SubSeq(pipe, 1, 0)
      OBVIOUS
    <3>7. z = <<>>
      BY <3>6, <1>2
    <3>8. 0 \in 0 .. Len(pipe) /\ ~\E i \in 1 .. 0 : TRUE
      BY <1>2
    <3>9. Counted(z, buffer, bypassed)
      BY <3>4, <3>5, <3>6, <3>8, <1>2, <1>4, Recount
    <3> QED
      BY <3>1, <3>7, <3>9, <1>4, <1>8
  <2> QED
    BY <2>1, <2>2
<1>11. Keeping'
  <2>1. PICK pred : pred = predicted'
    OBVIOUS
  <2>2. PICK f : f = event'
    OBVIOUS
  <2>3. Aligned(<<>>, pred) /\ Injected(<<>>, f)
    BY EmptyKeeps
  <2>4. Aligned(pipe', predicted') /\ Injected(pipe', event') /\ Counted(pipe', buffer', bypassed')
    BY <2>1, <2>2, <2>3, <1>1, <1>9, <1>10
  <2>5. Retires(buffer', retired') /\ warming' = FALSE /\ simComplete' = FALSE
    BY <1>1, <1>2, <1>3, <1>9, <1>10
  <2> QED
    BY <2>4, <2>5 DEF Keeping
<1>12. pipe' \in Seq(Instr) /\ Len(pipe') <= Len(pipe)
  BY <1>1, <1>2
<1>13. Limits'
  BY <1>1, <1>2, <1>10, <1>12, ShorterLimits
<1> QED
  BY <1>11, <1>13

\* The instruction that was held back leaves the buffer.
LEMMA WarmUpReleases ==
    ASSUME OnlyREPsRepeat, FeedInv, Keeping, Limits, error = "none", warming = TRUE,
           NEW rel, rel = IF lastWarmup = 0 THEN buffer
                          ELSE CommitInstruction(buffer, Place(buffer, lastWarmup)),
           NEW ret, ret = IF lastWarmup = 0 THEN retired ELSE lastWarmup
    PROVE  /\ BufferOK(rel) /\ Counted(<<>>, rel, {}) /\ Retires(rel, ret)
           /\ ret \in 0 .. StreamSize
           /\ lastWarmup = 0 \/ CommitInOrder(buffer, Place(buffer, lastWarmup))
<1>1. /\ pipe = <<>> /\ IF lastWarmup = 0 THEN Waits(buffer) ELSE Holds(buffer, lastWarmup)
  BY DEF FeedInv, Feeding, WarmingUp
<1>2. Retires(buffer, retired) /\ retired \in 0 .. StreamSize
  BY DEF Keeping, Limits
<1>3. /\ BufferOK(rel) /\ Retires(rel, ret) /\ ret \in 0 .. StreamSize
      /\ lastWarmup = 0 \/ CommitInOrder(buffer, Place(buffer, lastWarmup))
      /\ \A j \in 1 .. Len(rel.list) : ~ Fetched(rel, j)
  <2>1. CASE lastWarmup = 0
    <3>1. rel = buffer /\ ret = retired
      BY <2>1
    <3>2. BufferOK(buffer) /\ buffer.next = IF Len(buffer.list) = 0 THEN Null ELSE 1
      BY <2>1, <1>1 DEF Waits
    <3>3. Len(buffer.list) \in Nat
      BY <3>2, BufferMembers DEF BufferOK
    <3>4. \A j \in 1 .. Len(buffer.list) : ~ Fetched(buffer, j)
      BY <3>2, <3>3 DEF Fetched, Null
    <3> QED
      BY <2>1, <3>1, <3>2, <3>4, <1>2
  <2>2. CASE lastWarmup # 0
    <3>1. /\ BufferOK(buffer) /\ 1 \in 1 .. Len(buffer.list) /\ buffer.list[1].n = lastWarmup
          /\ buffer.next = After(buffer, 1)
      BY <2>2, <1>1 DEF Holds
    <3>2. Place(buffer, lastWarmup) = 1
      BY <3>1, PlaceFound
    <3>3. Len(buffer.list) \in Nat /\ Typed(buffer)
      BY <3>1, BufferMembers DEF BufferOK
    <3>4. /\ buffer.next = Null => Len(buffer.list) = 1
          /\ buffer.next # Null => buffer.next = 2
      BY <3>1, <3>3 DEF After, Null
    <3>5. Fetched(buffer, 1)
      BY <3>1, <3>4 DEF Fetched
    <3>6. rel = CommitInstruction(buffer, 1) /\ ret = lastWarmup
      BY <2>2, <3>2
    <3>7. /\ BufferOK(rel) /\ rel.uid = buffer.uid /\ Len(rel.list) = Len(buffer.list) - 1
          /\ rel.next = IF buffer.next = Null THEN Null ELSE buffer.next - 1
          /\ \A j \in 1 .. Len(rel.list) :
               j + 1 \in 1 .. Len(buffer.list) /\ rel.list[j] = buffer.list[j + 1]
      BY <3>1, <3>5, <3>6, CommitShifts
    <3>8. \A j \in 1 .. Len(rel.list) : ~ Fetched(rel, j)
      BY <3>3, <3>4, <3>7 DEF Fetched, Null
    <3>9. Oldest(rel) = Following(buffer, 1)
      <4>1. CASE Len(rel.list) = 0
        BY <4>1, <3>3, <3>7 DEF Oldest, Following
      <4>2. CASE Len(rel.list) # 0
        <5>1. 1 \in 1 .. Len(rel.list) /\ 1 < Len(buffer.list)
          BY <4>2, <3>3, <3>7
        <5>2. rel.list[1] = buffer.list[1 + 1]
          BY <5>1, <3>7
        <5> QED
          BY <4>2, <5>1, <5>2 DEF Oldest, Following
      <4> QED
        BY <4>1, <4>2
    <3>10. /\ buffer.list[1].n < Following(buffer, 1)
           /\ MergedInto(buffer.list[1].n, Following(buffer, 1) - 1)
      BY <3>1, GapMerged
    <3>11. Retires(rel, ret)
      BY <3>1, <3>6, <3>9, <3>10 DEF Retires
    <3>12. ret \in 0 .. StreamSize
      <4>1. buffer.list[1].n \in Nat /\ buffer.list[1].n <= StreamSize
        BY <3>1, <3>3, BufferMembers
      <4> QED
        BY <4>1, <3>1, <3>6, Sizes
    <3>13. CommitInOrder(buffer, Place(buffer, lastWarmup))
      <4>1. ~\E j \in 1 .. 1 - 1 : TRUE
        OBVIOUS
      <4> QED
        BY <4>1, <3>2, <3>4 DEF CommitInOrder, Null
    <3> QED
      BY <3>7, <3>8, <3>11, <3>12, <3>13
  <2> QED
    BY <2>1, <2>2
<1>4. Counted(<<>>, rel, {})
  BY <1>3 DEF Counted
<1> QED
  BY <1>3, <1>4

\* WarmUp commits in order.
LEMMA WarmUpKeeps ==
    ASSUME OnlyREPsRepeat, FeedInv, Keeping, Limits, WarmUp
    PROVE  error' = "none" /\ Keeping' /\ Limits'
<1>1. /\ warming = TRUE /\ error = "none" /\ event' = event /\ pipe' = pipe
      /\ predicted' = predicted /\ bypassed' = bypassed /\ events' = events
  BY DEF WarmUp, FeedInv, WarmingUp, Feeding
<1>2. simComplete = FALSE /\ pipe = <<>> /\ bypassed = {}
  BY <1>1 DEF FeedInv, Feeding, WarmingUp, Keeping
<1>3. PICK rel : rel = IF lastWarmup = 0 THEN buffer
                       ELSE CommitInstruction(buffer, Place(buffer, lastWarmup))
  OBVIOUS
<1>4. PICK ret : ret = IF lastWarmup = 0 THEN retired ELSE lastWarmup
  OBVIOUS
<1>5. /\ BufferOK(rel) /\ Counted(<<>>, rel, {}) /\ Retires(rel, ret) /\ ret \in 0 .. StreamSize
      /\ lastWarmup = 0 \/ CommitInOrder(buffer, Place(buffer, lastWarmup))
  BY <1>1, <1>3, <1>4, WarmUpReleases
<1>6. error' = "none" /\ retired' = ret
  BY <1>4, <1>5 DEF WarmUp
<1>7. PICK r : r = FetchIncomingInstructions(rel, WarmupChunk)
  OBVIOUS
<1>8. Extends(rel, r) /\ BufferOK(r) /\ Typed(r)
  <2>1. Extends(rel, r)
    BY <1>5, <1>7, FetchExtends, Sizes DEF BufferOK
  <2> QED
    BY <2>1, <1>5, ExtendsKeeps DEF BufferOK
<1>9. Counted(<<>>, r, {}) /\ Oldest(r) = Oldest(rel)
  <2>1. Counted(<<>>, r, {})
    BY <1>5, <1>8, ReadCounts
  <2>2. Oldest(r) = Oldest(rel)
    BY <1>5, <1>8, ReadCounts
  <2> QED
    BY <2>1, <2>2
<1>10. Retires(r, ret)
  BY <1>5, <1>9 DEF Retires
<1>11. PICK h : h = GetNextFetchHandle(r)
  OBVIOUS
<1>12. /\ h.list = r.list /\ h.uid = r.uid
       /\ h.next = IF r.next = Null THEN Null ELSE After(r, r.next)
  BY <1>8, <1>11, HandleMoves DEF Alike
<1>13. IF r.next = Null \/ simComplete
       THEN simComplete' = TRUE /\ warming' = FALSE /\ buffer' = h
       ELSE /\ warming' = Stream[r.list[r.next].n].warm
            /\ buffer' = IF warming' THEN h ELSE r
            /\ simComplete' = simComplete
  BY <1>3, <1>7, <1>11 DEF WarmUp
<1>14. Retires(h, ret)
  BY <1>10, <1>12, RetiresSame
<1>15. Retires(buffer', retired')
  <2>1. buffer' = h \/ buffer' = r
    BY <1>13
  <2> QED
    BY <2>1, <1>6, <1>10, <1>14
<1>16. PICK pred : pred = predicted'
  OBVIOUS
<1>17. Aligned(<<>>, pred) /\ Injected(<<>>, event)
  BY EmptyKeeps
<1>18. Aligned(pipe', predicted') /\ Injected(pipe', event') /\ bypassed' = {}
  BY <1>1, <1>2, <1>16, <1>17
<1>19. Keeping'
  <2>1. CASE r.next = Null
    <3>1. h.next = Null /\ Upcoming(h) = Upcoming(r)
      BY <2>1, <1>12 DEF Upcoming
    <3>2. Counted(<<>>, h, {})
      <4>1. \A j \in 1 .. Len(h.list) : Fetched(h, j) => Fetched(r, j)
        BY <2>1, <1>12 DEF Fetched
      <4> QED
        BY <4>1, <1>9, <1>12 DEF Counted, Flies
    <3>3. simComplete' = TRUE /\ warming' = FALSE /\ buffer' = h
      BY <2>1, <1>13
    <3> QED
      BY <3>1, <3>2, <3>3, <1>1, <1>2, <1>15, <1>18 DEF Keeping
  <2>2. CASE r.next # Null
    <3>1. simComplete' = FALSE /\ buffer' = IF warming' THEN h ELSE r
      BY <2>2, <1>2, <1>13
    <3>2. warming' = FALSE => Counted(pipe', buffer', bypassed')
      BY <3>1, <1>1, <1>2, <1>9, <1>18
    <3> QED
      BY <3>1, <3>2, <1>15, <1>18 DEF Keeping
  <2> QED
    BY <2>1, <2>2
<1>20. pipe \in Seq(Instr) /\ pipe' \in Seq(Instr) /\ Len(pipe') <= Len(pipe)
  <2>1. pipe \in Seq(Instr)
    BY <1>2
  <2> QED
    BY <2>1, <1>1, PipeMembers
<1>21. Limits'
  BY <1>1, <1>5, <1>6, <1>20, ShorterLimits
<1> QED
  BY <1>6, <1>19, <1>21

LEMMA KeptTypedNext == (FeedInv /\ error = "none" /\ Keeping /\ Limits => TypeOK)'
  BY KeptTyped, PTL

\* A commit that fails changes nothing in the buffer.
LEMMA CommitFails ==
    ASSUME TypeOK, FeedInv, Commit, error' # "none"
    PROVE  TypeOK'
<1>1. /\ pipe # <<>> /\ error = "none" /\ event.at # 1
      /\ error' \in {"none", "wrongpathCommit", "outOfOrderCommit"}
      /\ buffer' = buffer /\ retired' = retired /\ pipe' = Tail(pipe)
      /\ predicted' = IF Len(pipe) = 1 /\ pipe[1].tid = "good" THEN {GoesTo(1)} ELSE predicted
      /\ event' = [event EXCEPT !.at = IF @ = 0 THEN 0 ELSE @ - 1]
      /\ onBadPath' = onBadPath /\ simComplete' = simComplete /\ warming' = warming
      /\ lastWarmup' = lastWarmup /\ events' = events /\ bypassed' = bypassed
  BY DEF Commit, warmup
<1>2. /\ predicted \subseteq Addresses /\ Steady(pipe, buffer, event)
      /\ pipe \in Seq(Instr) /\ Len(pipe) \in Nat /\ Len(pipe) >= 1
  BY <1>1, PipeFeeds
<1>3. predicted' \subseteq Addresses
  <2>1. 1 \in 1 .. Len(pipe)
    BY <1>2
  <2>2. GoesTo(1) \in Addresses
    BY <2>1, <1>2, GoesSomewhere
  <2> QED
    BY <2>2, <1>1, <1>2
<1>4. event \in [at : 0 .. Window, target : Addresses] /\ Window \in Nat
  BY Sizes DEF TypeOK
<1>5. event' \in [at : 0 .. Window, target : Addresses]
  <2>1. event.at \in 0 .. Window /\ event.target \in Addresses
    BY <1>4
  <2>2. (IF event.at = 0 THEN 0 ELSE event.at - 1) \in 0 .. Window
    BY <2>1, <1>4
  <2> QED
    BY <2>2, <1>1, <1>4
<1>6. pipe' \in Seq(Instr) /\ Len(pipe') <= Window
  <2>1. Len(pipe) <= Window
    BY DEF TypeOK
  <2> QED
    BY <2>1, <1>1, <1>2, <1>4
<1> QED
  BY <1>1, <1>3, <1>5, <1>6 DEF TypeOK

LEMMA InterruptFails ==
    ASSUME TypeOK, FeedInv, TakeInterrupt, error' # "none"
    PROVE  TypeOK'
<1>1. /\ pipe # <<>> /\ error = "none" /\ event.at = 1
      /\ predicted' = {event.target} /\ event' = NoEvent /\ onBadPath' = FALSE
      /\ pipe' = <<>> /\ simComplete' = simComplete /\ warming' = warming
      /\ lastWarmup' = lastWarmup /\ events' = events
  BY DEF TakeInterrupt, Handled, warmup
<1>2. PICK b : b = Rewound(pipe[1], TRUE)
  OBVIOUS
<1>3. /\ pipe[1].tid = "good" /\ buffer' = b /\ retired' = pipe[1].n /\ bypassed' = bypassed
      /\ error' \in {"none", "outOfOrderCommit"}
  <2>1. PICK bypass \in BOOLEAN :
          /\ bypassed' = IF bypass THEN bypassed \cup {pipe[1].n} ELSE bypassed
          /\ IF bypass \/ pipe[1].tid # "good"
             THEN error' = error
             ELSE /\ error' = IF CommitInOrder(b, Place(b, pipe[1].n))
                              THEN "none" ELSE "outOfOrderCommit"
                  /\ buffer' = IF error' = "none" THEN Commits(b) ELSE b
                  /\ retired' = pipe[1].n
    BY <1>2 DEF TakeInterrupt
  <2>2. ~ bypass /\ pipe[1].tid = "good"
    BY <2>1, <1>1
  <2> QED
    BY <2>1, <2>2
<1>4. Steady(pipe, buffer, event) /\ pipe \in Seq(Instr) /\ Len(pipe) \in Nat /\ 1 \in 1 .. Len(pipe)
  BY <1>1, PipeFeeds
<1>5. b = GetNextFetchHandle(SetNextFetch(buffer, Place(buffer, pipe[1].n)))
  BY <1>2, <1>3 DEF Rewound
<1>6. BufferOK(b)
  <2>1. event = IF event.at > 1 THEN NoEvent ELSE event
    BY <1>1
  <2>2. Steady(SubSeq(pipe, 1, 1), b, event)
    BY <2>1, <1>3, <1>4, <1>5, SquashBehind
  <2> QED
    BY <2>2 DEF Steady
<1>7. /\ b.list \in Seq([n : 1 .. StreamSize, uid : 1 .. StreamSize, implicit : BOOLEAN])
      /\ b.next \in 0 .. Len(b.list) /\ b.uid \in 0 .. StreamSize
  BY <1>6, BufferTyped
<1>8. pipe[1].n \in 0 .. StreamSize
  <2>1. pipe[1] \in Instr
    BY <1>4, PipeMembers
  <2> QED
    BY <2>1 DEF Instr
<1>9. event.target \in Addresses /\ Window \in Nat
  BY Sizes DEF TypeOK
<1>10. event' \in [at : 0 .. Window, target : Addresses] /\ predicted' \subseteq Addresses
  <2>1. event' = [at |-> 0, target |-> 0] /\ 0 \in Addresses /\ 0 \in 0 .. Window
    BY <1>1, <1>9 DEF NoEvent, Addresses
  <2> QED
    BY <2>1, <1>1, <1>9
<1>11. pipe' \in Seq(Instr) /\ Len(pipe') <= Window
  BY <1>1, <1>9
<1> QED
  BY <1>1, <1>3, <1>7, <1>8, <1>10, <1>11 DEF TypeOK

LEMMA NextGoesOn ==
    ASSUME OnlyREPsRepeat, ~ LateTraps, FeedInv, Keeping, Limits, predicted \subseteq Addresses,
           Next, error' = "none"
    PROVE  Keeping' /\ Limits'
<1>1. CASE WarmUp
  BY <1>1, WarmUpKeeps
<1>2. CASE Fetch
  <2>1. CanFetch
    BY <1>2 DEF Fetch
  <2>2. PICK pc \in predicted : FetchEnd(pc) \/ FetchJMP(pc) \/ FetchBadPath(pc) \/ FetchGood(pc)
    BY <1>2 DEF Fetch
  <2>3. CASE FetchEnd(pc)
    BY <2>1, <2>3, FetchEndKeeps
  <2>4. CASE FetchJMP(pc)
    BY <2>1, <2>4, FetchJMPKeeps
  <2>5. CASE FetchBadPath(pc)
    BY <2>1, <2>5, FetchBadPathKeeps
  <2>6. CASE FetchGood(pc)
    BY <2>1, <2>6, FetchGoodKeeps
  <2> QED
    BY <2>2, <2>3, <2>4, <2>5, <2>6
<1>3. CASE FetchSwitch
  BY <1>3, FetchSwitchKeeps
<1>4. CASE Commit
  BY <1>4, CommitKeeps
<1>5. CASE Resteer
  BY <1>5, ResteerKeeps
<1>6. CASE TakeInterrupt
  BY <1>6, TakeInterruptKeeps
<1>7. CASE Trap
  BY <1>7, TrapKeeps
<1>8. CASE TrapInside
  BY <1>8, TrapInsideKeeps
<1>9. CASE KillWrongPath
  BY <1>9, KillWrongPathKeeps
<1> QED
  BY <1>1, <1>2, <1>3, <1>4, <1>5, <1>6, <1>7, <1>8, <1>9 DEF Next

\* Only a commit fails.
LEMMA NextFails ==
    ASSUME OnlyREPsRepeat, TypeOK, FeedInv, error = "none", Keeping, Limits, Next,
           error' # "none"
    PROVE  TypeOK'
<1>1. CASE WarmUp
  BY <1>1, WarmUpKeeps
<1>2. CASE Commit
  BY <1>2, CommitFails
<1>3. CASE TakeInterrupt
  BY <1>3, InterruptFails
<1>4. CASE Fetch
  <2>1. PICK pc \in predicted : FetchEnd(pc) \/ FetchJMP(pc) \/ FetchBadPath(pc) \/ FetchGood(pc)
    BY <1>4 DEF Fetch
  <2>2. error' = error
    BY <2>1 DEF FetchEnd, FetchJMP, FetchBadPath, FetchGood, Deliver
  <2> QED
    BY <2>2
<1>5. CASE FetchSwitch \/ Resteer \/ Trap \/ TrapInside \/ KillWrongPath
  <2>1. error' = error
    BY <1>5 DEF FetchSwitch, Resteer, Trap, TrapInside, KillWrongPath
  <2> QED
    BY <2>1
<1> QED
  BY <1>1, <1>2, <1>3, <1>4, <1>5 DEF Next

LEMMA NextKeeps ==
    ASSUME OnlyREPsRepeat, ~ LateTraps, KeepInv, [Next]_vars
    PROVE  KeepInv'
<1>1. FeedInv /\ FeedInv' /\ TypeOK
  BY NextFeeds DEF KeepInv
<1>2. CASE UNCHANGED vars
  <2>1. /\ buffer' = buffer /\ onBadPath' = onBadPath /\ event' = event
        /\ simComplete' = simComplete /\ lastWarmup' = lastWarmup /\ warming' = warming
        /\ pipe' = pipe /\ predicted' = predicted /\ events' = events
        /\ retired' = retired /\ bypassed' = bypassed /\ error' = error
    BY <1>2 DEF vars, feeder, warmup, model
  <2>2. TypeOK'
    BY <2>1, <1>1 DEF TypeOK
  <2>3. error' = "none" => Keeping'
    BY <2>1 DEF KeepInv, Keeping
  <2> QED
    BY <2>2, <2>3, <1>1 DEF KeepInv
<1>3. CASE Next
  <2>1. error = "none"
    <3>1. \A i : MayTrap(i) => error = "none"
      BY DEF MayTrap
    <3> QED
      BY <1>3, <3>1 DEF Next, WarmUp, Fetch, FetchSwitch, CanFetch, Commit, Resteer,
                        TakeInterrupt, Trap, TrapInside, KillWrongPath
  <2>2. Keeping
    BY <2>1 DEF KeepInv
  <2>3. Limits /\ predicted \subseteq Addresses
    BY <1>1 DEF TypeOK, Limits
  <2>4. CASE error' = "none"
    <3>1. Keeping' /\ Limits'
      BY <2>2, <2>3, <2>4, <1>1, <1>3, NextGoesOn
    <3>2. TypeOK'
      BY <3>1, <2>4, <1>1, KeptTypedNext
    <3> QED
      BY <3>1, <3>2, <1>1 DEF KeepInv
  <2>5. CASE error' # "none"
    <3>1. TypeOK'
      BY <2>1, <2>2, <2>3, <2>5, <1>1, <1>3, NextFails
    <3> QED
      BY <3>1, <2>5, <1>1 DEF KeepInv
  <2> QED
    BY <2>4, <2>5
<1> QED
  BY <1>2, <1>3

Concatenates(t, v, s) ==
    /\ t \in Seq(Nat) /\ Len(t) = Len(v) + Len(s)
    /\ \A j \in 1 .. Len(v) : t[j] = v[j]
    /\ \A j \in 1 .. Len(s) : t[Len(v) + j] = s[j]

LEMMA Joined ==
    ASSUME NEW v \in Seq(Nat), NEW s \in Seq(Nat)
    PROVE  Concatenates(v \o s, v, s)
<1>1. PICK t : t = v \o s
  OBVIOUS
<1>2. t \in Seq(Nat) /\ Len(t) = Len(v) + Len(s) /\ Len(v) \in Nat /\ Len(s) \in Nat
  BY <1>1
<1>3. \A j \in 1 .. Len(v) : t[j] = v[j]
  BY <1>1
<1>4. ASSUME NEW j \in 1 .. Len(s) PROVE t[Len(v) + j] = s[j]
  <2>1. Len(v) + j \in 1 .. Len(t) /\ ~(Len(v) + j <= Len(v)) /\ (Len(v) + j) - Len(v) = j
    BY <1>2
  <2> QED
    BY <2>1, <1>1
<1> QED
  BY <1>1, <1>2, <1>3, <1>4 DEF Concatenates

\* What follows the list of NothingLost.
LEMMA KeptIsThere ==
    ASSUME OnlyREPsRepeat, KeepInv
    PROVE  NothingLost
<1> DEFINE us == [k \in DOMAIN buffer.list |-> buffer.list[k].n]
           ns == <<retired>> \o us \o <<buffer.uid + 1>>
<1> SUFFICES ASSUME error = "none", NEW k \in 1 .. Len(ns) - 1
             PROVE  ns[k] < ns[k + 1] /\ MergedInto(ns[k], ns[k + 1] - 1)
  BY DEF NothingLost
<1>1. BufferOK(buffer) /\ Retires(buffer, retired)
  BY DEF KeepInv, Keeping, FeedInv, WarmingUp, Feeding, Waits, Holds, Steady
<1>2. Typed(buffer) /\ Len(buffer.list) \in Nat /\ buffer.list \in Seq(Entries)
  BY <1>1, BufferMembers DEF BufferOK
<1>3. /\ us \in Seq(Nat) /\ Len(us) = Len(buffer.list)
      /\ \A j \in 1 .. Len(buffer.list) : us[j] = buffer.list[j].n
  <2>1. DOMAIN buffer.list = 1 .. Len(buffer.list)
    BY <1>2
  <2>2. \A j \in 1 .. Len(buffer.list) : buffer.list[j].n \in Nat
    BY <1>2, BufferMembers
  <2> QED
    BY <2>1, <2>2, <1>2
<1>4. retired \in Nat /\ buffer.uid + 1 \in Nat
  BY <1>2, BufferMembers, Sizes DEF KeepInv, TypeOK
<1>5. /\ Len(ns) = Len(buffer.list) + 2 /\ ns[1] = retired
      /\ \A j \in 1 .. Len(buffer.list) : ns[j + 1] = buffer.list[j].n
      /\ ns[Len(buffer.list) + 2] = buffer.uid + 1
  <2>1. PICK u : u = buffer.uid + 1
    OBVIOUS
  <2>2. PICK v : v = <<retired>>
    OBVIOUS
  <2>3. PICK w : w = <<u>>
    OBVIOUS
  <2>4. v \in Seq(Nat) /\ Len(v) = 1 /\ v[1] = retired
    BY <2>2, <1>4
  <2>5. w \in Seq(Nat) /\ Len(w) = 1 /\ w[1] = u
    BY <2>1, <2>3, <1>4
  <2>6. PICK s : s = us
    OBVIOUS
  <2>7. s \in Seq(Nat) /\ Len(s) = Len(buffer.list) /\ \A j \in 1 .. Len(s) : s[j] = buffer.list[j].n
    BY <2>6, <1>3
  <2> HIDE DEF us
  <2>8. PICK t : t = v \o s
    OBVIOUS
  <2>9. /\ t \in Seq(Nat) /\ Len(t) = Len(s) + 1 /\ t[1] = retired
        /\ \A j \in 1 .. Len(s) : t[j + 1] = s[j]
    <3>0. Concatenates(t, v, s)
      <4>1. v \in Seq(Nat)
        BY <2>4
      <4>2. s \in Seq(Nat)
        BY <2>7
      <4>3. Concatenates(v \o s, v, s)
        BY ONLY <4>1, <4>2, Joined, Zenon
      <4> QED
        BY ONLY <4>3, <2>8, Zenon
    <3>1. /\ t \in Seq(Nat) /\ Len(t) = Len(v) + Len(s)
          /\ \A j \in 1 .. Len(v) : t[j] = v[j]
          /\ \A j \in 1 .. Len(s) : t[Len(v) + j] = s[j]
      BY ONLY <3>0 DEF Concatenates
    <3>2. 1 \in 1 .. Len(v) /\ \A j \in 1 .. Len(s) : Len(v) + j = j + 1
      BY <2>4
    <3>3. Len(t) = Len(s) + 1
      BY <3>1, <2>4, <2>7, <1>2
    <3>4. ASSUME NEW j \in 1 .. Len(s) PROVE t[j + 1] = s[j]
      <4>1. t[Len(v) + j] = s[j] /\ Len(v) + j = j + 1
        BY <3>1, <3>2
      <4> QED
        BY <4>1
    <3>5. t[1] = v[1]
      BY <3>1, <3>2
    <3> QED
      BY <3>1, <3>3, <3>4, <3>5, <2>4
  <2>10. PICK z : z = t \o w
    OBVIOUS
  <2>11. /\ Len(z) = Len(t) + 1 /\ z[Len(t) + 1] = u
         /\ \A j \in 1 .. Len(t) : z[j] = t[j]
    <3>0. Concatenates(z, t, w)
      <4>1. t \in Seq(Nat)
        BY <2>9
      <4>2. w \in Seq(Nat)
        BY <2>5
      <4>3. Concatenates(t \o w, t, w)
        BY ONLY <4>1, <4>2, Joined, Zenon
      <4> QED
        BY ONLY <4>3, <2>10, Zenon
    <3>1. /\ Len(z) = Len(t) + Len(w)
          /\ \A j \in 1 .. Len(t) : z[j] = t[j]
          /\ \A j \in 1 .. Len(w) : z[Len(t) + j] = w[j]
      BY ONLY <3>0 DEF Concatenates
    <3>2. 1 \in 1 .. Len(w)
      BY <2>5
    <3>3. z[Len(t) + 1] = w[1]
      BY <3>1, <3>2
    <3>4. Len(w) = 1 /\ w[1] = u
      BY <2>5
    <3>5. Len(z) = Len(t) + 1
      BY <3>1, <3>4
    <3> QED
      BY <3>1, <3>3, <3>4, <3>5
  <2>12. 1 \in 1 .. Len(t) /\ \A j \in 1 .. Len(s) : j + 1 \in 1 .. Len(t)
    BY <2>7, <2>9, <1>2
  <2>13. /\ Len(z) = Len(buffer.list) + 2 /\ z[1] = retired
         /\ \A j \in 1 .. Len(buffer.list) : z[j + 1] = buffer.list[j].n
         /\ z[Len(buffer.list) + 2] = buffer.uid + 1
    BY <2>1, <2>7, <2>9, <2>11, <2>12, <1>2
  <2>14. z = ns
    BY <2>1, <2>2, <2>3, <2>6, <2>8, <2>10
  <2> QED
    BY <2>13, <2>14
<1> HIDE DEF ns
<1>6. CASE k = 1
  <2>1. ns[k + 1] = Oldest(buffer)
    <3>1. CASE Len(buffer.list) = 0
      BY <3>1, <1>5, <1>6 DEF Oldest
    <3>2. CASE Len(buffer.list) # 0
      <4>1. 1 \in 1 .. Len(buffer.list)
        BY <3>2, <1>2
      <4> QED
        BY <4>1, <3>2, <1>5, <1>6 DEF Oldest
    <3> QED
      BY <3>1, <3>2
  <2> QED
    BY <2>1, <1>1, <1>5, <1>6 DEF Retires
<1>7. CASE k # 1
  <2>1. PICK j : j = k - 1
    OBVIOUS
  <2>2. j \in 1 .. Len(buffer.list) /\ k = j + 1
    BY <2>1, <1>2, <1>5, <1>7
  <2>3. ns[k] = buffer.list[j].n
    BY <2>2, <1>5
  <2>4. ns[k + 1] = Following(buffer, j)
    <3>1. CASE j < Len(buffer.list)
      <4>1. j + 1 \in 1 .. Len(buffer.list)
        BY <3>1, <2>2, <1>2
      <4>2. ns[(j + 1) + 1] = buffer.list[j + 1].n
        BY <4>1, <1>5
      <4> QED
        BY <4>2, <3>1, <2>2 DEF Following
    <3>2. CASE ~ (j < Len(buffer.list))
      <4>1. k + 1 = Len(buffer.list) + 2
        BY <3>2, <2>2, <1>2
      <4> QED
        BY <4>1, <3>2, <1>5 DEF Following
    <3> QED
      BY <3>1, <3>2
  <2>5. /\ buffer.list[j].n < Following(buffer, j)
        /\ MergedInto(buffer.list[j].n, Following(buffer, j) - 1)
    BY <2>2, <1>1, GapMerged
  <2> QED
    BY <2>3, <2>4, <2>5
<1> QED
  BY <1>6, <1>7

LEMMA KeptIsFetched ==
    ASSUME KeepInv
    PROVE  FlightIsFetched
<1> SUFFICES ASSUME error = "none"
             PROVE  /\ {pipe[i].n : i \in Good} = {buffer.list[k].n : k \in Awaited}
                    /\ \A i, j \in Good : i < j => pipe[i].n < pipe[j].n
  BY DEF FlightIsFetched
<1>1. Keeping /\ (WarmingUp \/ Feeding)
  BY DEF KeepInv, FeedInv
<1>2. /\ pipe \in Seq(Instr) /\ DOMAIN pipe = 1 .. Len(pipe)
      /\ DOMAIN buffer.list = 1 .. Len(buffer.list) /\ Len(buffer.list) \in Nat
      /\ BufferOK(buffer) /\ Typed(buffer)
  <2>1. BufferOK(buffer) /\ pipe \in Seq(Instr)
    BY DEF KeepInv, TypeOK, FeedInv, WarmingUp, Feeding, Waits, Holds, Steady
  <2>2. Typed(buffer)
    BY <2>1 DEF BufferOK
  <2> QED
    BY <2>1, <2>2, BufferMembers
<1>3. CASE WarmingUp
  <2>1. /\ pipe = <<>> /\ bypassed = {}
        /\ IF lastWarmup = 0 THEN Waits(buffer) ELSE Holds(buffer, lastWarmup)
    BY <1>1, <1>3 DEF WarmingUp, Keeping
  <2>2. Good = {}
    BY <2>1 DEF Good
  <2>3. Awaited = {}
    <3> SUFFICES ASSUME NEW k \in 1 .. Len(buffer.list), buffer.next # Null => k < buffer.next,
                        buffer.list[k].n # lastWarmup
                 PROVE  FALSE
      BY <1>2 DEF Awaited
    <3>1. CASE lastWarmup = 0
      <4>1. buffer.next = IF Len(buffer.list) = 0 THEN Null ELSE 1
        BY <3>1, <2>1 DEF Waits
      <4> QED
        BY <4>1, <1>2 DEF Null
    <3>2. CASE lastWarmup # 0
      <4>1. buffer.list[1].n = lastWarmup /\ buffer.next = After(buffer, 1)
        BY <3>2, <2>1 DEF Holds
      <4>2. k = 1
        BY <4>1, <1>2 DEF After, Null
      <4> QED
        BY <4>1, <4>2
    <3> QED
      BY <3>1, <3>2
  <2> QED
    BY <2>2, <2>3
<1>4. CASE Feeding
  <2>1. /\ lastWarmup = 0 /\ InFlight(pipe, buffer) /\ Counted(pipe, buffer, bypassed)
    BY <1>1, <1>4 DEF Feeding, Steady, Keeping
  <2>2. \A k \in 1 .. Len(buffer.list) : Fetched(buffer, k) <=> (buffer.next # Null => k < buffer.next)
    BY DEF Fetched
  <2>3. ASSUME NEW i \in Good
        PROVE  \E k \in Awaited : pipe[i].n = buffer.list[k].n
    <3>1. i \in 1 .. Len(pipe) /\ pipe[i].tid = "good"
      BY <1>2 DEF Good
    <3>2. PICK k \in 1 .. Len(buffer.list) : Flies(pipe, buffer, i, k)
      BY <3>1, <2>1 DEF InFlight
    <3>3. Fetched(buffer, k) /\ buffer.list[k].n = pipe[i].n
      BY <3>2 DEF Flies
    <3>4. buffer.list[k].n \in Nat /\ buffer.list[k].n >= 1
      BY <1>2, BufferMembers
    <3>5. pipe[i].n \notin bypassed
      BY <3>1, <3>3, <3>4, <2>1 DEF Counted
    <3>6. k \in Awaited
      BY <3>3, <3>4, <3>5, <2>1, <2>2, <1>2 DEF Awaited
    <3> QED
      BY <3>3, <3>6
  <2>4. ASSUME NEW k \in Awaited
        PROVE  \E i \in Good : pipe[i].n = buffer.list[k].n
    <3>1. k \in 1 .. Len(buffer.list) /\ Fetched(buffer, k) /\ buffer.list[k].n \notin bypassed
      BY <2>2, <1>2 DEF Awaited
    <3>2. PICK i \in 1 .. Len(pipe) : Flies(pipe, buffer, i, k)
      BY <3>1, <2>1 DEF Counted
    <3>3. i \in Good /\ pipe[i].n = buffer.list[k].n
      BY <3>2, <1>2 DEF Good, Flies
    <3> QED
      BY <3>3
  <2>5. ASSUME NEW i \in Good, NEW j \in Good, i < j PROVE pipe[i].n < pipe[j].n
    BY <2>5, <2>1, <1>2 DEF Good, InFlight
  <2> QED
    BY <2>3, <2>4, <2>5
<1> QED
  BY <1>1, <1>3, <1>4

\* The replay buffer has what is not committed, once and in order, apart from
\* what is merged into a REP, and nextFetch parts what is in flight from what
\* is not (AddInstruction, MergeREPInstrs, CommitInstruction, Kill, SetNextFetch
\* in it), for every stream in which the instructions at one address are those
\* of one REP, as long as nothing traps after the thread has ended.
THEOREM FeederKeepsBuffer ==
    ASSUME OnlyREPsRepeat, ~ LateTraps
    PROVE  Spec => []FeederInvariant
<1>1. Init => KeepInv
  BY InitKeeps
<1>2. KeepInv /\ [Next]_vars => KeepInv'
  BY NextKeeps
<1>3. KeepInv => FeederInvariant
  BY KeptIsThere, KeptIsFetched DEF KeepInv, FeederInvariant
<1> QED
  BY <1>1, <1>2, <1>3, PTL DEF Spec
=============================================================================
