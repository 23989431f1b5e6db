------------------------ MODULE SyntheticFeederProofs -------------------------
(***************************************************************************)
(* The synthetic feeder's locks: for any threads, any pipeline and any     *)
(* traps, as long as no thread uses up its iterations, the issued list is  *)
(* what is in flight, a conditional branch follows the test in front of    *)
(* it, and the lock is held by one thread at most.                         *)
(***************************************************************************)
EXTENDS SyntheticFeeder, SequenceTheorems, FiniteSetTheorems, WellFoundedInduction, TLAPS

-----------------------------------------------------------------------------
(* Numbers, sets and sequences.                                            *)

LEMMA LeastOf ==
    ASSUME NEW T, T \subseteq Nat, T # {}
    PROVE  \E x \in T : \A y \in T : x <= y
<1>1. PICK x \in T : \A y \in T : ~(<<y, x>> \in OpToRel(<, Nat))
  BY WFMin, NatLessThanWellFounded
<1>2. ASSUME NEW y \in T PROVE x <= y
  <2>1. ~(<<y, x>> \in OpToRel(<, Nat))
    BY <1>1
  <2>2. ~(y < x)
    BY <2>1 DEF OpToRel
  <2> QED
    BY <2>2
<1> QED
  BY <1>2

LEMMA MinIs ==
    ASSUME NEW T, T \subseteq Nat, T # {}
    PROVE  Min(T) \in T /\ \A y \in T : Min(T) <= y
BY LeastOf DEF Min

LEMMA MaxIs ==
    ASSUME NEW T, T \subseteq Nat, T # {}, NEW n \in Nat, \A x \in T : x <= n
    PROVE  Max(T) \in T /\ \A y \in T : y <= Max(T)
<1> DEFINE U == {n - x : x \in T}
<1>1. U \subseteq Nat /\ U # {}
  <2>1. \A x \in T : n - x \in Nat
    OBVIOUS
  <2> QED
    BY <2>1
<1>2. PICK u \in U : \A w \in U : u <= w
  <2> HIDE DEF U
  <2> QED
    BY <1>1, LeastOf
<1>3. PICK x \in T : u = n - x
  OBVIOUS
<1>4. ASSUME NEW y \in T PROVE x >= y
  <2>1. n - y \in U
    OBVIOUS
  <2>2. n - x <= n - y
    BY <1>2, <1>3, <2>1
  <2>3. x \in Nat /\ y \in Nat
    OBVIOUS
  <2> QED
    BY <2>2, <2>3
<1>5. \E z \in T : \A y \in T : z >= y
  BY <1>4
<1>6. Max(T) \in T /\ \A y \in T : Max(T) >= y
  BY <1>5 DEF Max
<1> QED
  BY <1>6

\* A function on an initial part of the numbers is a sequence.
LEMMA SeqOfPlaces ==
    ASSUME NEW S, NEW n \in Nat, NEW f \in [1 .. n -> S]
    PROVE  f \in Seq(S) /\ Len(f) = n
<1>1. f \in Seq(S)
  BY SeqDef
<1>2. Len(f) = n
  BY <1>1, LenProperties
<1> QED
  BY <1>1, <1>2

LEMMA Members ==
    ASSUME NEW S, NEW s \in Seq(S)
    PROVE  /\ Len(s) \in Nat /\ DOMAIN s = 1 .. Len(s)
           /\ \A k \in 1 .. Len(s) : s[k] \in S
           /\ s = <<>> <=> Len(s) = 0
BY EmptySeq, LenProperties, ElementOfSeq

LEMMA PartOf ==
    ASSUME NEW S, NEW s \in Seq(S), NEW m \in 1 .. Len(s) + 1, NEW n \in 0 .. Len(s), m <= n + 1
    PROVE  /\ SubSeq(s, m, n) \in Seq(S)
           /\ Len(SubSeq(s, m, n)) = n - m + 1
           /\ \A k \in 1 .. n - m + 1 : SubSeq(s, m, n)[k] = s[m + k - 1]
<1>0. Len(s) \in Nat
  OBVIOUS
<1>1. CASE m <= n
  <2>1. SubSeq(s, m, n) = [k \in 1 .. n - m + 1 |-> s[m + k - 1]]
    BY SubSeqProperties, <1>0, <1>1
  <2>2. n - m + 1 \in Nat
    BY <1>0, <1>1
  <2>3. \A k \in 1 .. n - m + 1 : s[m + k - 1] \in S
    BY <1>0, Members
  <2> QED
    BY <2>1, <2>2, <2>3
<1>2. CASE m = n + 1
  <2>1. SubSeq(s, m, n) = <<>>
    BY <1>0, <1>2
  <2> QED
    BY <2>1, <1>2, <1>0
<1> QED
  BY <1>0, <1>1, <1>2

LEMMA Extended ==
    ASSUME NEW S, NEW s \in Seq(S), NEW x \in S
    PROVE  /\ Append(s, x) \in Seq(S) /\ Len(Append(s, x)) = Len(s) + 1
           /\ \A k \in 1 .. Len(s) : Append(s, x)[k] = s[k]
           /\ Append(s, x)[Len(s) + 1] = x
BY AppendProperties

-----------------------------------------------------------------------------
(* The routine.                                                            *)

\* What is fetched at an address.
KindAt(pc) == IF pc = 0 THEN "jump" ELSE IF pc \in DOMAIN Routine THEN Routine[pc] ELSE "junk"

LEMMA RoutineIs ==
    /\ KindAt(0) = "jump" /\ KindAt(1) = "load" /\ KindAt(2) = "nop" /\ KindAt(3) = "cbranch"
    /\ KindAt(4) = "cmpxchg" /\ KindAt(5) = "cbranch" /\ KindAt(6) = "store"
    /\ KindAt(7) = "branch" /\ KindAt(8) = "junk"
    /\ Outside = 8 /\ Pcs = 0 .. 8 /\ Start = 1
<1>1. Len(Routine) = 7 /\ DOMAIN Routine = 1 .. 7
  BY DEF Routine
<1>2. /\ Routine[1] = "load" /\ Routine[2] = "nop" /\ Routine[3] = "cbranch"
      /\ Routine[4] = "cmpxchg" /\ Routine[5] = "cbranch" /\ Routine[6] = "store"
      /\ Routine[7] = "branch"
  BY DEF Routine
<1>3. Outside = 8
  BY <1>1 DEF Outside
<1>4. /\ 0 \notin 1 .. 7 /\ 8 \notin 1 .. 7 /\ {1, 2, 3, 4, 5, 6, 7} \subseteq 1 .. 7
  OBVIOUS
<1> QED
  BY <1>1, <1>2, <1>3, <1>4 DEF KindAt, Pcs, Start

LEMMA PcIs ==
    ASSUME NEW pc \in Pcs
    PROVE  pc = 0 \/ pc = 1 \/ pc = 2 \/ pc = 3 \/ pc = 4 \/ pc = 5 \/ pc = 6 \/ pc = 7 \/ pc = 8
BY RoutineIs

\* The address of an instruction by its kind.
LEMMA AddressOf ==
    ASSUME NEW pc \in Pcs
    PROVE  /\ KindAt(pc) = "jump" <=> pc = 0
           /\ KindAt(pc) = "load" <=> pc = 1
           /\ KindAt(pc) = "nop" <=> pc = 2
           /\ KindAt(pc) = "cbranch" <=> pc = 3 \/ pc = 5
           /\ KindAt(pc) = "cmpxchg" <=> pc = 4
           /\ KindAt(pc) = "store" <=> pc = 6
           /\ KindAt(pc) = "branch" <=> pc = 7
           /\ KindAt(pc) = "junk" <=> pc = 8
           /\ KindAt(pc) \in Tests <=> pc = 1 \/ pc = 4
           /\ KindAt(pc) \in Branches <=> pc = 0 \/ pc = 3 \/ pc = 5 \/ pc = 7
BY RoutineIs, PcIs DEF Tests, Branches

LEMMA GoesOn ==
    ASSUME NEW pc \in Pcs, NEW x \in Predictions(KindAt(pc), pc)
    PROVE  /\ x \in Pcs /\ x # 0
           /\ pc = 0 => x = 1 \/ x = 8
           /\ pc \in {1, 2, 4, 6} => x = pc + 1
           /\ pc \in {3, 5} => x = 1 \/ x = pc + 1
           /\ pc = 7 => x = 1 \/ x = 8
           /\ pc = 8 => x = 8
<1>1. CASE pc = 0
  BY <1>1, RoutineIs DEF Predictions
<1>2. CASE pc \in {3, 5, 7}
  <2>1. KindAt(pc) # "jump" /\ KindAt(pc) \in Branches
    BY <1>2, AddressOf
  <2>2. x = 1 \/ x = pc + 1
    BY <2>1, RoutineIs DEF Predictions
  <2> QED
    BY <1>2, <2>2, RoutineIs
<1>3. CASE pc \in {1, 2, 4, 6, 8}
  <2>1. KindAt(pc) # "jump" /\ KindAt(pc) \notin Branches
    BY <1>3, AddressOf
  <2>2. x = IF pc = Outside THEN Outside ELSE pc + 1
    BY <2>1 DEF Predictions
  <2> QED
    BY <1>3, <2>2, RoutineIs
<1> QED
  BY <1>1, <1>2, <1>3, PcIs

-----------------------------------------------------------------------------
(* The iterations of the instructions on the issued list.                  *)

Issues == [uid : Uids, kind : Tests \cup Branches \cup {"nop", "store"}, iter : 0 .. History - 1]

\* lev[k] is the iteration after the k-th instruction on the list.
Levels(Q, i, lev) ==
    /\ lev \in [0 .. Len(Q) -> 0 .. History - 1]
    /\ lev[Len(Q)] = i
    /\ \A k \in 0 .. Len(Q) : \A j \in 0 .. k - 1 :
         /\ lev[j] <= lev[k]
         /\ Q[k].kind \in Tests => lev[j] < lev[k]
         /\ lev[j] # lev[k] => \E x \in j + 1 .. k : Q[x].kind \in Tests /\ lev[x] = lev[j] + 1
    /\ \A k \in 1 .. Len(Q) : Q[k].kind \in Tests \cup {"cbranch"} => Q[k].iter = lev[k]

LEMMA LevelsAre ==
    ASSUME NEW Q \in Seq(Issues), NEW i, NEW lev, Levels(Q, i, lev)
    PROVE  /\ Len(Q) \in Nat /\ i \in 0 .. History - 1 /\ History \in Nat \ {0}
           /\ \A k \in 0 .. Len(Q) : lev[k] \in 0 .. History - 1 /\ lev[k] \in Nat /\ lev[k] <= i
<1>1. Len(Q) \in Nat /\ Len(Q) \in 0 .. Len(Q) /\ History \in Nat \ {0}
  BY Members, FeederAssumption
<1>2. \A k \in 0 .. Len(Q) : lev[k] \in 0 .. History - 1
  BY DEF Levels
<1>3. i \in 0 .. History - 1
  BY <1>1, <1>2 DEF Levels
<1>4. \A k \in 0 .. Len(Q) : lev[k] \in Nat
  BY <1>1, <1>2
<1>5. ASSUME NEW k \in 0 .. Len(Q) PROVE lev[k] <= i
  <2>1. CASE k = Len(Q)
    BY <2>1, <1>3, <1>1 DEF Levels
  <2>2. CASE k # Len(Q)
    <3>1. k \in 0 .. Len(Q) - 1
      BY <1>1, <2>2
    <3> QED
      BY <3>1, <1>1 DEF Levels
  <2> QED
    BY <2>1, <2>2
<1> QED
  BY <1>1, <1>2, <1>3, <1>4, <1>5

\* An instruction is added.
LEMMA LevelsAdd ==
    ASSUME NEW Q \in Seq(Issues), NEW i, NEW lev, Levels(Q, i, lev),
           NEW q \in Issues, NEW n \in 0 .. History - 1,
           n = IF q.kind \in Tests THEN i + 1 ELSE i,
           q.kind \in Tests \cup {"cbranch"} => q.iter = n
    PROVE  Levels(Append(Q, q), n, [k \in 0 .. Len(Q) + 1 |-> IF k <= Len(Q) THEN lev[k] ELSE n])
<1>1. PICK m \in Nat : m = Len(Q)
  BY LevelsAre
<1>2. PICK R : R = Append(Q, q)
  OBVIOUS
<1>3. PICK l : l = [k \in 0 .. m + 1 |-> IF k <= m THEN lev[k] ELSE n]
  OBVIOUS
<1>4. Len(R) = m + 1 /\ (\A k \in 1 .. m : R[k] = Q[k]) /\ R[m + 1] = q
  BY <1>1, <1>2, Extended
<1>5. /\ \A k \in 0 .. m : l[k] = lev[k] /\ l[k] \in 0 .. History - 1 /\ l[k] \in Nat /\ l[k] <= i
      /\ l[m + 1] = n /\ l \in [0 .. m + 1 -> 0 .. History - 1]
  BY <1>1, <1>3, LevelsAre
<1>6. i \in Nat /\ n \in Nat /\ lev[m] = i
  BY <1>1, LevelsAre DEF Levels
<1>7. ASSUME NEW k \in 0 .. m + 1, NEW j \in 0 .. k - 1
      PROVE  /\ l[j] <= l[k]
             /\ R[k].kind \in Tests => l[j] < l[k]
             /\ l[j] # l[k] => \E x \in j + 1 .. k : R[x].kind \in Tests /\ l[x] = l[j] + 1
  <2>1. CASE k \in 0 .. m
    <3>1. /\ lev[j] <= lev[k]
          /\ Q[k].kind \in Tests => lev[j] < lev[k]
          /\ lev[j] # lev[k] => \E x \in j + 1 .. k : Q[x].kind \in Tests /\ lev[x] = lev[j] + 1
      BY <1>1, <2>1 DEF Levels
    <3>2. j \in 0 .. m /\ k \in 1 .. m /\ \A x \in j + 1 .. k : x \in 1 .. m /\ x \in 0 .. m
      BY <1>1, <2>1
    <3>3. /\ R[k] = Q[k] /\ l[j] = lev[j] /\ l[k] = lev[k]
          /\ \A x \in j + 1 .. k : R[x] = Q[x] /\ l[x] = lev[x]
      BY <3>2, <2>1, <1>4, <1>5
    <3> QED
      BY <3>1, <3>3
  <2>2. CASE k = m + 1 /\ j = m
    <3>1. l[j] = i /\ l[k] = n /\ R[k] = q
      BY <2>2, <1>4, <1>5, <1>6, <1>1
    <3>2. k \in j + 1 .. k
      BY <2>2, <1>1
    <3>3. CASE q.kind \in Tests
      <4>1. l[j] = i /\ l[k] = i + 1 /\ R[k].kind \in Tests
        BY <3>1, <3>3
      <4> QED
        BY <4>1, <3>2, <1>6
    <3>4. CASE q.kind \notin Tests
      <4>1. l[j] = i /\ l[k] = i /\ R[k].kind \notin Tests
        BY <3>1, <3>4
      <4> QED
        BY <4>1, <1>6
    <3> QED
      BY <3>3, <3>4
  <2>3. CASE k = m + 1 /\ j < m
    <3>0. j \in 0 .. m - 1 /\ j \in 0 .. m /\ m \in 0 .. Len(Q)
      BY <2>3, <1>1
    <3>1. /\ lev[j] <= i
          /\ lev[j] # i => \E x \in j + 1 .. m : Q[x].kind \in Tests /\ lev[x] = lev[j] + 1
      BY <3>0, <1>1, <1>6 DEF Levels
    <3>2. l[j] = lev[j] /\ lev[j] \in Nat /\ l[k] = n /\ R[k] = q
      BY <3>0, <2>3, <1>4, <1>5
    <3>3. l[j] <= l[k] /\ (R[k].kind \in Tests => l[j] < l[k])
      BY <3>1, <3>2, <1>6
    <3>4. ASSUME l[j] # l[k]
          PROVE  \E x \in j + 1 .. k : R[x].kind \in Tests /\ l[x] = l[j] + 1
      <4>1. CASE lev[j] # i
        <5>1. PICK x \in j + 1 .. m : Q[x].kind \in Tests /\ lev[x] = lev[j] + 1
          BY <3>1, <4>1
        <5>2. x \in 1 .. m /\ x \in 0 .. m /\ x \in j + 1 .. k
          BY <5>1, <2>3, <3>0, <1>1
        <5> QED
          BY <5>1, <5>2, <1>4, <1>5, <3>2
      <4>2. CASE lev[j] = i
        <5>1. q.kind \in Tests /\ n = i + 1
          BY <3>4, <3>2, <4>2
        <5>2. k \in j + 1 .. k
          BY <2>3, <3>0, <1>1
        <5> QED
          BY <5>1, <5>2, <3>2, <4>2
      <4> QED
        BY <4>1, <4>2
    <3> QED
      BY <3>3, <3>4
  <2> QED
    BY <1>1, <2>1, <2>2, <2>3
<1>8. ASSUME NEW k \in 1 .. m + 1, R[k].kind \in Tests \cup {"cbranch"} PROVE R[k].iter = l[k]
  <2>1. CASE k \in 1 .. m
    <3>1. k \in 0 .. m
      BY <2>1
    <3> QED
      BY <2>1, <3>1, <1>1, <1>4, <1>5, <1>8 DEF Levels
  <2>2. CASE k = m + 1
    BY <2>2, <1>4, <1>5, <1>8
  <2> QED
    BY <1>1, <2>1, <2>2
<1>9. Levels(R, n, l)
  BY <1>4, <1>5, <1>7, <1>8 DEF Levels
<1> QED
  BY <1>1, <1>2, <1>3, <1>9

\* Instructions are removed from the end.
LEMMA LevelsCut ==
    ASSUME NEW Q \in Seq(Issues), NEW i, NEW lev, Levels(Q, i, lev), NEW r \in 0 .. Len(Q),
           NEW R \in Seq(Issues), Len(R) = r, \A k \in 1 .. r : R[k] = Q[k]
    PROVE  Levels(R, lev[r], [k \in 0 .. r |-> lev[k]])
<1>1. PICK m \in Nat : m = Len(Q)
  BY LevelsAre
<1>2. r \in Nat /\ r <= m
  BY <1>1
<1>3. PICK l : l = [k \in 0 .. r |-> lev[k]]
  OBVIOUS
<1>4. /\ \A k \in 0 .. r : k \in 0 .. m /\ l[k] = lev[k]
      /\ l \in [0 .. r -> 0 .. History - 1]
  BY <1>1, <1>2, <1>3, LevelsAre
<1>5. ASSUME NEW k \in 0 .. r, NEW j \in 0 .. k - 1
      PROVE  /\ l[j] <= l[k]
             /\ R[k].kind \in Tests => l[j] < l[k]
             /\ l[j] # l[k] => \E x \in j + 1 .. k : R[x].kind \in Tests /\ l[x] = l[j] + 1
  <2>1. k \in 0 .. m /\ k \in 1 .. r /\ j \in 0 .. r /\ \A x \in j + 1 .. k : x \in 1 .. r /\ x \in 0 .. r
    BY <1>2
  <2>2. /\ lev[j] <= lev[k]
        /\ Q[k].kind \in Tests => lev[j] < lev[k]
        /\ lev[j] # lev[k] => \E x \in j + 1 .. k : Q[x].kind \in Tests /\ lev[x] = lev[j] + 1
    BY <1>1, <2>1 DEF Levels
  <2>3. R[k] = Q[k] /\ \A x \in j + 1 .. k : R[x] = Q[x] /\ l[x] = lev[x]
    BY <2>1, <1>4
  <2> QED
    BY <2>1, <2>2, <2>3, <1>4
<1>6. ASSUME NEW k \in 1 .. r, R[k].kind \in Tests \cup {"cbranch"} PROVE R[k].iter = l[k]
  <2>1. k \in 1 .. m /\ k \in 0 .. r /\ R[k] = Q[k]
    BY <1>2
  <2> QED
    BY <2>1, <1>1, <1>4, <1>6 DEF Levels
<1>7. l[r] = lev[r]
  BY <1>2, <1>4
<1>8. Levels(R, lev[r], l)
  BY <1>4, <1>5, <1>6, <1>7 DEF Levels
<1> QED
  BY <1>3, <1>8

\* Instructions are removed at the front.
LEMMA LevelsShift ==
    ASSUME NEW Q \in Seq(Issues), NEW i, NEW lev, Levels(Q, i, lev), NEW r \in 0 .. Len(Q),
           NEW R \in Seq(Issues), Len(R) = Len(Q) - r,
           \A k \in 1 .. Len(Q) - r : R[k].kind = Q[k + r].kind /\ R[k].iter = Q[k + r].iter
    PROVE  Levels(R, i, [k \in 0 .. Len(Q) - r |-> lev[k + r]])
<1>1. PICK m \in Nat : m = Len(Q)
  BY LevelsAre
<1>0. r \in Nat /\ r <= m
  BY <1>1
<1>0a. m - r \in Nat
  BY <1>0
<1>2. PICK d \in Nat : d = m - r
  BY <1>0a
<1>2a. r \in Nat /\ d + r = m
  BY <1>1, <1>2
<1>3. PICK l : l = [k \in 0 .. d |-> lev[k + r]]
  OBVIOUS
<1>4. \A k \in 0 .. d : k + r \in 0 .. m /\ l[k] = lev[k + r]
  BY <1>1, <1>2, <1>3
<1>4a. l \in [0 .. d -> 0 .. History - 1]
  BY <1>1, <1>3, <1>4, LevelsAre
<1>5. ASSUME NEW k \in 0 .. d, NEW j \in 0 .. k - 1
      PROVE  /\ l[j] <= l[k]
             /\ R[k].kind \in Tests => l[j] < l[k]
             /\ l[j] # l[k] => \E x \in j + 1 .. k : R[x].kind \in Tests /\ l[x] = l[j] + 1
  <2>1. k + r \in 0 .. m /\ j + r \in 0 .. (k + r) - 1 /\ j \in 0 .. d /\ k \in 1 .. d
    BY <1>2a
  <2>2. /\ lev[j + r] <= lev[k + r]
        /\ Q[k + r].kind \in Tests => lev[j + r] < lev[k + r]
        /\ lev[j + r] # lev[k + r] =>
             \E x \in j + r + 1 .. k + r : Q[x].kind \in Tests /\ lev[x] = lev[j + r] + 1
    BY <1>1, <2>1 DEF Levels
  <2>3. R[k].kind = Q[k + r].kind /\ l[j] = lev[j + r] /\ l[k] = lev[k + r]
    BY <2>1, <1>1, <1>2, <1>4
  <2>4. ASSUME l[j] # l[k]
        PROVE  \E x \in j + 1 .. k : R[x].kind \in Tests /\ l[x] = l[j] + 1
    <3>1. PICK y \in j + r + 1 .. k + r : Q[y].kind \in Tests /\ lev[y] = lev[j + r] + 1
      BY <2>2, <2>3, <2>4
    <3>2. PICK x \in j + 1 .. k : y = x + r
      <4>0. j \in Nat /\ k \in Nat /\ y \in Nat
        BY <3>1, <1>2a
      <4>1. y - r \in j + 1 .. k /\ y = (y - r) + r
        BY <4>0, <3>1, <1>2a
      <4> QED
        BY <4>1
    <3>3. x \in 1 .. d /\ x \in 0 .. d
      BY <3>2, <1>2a
    <3>4. R[x].kind = Q[y].kind /\ l[x] = lev[y]
      BY <3>2, <3>3, <1>1, <1>2, <1>4
    <3> QED
      BY <3>1, <3>4, <2>3
  <2> QED
    BY <2>2, <2>3, <2>4
<1>6. ASSUME NEW k \in 1 .. d, R[k].kind \in Tests \cup {"cbranch"} PROVE R[k].iter = l[k]
  <2>1. k + r \in 1 .. m /\ k \in 0 .. d
    BY <1>2a
  <2>2. R[k].kind = Q[k + r].kind /\ R[k].iter = Q[k + r].iter
    BY <1>1, <1>2
  <2> QED
    BY <2>1, <2>2, <1>1, <1>4, <1>6 DEF Levels
<1>7. l[d] = i
  <2>1. d \in 0 .. d /\ d + r = m
    BY <1>2a
  <2> QED
    BY <2>1, <1>1, <1>4 DEF Levels
<1>8. Levels(R, i, l)
  <2>1. Len(R) = d
    BY <1>1, <1>2
  <2> QED
    BY <2>1, <1>4a, <1>5, <1>6, <1>7 DEF Levels
<1> QED
  BY <1>1, <1>2, <1>3, <1>8

\* One before the first iteration among the last instructions is the level in
\* front of them: find_new_iteration_count.
TestsBehind(Q, r) == {Q[k].iter : k \in {x \in r + 1 .. Len(Q) : Q[x].kind \in Tests}}

LEMMA LevelBefore ==
    ASSUME NEW Q \in Seq(Issues), NEW i, NEW lev, Levels(Q, i, lev), NEW r \in 0 .. Len(Q)
    PROVE  lev[r] = IF TestsBehind(Q, r) = {} THEN i ELSE Min(TestsBehind(Q, r)) - 1
<1>0. PICK T : T = {Q[k].iter : k \in {x \in r + 1 .. Len(Q) : Q[x].kind \in Tests}}
               /\ T = TestsBehind(Q, r)
  BY DEF TestsBehind
<1>1. PICK m \in Nat : m = Len(Q)
  BY LevelsAre
<1>2a. r \in Nat /\ r <= m /\ r \in 0 .. Len(Q)
  BY <1>1
<1>2b. lev[r] \in Nat
  BY <1>2a, LevelsAre
<1>2. r \in Nat /\ r <= m /\ lev[r] \in Nat /\ lev[m] = i
  BY <1>1, <1>2a, <1>2b DEF Levels
<1>3. ASSUME NEW y \in T PROVE y \in Nat /\ lev[r] < y
  <2>1. PICK k \in r + 1 .. m : Q[k].kind \in Tests /\ y = Q[k].iter
    BY <1>0, <1>1
  <2>2. k \in 1 .. m /\ k \in 0 .. m /\ r \in 0 .. k - 1
    BY <1>2, <2>1
  <2>3. y = lev[k] /\ lev[k] \in Nat
    BY <2>1, <2>2, <1>1, LevelsAre DEF Levels
  <2>4. lev[r] < lev[k]
    BY <2>1, <2>2, <1>1 DEF Levels
  <2> QED
    BY <2>3, <2>4
<1>4. CASE T = {}
  <2>1. SUFFICES ASSUME lev[r] # i PROVE FALSE
    BY <1>0, <1>4
  <2>2. r \in 0 .. m - 1 /\ m \in 0 .. m
    BY <1>2, <2>1
  <2>3. PICK x \in r + 1 .. m : Q[x].kind \in Tests
    BY <2>1, <2>2, <1>1, <1>2 DEF Levels
  <2>4. Q[x].iter \in T
    BY <2>3, <1>0, <1>1
  <2> QED
    BY <2>4, <1>0, <1>4
<1>5. CASE T # {}
  <2>1. T \subseteq Nat
    BY <1>3
  <2>2. Min(T) \in T /\ \A y \in T : Min(T) <= y
    BY <2>1, <1>5, MinIs
  <2>3. PICK k \in r + 1 .. m : Q[k].kind \in Tests /\ Min(T) = Q[k].iter
    BY <1>0, <1>1, <2>2
  <2>4. k \in 1 .. m /\ k \in 0 .. m /\ r \in 0 .. k - 1
    BY <1>2, <2>3
  <2>5. lev[r] < lev[k] /\ Min(T) = lev[k]
    BY <2>3, <2>4, <1>1 DEF Levels
  <2>6. PICK x \in r + 1 .. k : Q[x].kind \in Tests /\ lev[x] = lev[r] + 1
    <3>1. lev[k] \in Nat
      BY <2>4, <1>1, LevelsAre
    <3>2. lev[r] # lev[k]
      BY <2>5, <1>2, <3>1
    <3> QED
      BY <3>2, <2>4, <1>1 DEF Levels
  <2>7. x \in r + 1 .. m /\ x \in 1 .. m
    BY <2>6, <2>4, <1>2
  <2>8. lev[x] \in T
    BY <2>6, <2>7, <1>0, <1>1 DEF Levels
  <2>9. Min(T) \in Nat /\ Min(T) <= lev[r] + 1 /\ lev[r] < Min(T)
    BY <2>2, <2>6, <2>8, <1>3
  <2>10. lev[r] = Min(T) - 1
    BY <2>9, <1>2
  <2> QED
    BY <2>10, <1>0, <1>5
<1> QED
  BY <1>0, <1>4, <1>5

-----------------------------------------------------------------------------
(* The instructions in flight, and what is recorded of them.               *)

Entries == [uid : Uids, pc : Pcs, next : Pcs, actual : Pcs \cup {NoPc},
            kind : Tests \cup Branches \cup {"nop", "store", "junk"},
            found : Statuses, spec : BOOLEAN, wrote : BOOLEAN]

\* One instruction in flight.
Proper(e) ==
    /\ e.kind = KindAt(e.pc)
    /\ e.next \in Predictions(e.kind, e.pc)
    /\ e.actual # NoPc => e.kind \in Branches
    /\ e.actual \notin {NoPc, Start} => e.kind = "cbranch" /\ e.actual = e.pc + 1
    /\ e.found # "invalid" => e.kind \in Tests
    /\ e.spec => e.kind = "store"
    /\ e.wrote => e.kind \in {"store", "cmpxchg"}
    /\ e.wrote /\ e.kind = "cmpxchg" => e.found # "invalid"

Begun(e) == e.actual # NoPc \/ e.found # "invalid" \/ e.spec \/ e.wrote
OnlyFirst(e) == e.wrote \/ (e.kind = "cmpxchg" /\ e.found # "invalid")

\* The pipe: fetched one after the other, executed in order.
Flow(P, f) ==
    /\ \A k \in 1 .. Len(P) : Proper(P[k])
    /\ \A k \in 2 .. Len(P) : P[k].pc = P[k - 1].next /\ ~OnlyFirst(P[k])
    /\ \A k \in 1 .. Len(P) : \A j \in 1 .. k - 1 :
         P[j].uid < P[k].uid /\ (Begun(P[k]) => Executed(P[j]))
    /\ Len(P) # 0 => f = P[Len(P)].next

\* The issued list is the pipe without what lies outside the routine.
Vouched(P, Q) ==
    /\ Len(Q) <= Len(P)
    /\ \A k \in 1 .. Len(P) : IF k <= Len(Q) THEN Q[k].uid = P[k].uid /\ Q[k].kind = P[k].kind
                              ELSE P[k].kind = "junk"

\* The status array holds what the tests have found, by iteration.
Recorded(P, Q, st, lt, lev) ==
    /\ st[lev[0]] = lt
    /\ \A k \in 1 .. Len(Q) : P[k].kind \in Tests => st[lev[k]] = P[k].found
    /\ \A k \in 1 .. Len(Q) : P[k].kind = "cbranch" /\ P[k].actual # NoPc =>
         (P[k].actual = Start <=> st[lev[k]] = "blocked")

Sound(P, Q, f, i, st, lt) ==
    /\ Flow(P, f) /\ Vouched(P, Q)
    /\ \E lev : Levels(Q, i, lev) /\ Recorded(P, Q, st, lt, lev)

LEMMA Entry ==
    ASSUME NEW P \in Seq(Entries), NEW k \in 1 .. Len(P)
    PROVE  /\ P[k] \in Entries /\ P[k].uid \in Nat /\ P[k].uid # 0
           /\ P[k].pc \in Pcs /\ P[k].next \in Pcs /\ P[k].actual \in Pcs \cup {NoPc}
           /\ P[k].kind \in Tests \cup Branches \cup {"nop", "store", "junk"}
           /\ P[k].found \in Statuses /\ P[k].spec \in BOOLEAN /\ P[k].wrote \in BOOLEAN
<1>1. P[k] \in Entries
  BY Members
<1> QED
  BY <1>1 DEF Entries, Uids

LEMMA Issued ==
    ASSUME NEW Q \in Seq(Issues), NEW k \in 1 .. Len(Q)
    PROVE  /\ Q[k] \in Issues /\ Q[k].uid \in Nat /\ Q[k].uid # 0
           /\ Q[k].kind \in Tests \cup Branches \cup {"nop", "store"}
           /\ Q[k].iter \in 0 .. History - 1 /\ Q[k].kind # "junk"
<1>1. Q[k] \in Issues
  BY Members
<1>2. "junk" \notin Tests \cup Branches \cup {"nop", "store"}
  BY DEF Tests, Branches
<1> QED
  BY <1>1, <1>2 DEF Issues, Uids

\* An instruction of the routine is found on the issued list, in its place.
LEMMA Vouches ==
    ASSUME NEW P \in Seq(Entries), NEW Q \in Seq(Issues), NEW f, Flow(P, f), Vouched(P, Q),
           NEW k \in 1 .. Len(P), P[k].kind # "junk"
    PROVE  /\ k \in 1 .. Len(Q) /\ Q[k].uid = P[k].uid /\ Q[k].kind = P[k].kind
           /\ {s \in Range(Q) : s.uid = P[k].uid} = {Q[k]}
<1>1. /\ Len(P) \in Nat /\ Len(Q) \in Nat /\ Len(Q) <= Len(P)
      /\ DOMAIN Q = 1 .. Len(Q)
  BY Members DEF Vouched
<1>2. k <= Len(Q)
  BY DEF Vouched
<1>3. k \in 1 .. Len(Q) /\ Q[k].uid = P[k].uid /\ Q[k].kind = P[k].kind
  BY <1>1, <1>2 DEF Vouched
<1>4. ASSUME NEW j \in 1 .. Len(Q), Q[j].uid = P[k].uid PROVE j = k
  <2>1. j \in 1 .. Len(P) /\ Q[j].uid = P[j].uid
    BY <1>1 DEF Vouched
  <2>2. j < k => P[j].uid < P[k].uid
    BY <2>1, <1>1 DEF Flow
  <2>3. k < j => P[k].uid < P[j].uid
    BY <2>1, <1>1 DEF Flow
  <2>4. P[j].uid \in Nat /\ P[k].uid \in Nat /\ P[j].uid = P[k].uid
    BY <2>1, <1>4, Entry
  <2>5. ~(j < k) /\ ~(k < j)
    BY <2>2, <2>3, <2>4
  <2> QED
    BY <2>5, <1>1
<1>5. Range(Q) = {Q[j] : j \in 1 .. Len(Q)}
  BY <1>1 DEF Range
<1> QED
  BY <1>3, <1>4, <1>5

LEMMA KindsOf ==
    ASSUME NEW P \in Seq(Entries), NEW f, Flow(P, f), NEW k \in 1 .. Len(P)
    PROVE  /\ Proper(P[k]) /\ P[k].pc \in Pcs /\ P[k].kind = KindAt(P[k].pc)
           /\ P[k].next \in Predictions(KindAt(P[k].pc), P[k].pc)
BY Entry DEF Flow, Proper

\* What is fetched after an instruction outside the routine is outside, too.
LEMMA AllVouched ==
    ASSUME NEW P \in Seq(Entries), NEW Q \in Seq(Issues), NEW f, Flow(P, f), Vouched(P, Q),
           f # Outside
    PROVE  Len(Q) = Len(P)
<1>1. Len(P) \in Nat /\ Len(Q) \in Nat /\ Len(Q) <= Len(P)
  BY Members DEF Vouched
<1> SUFFICES ASSUME Len(Q) # Len(P) PROVE FALSE
  OBVIOUS
<1>2. Len(P) \in 1 .. Len(P) /\ ~(Len(P) <= Len(Q)) /\ Len(P) # 0
  BY <1>1
<1>3. P[Len(P)].kind = "junk"
  BY <1>2 DEF Vouched
<1>4. P[Len(P)].pc = 8
  BY <1>2, <1>3, KindsOf, AddressOf
<1>5. P[Len(P)].next = 8
  BY <1>2, <1>4, KindsOf, GoesOn
<1> QED
  BY <1>2, <1>5, RoutineIs DEF Flow

-----------------------------------------------------------------------------
(* Fetching.                                                               *)

LEMMA FlowAdd ==
    ASSUME NEW P \in Seq(Entries), NEW f, Flow(P, f), NEW e \in Entries,
           Proper(e), ~Begun(e), e.pc = f, \A k \in 1 .. Len(P) : P[k].uid < e.uid
    PROVE  Flow(Append(P, e), e.next)
<1>1. PICK n \in Nat : n = Len(P)
  BY Members
<1>2. PICK R : R = Append(P, e)
  OBVIOUS
<1>3. Len(R) = n + 1 /\ (\A k \in 1 .. n : R[k] = P[k]) /\ R[n + 1] = e
  BY <1>1, <1>2, Extended
<1>4. ASSUME NEW k \in 1 .. n + 1 PROVE Proper(R[k])
  BY <1>1, <1>3 DEF Flow
<1>5. ASSUME NEW k \in 2 .. n + 1 PROVE R[k].pc = R[k - 1].next /\ ~OnlyFirst(R[k])
  <2>1. CASE k \in 2 .. n
    <3>1. k \in 1 .. n /\ k - 1 \in 1 .. n
      BY <2>1, <1>1
    <3> QED
      BY <2>1, <3>1, <1>1, <1>3 DEF Flow
  <2>2. CASE k = n + 1
    <3>1. k - 1 = n /\ n \in 1 .. n /\ n # 0
      BY <2>2, <1>1
    <3>2. R[n].next = f
      BY <3>1, <1>1, <1>3 DEF Flow
    <3>3. ~OnlyFirst(e)
      BY DEF OnlyFirst, Begun
    <3> QED
      BY <2>2, <3>1, <3>2, <3>3, <1>3
  <2> QED
    BY <2>1, <2>2, <1>1
<1>6. ASSUME NEW k \in 1 .. n + 1, NEW j \in 1 .. k - 1
      PROVE  R[j].uid < R[k].uid /\ (Begun(R[k]) => Executed(R[j]))
  <2>1. CASE k \in 1 .. n
    <3>1. j \in 1 .. n
      BY <2>1, <1>1
    <3> QED
      BY <2>1, <3>1, <1>1, <1>3 DEF Flow
  <2>2. CASE k = n + 1
    <3>1. j \in 1 .. n
      BY <2>2, <1>1
    <3> QED
      BY <2>2, <3>1, <1>1, <1>3
  <2> QED
    BY <2>1, <2>2, <1>1
<1>7. Flow(R, e.next)
  BY <1>3, <1>4, <1>5, <1>6 DEF Flow
<1> QED
  BY <1>2, <1>7

LEMMA VouchedAdd ==
    ASSUME NEW P \in Seq(Entries), NEW Q \in Seq(Issues), Vouched(P, Q), NEW e \in Entries
    PROVE  /\ e.kind = "junk" => Vouched(Append(P, e), Q)
           /\ \A q \in Issues : Len(Q) = Len(P) /\ q.uid = e.uid /\ q.kind = e.kind =>
                Vouched(Append(P, e), Append(Q, q))
<1>1. PICK n \in Nat : n = Len(P)
  BY Members
<1>2. PICK R : R = Append(P, e)
  OBVIOUS
<1>3. Len(R) = n + 1 /\ (\A k \in 1 .. n : R[k] = P[k]) /\ R[n + 1] = e
  BY <1>1, <1>2, Extended
<1>4. PICK m \in Nat : m = Len(Q) /\ m <= n
  BY <1>1, Members DEF Vouched
<1>5. ASSUME e.kind = "junk" PROVE Vouched(R, Q)
  <2>1. ASSUME NEW k \in 1 .. n + 1
        PROVE  IF k <= m THEN Q[k].uid = R[k].uid /\ Q[k].kind = R[k].kind ELSE R[k].kind = "junk"
    <3>1. CASE k \in 1 .. n
      BY <3>1, <1>1, <1>3, <1>4 DEF Vouched
    <3>2. CASE k = n + 1
      BY <3>2, <1>3, <1>4, <1>5
    <3> QED
      BY <3>1, <3>2
  <2>2. m <= n + 1
    BY <1>4
  <2> QED
    BY <2>1, <2>2, <1>3, <1>4 DEF Vouched
<1>6. ASSUME NEW q \in Issues, m = n, q.uid = e.uid, q.kind = e.kind
      PROVE  Vouched(R, Append(Q, q))
  <2>0. PICK S : S = Append(Q, q)
    OBVIOUS
  <2>0a. /\ Len(Append(Q, q)) = Len(Q) + 1 /\ Append(Q, q)[Len(Q) + 1] = q
         /\ \A k \in 1 .. Len(Q) : Append(Q, q)[k] = Q[k]
    BY Extended
  <2>1. Len(S) = n + 1 /\ (\A k \in 1 .. n : S[k] = Q[k]) /\ S[n + 1] = q
    BY <2>0, <2>0a, <1>4, <1>6
  <2>2. ASSUME NEW k \in 1 .. n + 1
        PROVE  S[k].uid = R[k].uid /\ S[k].kind = R[k].kind /\ k <= n + 1
    <3>1. CASE k \in 1 .. n
      <4>1. k <= m
        BY <3>1, <1>6
      <4>2. Q[k].uid = P[k].uid /\ Q[k].kind = P[k].kind
        BY <4>1, <3>1, <1>1, <1>4 DEF Vouched
      <4> QED
        BY <4>2, <3>1, <2>1, <1>3
    <3>2. CASE k = n + 1
      BY <3>2, <2>1, <1>3, <1>6
    <3> QED
      BY <3>1, <3>2
  <2> QED
    BY <2>0, <2>1, <2>2, <1>3 DEF Vouched
<1> QED
  BY <1>1, <1>2, <1>4, <1>5, <1>6

LEMMA SoundJunk ==
    ASSUME NEW P \in Seq(Entries), NEW Q \in Seq(Issues), NEW f, NEW i, NEW st, NEW lt,
           Sound(P, Q, f, i, st, lt), NEW e \in Entries,
           Proper(e), ~Begun(e), e.pc = f, \A k \in 1 .. Len(P) : P[k].uid < e.uid,
           e.kind = "junk"
    PROVE  Sound(Append(P, e), Q, e.next, i, st, lt)
<1>1. Flow(Append(P, e), e.next) /\ Vouched(Append(P, e), Q)
  BY FlowAdd, VouchedAdd DEF Sound
<1>2. PICK lev : Levels(Q, i, lev) /\ Recorded(P, Q, st, lt, lev)
  BY DEF Sound
<1>3. \A k \in 1 .. Len(Q) : Append(P, e)[k] = P[k]
  <2>1. \A k \in 1 .. Len(Q) : k \in 1 .. Len(P)
    BY Members DEF Sound, Vouched
  <2> QED
    BY <2>1, Extended
<1>4. Recorded(Append(P, e), Q, st, lt, lev)
  BY <1>2, <1>3 DEF Recorded
<1> QED
  BY <1>1, <1>2, <1>4 DEF Sound

\* The iteration is counted up for a test, and its status cleared.
LEMMA SoundAdd ==
    ASSUME NEW P \in Seq(Entries), NEW Q \in Seq(Issues), NEW f, NEW i, NEW lt,
           NEW st \in [0 .. History - 1 -> Statuses],
           Sound(P, Q, f, i, st, lt), NEW e \in Entries,
           Proper(e), ~Begun(e), e.pc = f, \A k \in 1 .. Len(P) : P[k].uid < e.uid,
           e.kind # "junk", NEW q \in Issues, q.uid = e.uid, q.kind = e.kind,
           NEW n \in 0 .. History - 1, n = IF e.kind \in Tests THEN i + 1 ELSE i,
           e.kind \in Tests \cup {"cbranch"} => q.iter = n
    PROVE  Sound(Append(P, e), Append(Q, q), e.next, n,
                 [st EXCEPT ![n] = IF e.kind \in Tests THEN "invalid" ELSE @], lt)
<1>0. f # Outside
  BY Entry, RoutineIs, AddressOf DEF Proper, Entries
<1>1. PICK m \in Nat : m = Len(Q) /\ m = Len(P)
  BY <1>0, AllVouched, Members DEF Sound
<1>2. Flow(Append(P, e), e.next) /\ Vouched(Append(P, e), Append(Q, q))
  BY <1>1, FlowAdd, VouchedAdd DEF Sound
<1>3. PICK lev : Levels(Q, i, lev) /\ Recorded(P, Q, st, lt, lev)
  BY DEF Sound
<1>4. PICK l : l = [k \in 0 .. m + 1 |-> IF k <= m THEN lev[k] ELSE n]
  OBVIOUS
<1>5. Levels(Append(Q, q), n, l)
  <2>1. Levels(Append(Q, q), n, [k \in 0 .. Len(Q) + 1 |-> IF k <= Len(Q) THEN lev[k] ELSE n])
    <3>1. n = IF q.kind \in Tests THEN i + 1 ELSE i
      OBVIOUS
    <3>2. q.kind \in Tests \cup {"cbranch"} => q.iter = n
      OBVIOUS
    <3> QED
      BY <3>1, <3>2, <1>3, LevelsAdd
  <2> QED
    BY <2>1, <1>1, <1>4
<1>6. PICK R, S : R = Append(P, e) /\ S = Append(Q, q)
  OBVIOUS
<1>7. /\ Len(S) = m + 1 /\ (\A k \in 1 .. m : R[k] = P[k]) /\ R[m + 1] = e
  <2>1. Len(Append(Q, q)) = Len(Q) + 1
    BY Extended
  <2>2. /\ Append(P, e)[Len(P) + 1] = e
        /\ \A k \in 1 .. Len(P) : Append(P, e)[k] = P[k]
    BY Extended
  <2> QED
    BY <2>1, <2>2, <1>1, <1>6
<1>8. /\ \A k \in 0 .. m : l[k] = lev[k]
      /\ l[m + 1] = n
  BY <1>4
<1>9. PICK w : w = [st EXCEPT ![n] = IF e.kind \in Tests THEN "invalid" ELSE @]
  OBVIOUS
<1>10. \A k \in 0 .. m : w[lev[k]] = st[lev[k]]
  <2>1. CASE e.kind \in Tests
    <3>1. ASSUME NEW k \in 0 .. m PROVE lev[k] # n /\ lev[k] \in 0 .. History - 1
      <4>1. lev[k] \in Nat /\ lev[k] <= i /\ lev[k] \in 0 .. History - 1 /\ i \in Nat
        <5>1. k \in 0 .. Len(Q)
          BY <1>1
        <5>2. i \in 0 .. History - 1 /\ lev[k] \in 0 .. History - 1 /\ lev[k] \in Nat /\ lev[k] <= i
          BY <5>1, <1>3, LevelsAre
        <5> QED
          BY <5>2
      <4>2. n = i + 1
        BY <2>1
      <4> QED
        BY <4>1, <4>2
    <3> QED
      BY <3>1, <1>9
  <2>2. CASE e.kind \notin Tests
    <3>1. w = st
      BY <2>2, <1>9
    <3> QED
      BY <3>1
  <2> QED
    BY <2>1, <2>2
<1>11. e.actual = NoPc /\ e.found = "invalid"
  BY DEF Begun
<1>12. e.kind \in Tests => w[n] = "invalid"
  BY <1>9
<1>13. Recorded(R, S, w, lt, l)
  <2>1. w[l[0]] = lt
    <3>1. 0 \in 0 .. m
      BY <1>1
    <3> QED
      BY <3>1, <1>3, <1>8, <1>10 DEF Recorded
  <2>2. ASSUME NEW k \in 1 .. m + 1
        PROVE  /\ R[k].kind \in Tests => w[l[k]] = R[k].found
               /\ R[k].kind = "cbranch" /\ R[k].actual # NoPc =>
                    (R[k].actual = Start <=> w[l[k]] = "blocked")
    <3>1. CASE k \in 1 .. m
      <4>1. k \in 0 .. m /\ R[k] = P[k] /\ w[l[k]] = st[lev[k]]
        BY <3>1, <1>7, <1>8, <1>10
      <4> QED
        BY <4>1, <3>1, <1>1, <1>3 DEF Recorded
    <3>2. CASE k = m + 1
      BY <3>2, <1>7, <1>8, <1>11, <1>12
    <3> QED
      BY <3>1, <3>2, <1>1
  <2> QED
    BY <2>1, <2>2, <1>7 DEF Recorded
<1> QED
  BY <1>2, <1>5, <1>6, <1>9, <1>13 DEF Sound

-----------------------------------------------------------------------------
(* Executing.                                                              *)

\* An instruction is changed, but not its place.
Alters(P, R, i) ==
    /\ Len(R) = Len(P)
    /\ \A k \in 1 .. Len(P) : k # i => R[k] = P[k]
    /\ R[i].uid = P[i].uid /\ R[i].pc = P[i].pc /\ R[i].kind = P[i].kind /\ R[i].next = P[i].next

LEMMA FlowAlter ==
    ASSUME NEW P \in Seq(Entries), NEW Q \in Seq(Issues), NEW f, Flow(P, f), Vouched(P, Q),
           NEW R, NEW i \in 1 .. Len(P), Alters(P, R, i), Proper(R[i]),
           Begun(R[i]) => \A j \in 1 .. i - 1 : Executed(P[j]),
           i # 1 => ~OnlyFirst(R[i]), Executed(P[i]) => Executed(R[i])
    PROVE  Flow(R, f) /\ Vouched(R, Q)
<1>1. PICK n \in Nat : n = Len(P) /\ n = Len(R)
  BY Members DEF Alters
<1>2. \A k \in 1 .. n : /\ R[k].uid = P[k].uid /\ R[k].pc = P[k].pc /\ R[k].kind = P[k].kind
                        /\ R[k].next = P[k].next /\ (Executed(P[k]) => Executed(R[k]))
                        /\ (k # i => R[k] = P[k])
  BY <1>1 DEF Alters
<1>3. \A k \in 1 .. n : Proper(R[k])
  BY <1>1, <1>2 DEF Flow
<1>4. ASSUME NEW k \in 2 .. n PROVE R[k].pc = R[k - 1].next /\ ~OnlyFirst(R[k])
  <2>1. k \in 1 .. n /\ k - 1 \in 1 .. n /\ k # 1
    BY <1>1
  <2>2. P[k].pc = P[k - 1].next /\ ~OnlyFirst(P[k])
    BY <1>1 DEF Flow
  <2> QED
    BY <2>1, <2>2, <1>2
<1>5. ASSUME NEW k \in 1 .. n, NEW j \in 1 .. k - 1
      PROVE  R[j].uid < R[k].uid /\ (Begun(R[k]) => Executed(R[j]))
  <2>1. j \in 1 .. n
    BY <1>1
  <2>2. P[j].uid < P[k].uid /\ (Begun(P[k]) => Executed(P[j]))
    BY <1>1 DEF Flow
  <2>3. CASE k = i
    BY <2>1, <2>2, <2>3, <1>2
  <2>4. CASE k # i
    BY <2>1, <2>2, <2>4, <1>2
  <2> QED
    BY <2>3, <2>4
<1>6. n # 0 => f = R[n].next
  <2>1. n # 0 => n \in 1 .. n
    OBVIOUS
  <2> QED
    BY <2>1, <1>1, <1>2 DEF Flow
<1>7. Flow(R, f)
  BY <1>1, <1>3, <1>4, <1>5, <1>6 DEF Flow
<1>8. Vouched(R, Q)
  BY <1>1, <1>2 DEF Vouched
<1> QED
  BY <1>7, <1>8

\* Nothing of it is recorded.
LEMMA SoundAlter ==
    ASSUME NEW P \in Seq(Entries), NEW Q \in Seq(Issues), NEW f, NEW n, NEW st, NEW lt,
           Sound(P, Q, f, n, st, lt),
           NEW R, NEW i \in 1 .. Len(P), Alters(P, R, i), Proper(R[i]),
           Begun(R[i]) => \A j \in 1 .. i - 1 : Executed(P[j]),
           i # 1 => ~OnlyFirst(R[i]),
           R[i].actual = P[i].actual, R[i].found = P[i].found
    PROVE  Sound(R, Q, f, n, st, lt)
<1>1. Executed(P[i]) => Executed(R[i])
  BY DEF Executed, Alters
<1>2. Flow(R, f) /\ Vouched(R, Q)
  BY <1>1, FlowAlter DEF Sound
<1>3. PICK lev : Levels(Q, n, lev) /\ Recorded(P, Q, st, lt, lev)
  BY DEF Sound
<1>4. \A k \in 1 .. Len(Q) : /\ R[k].kind = P[k].kind /\ R[k].actual = P[k].actual
                             /\ R[k].found = P[k].found
  <2>1. \A k \in 1 .. Len(Q) : k \in 1 .. Len(P)
    BY Members DEF Sound, Vouched
  <2> QED
    BY <2>1 DEF Alters
<1>5. Recorded(R, Q, st, lt, lev)
  BY <1>3, <1>4 DEF Recorded
<1> QED
  BY <1>2, <1>3, <1>5 DEF Sound

\* A branch is told its direction.
LEMMA SoundIssue ==
    ASSUME NEW P \in Seq(Entries), NEW Q \in Seq(Issues), NEW f, NEW n, NEW st, NEW lt,
           Sound(P, Q, f, n, st, lt),
           NEW R, NEW i \in 1 .. Len(P), Alters(P, R, i), Proper(R[i]),
           \A j \in 1 .. i - 1 : Executed(P[j]),
           P[i].kind \in Branches, R[i].actual # NoPc,
           i # 1 => ~OnlyFirst(R[i]),
           P[i].kind = "cbranch" => (R[i].actual = Start <=> st[Q[i].iter] = "blocked")
    PROVE  Sound(R, Q, f, n, st, lt)
<1>0. P[i].kind \notin Tests /\ P[i].kind # "junk"
  BY DEF Tests, Branches
<1>1. Executed(R[i])
  BY <1>0 DEF Executed, Alters
<1>2. Flow(R, f) /\ Vouched(R, Q)
  BY <1>1, FlowAlter DEF Sound
<1>3. PICK lev : Levels(Q, n, lev) /\ Recorded(P, Q, st, lt, lev)
  BY DEF Sound
<1>4. \A k \in 1 .. Len(Q) : k \in 1 .. Len(P)
  BY Members DEF Sound, Vouched
<1>5. \A k \in 1 .. Len(Q) : k # i => R[k] = P[k]
  BY <1>4 DEF Alters
<1>6. i \in 1 .. Len(Q) /\ Q[i].kind = P[i].kind
  BY <1>0, Vouches DEF Sound
<1>7. P[i].kind = "cbranch" => (R[i].actual = Start <=> st[lev[i]] = "blocked")
  <2>1. P[i].kind = "cbranch" => Q[i].iter = lev[i]
    BY <1>3, <1>6 DEF Levels
  <2> QED
    BY <2>1
<1>8. R[i].kind = P[i].kind
  BY DEF Alters
<1>9. ASSUME NEW k \in 1 .. Len(Q)
      PROVE  /\ R[k].kind \in Tests => st[lev[k]] = R[k].found
             /\ R[k].kind = "cbranch" /\ R[k].actual # NoPc =>
                  (R[k].actual = Start <=> st[lev[k]] = "blocked")
  <2>1. CASE k = i
    BY <2>1, <1>0, <1>7, <1>8
  <2>2. CASE k # i
    BY <2>2, <1>3, <1>5 DEF Recorded
  <2> QED
    BY <2>1, <2>2
<1>10. Recorded(R, Q, st, lt, lev)
  BY <1>3, <1>9 DEF Recorded
<1> QED
  BY <1>2, <1>3, <1>10 DEF Sound

\* A test is told what it finds, for its iteration.
LEMMA SoundRead ==
    ASSUME NEW P \in Seq(Entries), NEW Q \in Seq(Issues), NEW f, NEW n, NEW lt,
           NEW st \in [0 .. History - 1 -> Statuses],
           Sound(P, Q, f, n, st, lt),
           NEW R, NEW i \in 1 .. Len(P), Alters(P, R, i), Proper(R[i]),
           \A j \in 1 .. i - 1 : Executed(P[j]),
           P[i].kind \in Tests, P[i].found = "invalid", R[i].actual = P[i].actual,
           i # 1 => ~OnlyFirst(R[i]), R[i].found # "invalid",
           NEW w, w = [k \in 0 .. History - 1 |-> IF k = Q[i].iter THEN R[i].found ELSE st[k]]
    PROVE  Sound(R, Q, f, n, w, lt)
<1>0. P[i].kind \notin Branches /\ P[i].kind # "junk" /\ P[i].kind # "cbranch"
  BY DEF Tests, Branches
<1>1. Executed(R[i]) /\ ~Executed(P[i])
  BY <1>0 DEF Executed, Alters
<1>2. Flow(R, f) /\ Vouched(R, Q)
  BY <1>1, FlowAlter DEF Sound
<1>3. PICK lev : Levels(Q, n, lev) /\ Recorded(P, Q, st, lt, lev)
  BY DEF Sound
<1>4. PICK m \in Nat : m = Len(Q)
  BY Members
<1>4a. \A k \in 1 .. m : k \in 1 .. Len(P)
  BY <1>4, Members DEF Sound, Vouched
<1>5. \A k \in 1 .. m : k # i => R[k] = P[k]
  BY <1>4a DEF Alters
<1>6. i \in 1 .. m /\ Q[i].kind = P[i].kind
  BY <1>0, <1>4, Vouches DEF Sound
<1>7. Q[i].iter = lev[i]
  BY <1>3, <1>4, <1>6 DEF Levels
<1>8. \A k \in 0 .. m : lev[k] \in Nat /\ lev[k] \in 0 .. History - 1
  BY <1>3, <1>4, LevelsAre
<1>9. \A k \in 0 .. m : lev[k] # lev[i] => w[lev[k]] = st[lev[k]]
  BY <1>7, <1>8
<1>10. w[lev[i]] = R[i].found
  <2>1. i \in 0 .. m
    BY <1>6
  <2> QED
    BY <2>1, <1>7, <1>8
<1>11. \A k \in 0 .. i - 1 : lev[k] # lev[i]
  <2>1. i \in 0 .. m /\ \A k \in 0 .. i - 1 : k \in 0 .. m
    BY <1>6
  <2>2. \A k \in 0 .. i - 1 : lev[k] < lev[i]
    BY <2>1, <1>3, <1>4, <1>6 DEF Levels
  <2> QED
    BY <2>1, <2>2, <1>8
<1>12. ASSUME NEW k \in i + 1 .. m, P[k].kind \in Tests PROVE lev[k] # lev[i]
  <2>1. k \in 0 .. m /\ i \in 0 .. k - 1 /\ k \in 1 .. Len(P) /\ k \in 1 .. m /\ i \in 0 .. m
    BY <1>4a, <1>6
  <2>2. Q[k].kind = P[k].kind
    BY <2>1, <1>4 DEF Sound, Vouched
  <2>3. lev[i] < lev[k]
    BY <2>1, <2>2, <1>3, <1>4, <1>12 DEF Levels
  <2> QED
    BY <2>1, <2>3, <1>8
<1>13. ASSUME NEW k \in i + 1 .. m PROVE P[k].actual = NoPc
  <2>1. k \in 1 .. Len(P) /\ i \in 1 .. k - 1
    BY <1>4a, <1>6
  <2>2. Begun(P[k]) => Executed(P[i])
    BY <2>1 DEF Sound, Flow
  <2> QED
    BY <2>2, <1>1 DEF Begun
<1>14. R[i].kind = P[i].kind
  BY DEF Alters
<1>15. ASSUME NEW k \in 1 .. m
       PROVE  /\ R[k].kind \in Tests => w[lev[k]] = R[k].found
              /\ R[k].kind = "cbranch" /\ R[k].actual # NoPc =>
                   (R[k].actual = Start <=> w[lev[k]] = "blocked")
  <2>1. CASE k = i
    BY <2>1, <1>0, <1>10, <1>14
  <2>2. CASE k \in 1 .. i - 1
    <3>1. k \in 0 .. i - 1 /\ k \in 0 .. m /\ k # i
      BY <2>2, <1>6
    <3>2. w[lev[k]] = st[lev[k]] /\ R[k] = P[k]
      BY <3>1, <1>5, <1>9, <1>11
    <3> QED
      BY <3>2, <1>3, <1>4 DEF Recorded
  <2>3. CASE k \in i + 1 .. m
    <3>1. k \in 0 .. m /\ k # i
      BY <2>3, <1>6
    <3>2. R[k] = P[k] /\ R[k].actual = NoPc
      BY <3>1, <2>3, <1>5, <1>13
    <3>3. R[k].kind \in Tests => w[lev[k]] = st[lev[k]]
      BY <3>1, <3>2, <2>3, <1>9, <1>12
    <3> QED
      BY <3>2, <3>3, <1>3, <1>4 DEF Recorded
  <2> QED
    BY <2>1, <2>2, <2>3, <1>6
<1>16. w[lev[0]] = lt
  <2>1. 0 \in 0 .. m /\ 0 \in 0 .. i - 1
    BY <1>6
  <2> QED
    BY <2>1, <1>3, <1>9, <1>11 DEF Recorded
<1>17. Recorded(R, Q, w, lt, lev)
  BY <1>4, <1>15, <1>16 DEF Recorded
<1> QED
  BY <1>2, <1>3, <1>17 DEF Sound

-----------------------------------------------------------------------------
(* Squashing and committing.                                               *)

\* The iteration the feeder goes back to: find_new_iteration_count.
IterationAt(Q, n, r) == IF TestsBehind(Q, r) = {} THEN n ELSE Min(TestsBehind(Q, r)) - 1

\* x is the instruction e, for which the model may go on elsewhere.
Redirected(x, e) ==
    /\ Proper(x)
    /\ x.uid = e.uid /\ x.pc = e.pc /\ x.kind = e.kind /\ x.actual = e.actual
    /\ x.found = e.found /\ x.spec = e.spec /\ x.wrote = e.wrote

\* What is behind place r is squashed, and the model goes on at h.
LEMMA SoundCut ==
    ASSUME NEW P \in Seq(Entries), NEW Q \in Seq(Issues), NEW f, NEW n, NEW st, NEW lt,
           Sound(P, Q, f, n, st, lt), NEW r \in 0 .. Len(Q),
           NEW R \in Seq(Entries), Len(R) = r, \A k \in 1 .. r - 1 : R[k] = P[k],
           r # 0 => Redirected(R[r], P[r]),
           NEW h, r # 0 => h = R[r].next,
           NEW S \in Seq(Issues), Len(S) = r, \A k \in 1 .. r : S[k] = Q[k],
           NEW i, i = IterationAt(Q, n, r)
    PROVE  Sound(R, S, h, i, st, lt) /\ i \in 0 .. History - 1
<1>1. PICK m \in Nat : m = Len(Q) /\ m <= Len(P)
  BY Members DEF Sound, Vouched
<1>2. Len(P) \in Nat /\ r \in Nat /\ r <= m
  BY <1>1, Members
<1>3. ASSUME NEW k \in 1 .. r
      PROVE  /\ k \in 1 .. Len(P) /\ k \in 1 .. m
             /\ R[k].uid = P[k].uid /\ R[k].pc = P[k].pc /\ R[k].kind = P[k].kind
             /\ R[k].actual = P[k].actual /\ R[k].found = P[k].found
             /\ R[k].spec = P[k].spec /\ R[k].wrote = P[k].wrote
             /\ Proper(R[k]) /\ (k # r => R[k].next = P[k].next)
  <2>0. k \in Nat /\ 1 <= k /\ k <= r /\ r <= m /\ m <= Len(P)
    BY <1>1, <1>2
  <2>1. k \in 1 .. Len(P) /\ k \in 1 .. m /\ r # 0
    BY <2>0, <1>2
  <2>2. CASE k = r
    BY <2>1, <2>2 DEF Redirected
  <2>3. CASE k # r
    <3>1. k \in 1 .. r - 1
      BY <2>3, <1>2
    <3> QED
      BY <2>1, <2>3, <3>1 DEF Sound, Flow
  <2> QED
    BY <2>2, <2>3
<1>4. \A k \in 1 .. r : /\ Begun(R[k]) <=> Begun(P[k])
                        /\ Executed(R[k]) <=> Executed(P[k])
                        /\ OnlyFirst(R[k]) <=> OnlyFirst(P[k])
  BY <1>3 DEF Begun, Executed, OnlyFirst
<1>5. Flow(R, h)
  <2>1. ASSUME NEW k \in 2 .. r PROVE R[k].pc = R[k - 1].next /\ ~OnlyFirst(R[k])
    <3>1. k \in 1 .. r /\ k - 1 \in 1 .. r /\ k - 1 # r /\ k \in 2 .. Len(P)
      BY <1>1, <1>2
    <3>2. P[k].pc = P[k - 1].next /\ ~OnlyFirst(P[k])
      BY <3>1 DEF Sound, Flow
    <3> QED
      BY <3>1, <3>2, <1>3, <1>4
  <2>2. ASSUME NEW k \in 1 .. r, NEW j \in 1 .. k - 1
        PROVE  R[j].uid < R[k].uid /\ (Begun(R[k]) => Executed(R[j]))
    <3>1. j \in 1 .. r /\ k \in 1 .. Len(P)
      BY <1>3, <1>2
    <3>2. P[j].uid < P[k].uid /\ (Begun(P[k]) => Executed(P[j]))
      BY <3>1 DEF Sound, Flow
    <3> QED
      BY <3>1, <3>2, <1>3, <1>4
  <2> QED
    BY <2>1, <2>2, <1>3 DEF Flow
<1>6. Vouched(R, S)
  <2>1. ASSUME NEW k \in 1 .. r PROVE S[k].uid = R[k].uid /\ S[k].kind = R[k].kind
    <3>1. k \in 1 .. Len(P) /\ k <= Len(Q)
      BY <1>3, <1>1
    <3>2. Q[k].uid = P[k].uid /\ Q[k].kind = P[k].kind
      BY <3>1 DEF Sound, Vouched
    <3> QED
      BY <3>2, <1>3
  <2>2. \A k \in 1 .. r : k <= r
    BY <1>2
  <2> QED
    BY <2>1, <2>2, <1>2 DEF Vouched
<1>7. PICK lev : Levels(Q, n, lev) /\ Recorded(P, Q, st, lt, lev)
  BY DEF Sound
<1>8. i = lev[r] /\ i \in 0 .. History - 1
  <2>1. lev[r] = IF TestsBehind(Q, r) = {} THEN n ELSE Min(TestsBehind(Q, r)) - 1
    BY <1>7, LevelBefore
  <2>2. lev[r] = i
    BY <2>1 DEF IterationAt
  <2>3. lev[r] \in 0 .. History - 1
    BY <1>7, LevelsAre
  <2> QED
    BY <2>2, <2>3
<1>9. PICK l : l = [k \in 0 .. r |-> lev[k]]
  OBVIOUS
<1>10. Levels(S, i, l)
  <2>1. Levels(S, lev[r], [k \in 0 .. r |-> lev[k]])
    BY <1>7, LevelsCut
  <2> QED
    BY <2>1, <1>8, <1>9
<1>11. Recorded(R, S, st, lt, l)
  <2>1. \A k \in 0 .. r : l[k] = lev[k]
    BY <1>9
  <2>2. l[0] = lev[0]
    BY <2>1, <1>2
  <2>3. ASSUME NEW k \in 1 .. r
        PROVE  /\ R[k].kind \in Tests => st[l[k]] = R[k].found
               /\ R[k].kind = "cbranch" /\ R[k].actual # NoPc =>
                    (R[k].actual = Start <=> st[l[k]] = "blocked")
    <3>1. k \in 0 .. r /\ k \in 1 .. Len(Q)
      BY <1>1, <1>3
    <3> QED
      BY <3>1, <2>1, <1>3, <1>7 DEF Recorded
  <2> QED
    BY <2>2, <2>3, <1>7 DEF Recorded
<1> QED
  BY <1>5, <1>6, <1>8, <1>10, <1>11 DEF Sound

\* What is behind place r, its uids counted from base.
Shifts(P, R, r, base) ==
    /\ Len(R) = Len(P) - r
    /\ \A k \in 1 .. Len(P) - r : R[k] = [P[k + r] EXCEPT !.uid = @ - base]

LEMMA RecountShifts ==
    ASSUME NEW S, NEW P \in Seq(S), NEW r \in 0 .. Len(P), NEW base,
           \A k \in r + 1 .. Len(P) : [P[k] EXCEPT !.uid = @ - base] \in S
    PROVE  /\ Recount(SubSeq(P, r + 1, Len(P)), base) \in Seq(S)
           /\ Shifts(P, Recount(SubSeq(P, r + 1, Len(P)), base), r, base)
<1>1. PICK n \in Nat : n = Len(P)
  BY Members
<1>2. r \in Nat /\ r <= n /\ n - r \in Nat
  BY <1>1
<1>3. PICK d \in Nat : d = n - r
  BY <1>2
<1>4. PICK p : p = SubSeq(P, r + 1, n)
  OBVIOUS
<1>5. p \in Seq(S) /\ Len(p) = d /\ \A k \in 1 .. d : p[k] = P[k + r]
  <2>1. r + 1 \in 1 .. Len(P) + 1 /\ n \in 0 .. Len(P) /\ r + 1 <= n + 1 /\ n - (r + 1) + 1 = d
    BY <1>1, <1>2, <1>3
  <2>2. /\ p \in Seq(S) /\ Len(p) = n - (r + 1) + 1
        /\ \A k \in 1 .. n - (r + 1) + 1 : p[k] = P[(r + 1) + k - 1]
    BY <2>1, <1>4, PartOf
  <2>3. \A k \in 1 .. d : (r + 1) + k - 1 = k + r
    BY <1>2
  <2> QED
    BY <2>1, <2>2, <2>3
<1>6. DOMAIN p = 1 .. d
  BY <1>5, Members
<1>7. PICK R : R = [k \in 1 .. d |-> [p[k] EXCEPT !.uid = @ - base]]
  OBVIOUS
<1>8. Recount(p, base) = R
  BY <1>6, <1>7 DEF Recount
<1>9. ASSUME NEW k \in 1 .. d PROVE R[k] = [P[k + r] EXCEPT !.uid = @ - base] /\ R[k] \in S
  <2>1. k + r \in r + 1 .. Len(P)
    BY <1>1, <1>2, <1>3
  <2>2. R[k] = [P[k + r] EXCEPT !.uid = @ - base]
    BY <1>5, <1>7
  <2> QED
    BY <2>1, <2>2
<1>10. R \in [1 .. d -> S]
  BY <1>7, <1>9
<1>11. R \in Seq(S) /\ Len(R) = d
  BY <1>10, SeqOfPlaces
<1>12. Shifts(P, R, r, base)
  BY <1>1, <1>3, <1>9, <1>11 DEF Shifts
<1> QED
  BY <1>1, <1>4, <1>8, <1>11, <1>12

\* Recounting changes nothing but the uid.
LEMMA RecountedEntry ==
    ASSUME NEW x \in Entries, NEW base, NEW y, y = [x EXCEPT !.uid = @ - base]
    PROVE  /\ y.uid = x.uid - base /\ y.pc = x.pc /\ y.next = x.next /\ y.kind = x.kind
           /\ y.actual = x.actual /\ y.found = x.found /\ y.spec = x.spec /\ y.wrote = x.wrote
BY DEF Entries

LEMMA RecountedIssue ==
    ASSUME NEW x \in Issues, NEW base, NEW y, y = [x EXCEPT !.uid = @ - base]
    PROVE  y.uid = x.uid - base /\ y.kind = x.kind /\ y.iter = x.iter
BY DEF Issues

\* The first r instructions have left, of which the last may be a test.
LEMMA SoundShift ==
    ASSUME NEW P \in Seq(Entries), NEW Q \in Seq(Issues), NEW f, NEW n, NEW st, NEW lt,
           Sound(P, Q, f, n, st, lt), NEW r \in 1 .. Len(P), P[r].kind # "junk",
           \A k \in 1 .. r - 1 : P[k].kind = "nop",
           NEW base \in Nat,
           NEW R \in Seq(Entries), Shifts(P, R, r, base),
           NEW S \in Seq(Issues), Shifts(Q, S, r, base)
    PROVE  Sound(R, S, f, n, st, IF P[r].kind \in Tests THEN P[r].found ELSE lt)
<1>1. PICK m \in Nat, p \in Nat : m = Len(Q) /\ p = Len(P) /\ m <= p
  BY Members DEF Sound, Vouched
<1>2. r \in 1 .. m
  BY <1>1, Vouches DEF Sound
<1>3. r \in Nat /\ r >= 1 /\ m - r \in Nat /\ p - r \in Nat /\ r <= m /\ r <= p
  BY <1>1, <1>2
<1>3a. m - r <= p - r
  BY <1>1, <1>3
<1>4. PICK d \in Nat, e \in Nat : d = m - r /\ e = p - r /\ d <= e
  BY <1>3, <1>3a
<1>5. Len(R) = e /\ Len(S) = d
  BY <1>1, <1>4 DEF Shifts
<1>6. ASSUME NEW k \in 1 .. e
      PROVE  /\ k + r \in 1 .. p
             /\ R[k].uid = P[k + r].uid - base /\ R[k].pc = P[k + r].pc
             /\ R[k].next = P[k + r].next /\ R[k].kind = P[k + r].kind
             /\ R[k].actual = P[k + r].actual /\ R[k].found = P[k + r].found
             /\ R[k].spec = P[k + r].spec /\ R[k].wrote = P[k + r].wrote
  <2>1. k + r \in 1 .. p
    BY <1>3, <1>4
  <2>2. P[k + r] \in Entries
    BY <2>1, <1>1, Entry
  <2>3. R[k] = [P[k + r] EXCEPT !.uid = @ - base]
    BY <1>1, <1>4 DEF Shifts
  <2> QED
    BY <2>1, <2>2, <2>3, RecountedEntry
<1>7. ASSUME NEW k \in 1 .. d
      PROVE  /\ k + r \in 1 .. m
             /\ S[k].uid = Q[k + r].uid - base /\ S[k].kind = Q[k + r].kind
             /\ S[k].iter = Q[k + r].iter
  <2>1. k + r \in 1 .. m
    BY <1>3, <1>4
  <2>2. Q[k + r] \in Issues
    BY <2>1, <1>1, Issued
  <2>3. S[k] = [Q[k + r] EXCEPT !.uid = @ - base]
    BY <1>1, <1>4 DEF Shifts
  <2> QED
    BY <2>1, <2>2, <2>3, RecountedIssue
<1>8. \A k \in 1 .. e : /\ Begun(R[k]) <=> Begun(P[k + r])
                        /\ Executed(R[k]) <=> Executed(P[k + r])
                        /\ OnlyFirst(R[k]) <=> OnlyFirst(P[k + r])
                        /\ Proper(R[k]) <=> Proper(P[k + r])
  BY <1>6 DEF Begun, Executed, OnlyFirst, Proper
<1>9. Flow(R, f)
  <2>1. ASSUME NEW k \in 1 .. e PROVE Proper(R[k])
    BY <1>1, <1>6, <1>8 DEF Sound, Flow
  <2>2. ASSUME NEW k \in 2 .. e PROVE R[k].pc = R[k - 1].next /\ ~OnlyFirst(R[k])
    <3>1. k \in 1 .. e /\ k - 1 \in 1 .. e /\ (k - 1) + r = (k + r) - 1 /\ k + r \in 2 .. p
      BY <1>3, <1>4
    <3>2. P[k + r].pc = P[(k + r) - 1].next /\ ~OnlyFirst(P[k + r])
      <4>1. \A x \in 2 .. p : P[x].pc = P[x - 1].next /\ ~OnlyFirst(P[x])
        BY <1>1 DEF Sound, Flow
      <4> QED
        BY <4>1, <3>1
    <3> QED
      BY <3>1, <3>2, <1>6, <1>8
  <2>3. ASSUME NEW k \in 1 .. e, NEW j \in 1 .. k - 1
        PROVE  R[j].uid < R[k].uid /\ (Begun(R[k]) => Executed(R[j]))
    <3>0. /\ k \in Nat /\ 1 <= k /\ k <= e /\ e + r = p
          /\ j \in Nat /\ 1 <= j /\ j <= k - 1
      BY <1>3, <1>4
    <3>1. j \in 1 .. e /\ j + r \in 1 .. (k + r) - 1 /\ k + r \in 1 .. p /\ j + r \in 1 .. p
      BY <3>0, <1>1, <1>3
    <3>2. P[j + r].uid < P[k + r].uid /\ (Begun(P[k + r]) => Executed(P[j + r]))
      BY <3>1, <1>1 DEF Sound, Flow
    <3>3. P[j + r].uid \in Nat /\ P[k + r].uid \in Nat
      BY <3>1, <1>1, Entry
    <3>4. P[j + r].uid - base < P[k + r].uid - base
      <4>1. PICK x \in Nat, y \in Nat : x = P[j + r].uid /\ y = P[k + r].uid
        BY <3>3
      <4>2. x < y
        BY <3>2, <4>1
      <4>3. x - base < y - base
        BY <4>2
      <4> QED
        BY <4>1, <4>3
    <3> QED
      BY <3>1, <3>2, <3>4, <1>6, <1>8
  <2>4. e # 0 => f = R[e].next
    <3>1. ASSUME e # 0 PROVE e \in 1 .. e /\ e + r = p /\ p # 0
      BY <3>1, <1>3, <1>4
    <3> QED
      BY <3>1, <1>1, <1>6 DEF Sound, Flow
  <2> QED
    BY <2>1, <2>2, <2>3, <2>4, <1>5 DEF Flow
<1>10. Vouched(R, S)
  <2>1. ASSUME NEW k \in 1 .. e
        PROVE  IF k <= d THEN S[k].uid = R[k].uid /\ S[k].kind = R[k].kind ELSE R[k].kind = "junk"
    <3>0. IF k + r <= m THEN Q[k + r].uid = P[k + r].uid /\ Q[k + r].kind = P[k + r].kind
                        ELSE P[k + r].kind = "junk"
      BY <1>1, <1>6 DEF Sound, Vouched
    <3>1. CASE k <= d
      <4>1. k \in 1 .. d /\ k + r <= m
        BY <3>1, <1>3, <1>4
      <4> QED
        BY <4>1, <3>0, <3>1, <1>6, <1>7
    <3>2. CASE ~(k <= d)
      <4>1. ~(k + r <= m)
        BY <3>2, <1>3, <1>4
      <4> QED
        BY <4>1, <3>0, <3>2, <1>6
    <3> QED
      BY <3>1, <3>2
  <2> QED
    BY <2>1, <1>4, <1>5 DEF Vouched
<1>11. PICK lev : Levels(Q, n, lev) /\ Recorded(P, Q, st, lt, lev)
  BY DEF Sound
<1>12. PICK l : l = [k \in 0 .. d |-> lev[k + r]]
  OBVIOUS
<1>13. Levels(S, n, l)
  <2>1. Len(S) = Len(Q) - r /\ r \in 0 .. Len(Q)
    BY <1>1, <1>3, <1>4, <1>5
  <2>2. \A k \in 1 .. Len(Q) - r : S[k].kind = Q[k + r].kind /\ S[k].iter = Q[k + r].iter
    BY <1>1, <1>4, <1>7
  <2>3. Levels(S, n, [k \in 0 .. Len(Q) - r |-> lev[k + r]])
    BY <2>1, <2>2, <1>11, LevelsShift
  <2> QED
    BY <2>3, <1>1, <1>4, <1>12
<1>14. st[lev[r]] = IF P[r].kind \in Tests THEN P[r].found ELSE lt
  <2>1. CASE P[r].kind \in Tests
    BY <2>1, <1>1, <1>2, <1>11 DEF Recorded
  <2>2. CASE P[r].kind \notin Tests
    <3>1. ASSUME lev[0] # lev[r] PROVE FALSE
      <4>1. r \in 0 .. m /\ 0 \in 0 .. r - 1
        BY <1>3
      <4>2. PICK x \in 0 + 1 .. r : Q[x].kind \in Tests
        BY <3>1, <4>1, <1>1, <1>11 DEF Levels
      <4>3. x \in 1 .. p /\ x <= m
        BY <4>2, <1>1, <1>3
      <4>4. P[x].kind \in Tests
        BY <4>2, <4>3, <1>1 DEF Sound, Vouched
      <4>5. x = r \/ x \in 1 .. r - 1
        BY <4>2, <1>3
      <4> QED
        BY <4>4, <4>5, <2>2 DEF Tests
    <3> QED
      BY <3>1, <2>2, <1>11 DEF Recorded
  <2> QED
    BY <2>1, <2>2
<1>15. Recorded(R, S, st, IF P[r].kind \in Tests THEN P[r].found ELSE lt, l)
  <2>1. l[0] = lev[r]
    <3>1. 0 \in 0 .. d /\ 0 + r = r
      BY <1>3, <1>4
    <3> QED
      BY <3>1, <1>12
  <2>2. ASSUME NEW k \in 1 .. d
        PROVE  /\ R[k].kind \in Tests => st[l[k]] = R[k].found
               /\ R[k].kind = "cbranch" /\ R[k].actual # NoPc =>
                    (R[k].actual = Start <=> st[l[k]] = "blocked")
    <3>1. k \in 1 .. e /\ k \in 0 .. d /\ k + r \in 1 .. Len(Q)
      BY <1>1, <1>4, <1>7
    <3>2. l[k] = lev[k + r]
      BY <3>1, <1>12
    <3> QED
      BY <3>1, <3>2, <1>6, <1>11 DEF Recorded
  <2> QED
    BY <2>1, <2>2, <1>5, <1>14 DEF Recorded
<1> QED
  BY <1>9, <1>10, <1>13, <1>15 DEF Sound

-----------------------------------------------------------------------------
(* The inductive invariant of the threads.                                 *)

Seniors == [uid : Uids, spec : BOOLEAN]
Locals == [id : {Unreachable}, addr : {LockAddr}, size : {LockSize}, val : Words]

HeadPc(P, f) == IF Len(P) = 0 THEN f ELSE P[1].pc
HeadFound(P) == Len(P) # 0 /\ P[1].found # "invalid"
HeadWrote(P) == Len(P) # 0 /\ P[1].wrote

\* What a thread holds, by the address its commits have come to.
Standing(P, f, s, h, lt) ==
    LET pc == HeadPc(P, f)
    IN  /\ pc \in 0 .. 7
        /\ pc = 0 => s = {} /\ ~h
        /\ pc \in {1, 2, 3, 7} => (h <=> s # {})
        /\ pc = 4 => /\ HeadFound(P) => s = {}
                     /\ HeadWrote(P) => (h <=> P[1].found = "entering")
                     /\ ~HeadWrote(P) => (h <=> s # {})
        /\ pc = 5 => s = {} /\ lt # "invalid" /\ (h <=> lt = "entering")
        /\ pc = 6 => s = {} /\ (h <=> ~HeadWrote(P))

\* A compare-exchange that has read and not written holds the line.
Reserving(P) == Len(P) # 0 /\ P[1].kind = "cmpxchg" /\ P[1].found # "invalid" /\ ~P[1].wrote

\* While the model fetches outside the routine, the calls are in flight.
Tidy(P, Q, f, w) == f = Outside => w <= Len(P) - Len(Q)

ThreadInv(t) ==
    /\ Sound(pipe[t], issued[t], fetchPc[t], iteration[t], status[t], lastTest[t])
    /\ Standing(pipe[t], fetchPc[t], senior[t], holds[t], lastTest[t])
    /\ Tidy(pipe[t], issued[t], fetchPc[t], wrongPath[t])
    /\ needJump[t] <=> (Len(pipe[t]) = 0 /\ fetchPc[t] = 0)
    /\ t \in owner <=> Reserving(pipe[t])
    /\ \A x, y \in senior[t] : x = y

CellType ==
    /\ cell \in [global : Words, has : SUBSET Bytes, local : [Cpus -> Seq(Locals)]]
    /\ \A t \in Threads : Len(cell.local[t]) <= MaxLocal

FeederType ==
    /\ memopMap = [t \in Threads |-> {}]
    /\ issued \in [Threads -> Seq(Issues)]
    /\ iteration \in [Threads -> 0 .. History - 1]
    /\ status \in [Threads -> [0 .. History - 1 -> Statuses]]
    /\ needJump \in [Threads -> BOOLEAN] /\ ended \in [Threads -> BOOLEAN]
    /\ wrongPath \in [Threads -> 0 .. WrongPathLimit]
    /\ committed \in [Threads -> Nat]

ModelType ==
    /\ pipe \in [Threads -> Seq(Entries)]
    /\ fetchPc \in [Threads -> Pcs]
    /\ senior \in [Threads -> SUBSET Seniors]
    /\ owner \subseteq Threads /\ \A t, u \in owner : t = u
    /\ traps \in 0 .. MaxTraps
    /\ lastTest \in [Threads -> Statuses]
    /\ holds \in [Threads -> BOOLEAN]

\* Of the errors, only one is ever reached.
ErrorType ==
    /\ error \in {"none", "wrongPath"}
    /\ error = "none" => \A t \in Threads : wrongPath[t] < WrongPathLimit

Sane == /\ CellType /\ FeederType /\ ModelType /\ ErrorType
        /\ \A t \in Threads : ThreadInv(t)

\* A step of another thread leaves this one as it is.
Steady(u) ==
    /\ pipe'[u] = pipe[u] /\ issued'[u] = issued[u] /\ fetchPc'[u] = fetchPc[u]
    /\ iteration'[u] = iteration[u] /\ status'[u] = status[u] /\ lastTest'[u] = lastTest[u]
    /\ senior'[u] = senior[u] /\ holds'[u] = holds[u] /\ wrongPath'[u] = wrongPath[u]
    /\ needJump'[u] = needJump[u]
    /\ u \in owner' <=> u \in owner

LEMMA Framed ==
    ASSUME Sane, NEW t \in Threads,
           CellType', FeederType', ModelType', ErrorType', ThreadInv(t)',
           \A u \in Threads : u # t => Steady(u)
    PROVE  Sane'
<1>1. ASSUME NEW u \in Threads PROVE ThreadInv(u)'
  <2>1. CASE u = t
    BY <2>1
  <2>2. CASE u # t
    <3>1. Steady(u) /\ ThreadInv(u)
      BY <2>2 DEF Sane
    <3> QED
      BY <3>1 DEF Steady, ThreadInv
  <2> QED
    BY <2>1, <2>2
<1> QED
  BY <1>1 DEF Sane

\* What the invariant says of one thread.
LEMMA Facts ==
    ASSUME Sane, NEW t \in Threads
    PROVE  /\ pipe[t] \in Seq(Entries) /\ issued[t] \in Seq(Issues) /\ fetchPc[t] \in Pcs
           /\ iteration[t] \in 0 .. History - 1 /\ status[t] \in [0 .. History - 1 -> Statuses]
           /\ lastTest[t] \in Statuses /\ senior[t] \in SUBSET Seniors /\ holds[t] \in BOOLEAN
           /\ memopMap[t] = {} /\ needJump[t] \in BOOLEAN
           /\ wrongPath[t] \in Nat /\ wrongPath[t] <= WrongPathLimit
           /\ Sound(pipe[t], issued[t], fetchPc[t], iteration[t], status[t], lastTest[t])
           /\ Standing(pipe[t], fetchPc[t], senior[t], holds[t], lastTest[t])
           /\ Tidy(pipe[t], issued[t], fetchPc[t], wrongPath[t])
           /\ needJump[t] <=> (Len(pipe[t]) = 0 /\ fetchPc[t] = 0)
           /\ t \in owner <=> Reserving(pipe[t])
           /\ \A x, y \in senior[t] : x = y
           /\ DOMAIN pipe[t] = 1 .. Len(pipe[t]) /\ Len(pipe[t]) \in Nat
           /\ DOMAIN issued[t] = 1 .. Len(issued[t]) /\ Len(issued[t]) \in Nat
           /\ Len(issued[t]) <= Len(pipe[t])
           /\ Flow(pipe[t], fetchPc[t]) /\ Vouched(pipe[t], issued[t])
<1>1. ThreadInv(t)
  BY DEF Sane
<1>2. pipe[t] \in Seq(Entries) /\ issued[t] \in Seq(Issues)
  BY DEF Sane, FeederType, ModelType
<1>3. /\ DOMAIN pipe[t] = 1 .. Len(pipe[t]) /\ Len(pipe[t]) \in Nat
      /\ DOMAIN issued[t] = 1 .. Len(issued[t]) /\ Len(issued[t]) \in Nat
  BY <1>2, Members
<1>4. wrongPath[t] \in Nat /\ wrongPath[t] <= WrongPathLimit
  <2>1. wrongPath[t] \in 0 .. WrongPathLimit /\ WrongPathLimit \in Nat
    BY FeederAssumption DEF Sane, FeederType
  <2> QED
    BY <2>1
<1>5. /\ iteration[t] \in 0 .. History - 1 /\ status[t] \in [0 .. History - 1 -> Statuses]
      /\ memopMap[t] = {} /\ needJump[t] \in BOOLEAN
  BY DEF Sane, FeederType
<1>6. /\ lastTest[t] \in Statuses /\ senior[t] \in SUBSET Seniors /\ holds[t] \in BOOLEAN
      /\ fetchPc[t] \in Pcs
  BY DEF Sane, ModelType
<1>7. /\ Flow(pipe[t], fetchPc[t]) /\ Vouched(pipe[t], issued[t])
      /\ Len(issued[t]) <= Len(pipe[t])
  BY <1>1 DEF ThreadInv, Sound, Vouched
<1> QED
  BY <1>1, <1>2, <1>3, <1>4, <1>5, <1>6, <1>7 DEF ThreadInv

\* An instruction in flight.
LEMMA InFlight ==
    ASSUME Sane, NEW t \in Threads, NEW i \in DOMAIN pipe[t]
    PROVE  /\ i \in 1 .. Len(pipe[t]) /\ i \in Nat /\ i >= 1 /\ i <= Len(pipe[t])
           /\ pipe[t][i] \in Entries /\ Proper(pipe[t][i])
           /\ pipe[t][i].uid \in Nat /\ pipe[t][i].uid # 0
           /\ pipe[t][i].pc \in Pcs /\ pipe[t][i].next \in Pcs
           /\ pipe[t][i].kind = KindAt(pipe[t][i].pc)
           /\ i # 1 => ~OnlyFirst(pipe[t][i])
           /\ pipe[t][i].kind # "junk" =>
                /\ i \in 1 .. Len(issued[t]) /\ issued[t][i].uid = pipe[t][i].uid
                /\ issued[t][i].kind = pipe[t][i].kind
                /\ FindSI(t, pipe[t][i].uid) = {issued[t][i]}
<1>1. /\ pipe[t] \in Seq(Entries) /\ issued[t] \in Seq(Issues)
      /\ Flow(pipe[t], fetchPc[t]) /\ Vouched(pipe[t], issued[t])
      /\ DOMAIN pipe[t] = 1 .. Len(pipe[t]) /\ Len(pipe[t]) \in Nat
  BY Facts
<1>2. i \in 1 .. Len(pipe[t]) /\ i \in Nat /\ i >= 1 /\ i <= Len(pipe[t])
  BY <1>1
<1>3. /\ pipe[t][i] \in Entries /\ pipe[t][i].uid \in Nat /\ pipe[t][i].uid # 0
      /\ pipe[t][i].pc \in Pcs /\ pipe[t][i].next \in Pcs
  BY <1>1, <1>2, Entry
<1>4. Proper(pipe[t][i]) /\ pipe[t][i].kind = KindAt(pipe[t][i].pc)
  BY <1>1, <1>2, KindsOf
<1>5. i # 1 => ~OnlyFirst(pipe[t][i])
  <2>1. i # 1 => i \in 2 .. Len(pipe[t])
    BY <1>1, <1>2
  <2> QED
    BY <2>1, <1>1 DEF Flow
<1>6. ASSUME pipe[t][i].kind # "junk"
      PROVE  /\ i \in 1 .. Len(issued[t]) /\ issued[t][i].uid = pipe[t][i].uid
             /\ issued[t][i].kind = pipe[t][i].kind
             /\ FindSI(t, pipe[t][i].uid) = {issued[t][i]}
  <2>1. /\ i \in 1 .. Len(issued[t]) /\ issued[t][i].uid = pipe[t][i].uid
        /\ issued[t][i].kind = pipe[t][i].kind
        /\ {s \in Range(issued[t]) : s.uid = pipe[t][i].uid} = {issued[t][i]}
    BY <1>1, <1>2, <1>6, Vouches
  <2> QED
    BY <2>1 DEF FindSI
<1> QED
  BY <1>2, <1>3, <1>4, <1>5, <1>6


-----------------------------------------------------------------------------
(* Fetch.                                                                  *)

LEMMA StandingSame ==
    ASSUME NEW P, NEW R, NEW f, NEW g, NEW s, NEW h, NEW lt, Standing(P, f, s, h, lt),
           HeadPc(R, g) = HeadPc(P, f), HeadFound(R) => HeadFound(P),
           HeadWrote(R) <=> HeadWrote(P), HeadWrote(P) => R[1].found = P[1].found
    PROVE  Standing(R, g, s, h, lt)
BY DEF Standing

LEMMA FreshIs ==
    ASSUME Sane, NEW t \in Threads
    PROVE  /\ FreshUid(t) \in Uids
           /\ \A k \in 1 .. Len(pipe[t]) : pipe[t][k].uid < FreshUid(t)
<1>1. PICK n \in Nat : n = Len(pipe[t])
  BY Facts
<1>2. PICK T : T = {0} \cup memopMap[t] \cup {s.uid : s \in senior[t]}
                 \cup {issued[t][k].uid : k \in DOMAIN issued[t]}
                 \cup {pipe[t][k].uid : k \in DOMAIN pipe[t]}
  OBVIOUS
<1>3. memopMap[t] = {} /\ DOMAIN pipe[t] = 1 .. n
  BY <1>1, Facts
<1>4. \A k \in 1 .. n : pipe[t][k].uid \in Nat /\ pipe[t][k].uid \in T
  BY <1>1, <1>2, <1>3, InFlight
<1>5. ASSUME NEW k \in DOMAIN issued[t] PROVE \E j \in 1 .. n : issued[t][k].uid = pipe[t][j].uid
  <2>1. k \in 1 .. Len(issued[t]) /\ Len(issued[t]) \in Nat /\ Len(issued[t]) <= n
    BY <1>1, <1>5, Facts
  <2>2. k \in 1 .. n /\ k <= Len(issued[t])
    BY <2>1
  <2>3. Vouched(pipe[t], issued[t])
    BY Facts
  <2> QED
    BY <2>2, <2>3, <1>1 DEF Vouched
<1>6. \A s \in senior[t] : s.uid \in Nat
  BY Facts DEF Seniors, Uids
<1>7. PICK a \in Nat : \A k \in 1 .. n : pipe[t][k].uid <= a
  <2>1. CASE n = 0
    <3>1. \A k \in 1 .. n : pipe[t][k].uid <= 0
      BY <2>1
    <3> QED
      BY <3>1
  <2>2. CASE n # 0
    <3>1. n \in 1 .. n
      BY <2>2
    <3>2. ASSUME NEW k \in 1 .. n PROVE pipe[t][k].uid <= pipe[t][n].uid
      <4>1. CASE k = n
        BY <4>1, <1>4
      <4>2. CASE k # n
        <5>1. k \in 1 .. n - 1
          BY <4>2
        <5>2. pipe[t][k].uid < pipe[t][n].uid
          BY <5>1, <3>1, <1>1, Facts DEF Flow
        <5> QED
          BY <5>2, <3>1, <1>4
      <4> QED
        BY <4>1, <4>2
    <3> QED
      BY <3>1, <3>2, <1>4
  <2> QED
    BY <2>1, <2>2
<1>8. PICK b \in Nat : \A s \in senior[t] : s.uid <= b
  <2>1. CASE senior[t] = {}
    BY <2>1
  <2>2. CASE senior[t] # {}
    <3>1. PICK x \in senior[t] : TRUE
      BY <2>2
    <3>2. \A s \in senior[t] : s = x
      BY Facts
    <3> QED
      BY <3>1, <3>2, <1>6
  <2> QED
    BY <2>1, <2>2
<1>9. \A x \in T : \/ x = 0 \/ (\E s \in senior[t] : x = s.uid)
                   \/ \E k \in 1 .. n : x = pipe[t][k].uid
  BY <1>2, <1>3, <1>5
<1>10. T \subseteq Nat /\ T # {}
  <2>1. \A x \in T : x \in Nat
    <3>1. ASSUME NEW s \in senior[t] PROVE s.uid \in Nat
      BY <1>6
    <3>2. ASSUME NEW k \in 1 .. n PROVE pipe[t][k].uid \in Nat
      BY <1>4
    <3>3. 0 \in Nat
      OBVIOUS
    <3> QED
      BY <3>1, <3>2, <3>3, <1>9
  <2>2. 0 \in T
    BY <1>2
  <2> QED
    BY <2>1, <2>2
<1>11. ASSUME NEW x \in T PROVE x <= a + b
  <2>1. CASE x = 0
    BY <2>1
  <2>2. ASSUME NEW s \in senior[t], x = s.uid PROVE x <= a + b
    BY <2>2, <1>6, <1>8
  <2>3. ASSUME NEW k \in 1 .. n, x = pipe[t][k].uid PROVE x <= a + b
    BY <2>3, <1>4, <1>7
  <2> QED
    BY <2>1, <2>2, <2>3, <1>9
<1>12. Max(T) \in T /\ \A y \in T : y <= Max(T)
  <2>1. a + b \in Nat
    OBVIOUS
  <2> QED
    BY <2>1, <1>10, <1>11, MaxIs
<1>13. FreshUid(t) = 1 + Max(T)
  BY <1>2 DEF FreshUid
<1>13a. Max(T) \in Nat
  BY <1>10, <1>12
<1>14. FreshUid(t) \in Uids
  BY <1>13, <1>13a DEF Uids
<1>15. \A k \in 1 .. n : pipe[t][k].uid < FreshUid(t)
  <2>1. ASSUME NEW k \in 1 .. n PROVE pipe[t][k].uid < FreshUid(t)
    <3>1. pipe[t][k].uid \in Nat /\ pipe[t][k].uid <= Max(T)
      BY <1>4, <1>12
    <3> QED
      BY <3>1, <1>13, <1>13a
  <2> QED
    BY <2>1
<1> QED
  BY <1>1, <1>14, <1>15

\* What is fetched, and where.
LEMMA FetchedIs ==
    ASSUME Sane, NEW t \in Threads
    PROVE  Fetched(t, fetchPc[t]) = KindAt(fetchPc[t])
<1>1. needJump[t] <=> (Len(pipe[t]) = 0 /\ fetchPc[t] = 0)
  BY Facts
<1>2. ASSUME Len(pipe[t]) # 0 PROVE fetchPc[t] # 0
  <2>1. Len(pipe[t]) \in 1 .. Len(pipe[t]) /\ fetchPc[t] = pipe[t][Len(pipe[t])].next
    BY <1>2, Facts DEF Flow
  <2> QED
    BY <2>1, Facts, KindsOf, GoesOn
<1>3. CASE fetchPc[t] = 0
  BY <1>1, <1>2, <1>3, RoutineIs DEF Fetched
<1>4. CASE fetchPc[t] # 0
  BY <1>1, <1>4 DEF Fetched, KindAt
<1> QED
  BY <1>3, <1>4

LEMMA NextIterationIs ==
    ASSUME Sane, NEW t \in Threads, NEW kind, ~Wraps,
           (Wraps \/ kind \notin Tests \/ NextIteration(t, kind) # 0)
    PROVE  /\ NextIteration(t, kind) = IF kind \in Tests THEN iteration[t] + 1 ELSE iteration[t]
           /\ NextIteration(t, kind) \in 0 .. History - 1
<1>1. iteration[t] \in 0 .. History - 1 /\ History \in Nat \ {0}
  BY Facts, FeederAssumption
<1>2. CASE kind \in Tests
  <2>1. NextIteration(t, kind) = (iteration[t] + 1) % History
    BY <1>2 DEF NextIteration
  <2>2. iteration[t] + 1 = History => (iteration[t] + 1) % History = 0
    BY <1>1
  <2>3. iteration[t] + 1 # History
    BY <2>1, <2>2, <1>2
  <2>4. iteration[t] + 1 \in 0 .. History - 1
    BY <2>3, <1>1
  <2>5. (iteration[t] + 1) % History = iteration[t] + 1
    BY <2>4, <1>1
  <2> QED
    BY <2>1, <2>4, <2>5, <1>2
<1>3. CASE kind \notin Tests
  BY <1>3, <1>1 DEF NextIteration
<1> QED
  BY <1>2, <1>3

LEMMA FetchSane ==
    ASSUME Sane, ~Wraps, NEW t \in Threads, Fetch(t)
    PROVE  Sane'
<1>1. PICK pc, kind, uid, iter : /\ pc = fetchPc[t] /\ kind = Fetched(t, pc)
                                 /\ uid = FreshUid(t) /\ iter = NextIteration(t, kind)
  OBVIOUS
<1>2. PICK next \in Predictions(kind, pc) :
        /\ pipe' = [pipe EXCEPT ![t] = Append(@,
                     [uid |-> uid, pc |-> pc, next |-> next, actual |-> NoPc, kind |-> kind,
                      found |-> "invalid", spec |-> FALSE, wrote |-> FALSE])]
        /\ fetchPc' = [fetchPc EXCEPT ![t] = next]
  BY <1>1 DEF Fetch
<1>3. PICK e : e = [uid |-> uid, pc |-> pc, next |-> next, actual |-> NoPc, kind |-> kind,
                    found |-> "invalid", spec |-> FALSE, wrote |-> FALSE]
  OBVIOUS
<1>4. PICK q : q = [uid |-> uid, kind |-> kind,
                    iter |-> IF kind \in Tests \cup {"cbranch"} THEN iter ELSE 0]
  OBVIOUS
<1>5. PICK P, Q, w : P = pipe[t] /\ Q = issued[t] /\ w = wrongPath[t]
  OBVIOUS
<1>6. /\ pipe' = [pipe EXCEPT ![t] = Append(P, e)]
      /\ fetchPc' = [fetchPc EXCEPT ![t] = next]
      /\ iteration' = [iteration EXCEPT ![t] = iter]
      /\ issued' = [issued EXCEPT ![t] = IF kind = "junk" THEN Q ELSE Append(Q, q)]
      /\ wrongPath' = [wrongPath EXCEPT ![t] = IF kind = "junk" THEN w + 1 ELSE 0]
      /\ status' = [status EXCEPT ![t][iter] = IF kind \in Tests THEN "invalid" ELSE @]
      /\ error' = IF wrongPath'[t] >= WrongPathLimit THEN "wrongPath" ELSE error
      /\ needJump' = [needJump EXCEPT ![t] = FALSE]
      /\ UNCHANGED <<cell, memopMap, committed, ended, senior, owner, traps, lastTest, holds>>
      /\ error = "none" /\ (Wraps \/ kind \notin Tests \/ iter # 0)
  BY <1>1, <1>2, <1>3, <1>4, <1>5 DEF Fetch, Running
<1>7. /\ pipe \in [Threads -> Seq(Entries)] /\ issued \in [Threads -> Seq(Issues)]
      /\ fetchPc \in [Threads -> Pcs] /\ iteration \in [Threads -> 0 .. History - 1]
      /\ status \in [Threads -> [0 .. History - 1 -> Statuses]]
      /\ wrongPath \in [Threads -> 0 .. WrongPathLimit] /\ needJump \in [Threads -> BOOLEAN]
  BY DEF Sane, FeederType, ModelType
<1>8. /\ P \in Seq(Entries) /\ Q \in Seq(Issues) /\ pc \in Pcs /\ iteration[t] \in 0 .. History - 1
      /\ status[t] \in [0 .. History - 1 -> Statuses] /\ Len(P) \in Nat /\ Len(Q) \in Nat
      /\ Len(Q) <= Len(P)
      /\ Sound(P, Q, pc, iteration[t], status[t], lastTest[t])
  BY <1>1, <1>5, Facts
<1>9. kind = KindAt(pc)
  BY <1>1, FetchedIs
<1>10. next \in Pcs /\ next # 0
  BY <1>8, <1>9, GoesOn
<1>11. uid \in Uids /\ \A k \in 1 .. Len(P) : P[k].uid < uid
  BY <1>1, <1>5, FreshIs
<1>12. kind \in Tests \cup Branches \cup {"nop", "store", "junk"}
  BY <1>8, <1>9, RoutineIs, PcIs DEF Tests, Branches
<1>13. e \in Entries
  BY <1>3, <1>8, <1>10, <1>11, <1>12 DEF Entries, Statuses
<1>14. Proper(e) /\ ~Begun(e) /\ e.pc = pc /\ e.uid = uid /\ e.kind = kind /\ e.next = next
  BY <1>3, <1>9 DEF Proper, Begun, NoPc
<1>15. iter = (IF kind \in Tests THEN iteration[t] + 1 ELSE iteration[t]) /\ iter \in 0 .. History - 1
  BY <1>1, <1>6, NextIterationIs
<1>16. kind # "junk" => q \in Issues
  <2>1. 0 \in 0 .. History - 1
    BY FeederAssumption
  <2> QED
    BY <2>1, <1>4, <1>11, <1>12, <1>15 DEF Issues
<1>17. q.uid = uid /\ q.kind = kind /\ (kind \in Tests \cup {"cbranch"} => q.iter = iter)
  BY <1>4
<1>18. PICK S, st : /\ S = (IF kind = "junk" THEN Q ELSE Append(Q, q))
                    /\ st = [status[t] EXCEPT ![iter] = IF kind \in Tests THEN "invalid" ELSE @]
  OBVIOUS
<1>19. kind = "junk" => kind \notin Tests
  BY DEF Tests
<1>20. Sound(Append(P, e), S, next, iter, st, lastTest[t])
  <2>1. CASE kind = "junk"
    <3>1. iter = iteration[t] /\ S = Q
      BY <2>1, <1>15, <1>18, <1>19
    <3>2. st = status[t]
      BY <2>1, <1>8, <1>18, <1>19
    <3>3. Sound(Append(P, e), Q, e.next, iteration[t], status[t], lastTest[t])
      BY <2>1, <1>8, <1>11, <1>13, <1>14, SoundJunk
    <3> QED
      BY <3>1, <3>2, <3>3, <1>14
  <2>2. CASE kind # "junk"
    <3>1. S = Append(Q, q) /\ q \in Issues
      BY <2>2, <1>16, <1>18
    <3>2. e.kind \in Tests \cup {"cbranch"} => q.iter = iter
      BY <1>14, <1>17
    <3>3. iter = IF e.kind \in Tests THEN iteration[t] + 1 ELSE iteration[t]
      BY <1>14, <1>15
    <3>4. e.kind # "junk" /\ q.uid = e.uid /\ q.kind = e.kind /\ e.pc = pc
          /\ \A k \in 1 .. Len(P) : P[k].uid < e.uid
      BY <2>2, <1>11, <1>14, <1>17
    <3>5. Sound(Append(P, e), Append(Q, q), e.next, iter,
                [status[t] EXCEPT ![iter] = IF e.kind \in Tests THEN "invalid" ELSE @], lastTest[t])
      BY <3>1, <3>2, <3>3, <3>4, <1>8, <1>13, <1>14, <1>15, SoundAdd
    <3> QED
      BY <3>1, <3>5, <1>14, <1>18
  <2> QED
    BY <2>1, <2>2
<1>21. /\ Append(P, e) \in Seq(Entries) /\ Len(Append(P, e)) = Len(P) + 1
       /\ \A k \in 1 .. Len(P) : Append(P, e)[k] = P[k]
       /\ Append(P, e)[Len(P) + 1] = e
  BY <1>8, <1>13, Extended
<1>22. S \in Seq(Issues) /\ Len(S) = Len(Q) + (IF kind = "junk" THEN 0 ELSE 1)
  <2>1. CASE kind = "junk"
    BY <2>1, <1>8, <1>18
  <2>2. CASE kind # "junk"
    BY <2>2, <1>8, <1>16, <1>18, Extended
  <2> QED
    BY <2>1, <2>2
<1>23. PICK R : R = Append(P, e)
  OBVIOUS
<1>24. /\ R \in Seq(Entries) /\ Len(R) = Len(P) + 1
       /\ Len(P) # 0 => R[1] = P[1]
       /\ Len(P) = 0 => R[1] = e
  <2>1. Len(P) # 0 => 1 \in 1 .. Len(P)
    BY <1>8
  <2> QED
    BY <2>1, <1>21, <1>23
<1>25. /\ HeadPc(R, next) = HeadPc(P, pc) /\ (HeadFound(R) <=> HeadFound(P))
       /\ (HeadWrote(R) <=> HeadWrote(P)) /\ (HeadWrote(P) => R[1].found = P[1].found)
       /\ (Reserving(R) <=> Reserving(P))
  <2>0. Len(R) # 0
    BY <1>8, <1>24
  <2>1. CASE Len(P) = 0
    <3>1. R[1] = e /\ e.pc = pc /\ e.found = "invalid" /\ ~e.wrote
      BY <2>1, <1>3, <1>24
    <3> QED
      BY <2>0, <2>1, <3>1 DEF HeadPc, HeadFound, HeadWrote, Reserving
  <2>2. CASE Len(P) # 0
    BY <2>0, <2>2, <1>24 DEF HeadPc, HeadFound, HeadWrote, Reserving
  <2> QED
    BY <2>1, <2>2
<1>26. Standing(R, next, senior[t], holds[t], lastTest[t])
  <2>1. Standing(P, pc, senior[t], holds[t], lastTest[t])
    BY <1>1, <1>5, Facts
  <2> QED
    BY <2>1, <1>25, StandingSame
<1>27. PICK v : v = IF kind = "junk" THEN w + 1 ELSE 0
  OBVIOUS
<1>28. w \in Nat /\ w < WrongPathLimit /\ WrongPathLimit \in Nat
  <2>1. w \in Nat /\ WrongPathLimit \in Nat
    BY <1>5, Facts, FeederAssumption
  <2> QED
    BY <2>1, <1>5, <1>6 DEF Sane, ErrorType
<1>29. v \in 0 .. WrongPathLimit
  BY <1>27, <1>28
<1>30. Tidy(R, S, next, v)
  <2>1. CASE kind = "junk"
    <3>1. pc = Outside
      BY <2>1, <1>8, <1>9, AddressOf, RoutineIs
    <3>2. Tidy(P, Q, pc, w)
      BY <1>1, <1>5, Facts
    <3>3. w <= Len(P) - Len(Q)
      BY <3>1, <3>2 DEF Tidy
    <3>4. v = w + 1 /\ Len(R) = Len(P) + 1 /\ Len(S) = Len(Q)
      BY <2>1, <1>8, <1>22, <1>24, <1>27
    <3>5. v <= Len(R) - Len(S)
      BY <3>3, <3>4, <1>8, <1>28
    <3> QED
      BY <3>5 DEF Tidy
  <2>2. CASE kind # "junk"
    <3>1. v = 0 /\ Len(R) = Len(P) + 1 /\ Len(S) = Len(Q) + 1
      BY <2>2, <1>22, <1>24, <1>27
    <3>2. v <= Len(R) - Len(S)
      BY <3>1, <1>8
    <3> QED
      BY <3>2 DEF Tidy
  <2> QED
    BY <2>1, <2>2
<1>31. st \in [0 .. History - 1 -> Statuses]
  BY <1>8, <1>15, <1>18 DEF Statuses
<1>32. status' = [status EXCEPT ![t] = st]
  BY <1>6, <1>18
<1>33. /\ pipe'[t] = R /\ fetchPc'[t] = next /\ iteration'[t] = iter /\ issued'[t] = S
       /\ wrongPath'[t] = v /\ status'[t] = st /\ needJump'[t] = FALSE
  BY <1>6, <1>7, <1>18, <1>23, <1>27, <1>32
<1>34. \A u \in Threads : u # t => Steady(u)
  BY <1>6, <1>7, <1>32 DEF Steady
<1>35. ThreadInv(t)'
  <2>1. ~(Len(R) = 0 /\ next = 0)
    BY <1>10
  <2>2. t \in owner' <=> Reserving(R)
    BY <1>5, <1>6, <1>25, Facts
  <2>3. \A x, y \in senior'[t] : x = y
    BY <1>6, Facts
  <2> QED
    BY <2>1, <2>2, <2>3, <1>6, <1>20, <1>23, <1>26, <1>30, <1>33 DEF ThreadInv
<1>36. CellType'
  BY <1>6 DEF Sane, CellType
<1>37. FeederType'
  <2>1. /\ issued' \in [Threads -> Seq(Issues)] /\ iteration' \in [Threads -> 0 .. History - 1]
        /\ status' \in [Threads -> [0 .. History - 1 -> Statuses]]
        /\ needJump' \in [Threads -> BOOLEAN] /\ wrongPath' \in [Threads -> 0 .. WrongPathLimit]
    BY <1>6, <1>7, <1>15, <1>18, <1>22, <1>27, <1>29, <1>31, <1>32
  <2> QED
    BY <2>1, <1>6 DEF Sane, FeederType
<1>38. ModelType'
  <2>1. pipe' \in [Threads -> Seq(Entries)] /\ fetchPc' \in [Threads -> Pcs]
    BY <1>6, <1>7, <1>10, <1>23, <1>24
  <2> QED
    BY <2>1, <1>6 DEF Sane, ModelType
<1>39. ErrorType'
  <2>1. error' \in {"none", "wrongPath"}
    BY <1>6
  <2>2. ASSUME error' = "none", NEW u \in Threads PROVE wrongPath'[u] < WrongPathLimit
    <3>1. CASE u = t
      <4>1. ~(wrongPath'[t] >= WrongPathLimit)
        BY <2>2, <1>6
      <4> QED
        BY <4>1, <3>1, <1>28, <1>29, <1>33
    <3>2. CASE u # t
      BY <3>2, <1>6, <1>34 DEF Steady, Sane, ErrorType
    <3> QED
      BY <3>1, <3>2
  <2> QED
    BY <2>1, <2>2 DEF ErrorType
<1> QED
  BY <1>34, <1>35, <1>36, <1>37, <1>38, <1>39, Framed

-----------------------------------------------------------------------------
(* Issue, DoRead and the writes.                                           *)

\* The instruction in place i becomes x.
LEMMA PipeAltered ==
    ASSUME Sane, NEW t \in Threads, NEW i \in DOMAIN pipe[t], NEW x \in Entries,
           x.uid = pipe[t][i].uid, x.pc = pipe[t][i].pc, x.kind = pipe[t][i].kind,
           x.next = pipe[t][i].next,
           pipe' = [pipe EXCEPT ![t] = [pipe[t] EXCEPT ![i] = x]]
    PROVE  /\ pipe' \in [Threads -> Seq(Entries)]
           /\ Alters(pipe[t], pipe'[t], i) /\ pipe'[t][i] = x
           /\ Len(pipe'[t]) = Len(pipe[t])
           /\ \A u \in Threads : u # t => pipe'[u] = pipe[u]
<1>1. pipe \in [Threads -> Seq(Entries)]
  BY DEF Sane, ModelType
<1>2. pipe[t] \in Seq(Entries) /\ i \in 1 .. Len(pipe[t])
  BY <1>1, InFlight
<1>3. PICK R : R = [pipe[t] EXCEPT ![i] = x]
  OBVIOUS
<1>4. R \in Seq(Entries) /\ Len(R) = Len(pipe[t])
  BY <1>2, <1>3
<1>5. R[i] = x /\ \A k \in 1 .. Len(pipe[t]) : k # i => R[k] = pipe[t][k]
  BY <1>2, <1>3, Members
<1>6. pipe' = [pipe EXCEPT ![t] = R]
  BY <1>3
<1>7. pipe'[t] = R /\ pipe' \in [Threads -> Seq(Entries)]
      /\ \A u \in Threads : u # t => pipe'[u] = pipe[u]
  BY <1>1, <1>4, <1>6
<1>8. Alters(pipe[t], R, i)
  BY <1>4, <1>5 DEF Alters
<1> QED
  BY <1>4, <1>5, <1>7, <1>8

LEMMA HeadsAlter ==
    ASSUME NEW P, NEW R, NEW f, NEW i \in 1 .. Len(P), Len(P) \in Nat, Alters(P, R, i),
           R[i].found = P[i].found, R[i].wrote = P[i].wrote
    PROVE  /\ HeadPc(R, f) = HeadPc(P, f) /\ (HeadFound(R) <=> HeadFound(P))
           /\ (HeadWrote(R) <=> HeadWrote(P)) /\ (HeadWrote(P) => R[1].found = P[1].found)
           /\ (Reserving(R) <=> Reserving(P))
<1>1. Len(P) # 0 /\ Len(R) = Len(P) /\ 1 \in 1 .. Len(P)
  BY DEF Alters
<1>2. /\ R[1].found = P[1].found /\ R[1].wrote = P[1].wrote /\ R[1].pc = P[1].pc
      /\ R[1].kind = P[1].kind
  BY <1>1 DEF Alters
<1> QED
  BY <1>1, <1>2 DEF HeadPc, HeadFound, HeadWrote, Reserving

LEMMA IssueSane ==
    ASSUME Sane, NEW t \in Threads, NEW i \in DOMAIN pipe[t], Issue(t, i)
    PROVE  Sane'
<1>1. PICK e : e = pipe[t][i]
  OBVIOUS
<1>2. PICK blocked \in BOOLEAN : blocked <=> \E s \in FindSI(t, e.uid) : IterationStatus(t, s) = "blocked"
  OBVIOUS
<1>3. PICK target : target = IF e.kind # "cbranch" \/ blocked THEN Start ELSE e.pc + 1
  OBVIOUS
<1>4. PICK x : x = [e EXCEPT !.actual = target]
  OBVIOUS
<1>5. /\ error = "none" /\ e.kind \in Branches /\ e.actual = NoPc
      /\ \A k \in 1 .. i - 1 : Executed(pipe[t][k])
      /\ pipe' = [pipe EXCEPT ![t][i].actual = target]
      /\ error' = IF e.kind = "cbranch" /\ FindSI(t, e.uid) = {} THEN "issue" ELSE error
      /\ UNCHANGED <<cell, feeder, fetchPc, senior, owner, traps, lastTest, holds>>
  BY <1>1, <1>2, <1>3 DEF Issue, Running, ItsTurn
<1>6. pipe' = [pipe EXCEPT ![t] = [pipe[t] EXCEPT ![i] = x]]
  BY <1>1, <1>4, <1>5
<1>7. /\ i \in 1 .. Len(pipe[t]) /\ i >= 1 /\ e \in Entries /\ Proper(e) /\ e.pc \in Pcs
      /\ e.kind = KindAt(e.pc) /\ (i # 1 => ~OnlyFirst(e))
      /\ e.kind # "junk" => FindSI(t, e.uid) = {issued[t][i]}
  BY <1>1, InFlight
<1>8. e.kind # "junk" /\ e.kind \notin Tests /\ e.kind # "cmpxchg" /\ e.kind # "store"
  BY <1>5 DEF Branches, Tests
<1>9. error' = error
  BY <1>5, <1>7, <1>8
<1>10. e.kind = "cbranch" => e.pc \in Nat /\ e.pc + 1 \in Pcs /\ e.pc + 1 # Start
  <2>1. e.kind = "cbranch" => e.pc = 3 \/ e.pc = 5
    BY <1>7, AddressOf
  <2>2. Pcs = 0 .. 8 /\ Start = 1
    BY RoutineIs
  <2> QED
    BY <2>1, <2>2
<1>11. target \in Pcs /\ target # NoPc /\ Start \in Pcs
  <2>1. Start \in Pcs /\ target \in Pcs
    BY <1>3, <1>10, RoutineIs
  <2> QED
    BY <2>1, RoutineIs DEF NoPc
<1>12. x \in Entries
  BY <1>4, <1>7, <1>11 DEF Entries
<1>13. /\ x.uid = e.uid /\ x.pc = e.pc /\ x.next = e.next /\ x.kind = e.kind
       /\ x.actual = target /\ x.found = e.found /\ x.spec = e.spec /\ x.wrote = e.wrote
  BY <1>4, <1>7 DEF Entries
<1>14. PICK R : R = pipe'[t]
  OBVIOUS
<1>15. /\ pipe' \in [Threads -> Seq(Entries)]
       /\ Alters(pipe[t], R, i) /\ R[i] = x /\ Len(R) = Len(pipe[t])
       /\ \A u \in Threads : u # t => pipe'[u] = pipe[u]
  BY <1>1, <1>6, <1>12, <1>13, <1>14, PipeAltered
<1>16. Proper(x)
  <2>1. x.actual \notin {NoPc, Start} => x.kind = "cbranch" /\ x.actual = x.pc + 1
    BY <1>3, <1>13
  <2>2. x.actual # NoPc => x.kind \in Branches
    BY <1>5, <1>13
  <2> QED
    BY <2>1, <2>2, <1>7, <1>13 DEF Proper
<1>17. e.kind = "cbranch" => (x.actual = Start <=> status[t][issued[t][i].iter] = "blocked")
  <2>1. blocked <=> status[t][issued[t][i].iter] = "blocked"
    BY <1>2, <1>7, <1>8 DEF IterationStatus
  <2> QED
    BY <2>1, <1>3, <1>10, <1>13
<1>18. i # 1 => ~OnlyFirst(x)
  BY <1>7, <1>13 DEF OnlyFirst
<1>19. Sound(R, issued[t], fetchPc[t], iteration[t], status[t], lastTest[t])
  <2>1. /\ pipe[t] \in Seq(Entries) /\ issued[t] \in Seq(Issues)
        /\ Sound(pipe[t], issued[t], fetchPc[t], iteration[t], status[t], lastTest[t])
    BY Facts
  <2> QED
    BY <2>1, <1>1, <1>5, <1>7, <1>11, <1>13, <1>15, <1>16, <1>17, <1>18, SoundIssue
<1>20. /\ HeadPc(R, fetchPc[t]) = HeadPc(pipe[t], fetchPc[t]) /\ (HeadFound(R) <=> HeadFound(pipe[t]))
       /\ (HeadWrote(R) <=> HeadWrote(pipe[t]))
       /\ (HeadWrote(pipe[t]) => R[1].found = pipe[t][1].found)
       /\ (Reserving(R) <=> Reserving(pipe[t]))
  <2>1. Len(pipe[t]) \in Nat
    BY Facts
  <2>2. R[i].found = pipe[t][i].found /\ R[i].wrote = pipe[t][i].wrote
    BY <1>1, <1>13, <1>15
  <2>3. i \in 1 .. Len(pipe[t]) /\ Alters(pipe[t], R, i)
    BY <1>7, <1>15
  <2> QED
    BY <2>1, <2>2, <2>3, HeadsAlter
<1>21. Standing(R, fetchPc[t], senior[t], holds[t], lastTest[t])
  BY <1>20, Facts, StandingSame
<1>22. ThreadInv(t)'
  <2>1. ThreadInv(t)
    BY DEF Sane
  <2> QED
    BY <2>1, <1>5, <1>14, <1>15, <1>19, <1>20, <1>21 DEF ThreadInv, feeder, Tidy
<1>23. CellType' /\ FeederType' /\ ModelType' /\ ErrorType'
  BY <1>5, <1>9, <1>15 DEF Sane, CellType, FeederType, ModelType, ErrorType, feeder
<1>24. \A u \in Threads : u # t => Steady(u)
  BY <1>5, <1>15 DEF Steady, feeder
<1> QED
  BY <1>22, <1>23, <1>24, Framed

LEMMA DoReadSane ==
    ASSUME Sane, NEW t \in Threads, NEW i \in DOMAIN pipe[t], DoRead(t, i)
    PROVE  Sane'
<1>1. PICK e : e = pipe[t][i]
  OBVIOUS
<1>2. PICK found : found = IF LockIsFree(ReadValue(cell, t, LockAddr, LockSize))
                           THEN "entering" ELSE "blocked"
  OBVIOUS
<1>3. PICK x : x = [e EXCEPT !.found = found]
  OBVIOUS
<1>4. PICK iters : iters = {s.iter : s \in FindSI(t, e.uid)}
  OBVIOUS
<1>5. /\ error = "none" /\ e.kind \in Tests /\ e.found = "invalid"
      /\ \A k \in 1 .. i - 1 : Executed(pipe[t][k])
      /\ e.kind = "cmpxchg" => i = 1 /\ senior[t] = {} /\ owner = {}
      /\ pipe' = [pipe EXCEPT ![t][i].found = found]
      /\ status' = [status EXCEPT ![t] = [k \in DOMAIN status[t] |-> IF k \in iters THEN found
                                                                     ELSE status[t][k]]]
      /\ owner' = IF e.kind = "cmpxchg" THEN {t} ELSE owner
      /\ UNCHANGED <<cell, memopMap, issued, iteration, needJump, wrongPath, committed, ended,
                     error, fetchPc, senior, traps, lastTest, holds>>
  BY <1>1, <1>2, <1>4 DEF DoRead, Running, ItsTurn
<1>6. pipe' = [pipe EXCEPT ![t] = [pipe[t] EXCEPT ![i] = x]]
  BY <1>1, <1>3, <1>5
<1>7. /\ i \in 1 .. Len(pipe[t]) /\ i >= 1 /\ e \in Entries /\ Proper(e) /\ e.pc \in Pcs
      /\ e.kind = KindAt(e.pc) /\ (i # 1 => ~OnlyFirst(e))
      /\ e.kind # "junk" => FindSI(t, e.uid) = {issued[t][i]}
  BY <1>1, InFlight
<1>8. e.kind # "junk" /\ e.kind \notin Branches
  BY <1>5 DEF Tests, Branches
<1>9. iters = {issued[t][i].iter}
  BY <1>4, <1>7, <1>8
<1>10. found \in Statuses /\ found # "invalid"
  BY <1>2 DEF Statuses
<1>11. x \in Entries
  BY <1>3, <1>7, <1>10 DEF Entries
<1>12. /\ x.uid = e.uid /\ x.pc = e.pc /\ x.next = e.next /\ x.kind = e.kind
       /\ x.actual = e.actual /\ x.found = found /\ x.spec = e.spec /\ x.wrote = e.wrote
  BY <1>3, <1>7 DEF Entries
<1>13. PICK R : R = pipe'[t]
  OBVIOUS
<1>14. /\ pipe' \in [Threads -> Seq(Entries)]
       /\ Alters(pipe[t], R, i) /\ R[i] = x /\ Len(R) = Len(pipe[t])
       /\ \A u \in Threads : u # t => pipe'[u] = pipe[u]
  BY <1>1, <1>6, <1>11, <1>12, <1>13, PipeAltered
<1>15. Proper(x)
  BY <1>5, <1>7, <1>10, <1>12 DEF Proper
<1>16. ~e.wrote
  <2>1. e.kind # "store"
    BY <1>5 DEF Tests
  <2> QED
    BY <2>1, <1>5, <1>7 DEF Proper
<1>17. i # 1 => ~OnlyFirst(x)
  BY <1>5, <1>12, <1>16 DEF OnlyFirst
<1>18. PICK w : w = [k \in 0 .. History - 1 |-> IF k = issued[t][i].iter THEN found ELSE status[t][k]]
  OBVIOUS
<1>19. status' = [status EXCEPT ![t] = w] /\ w \in [0 .. History - 1 -> Statuses]
  <2>1. status[t] \in [0 .. History - 1 -> Statuses]
    BY Facts
  <2>2. DOMAIN status[t] = 0 .. History - 1
    BY <2>1
  <2>3. \A k \in 0 .. History - 1 : status[t][k] \in Statuses
    BY <2>1
  <2>4. w \in [0 .. History - 1 -> Statuses]
    BY <2>3, <1>10, <1>18
  <2>5. w = [k \in DOMAIN status[t] |-> IF k \in iters THEN found ELSE status[t][k]]
    BY <2>2, <1>9, <1>18
  <2> QED
    BY <2>4, <2>5, <1>5
<1>20. Sound(R, issued[t], fetchPc[t], iteration[t], w, lastTest[t])
  <2>1. /\ pipe[t] \in Seq(Entries) /\ issued[t] \in Seq(Issues)
        /\ status[t] \in [0 .. History - 1 -> Statuses]
        /\ Sound(pipe[t], issued[t], fetchPc[t], iteration[t], status[t], lastTest[t])
    BY Facts
  <2>2. /\ pipe[t][i].kind \in Tests /\ pipe[t][i].found = "invalid"
        /\ R[i].actual = pipe[t][i].actual /\ R[i].found # "invalid" /\ R[i].found = found
        /\ Proper(R[i]) /\ (i # 1 => ~OnlyFirst(R[i]))
    BY <1>1, <1>5, <1>10, <1>12, <1>14, <1>15, <1>17
  <2>3. w = [k \in 0 .. History - 1 |-> IF k = issued[t][i].iter THEN R[i].found ELSE status[t][k]]
    BY <2>2, <1>18
  <2>4. /\ i \in 1 .. Len(pipe[t]) /\ Alters(pipe[t], R, i)
        /\ \A j \in 1 .. i - 1 : Executed(pipe[t][j])
    BY <1>5, <1>7, <1>14
  <2> QED
    BY <2>1, <2>2, <2>3, <2>4, SoundRead
<1>21. Len(pipe[t]) \in Nat /\ Len(pipe[t]) # 0
  BY <1>7, Facts
<1>22. Standing(pipe[t], fetchPc[t], senior[t], holds[t], lastTest[t])
       /\ (t \in owner <=> Reserving(pipe[t]))
  BY Facts
<1>23. Standing(R, fetchPc[t], senior[t], holds[t], lastTest[t]) /\ (t \in owner' <=> Reserving(R))
  <2>1. CASE i # 1
    <3>1. 1 \in 1 .. Len(pipe[t]) /\ R[1] = pipe[t][1] /\ e.kind # "cmpxchg"
      BY <2>1, <1>5, <1>14, <1>21 DEF Alters
    <3>2. /\ HeadPc(R, fetchPc[t]) = HeadPc(pipe[t], fetchPc[t])
          /\ (HeadFound(R) <=> HeadFound(pipe[t]))
          /\ (HeadWrote(R) <=> HeadWrote(pipe[t]))
          /\ (Reserving(R) <=> Reserving(pipe[t]))
      BY <3>1, <1>14, <1>21 DEF HeadPc, HeadFound, HeadWrote, Reserving
    <3>3. Standing(R, fetchPc[t], senior[t], holds[t], lastTest[t])
      BY <3>1, <3>2, <1>22, StandingSame
    <3> QED
      BY <3>1, <3>2, <3>3, <1>5, <1>22
  <2>2. CASE i = 1 /\ e.kind = "cmpxchg"
    <3>1. e.pc = 4
      BY <2>2, <1>7, AddressOf
    <3>2. HeadPc(R, fetchPc[t]) = 4 /\ HeadPc(pipe[t], fetchPc[t]) = 4
          /\ ~HeadWrote(R) /\ ~HeadWrote(pipe[t])
      BY <2>2, <3>1, <1>1, <1>12, <1>14, <1>16, <1>21 DEF HeadPc, HeadWrote
    <3>3. senior[t] = {}
      BY <2>2, <1>5
    <3>4. holds[t] <=> senior[t] # {}
      BY <3>2, <1>22 DEF Standing
    <3>5. Standing(R, fetchPc[t], senior[t], holds[t], lastTest[t])
      BY <3>2, <3>3, <3>4 DEF Standing
    <3>6. Reserving(R)
      BY <2>2, <1>10, <1>12, <1>14, <1>16, <1>21 DEF Reserving
    <3> QED
      BY <2>2, <3>5, <3>6, <1>5
  <2>3. CASE i = 1 /\ e.kind # "cmpxchg"
    <3>1. e.pc = 1
      BY <2>3, <1>5, <1>7, AddressOf
    <3>2. HeadPc(R, fetchPc[t]) = 1 /\ HeadPc(pipe[t], fetchPc[t]) = 1
      BY <2>3, <3>1, <1>1, <1>12, <1>14, <1>21 DEF HeadPc
    <3>3. Standing(R, fetchPc[t], senior[t], holds[t], lastTest[t])
      BY <3>2, <1>22 DEF Standing
    <3>4. ~Reserving(R) /\ ~Reserving(pipe[t])
      BY <2>3, <1>1, <1>12, <1>14 DEF Reserving
    <3> QED
      BY <2>3, <3>3, <3>4, <1>5, <1>22
  <2> QED
    BY <2>1, <2>2, <2>3
<1>24. /\ status' \in [Threads -> [0 .. History - 1 -> Statuses]] /\ status'[t] = w
       /\ \A u \in Threads : u # t => status'[u] = status[u]
  BY <1>19 DEF Sane, FeederType
<1>25. ThreadInv(t)'
  <2>1. ThreadInv(t)
    BY DEF Sane
  <2> QED
    BY <2>1, <1>5, <1>13, <1>14, <1>20, <1>23, <1>24 DEF ThreadInv, Tidy
<1>26. CellType' /\ ErrorType'
  BY <1>5 DEF Sane, CellType, ErrorType
<1>27. FeederType'
  BY <1>5, <1>24 DEF Sane, FeederType
<1>28. ModelType'
  <2>1. owner' \subseteq Threads /\ \A u, v \in owner' : u = v
    BY <1>5 DEF Sane, ModelType
  <2> QED
    BY <2>1, <1>5, <1>14 DEF Sane, ModelType
<1>29. \A u \in Threads : u # t => Steady(u)
  BY <1>5, <1>14, <1>24 DEF Steady
<1> QED
  BY <1>25, <1>26, <1>27, <1>28, <1>29, Framed

-----------------------------------------------------------------------------
(* The cell of the lock.                                                   *)

\* Without computes what a function that meets its equation computes.
LEMMA WithoutIs ==
    ASSUME NEW s, NEW ids, Len(s) \in Nat, NEW G,
           G = [i \in 0 .. Len(s) |->
                  IF i = 0 THEN <<>>
                  ELSE IF s[i].id \in ids THEN G[i - 1]
                  ELSE Append(G[i - 1], s[i])]
    PROVE  Without(s, ids) = G[Len(s)]
<1> DEFINE Meets(f) == f = [i \in 0 .. Len(s) |->
                              IF i = 0 THEN <<>>
                              ELSE IF s[i].id \in ids THEN f[i - 1]
                              ELSE Append(f[i - 1], s[i])]
           F == CHOOSE f : Meets(f)
<1>1. Meets(F)
  <2>1. Meets(G)
    OBVIOUS
  <2> HIDE DEF Meets
  <2> QED
    BY <2>1
<1>2. Without(s, ids) = F[Len(s)]
  BY DEF Without
<1>3. \A i \in 0 .. Len(s) : F[i] = IF i = 0 THEN <<>>
                                    ELSE IF s[i].id \in ids THEN F[i - 1]
                                    ELSE Append(F[i - 1], s[i])
  <2> HIDE DEF F
  <2> QED
    BY <1>1
<1>4. \A i \in 0 .. Len(s) : G[i] = IF i = 0 THEN <<>>
                                    ELSE IF s[i].id \in ids THEN G[i - 1]
                                    ELSE Append(G[i - 1], s[i])
  OBVIOUS
<1> HIDE DEF F
<1> DEFINE Differ == {i \in 0 .. Len(s) : F[i] # G[i]}
<1>5. Differ = {}
  <2> SUFFICES ASSUME Differ # {} PROVE FALSE
    OBVIOUS
  <2>1. Differ \subseteq Nat
    OBVIOUS
  <2>2. PICK i \in Differ : \A j \in Differ : i <= j
    <3> HIDE DEF Differ
    <3> QED
      BY <2>1, LeastOf
  <2>3. i \in 0 .. Len(s) /\ F[i] # G[i]
    OBVIOUS
  <2>4. i # 0
    BY <1>3, <1>4, <2>3
  <2>5. i - 1 \in 0 .. Len(s) /\ ~(i <= i - 1)
    BY <2>3, <2>4
  <2>6. F[i - 1] = G[i - 1]
    BY <2>2, <2>5
  <2> QED
    BY <1>3, <1>4, <2>3, <2>4, <2>6
<1> QED
  BY <1>2, <1>5

LEMMA WithoutMiss ==
    ASSUME NEW S, NEW s \in Seq(S), NEW ids,
           \A i \in 1 .. Len(s) : s[i].id \notin ids
    PROVE  Without(s, ids) = s
<1> DEFINE G == [i \in 0 .. Len(s) |-> SubSeq(s, 1, i)]
<1>1. \A i \in 1 .. Len(s) : SubSeq(s, 1, i) = Append(SubSeq(s, 1, i - 1), s[i])
  OBVIOUS
<1>2. G = [i \in 0 .. Len(s) |-> IF i = 0 THEN <<>>
                                 ELSE IF s[i].id \in ids THEN G[i - 1]
                                 ELSE Append(G[i - 1], s[i])]
  <2>1. SubSeq(s, 1, 0) = <<>>
    OBVIOUS
  <2>2. \A i \in 1 .. Len(s) : i - 1 \in 0 .. Len(s)
    OBVIOUS
  <2>3. \A i \in 0 .. Len(s) : i # 0 => i \in 1 .. Len(s)
    OBVIOUS
  <2> QED
    BY <1>1, <2>1, <2>2, <2>3
<1>3. Len(s) \in Nat
  OBVIOUS
<1>5. SubSeq(s, 1, Len(s)) = s
  OBVIOUS
<1>4. Without(s, ids) = G[Len(s)]
  <2> HIDE DEF G
  <2> QED
    BY <1>2, <1>3, WithoutIs
<1> QED
  BY <1>3, <1>4, <1>5

LEMMA LockElements ==
    /\ Element(LockAddr, 2) = 0 .. 1 /\ Element(LockAddr, 4) = 0 .. 3
    /\ Span(LockAddr, LockSize) = 0 .. 1
    /\ 0 .. 3 \subseteq Bytes /\ 0 .. 1 \subseteq Bytes
<1>1. CellBytes \in Nat /\ CellBytes >= 4 /\ LockAddr = 0 /\ LockSize = 2
  BY CellAssumption, FeederAssumption DEF LockAddr, LockSize
<1>2. PICK h, q \in Nat : h = CellBytes \div 2 /\ q = CellBytes \div 4
  BY <1>1
<1>3. h >= 1 /\ q >= 1
  BY <1>1, <1>2
<1>4. 0 % h = 0 /\ 0 % q = 0
  BY <1>3
<1>5. Element(0, 2) = 0 * 2 .. 0 * 2 + 2 - 1
  BY <1>2, <1>4 DEF Element
<1>6. Element(0, 4) = 0 * 4 .. 0 * 4 + 4 - 1
  BY <1>2, <1>4 DEF Element
<1>7. Span(0, 2) = 0 .. 1
  <2>1. 0 % CellBytes = 0 /\ 1 % CellBytes = 1
    BY <1>1
  <2>2. \A i \in 0 .. 1 : (0 + i) % CellBytes = i
    BY <2>1
  <2>3. Span(0, 2) = {(0 + i) % CellBytes : i \in 0 .. 1}
    BY DEF Span
  <2> QED
    BY <2>2, <2>3
<1>8. 0 .. 3 \subseteq Bytes /\ 0 .. 1 \subseteq Bytes
  BY <1>1 DEF Bytes
<1> QED
  BY <1>1, <1>5, <1>6, <1>7, <1>8

LEMMA SetLocal ==
    ASSUME NEW k, NEW g, NEW p, NEW l, NEW v, k = [global |-> g, has |-> p, local |-> l]
    PROVE  [k EXCEPT !.local = v] = [global |-> g, has |-> p, local |-> v]
OBVIOUS

\* handle_mvm_one_write: the bytes of the lock, and nothing that is local.
LEMMA GloballyWritten ==
    ASSUME Sane, NEW t \in Threads, NEW uid, NEW v \in {0, 1}, WriteGlobally(t, uid, v)
    PROVE  /\ CellType' /\ memopMap' = memopMap
           /\ cell'.local = cell.local
           /\ \A b \in Bytes : cell'.global[b] = IF b \in 0 .. 1 THEN v ELSE cell.global[b]
<1>1. PICK g \in Words, p \in SUBSET Bytes, l \in [Cpus -> Seq(Locals)] :
        cell = [global |-> g, has |-> p, local |-> l]
  BY DEF Sane, CellType
<1>2. memopMap = [u \in Threads |-> {}]
  BY DEF Sane, FeederType
<1>3. memopMap' = memopMap
  BY <1>2 DEF WriteGlobally
<1>4. PICK m : m = StoreMemop(Fresh, v)
  OBVIOUS
<1>5. /\ m.id = Fresh /\ m.addr = LockAddr /\ m.size = LockSize
      /\ m.val = Put(LockAddr, LockSize, v)
  BY <1>4 DEF StoreMemop, Memop
<1>6. cell' = StoreGlobally(cell, t, m)
  BY <1>2, <1>4 DEF WriteGlobally
<1>7. Without(l[t], {m.id}) = l[t]
  <2>1. l[t] \in Seq(Locals)
    BY <1>1 DEF Threads
  <2>2. \A k \in 1 .. Len(l[t]) : l[t][k] \in Locals
    BY <2>1, Members
  <2>3. \A k \in 1 .. Len(l[t]) : l[t][k].id \notin {m.id}
    BY <2>2, <1>5 DEF Locals, Unreachable, Fresh
  <2> QED
    BY <2>1, <2>3, WithoutMiss
<1>8. Element(m.addr, m.size) = 0 .. 1
  BY <1>5, LockElements DEF LockSize
<1>9. PICK n : n = [b \in Bytes |-> IF b \in 0 .. 1 THEN m.val[b] ELSE g[b]]
  OBVIOUS
<1>10. cell' = [global |-> n, has |-> p \cup 0 .. 1, local |-> l]
  <2>1. PICK k : k = Killed(cell, t, m)
    OBVIOUS
  <2>2. [l EXCEPT ![t] = l[t]] = l
    BY <1>1
  <2>3. k = [global |-> g, has |-> p, local |-> [l EXCEPT ![t] = Without(l[t], {m.id})]]
    BY <1>1, <2>1 DEF Killed
  <2>4. k = cell
    BY <2>2, <2>3, <1>1, <1>7
  <2>5. StoreGlobally(cell, t, m) = [k EXCEPT !.global = n, !.has = p \cup 0 .. 1]
    <3>1. k.global = g /\ k.has = p
      BY <2>4, <1>1
    <3>2. StoreGlobally(cell, t, m)
            = [k EXCEPT !.global = [b \in Bytes |-> IF b \in 0 .. 1 THEN m.val[b] ELSE k.global[b]],
                        !.has = k.has \cup 0 .. 1]
      BY <2>1, <1>8 DEF StoreGlobally
    <3> QED
      BY <3>1, <3>2, <1>9
  <2>6. k = [global |-> g, has |-> p, local |-> l]
    BY <2>4, <1>1
  <2>7. PICK q : q = p \cup 0 .. 1
    OBVIOUS
  <2>8. [k EXCEPT !.global = n, !.has = q] = [global |-> n, has |-> q, local |-> l]
    <3>1. [k EXCEPT !.global = n] = [global |-> n, has |-> p, local |-> l]
      BY <2>6
    <3>2. [[global |-> n, has |-> p, local |-> l] EXCEPT !.has = q]
            = [global |-> n, has |-> q, local |-> l]
      OBVIOUS
    <3> QED
      BY <3>1, <3>2
  <2> QED
    BY <2>5, <2>7, <2>8, <1>6
<1>11. \A b \in 0 .. 1 : m.val[b] = v
  <2>1. \A b \in 0 .. 1 : b \in Bytes /\ b \in Element(LockAddr, LockSize)
    BY LockElements DEF LockSize
  <2> QED
    BY <2>1, <1>5 DEF Put
<1>12. n \in Words
  <2>1. \A b \in 0 .. 1 : m.val[b] \in Values
    BY <1>11, FeederAssumption, CellAssumption
  <2>2. \A b \in Bytes : g[b] \in Values
    BY <1>1 DEF Words
  <2> QED
    BY <2>1, <2>2, <1>9 DEF Words
<1>13. cell' \in [global : Words, has : SUBSET Bytes, local : [Cpus -> Seq(Locals)]]
  BY <1>1, <1>10, <1>12, LockElements
<1>14. cell'.local = cell.local /\ cell'.global = n /\ cell.global = g
  BY <1>1, <1>10
<1>15. CellType'
  BY <1>13, <1>14 DEF CellType, Sane
<1> QED
  BY <1>3, <1>9, <1>11, <1>14, <1>15

\* A store that becomes locally visible.
LEMMA LocallyWritten ==
    ASSUME Sane, NEW t \in Threads, Len(cell.local[t]) < MaxLocal,
           cell' = StoreLocally(cell, t, StoreMemop(Unreachable, 0))
    PROVE  /\ CellType' /\ cell'.global = cell.global
           /\ Len(cell'.local[t]) = Len(cell.local[t]) + 1
           /\ \A u \in Threads : u # t => cell'.local[u] = cell.local[u]
<1>1. PICK g \in Words, p \in SUBSET Bytes, l \in [Cpus -> Seq(Locals)] :
        cell = [global |-> g, has |-> p, local |-> l]
  BY DEF Sane, CellType
<1>2. PICK m : m = StoreMemop(Unreachable, 0)
  OBVIOUS
<1>3. m \in Locals
  <2>1. Put(LockAddr, LockSize, 0) \in Words
    BY CellAssumption DEF Put, Words
  <2> QED
    BY <2>1, <1>2 DEF StoreMemop, Memop, Locals
<1>4. PICK n : n = <<m>> \o l[t]
  OBVIOUS
<1>4a. PICK r : r = [l EXCEPT ![t] = n]
  OBVIOUS
<1>5. cell' = [global |-> g, has |-> p, local |-> r]
  <2>1. cell.local = l
    BY <1>1
  <2>2. cell' = [cell EXCEPT !.local = [cell.local EXCEPT ![t] = <<m>> \o cell.local[t]]]
    BY <1>2 DEF StoreLocally
  <2>3. [cell.local EXCEPT ![t] = <<m>> \o cell.local[t]] = r
    BY <2>1, <1>4, <1>4a
  <2> QED
    BY <2>2, <2>3, <1>1, SetLocal
<1>6. l[t] \in Seq(Locals) /\ Len(l[t]) \in Nat
  BY <1>1, Members DEF Threads
<1>7. n \in Seq(Locals) /\ Len(n) = Len(l[t]) + 1
  BY <1>3, <1>4, <1>6
<1>8. cell'.local = r /\ cell'.global = g /\ cell.local = l /\ cell.global = g
  BY <1>1, <1>5
<1>9. cell' \in [global : Words, has : SUBSET Bytes, local : [Cpus -> Seq(Locals)]]
  <2>1. r \in [Cpus -> Seq(Locals)]
    BY <1>1, <1>4a, <1>7
  <2> QED
    BY <2>1, <1>1, <1>5
<1>10. cell'.local[t] = n /\ \A u \in Threads : u # t => cell'.local[u] = l[u]
  BY <1>1, <1>4a, <1>8 DEF Threads
<1>11. ASSUME NEW u \in Threads PROVE Len(cell'.local[u]) <= MaxLocal
  <2>1. CASE u = t
    <3>1. MaxLocal \in Nat /\ Len(l[t]) < MaxLocal
      BY <1>8, FeederAssumption
    <3> QED
      BY <2>1, <3>1, <1>6, <1>7, <1>10
  <2>2. CASE u # t
    BY <2>2, <1>8, <1>10 DEF Sane, CellType
  <2> QED
    BY <2>1, <2>2
<1> QED
  BY <1>7, <1>8, <1>9, <1>10, <1>11 DEF CellType

\* kill_memops finds nothing to kill: no memop is ever remembered.
LEMMA NothingKilled ==
    ASSUME Sane, NEW t \in Threads, NEW dead, dead \subseteq memopMap[t]
    PROVE  [cell EXCEPT !.local[t] = Without(@, dead)] = cell
<1>1. PICK g \in Words, p \in SUBSET Bytes, l \in [Cpus -> Seq(Locals)] :
        cell = [global |-> g, has |-> p, local |-> l]
  BY DEF Sane, CellType
<1>2. dead = {}
  BY Facts
<1>3. Without(l[t], dead) = l[t]
  <2>1. l[t] \in Seq(Locals)
    BY <1>1 DEF Threads
  <2> QED
    BY <2>1, <1>2, WithoutMiss
<1>4. [cell EXCEPT !.local[t] = Without(@, dead)]
        = [cell EXCEPT !.local = [cell.local EXCEPT ![t] = Without(cell.local[t], dead)]]
  OBVIOUS
<1>5. [cell.local EXCEPT ![t] = Without(cell.local[t], dead)] = l
  <2>1. cell.local = l /\ [l EXCEPT ![t] = l[t]] = l
    BY <1>1
  <2> QED
    BY <2>1, <1>3
<1>6. [cell EXCEPT !.local = l] = cell
  BY <1>1, SetLocal
<1> QED
  BY <1>4, <1>5, <1>6

LEMMA DoSpecWriteSane ==
    ASSUME Sane, NEW t \in Threads, NEW i \in DOMAIN pipe[t], DoSpecWrite(t, i)
    PROVE  Sane'
<1>1. PICK e, x : e = pipe[t][i] /\ x = [e EXCEPT !.spec = TRUE]
  OBVIOUS
<1>2. /\ e.kind = "store" /\ ~e.wrote
      /\ \A k \in 1 .. i - 1 : Executed(pipe[t][k])
      /\ Len(cell.local[t]) < MaxLocal
      /\ cell' = StoreLocally(cell, t, StoreMemop(Unreachable, 0))
      /\ memopMap' = memopMap
      /\ pipe' = [pipe EXCEPT ![t][i].spec = TRUE]
      /\ UNCHANGED <<issued, iteration, status, needJump, wrongPath, committed, ended, error,
                     fetchPc, senior, owner, traps, lastTest, holds>>
  BY <1>1 DEF DoSpecWrite, ItsTurn, Found
<1>3. pipe' = [pipe EXCEPT ![t] = [pipe[t] EXCEPT ![i] = x]]
  BY <1>1, <1>2
<1>4. /\ i \in 1 .. Len(pipe[t]) /\ e \in Entries /\ Proper(e) /\ (i # 1 => ~OnlyFirst(e))
  BY <1>1, InFlight
<1>5. x \in Entries
  BY <1>1, <1>4 DEF Entries
<1>6. /\ x.uid = e.uid /\ x.pc = e.pc /\ x.next = e.next /\ x.kind = e.kind
      /\ x.actual = e.actual /\ x.found = e.found /\ x.spec /\ x.wrote = e.wrote
  BY <1>1, <1>4 DEF Entries
<1>7. PICK R : R = pipe'[t]
  OBVIOUS
<1>8. /\ pipe' \in [Threads -> Seq(Entries)]
      /\ Alters(pipe[t], R, i) /\ R[i] = x /\ Len(R) = Len(pipe[t])
      /\ \A u \in Threads : u # t => pipe'[u] = pipe[u]
  BY <1>1, <1>3, <1>5, <1>6, <1>7, PipeAltered
<1>9. Proper(x) /\ (i # 1 => ~OnlyFirst(x))
  BY <1>2, <1>4, <1>6 DEF Proper, OnlyFirst
<1>10. Sound(R, issued[t], fetchPc[t], iteration[t], status[t], lastTest[t])
  <2>1. /\ pipe[t] \in Seq(Entries) /\ issued[t] \in Seq(Issues)
        /\ Sound(pipe[t], issued[t], fetchPc[t], iteration[t], status[t], lastTest[t])
    BY Facts
  <2>2. R[i].actual = pipe[t][i].actual /\ R[i].found = pipe[t][i].found
        /\ Proper(R[i]) /\ (i # 1 => ~OnlyFirst(R[i]))
    BY <1>1, <1>6, <1>8, <1>9
  <2>3. /\ i \in 1 .. Len(pipe[t]) /\ Alters(pipe[t], R, i)
        /\ \A j \in 1 .. i - 1 : Executed(pipe[t][j])
    BY <1>2, <1>4, <1>8
  <2> QED
    BY <2>1, <2>2, <2>3, SoundAlter
<1>11. /\ HeadPc(R, fetchPc[t]) = HeadPc(pipe[t], fetchPc[t]) /\ (HeadFound(R) <=> HeadFound(pipe[t]))
       /\ (HeadWrote(R) <=> HeadWrote(pipe[t]))
       /\ (HeadWrote(pipe[t]) => R[1].found = pipe[t][1].found)
       /\ (Reserving(R) <=> Reserving(pipe[t]))
  <2>1. Len(pipe[t]) \in Nat
    BY Facts
  <2>2. R[i].found = pipe[t][i].found /\ R[i].wrote = pipe[t][i].wrote
    BY <1>1, <1>6, <1>8
  <2>3. i \in 1 .. Len(pipe[t]) /\ Alters(pipe[t], R, i)
    BY <1>4, <1>8
  <2> QED
    BY <2>1, <2>2, <2>3, HeadsAlter
<1>12. Standing(R, fetchPc[t], senior[t], holds[t], lastTest[t])
  BY <1>11, Facts, StandingSame
<1>13. ThreadInv(t)'
  <2>1. ThreadInv(t)
    BY DEF Sane
  <2> QED
    BY <2>1, <1>2, <1>7, <1>8, <1>10, <1>11, <1>12 DEF ThreadInv, Tidy
<1>14. CellType'
  BY <1>2, LocallyWritten
<1>15. FeederType' /\ ModelType' /\ ErrorType'
  BY <1>2, <1>8 DEF Sane, FeederType, ModelType, ErrorType
<1>16. \A u \in Threads : u # t => Steady(u)
  BY <1>2, <1>8 DEF Steady
<1> QED
  BY <1>13, <1>14, <1>15, <1>16, Framed

\* The status of its iteration is what a test has found.
LEMMA StatusIsFound ==
    ASSUME Sane, NEW t \in Threads, NEW i \in DOMAIN pipe[t], pipe[t][i].kind \in Tests
    PROVE  status[t][issued[t][i].iter] = pipe[t][i].found
<1>1. Sound(pipe[t], issued[t], fetchPc[t], iteration[t], status[t], lastTest[t])
  BY Facts
<1>2. PICK lev : /\ Levels(issued[t], iteration[t], lev)
                 /\ Recorded(pipe[t], issued[t], status[t], lastTest[t], lev)
  BY <1>1 DEF Sound
<1>3. pipe[t][i].kind # "junk"
  BY DEF Tests
<1>4. i \in 1 .. Len(issued[t]) /\ issued[t][i].kind = pipe[t][i].kind
  BY <1>3, InFlight
<1>5. issued[t][i].iter = lev[i]
  BY <1>2, <1>4 DEF Levels
<1> QED
  BY <1>2, <1>4, <1>5 DEF Recorded

\* The compare-exchange at the head writes if it has found the lock free.
LEMMA SemaphoreIs ==
    ASSUME Sane, NEW t \in Threads, DoWriteSemaphore(t)
    PROVE  /\ Reserving(pipe[t]) /\ owner = {t} /\ owner' = {}
           /\ 1 \in DOMAIN pipe[t] /\ pipe[t][1].pc = 4 /\ senior[t] = {} /\ ~holds[t]
           /\ IF pipe[t][1].found = "entering"
              THEN WriteGlobally(t, pipe[t][1].uid, 1) /\ holds' = [holds EXCEPT ![t] = TRUE]
              ELSE UNCHANGED <<cell, holds>>
           /\ CellType' /\ memopMap' = memopMap
<1>1. PICK e : e = pipe[t][1]
  OBVIOUS
<1>2. /\ pipe[t] # <<>>
      /\ e.kind = "cmpxchg" /\ e.found # "invalid" /\ ~e.wrote
      /\ IF ConditionalStore(t, e.uid)
         THEN WriteGlobally(t, e.uid, 1) /\ holds' = [holds EXCEPT ![t] = TRUE]
         ELSE /\ memopMap' = [memopMap EXCEPT ![t] = @ \ {e.uid}]
              /\ UNCHANGED <<cell, holds>>
      /\ owner' = {}
  BY <1>1 DEF DoWriteSemaphore
<1>3. Len(pipe[t]) # 0 /\ 1 \in DOMAIN pipe[t]
  <2>1. pipe[t] \in Seq(Entries) /\ Len(pipe[t]) \in Nat /\ DOMAIN pipe[t] = 1 .. Len(pipe[t])
    BY Facts
  <2>2. Len(pipe[t]) # 0
    BY <2>1, <1>2, Members
  <2> QED
    BY <2>1, <2>2
<1>4. Reserving(pipe[t])
  BY <1>1, <1>2, <1>3 DEF Reserving
<1>5. owner = {t}
  <2>1. t \in owner
    BY <1>4, Facts
  <2> QED
    BY <2>1 DEF Sane, ModelType
<1>6. /\ e.pc \in Pcs /\ e.kind = KindAt(e.pc)
      /\ e.kind # "junk" => FindSI(t, e.uid) = {issued[t][1]}
  BY <1>1, <1>3, InFlight
<1>7. e.pc = 4
  BY <1>2, <1>6, AddressOf
<1>8. senior[t] = {} /\ ~holds[t]
  <2>1. Standing(pipe[t], fetchPc[t], senior[t], holds[t], lastTest[t])
    BY Facts
  <2>2. HeadPc(pipe[t], fetchPc[t]) = 4 /\ HeadFound(pipe[t]) /\ ~HeadWrote(pipe[t])
    BY <1>1, <1>2, <1>3, <1>7 DEF HeadPc, HeadFound, HeadWrote
  <2> QED
    BY <2>1, <2>2 DEF Standing
<1>9. ConditionalStore(t, e.uid) <=> e.found = "entering"
  <2>1. FindSI(t, e.uid) = {issued[t][1]}
    BY <1>2, <1>6
  <2>2. status[t][issued[t][1].iter] = e.found
    BY <1>1, <1>2, <1>3, StatusIsFound DEF Tests
  <2> QED
    BY <2>1, <2>2 DEF ConditionalStore, IterationStatus
<1>10. CellType' /\ memopMap' = memopMap
  <2>1. CASE ConditionalStore(t, e.uid)
    BY <2>1, <1>2, GloballyWritten
  <2>2. CASE ~ConditionalStore(t, e.uid)
    BY <2>2, <1>2 DEF Sane, CellType, FeederType
  <2> QED
    BY <2>1, <2>2
<1> QED
  BY <1>1, <1>2, <1>3, <1>4, <1>5, <1>7, <1>8, <1>9, <1>10

LEMMA DoWriteSemaphoreSane ==
    ASSUME Sane, NEW t \in Threads, DoWriteSemaphore(t)
    PROVE  Sane'
<1>1. PICK e, x : e = pipe[t][1] /\ x = [e EXCEPT !.wrote = TRUE]
  OBVIOUS
<1>2. /\ e.kind = "cmpxchg" /\ e.found # "invalid"
      /\ pipe' = [pipe EXCEPT ![t][1].wrote = TRUE]
      /\ UNCHANGED <<issued, iteration, status, needJump, wrongPath, committed, ended, error,
                     fetchPc, senior, traps, lastTest>>
  BY <1>1 DEF DoWriteSemaphore
<1>2a. /\ Reserving(pipe[t]) /\ owner = {t} /\ owner' = {} /\ CellType' /\ memopMap' = memopMap
       /\ 1 \in DOMAIN pipe[t] /\ e.pc = 4 /\ senior[t] = {} /\ ~holds[t]
       /\ IF e.found = "entering" THEN holds' = [holds EXCEPT ![t] = TRUE] ELSE holds' = holds
  BY <1>1, SemaphoreIs
<1>3. pipe' = [pipe EXCEPT ![t] = [pipe[t] EXCEPT ![1] = x]]
  BY <1>1, <1>2
<1>4. /\ 1 \in 1 .. Len(pipe[t]) /\ e \in Entries /\ Proper(e)
  BY <1>1, <1>2a, InFlight
<1>5. x \in Entries
  BY <1>1, <1>4 DEF Entries
<1>6. /\ x.uid = e.uid /\ x.pc = e.pc /\ x.next = e.next /\ x.kind = e.kind
      /\ x.actual = e.actual /\ x.found = e.found /\ x.spec = e.spec /\ x.wrote = TRUE
  BY <1>1, <1>4 DEF Entries
<1>7. PICK R : R = pipe'[t]
  OBVIOUS
<1>8. /\ pipe' \in [Threads -> Seq(Entries)]
      /\ Alters(pipe[t], R, 1) /\ R[1] = x /\ Len(R) = Len(pipe[t])
      /\ \A u \in Threads : u # t => pipe'[u] = pipe[u]
  BY <1>1, <1>2a, <1>3, <1>5, <1>6, <1>7, PipeAltered
<1>9. Proper(x)
  BY <1>2, <1>4, <1>6 DEF Proper
<1>10. Sound(R, issued[t], fetchPc[t], iteration[t], status[t], lastTest[t])
  <2>1. /\ pipe[t] \in Seq(Entries) /\ issued[t] \in Seq(Issues)
        /\ Sound(pipe[t], issued[t], fetchPc[t], iteration[t], status[t], lastTest[t])
    BY Facts
  <2>2. R[1].actual = pipe[t][1].actual /\ R[1].found = pipe[t][1].found /\ Proper(R[1])
    BY <1>1, <1>6, <1>8, <1>9
  <2>3. 1 \in 1 .. Len(pipe[t]) /\ Alters(pipe[t], R, 1)
    BY <1>4, <1>8
  <2>4. \A j \in 1 .. 1 - 1 : Executed(pipe[t][j])
    OBVIOUS
  <2> QED
    BY <2>1, <2>2, <2>3, <2>4, SoundAlter
<1>11. Len(R) # 0
  BY <1>4, <1>8
<1>12. HeadPc(R, fetchPc[t]) = 4 /\ HeadWrote(R) /\ R[1].found = e.found /\ ~Reserving(R)
  BY <1>2a, <1>6, <1>8, <1>11 DEF HeadPc, HeadWrote, Reserving
<1>13. /\ holds' \in [Threads -> BOOLEAN]
       /\ holds'[t] <=> e.found = "entering"
       /\ \A u \in Threads : u # t => holds'[u] = holds[u]
  <2>1. holds \in [Threads -> BOOLEAN]
    BY DEF Sane, ModelType
  <2> QED
    BY <2>1, <1>2a
<1>14. Standing(R, fetchPc[t], senior[t], holds'[t], lastTest[t])
  BY <1>2a, <1>12, <1>13 DEF Standing
<1>15. ThreadInv(t)'
  <2>1. ThreadInv(t)
    BY DEF Sane
  <2> QED
    BY <2>1, <1>2, <1>2a, <1>7, <1>8, <1>10, <1>12, <1>14 DEF ThreadInv, Tidy
<1>16. FeederType' /\ ModelType' /\ ErrorType'
  BY <1>2, <1>2a, <1>8, <1>13 DEF Sane, FeederType, ModelType, ErrorType
<1>17. \A u \in Threads : u # t => Steady(u)
  BY <1>2, <1>2a, <1>8, <1>13 DEF Steady
<1> QED
  BY <1>2a, <1>15, <1>16, <1>17, Framed

\* Whoever writes the release holds the lock.
LEMMA StoreIs ==
    ASSUME Sane, NEW t \in Threads, DoWriteStore(t)
    PROVE  /\ \E uid : WriteGlobally(t, uid, 0)
           /\ holds[t] /\ owner' = owner /\ ~Reserving(pipe[t])
           /\ \/ /\ 1 \in DOMAIN pipe[t] /\ pipe[t][1].kind = "store" /\ pipe[t][1].pc = 6
                 /\ senior[t] = {} /\ senior' = senior /\ ~pipe[t][1].wrote
                 /\ pipe' = [pipe EXCEPT ![t][1].wrote = TRUE]
              \/ /\ senior' = [senior EXCEPT ![t] = {}] /\ senior[t] # {}
                 /\ pipe' = pipe
                 /\ Standing(pipe[t], fetchPc[t], {}, FALSE, lastTest[t])
<1>1. Standing(pipe[t], fetchPc[t], senior[t], holds[t], lastTest[t])
  BY Facts
<1>2. /\ owner' = owner
      /\ \/ /\ pipe[t] # <<>>
            /\ pipe[t][1].kind = "store" /\ ~pipe[t][1].wrote
            /\ WriteGlobally(t, pipe[t][1].uid, 0)
            /\ pipe' = [pipe EXCEPT ![t][1].wrote = TRUE]
            /\ UNCHANGED senior
         \/ \E s \in senior[t] :
            /\ WriteGlobally(t, s.uid, 0)
            /\ senior' = [senior EXCEPT ![t] = {}]
            /\ UNCHANGED pipe
  BY DEF DoWriteStore
<1>3. ASSUME pipe[t] # <<>>, pipe[t][1].kind = "store", ~pipe[t][1].wrote
      PROVE  /\ 1 \in DOMAIN pipe[t] /\ pipe[t][1].pc = 6 /\ senior[t] = {} /\ holds[t]
             /\ ~Reserving(pipe[t])
  <2>1. pipe[t] \in Seq(Entries) /\ Len(pipe[t]) \in Nat /\ DOMAIN pipe[t] = 1 .. Len(pipe[t])
    BY Facts
  <2>2. Len(pipe[t]) # 0 /\ 1 \in DOMAIN pipe[t]
    BY <2>1, <1>3, Members
  <2>3. pipe[t][1].pc = 6
    BY <2>2, <1>3, InFlight, AddressOf
  <2>4. HeadPc(pipe[t], fetchPc[t]) = 6 /\ ~HeadWrote(pipe[t])
    BY <2>2, <2>3, <1>3 DEF HeadPc, HeadWrote
  <2>5. senior[t] = {} /\ holds[t]
    BY <2>4, <1>1 DEF Standing
  <2> QED
    BY <2>2, <2>3, <2>5, <1>3 DEF Reserving
<1>4. ASSUME senior[t] # {}
      PROVE  /\ holds[t] /\ ~Reserving(pipe[t])
             /\ Standing(pipe[t], fetchPc[t], {}, FALSE, lastTest[t])
  <2>1. PICK pc : pc = HeadPc(pipe[t], fetchPc[t])
    OBVIOUS
  <2>2. pc \in {1, 2, 3, 7} \/ pc = 4
    BY <2>1, <1>1, <1>4 DEF Standing
  <2>3. CASE pc \in {1, 2, 3, 7}
    <3>1. holds[t] /\ Standing(pipe[t], fetchPc[t], {}, FALSE, lastTest[t])
      BY <2>1, <2>3, <1>1, <1>4 DEF Standing
    <3>2. ~Reserving(pipe[t])
      <4>1. SUFFICES ASSUME Reserving(pipe[t]) PROVE FALSE
        OBVIOUS
      <4>2. 1 \in DOMAIN pipe[t]
        BY <4>1, Facts DEF Reserving
      <4>3. pipe[t][1].pc = 4
        BY <4>1, <4>2, InFlight, AddressOf DEF Reserving
      <4> QED
        BY <4>1, <4>3, <2>1, <2>3 DEF HeadPc, Reserving
    <3> QED
      BY <3>1, <3>2
  <2>4. CASE pc = 4
    <3>1. ~HeadFound(pipe[t])
      BY <2>1, <2>4, <1>1, <1>4 DEF Standing
    <3>2. ~HeadWrote(pipe[t])
      <4>1. SUFFICES ASSUME HeadWrote(pipe[t]) PROVE FALSE
        OBVIOUS
      <4>2. 1 \in DOMAIN pipe[t]
        BY <4>1, Facts DEF HeadWrote
      <4>3. pipe[t][1].pc = 4
        BY <4>1, <2>1, <2>4 DEF HeadPc, HeadWrote
      <4>4. pipe[t][1].kind = "cmpxchg"
        BY <4>2, <4>3, InFlight, AddressOf
      <4>5. pipe[t][1].found # "invalid"
        BY <4>1, <4>2, <4>4, InFlight DEF Proper, HeadWrote
      <4> QED
        BY <4>1, <4>5, <3>1 DEF HeadFound, HeadWrote
    <3>3. holds[t]
      BY <3>2, <2>1, <2>4, <1>1, <1>4 DEF Standing
    <3>4. Standing(pipe[t], fetchPc[t], {}, FALSE, lastTest[t])
      BY <3>2, <2>1, <2>4 DEF Standing
    <3>5. ~Reserving(pipe[t])
      BY <3>1 DEF HeadFound, Reserving
    <3> QED
      BY <3>3, <3>4, <3>5
  <2> QED
    BY <2>2, <2>3, <2>4
<1> QED
  BY <1>2, <1>3, <1>4

LEMMA DoWriteStoreSane ==
    ASSUME Sane, NEW t \in Threads, DoWriteStore(t)
    PROVE  Sane'
<1>1. /\ owner' = owner /\ holds' = [holds EXCEPT ![t] = FALSE]
      /\ UNCHANGED <<issued, iteration, status, needJump, wrongPath, committed, ended, error,
                     fetchPc, traps, lastTest>>
  BY DEF DoWriteStore
<1>2. CellType' /\ memopMap' = memopMap
  <2>1. PICK uid : WriteGlobally(t, uid, 0)
    BY StoreIs
  <2> QED
    BY <2>1, GloballyWritten
<1>3. /\ holds' \in [Threads -> BOOLEAN] /\ holds'[t] = FALSE
      /\ \A u \in Threads : u # t => holds'[u] = holds[u]
  BY <1>1 DEF Sane, ModelType
<1>4. /\ senior \in [Threads -> SUBSET Seniors] /\ pipe \in [Threads -> Seq(Entries)]
  BY DEF Sane, ModelType
<1>5. CASE /\ 1 \in DOMAIN pipe[t] /\ pipe[t][1].kind = "store" /\ pipe[t][1].pc = 6
           /\ senior[t] = {} /\ senior' = senior
           /\ pipe' = [pipe EXCEPT ![t][1].wrote = TRUE]
  <2>1. PICK e, x : e = pipe[t][1] /\ x = [e EXCEPT !.wrote = TRUE]
    OBVIOUS
  <2>2. pipe' = [pipe EXCEPT ![t] = [pipe[t] EXCEPT ![1] = x]]
    BY <2>1, <1>5
  <2>3. /\ 1 \in 1 .. Len(pipe[t]) /\ e \in Entries /\ Proper(e)
    BY <2>1, <1>5, InFlight
  <2>4. x \in Entries
    BY <2>1, <2>3 DEF Entries
  <2>5. /\ x.uid = e.uid /\ x.pc = e.pc /\ x.next = e.next /\ x.kind = e.kind
        /\ x.actual = e.actual /\ x.found = e.found /\ x.spec = e.spec /\ x.wrote = TRUE
    BY <2>1, <2>3 DEF Entries
  <2>6. PICK R : R = pipe'[t]
    OBVIOUS
  <2>7. /\ pipe' \in [Threads -> Seq(Entries)]
        /\ Alters(pipe[t], R, 1) /\ R[1] = x /\ Len(R) = Len(pipe[t])
        /\ \A u \in Threads : u # t => pipe'[u] = pipe[u]
    <3>1. 1 \in DOMAIN pipe[t]
      BY <1>5
    <3> QED
      BY <3>1, <2>1, <2>2, <2>4, <2>5, <2>6, PipeAltered
  <2>8. Proper(x)
    BY <2>1, <2>3, <2>5, <1>5 DEF Proper
  <2>9. Sound(R, issued[t], fetchPc[t], iteration[t], status[t], lastTest[t])
    <3>1. /\ pipe[t] \in Seq(Entries) /\ issued[t] \in Seq(Issues)
          /\ Sound(pipe[t], issued[t], fetchPc[t], iteration[t], status[t], lastTest[t])
      BY Facts
    <3>2. R[1].actual = pipe[t][1].actual /\ R[1].found = pipe[t][1].found /\ Proper(R[1])
      BY <2>1, <2>5, <2>7, <2>8
    <3>3. 1 \in 1 .. Len(pipe[t]) /\ Alters(pipe[t], R, 1)
      BY <2>3, <2>7
    <3>4. \A j \in 1 .. 1 - 1 : Executed(pipe[t][j])
      OBVIOUS
    <3> QED
      BY <3>1, <3>2, <3>3, <3>4, SoundAlter
  <2>10. Len(R) # 0
    BY <2>3, <2>7
  <2>11. HeadPc(R, fetchPc[t]) = 6 /\ HeadWrote(R) /\ ~Reserving(R)
    BY <2>1, <2>5, <2>7, <2>10, <1>5 DEF HeadPc, HeadWrote, Reserving
  <2>12. Standing(R, fetchPc[t], senior[t], holds'[t], lastTest[t])
    BY <2>11, <1>3, <1>5 DEF Standing
  <2>13. t \notin owner
    BY StoreIs, Facts
  <2>14. ThreadInv(t)'
    <3>1. ThreadInv(t)
      BY DEF Sane
    <3> QED
      BY <3>1, <2>6, <2>7, <2>9, <2>11, <2>12, <2>13, <1>1, <1>5 DEF ThreadInv, Tidy
  <2>15. FeederType' /\ ModelType' /\ ErrorType'
    BY <2>7, <1>1, <1>2, <1>3, <1>5 DEF Sane, FeederType, ModelType, ErrorType
  <2>16. \A u \in Threads : u # t => Steady(u)
    BY <2>7, <1>1, <1>3, <1>5 DEF Steady
  <2> QED
    BY <2>14, <2>15, <2>16, <1>2, Framed
<1>6. CASE /\ senior' = [senior EXCEPT ![t] = {}]
           /\ pipe' = pipe
           /\ Standing(pipe[t], fetchPc[t], {}, FALSE, lastTest[t])
  <2>1. /\ senior' \in [Threads -> SUBSET Seniors] /\ senior'[t] = {}
        /\ \A u \in Threads : u # t => senior'[u] = senior[u]
    BY <1>4, <1>6
  <2>2. ThreadInv(t)'
    <3>1. ThreadInv(t)
      BY DEF Sane
    <3>2. Standing(pipe[t], fetchPc[t], senior'[t], holds'[t], lastTest[t])
      BY <2>1, <1>3, <1>6
    <3> QED
      BY <3>1, <3>2, <2>1, <1>1, <1>6 DEF ThreadInv
  <2>3. FeederType' /\ ModelType' /\ ErrorType'
    BY <2>1, <1>1, <1>2, <1>3, <1>6 DEF Sane, FeederType, ModelType, ErrorType
  <2>4. \A u \in Threads : u # t => Steady(u)
    BY <2>1, <1>1, <1>3, <1>6 DEF Steady
  <2> QED
    BY <2>2, <2>3, <2>4, <1>2, Framed
<1> QED
  BY <1>5, <1>6, StoreIs

-----------------------------------------------------------------------------
(* Commit.                                                                 *)

\* What is committed, and where it is: no more than one no-op is in front.
LEMMA CommitIs ==
    ASSUME Sane, NEW t \in Threads, NEW i \in DOMAIN pipe[t], Done(pipe[t][i]),
           \A k \in 1 .. i - 1 : pipe[t][k].kind = "nop"
    PROVE  /\ pipe[t][i].kind \in Tests \cup Branches \cup {"store"} /\ pipe[t][i].kind # "junk"
           /\ pipe[t][i].pc \in {0, 1, 3, 4, 5, 6, 7}
           /\ i = 1 \/ (i = 2 /\ pipe[t][1].pc = 2 /\ pipe[t][i].pc = 3)
           /\ pipe[t][i].kind = "cmpxchg" => pipe[t][i].wrote
           /\ pipe[t][i].kind \in Branches => pipe[t][i].actual = pipe[t][i].next
           /\ CommitPlaces(t, pipe[t][i].uid) = {i}
<1>1. PICK P, Q, e : P = pipe[t] /\ Q = issued[t] /\ e = P[i]
  OBVIOUS
<1>2. /\ P \in Seq(Entries) /\ Q \in Seq(Issues) /\ Flow(P, fetchPc[t]) /\ Vouched(P, Q)
      /\ Len(P) \in Nat /\ Len(Q) \in Nat /\ DOMAIN P = 1 .. Len(P) /\ DOMAIN Q = 1 .. Len(Q)
      /\ Len(Q) <= Len(P)
  BY <1>1, Facts
<1>3. i \in 1 .. Len(P) /\ e.pc \in Pcs /\ e.kind = KindAt(e.pc)
  BY <1>1, InFlight
<1>4. /\ e.kind \in Tests \cup Branches \cup {"store"}
      /\ e.kind = "cmpxchg" => e.wrote
      /\ e.kind \in Branches => e.actual = e.next
  <2>1. Done(e)
    BY <1>1
  <2>2. CASE e.kind \in Branches
    BY <2>1, <2>2 DEF Done, Branches
  <2>3. CASE e.kind \notin Branches
    BY <2>1, <2>3 DEF Done, Tests
  <2> QED
    BY <2>2, <2>3
<1>5. e.kind # "junk" /\ e.kind # "nop"
  BY <1>4 DEF Tests, Branches
<1>6. e.pc \in {0, 1, 3, 4, 5, 6, 7}
  <2>1. e.pc # 2 /\ e.pc # 8
    BY <1>3, <1>5, AddressOf
  <2> QED
    BY <2>1, <1>3, PcIs
<1>7. i = 1 \/ (i = 2 /\ P[1].pc = 2 /\ e.pc = 3)
  <2>1. CASE i = 1
    BY <2>1
  <2>2. CASE i # 1
    <3>1. 1 \in 1 .. i - 1 /\ 1 \in 1 .. Len(P) /\ 2 \in 1 .. Len(P) /\ 2 \in 2 .. Len(P)
      BY <2>2, <1>2, <1>3
    <3>2. P[1].kind = "nop"
      BY <3>1, <1>1
    <3>3. P[1].pc = 2
      BY <3>1, <3>2, <1>2, KindsOf, AddressOf
    <3>4. P[1].next = 3
      BY <3>1, <3>3, <1>2, KindsOf, GoesOn
    <3>5. P[2].pc = P[2 - 1].next
      BY <3>1, <1>2 DEF Flow
    <3>6. P[2].pc = 3 /\ P[2].kind # "nop"
      BY <3>1, <3>4, <3>5, <1>2, KindsOf, AddressOf
    <3>7. ~(2 \in 1 .. i - 1)
      BY <3>6, <1>1
    <3>8. i = 2
      BY <3>7, <2>2, <1>3
    <3> QED
      BY <3>3, <3>6, <3>8, <1>1
  <2> QED
    BY <2>1, <2>2
<1>8. i \in 1 .. Len(Q) /\ Q[i].uid = e.uid
  BY <1>1, <1>5, InFlight
<1>9. ASSUME NEW k \in 1 .. Len(Q), Q[k].uid = e.uid PROVE k = i
  <2>1. k \in 1 .. Len(P) /\ k <= Len(Q) /\ k \in Nat /\ i \in Nat
    BY <1>2, <1>3
  <2>2. P[k].uid = e.uid
    BY <2>1, <1>2, <1>9 DEF Vouched
  <2>3. P[k].uid \in Nat
    BY <2>1, <1>2, Entry
  <2>4. k < i => P[k].uid < P[i].uid
    BY <2>1, <1>2, <1>3 DEF Flow
  <2>5. i < k => P[i].uid < P[k].uid
    BY <2>1, <1>2, <1>3 DEF Flow
  <2> QED
    BY <2>1, <2>2, <2>3, <2>4, <2>5, <1>1
<1>10. ASSUME NEW j \in 1 .. i - 1 PROVE Q[j].kind = "nop"
  <2>1. j \in 1 .. Len(P) /\ j <= Len(Q)
    BY <1>2, <1>3, <1>8
  <2> QED
    BY <2>1, <1>1, <1>2 DEF Vouched
<1>11. CommitPlaces(t, e.uid) = {i}
  BY <1>1, <1>2, <1>8, <1>9, <1>10 DEF CommitPlaces
<1> QED
  BY <1>1, <1>4, <1>5, <1>6, <1>7, <1>11

\* The branch after the compare-exchange goes back if the lock was not free.
LEMMA HeadFollowsTest ==
    ASSUME Sane, NEW t \in Threads, 1 \in DOMAIN pipe[t], pipe[t][1].kind = "cbranch",
           pipe[t][1].actual # NoPc
    PROVE  pipe[t][1].actual = Start <=> lastTest[t] = "blocked"
<1>1. PICK P, Q, n : P = pipe[t] /\ Q = issued[t] /\ n = Len(Q)
  OBVIOUS
<1>2. Sound(P, Q, fetchPc[t], iteration[t], status[t], lastTest[t])
  BY <1>1, Facts
<1>3. PICK lev : /\ Levels(Q, iteration[t], lev)
                 /\ Recorded(P, Q, status[t], lastTest[t], lev)
  BY <1>2 DEF Sound
<1>4. 1 \in 1 .. n /\ Q[1].kind = "cbranch"
  BY <1>1, InFlight
<1>5. n \in Nat
  BY <1>1, Facts
<1>6. lev[0] = lev[1]
  <2>1. lev[0] # lev[1] => \E x \in 0 + 1 .. 1 : Q[x].kind \in Tests /\ lev[x] = lev[0] + 1
    <3>1. 1 \in 0 .. n /\ 0 \in 0 .. 1 - 1
      BY <1>4, <1>5
    <3> QED
      BY <3>1, <1>1, <1>3 DEF Levels
  <2>2. \A x \in 0 + 1 .. 1 : x = 1
    OBVIOUS
  <2> QED
    BY <2>1, <2>2, <1>4 DEF Tests
<1>7. status[t][lev[0]] = lastTest[t]
  BY <1>3 DEF Recorded
<1>8. P[1].actual = Start <=> status[t][lev[1]] = "blocked"
  BY <1>1, <1>3, <1>4 DEF Recorded
<1> QED
  BY <1>1, <1>6, <1>7, <1>8

\* Where the commits go on, and what the thread then holds.
LEMMA StandingNext ==
    ASSUME Sane, NEW t \in Threads, NEW i \in DOMAIN pipe[t], Done(pipe[t][i]),
           \A k \in 1 .. i - 1 : pipe[t][k].kind = "nop",
           NEW e, e = pipe[t][i],
           NEW R, NEW f, HeadPc(R, f) = e.next, ~HeadWrote(R), e.next = 4 => ~HeadFound(R),
           NEW s, NEW lt,
           s # {} <=> (senior[t] # {} \/ (e.kind = "store" /\ ~e.wrote)),
           lt = IF e.kind \in Tests THEN e.found ELSE lastTest[t]
    PROVE  Standing(R, f, s, holds[t], lt)
<1>1. PICK P, h : P = pipe[t] /\ h = holds[t]
  OBVIOUS
<1>2. Standing(P, fetchPc[t], senior[t], h, lastTest[t])
  BY <1>1, Facts
<1>3. /\ e.pc \in {0, 1, 3, 4, 5, 6, 7}
      /\ i = 1 \/ (i = 2 /\ P[1].pc = 2 /\ e.pc = 3)
      /\ e.kind = "cmpxchg" => e.wrote
      /\ e.kind \in Branches => e.actual = e.next
  BY <1>1, CommitIs
<1>4. /\ e.kind = KindAt(e.pc) /\ e.pc \in Pcs /\ e.next \in Pcs /\ Proper(e) /\ e \in Entries
  BY InFlight
<1>5. /\ e.next \in Predictions(KindAt(e.pc), e.pc) /\ e.next # NoPc
  <2>1. e.next # NoPc
    BY <1>4, RoutineIs DEF NoPc
  <2> QED
    BY <2>1, <1>4 DEF Proper
<1>6. Len(P) # 0
  BY <1>1, InFlight
<1>7. /\ i = 1 => HeadPc(P, fetchPc[t]) = e.pc
      /\ i = 2 => HeadPc(P, fetchPc[t]) = 2
  BY <1>1, <1>3, <1>6 DEF HeadPc
<1>8. e.kind \in Branches /\ e.kind # "cbranch" => e.next = 1
  <2>1. Start = 1
    BY RoutineIs
  <2> QED
    BY <2>1, <1>3, <1>4, <1>5 DEF Proper
<1>9. CASE e.pc = 0
  <2>1. i = 1 /\ e.kind = "jump" /\ e.kind \in Branches
    BY <1>3, <1>4, <1>9, RoutineIs DEF Branches
  <2>2. HeadPc(R, f) = 1
    BY <2>1, <1>8
  <2>3. senior[t] = {} /\ ~h
    BY <2>1, <1>2, <1>7, <1>9 DEF Standing
  <2> QED
    BY <2>1, <2>2, <2>3, <1>1 DEF Standing
<1>10. CASE e.pc = 1
  <2>1. i = 1 /\ e.kind = "load" /\ e.next = 2
    BY <1>3, <1>4, <1>5, <1>10, RoutineIs, GoesOn
  <2>2. h <=> senior[t] # {}
    BY <2>1, <1>2, <1>7, <1>10 DEF Standing
  <2> QED
    BY <2>1, <2>2, <1>1 DEF Standing
<1>11. CASE e.pc = 3
  <2>1. e.kind = "cbranch"
    BY <1>4, <1>11, RoutineIs
  <2>2. e.next = 1 \/ e.next = 4
    BY <1>4, <1>5, <1>11, GoesOn
  <2>3. h <=> senior[t] # {}
    <3>1. HeadPc(P, fetchPc[t]) \in {1, 2, 3, 7}
      BY <1>3, <1>7, <1>11
    <3> QED
      BY <3>1, <1>2 DEF Standing
  <2>4. h <=> s # {}
    BY <2>1, <2>3
  <2> QED
    BY <2>2, <2>4, <1>1 DEF Standing
<1>12. CASE e.pc = 4
  <2>1. i = 1 /\ e.kind = "cmpxchg" /\ e.next = 5 /\ e.kind \in Tests
    BY <1>3, <1>4, <1>5, <1>12, RoutineIs, GoesOn DEF Tests
  <2>2. e.wrote /\ e.found # "invalid"
    BY <2>1, <1>3, <1>4 DEF Proper
  <2>3. HeadPc(P, fetchPc[t]) = 4 /\ HeadFound(P) /\ HeadWrote(P) /\ P[1] = e
    BY <2>1, <2>2, <1>1, <1>6, <1>7, <1>12 DEF HeadFound, HeadWrote
  <2>4. senior[t] = {} /\ (h <=> e.found = "entering")
    BY <2>3, <1>2 DEF Standing
  <2> QED
    BY <2>1, <2>2, <2>4, <1>1 DEF Standing
<1>13. CASE e.pc = 5
  <2>1. i = 1 /\ e.kind = "cbranch" /\ e.kind \in Branches /\ e.kind \notin Tests
    BY <1>3, <1>4, <1>13, RoutineIs DEF Tests, Branches
  <2>2. e.next = 1 \/ e.next = 6
    BY <1>4, <1>5, <1>13, GoesOn
  <2>3. senior[t] = {} /\ lastTest[t] # "invalid" /\ (h <=> lastTest[t] = "entering")
    BY <2>1, <1>2, <1>7, <1>13 DEF Standing
  <2>4. e.next = 1 <=> lastTest[t] = "blocked"
    <3>1. 1 \in DOMAIN pipe[t] /\ pipe[t][1] = e /\ e.actual = e.next
      BY <2>1, <1>3
    <3>2. e.actual = Start <=> lastTest[t] = "blocked"
      BY <3>1, <2>1, <1>5, HeadFollowsTest
    <3> QED
      BY <3>1, <3>2, RoutineIs
  <2>5. lastTest[t] \in {"invalid", "entering", "blocked"}
    BY Facts DEF Statuses
  <2>6. CASE e.next = 1
    BY <2>1, <2>3, <2>4, <2>6, <1>1 DEF Standing
  <2>7. CASE e.next = 6
    BY <2>1, <2>3, <2>4, <2>5, <2>7, <1>1 DEF Standing
  <2> QED
    BY <2>2, <2>6, <2>7
<1>14. CASE e.pc = 6
  <2>1. i = 1 /\ e.kind = "store" /\ e.next = 7
    BY <1>3, <1>4, <1>5, <1>14, RoutineIs, GoesOn
  <2>2. HeadPc(P, fetchPc[t]) = 6 /\ (HeadWrote(P) <=> e.wrote)
    BY <2>1, <1>1, <1>6, <1>7, <1>14 DEF HeadWrote
  <2>3. senior[t] = {} /\ (h <=> ~HeadWrote(P))
    BY <2>2, <1>2 DEF Standing
  <2>4. h <=> s # {}
    BY <2>1, <2>2, <2>3
  <2> QED
    BY <2>1, <2>4, <1>1 DEF Standing
<1>15. CASE e.pc = 7
  <2>1. i = 1 /\ e.kind = "branch" /\ e.kind \in Branches
    BY <1>3, <1>4, <1>15, RoutineIs DEF Branches
  <2>2. HeadPc(R, f) = 1
    BY <2>1, <1>8
  <2>3. h <=> senior[t] # {}
    BY <2>1, <1>2, <1>7, <1>15 DEF Standing
  <2> QED
    BY <2>1, <2>2, <2>3, <1>1 DEF Standing
<1> QED
  BY <1>3, <1>9, <1>10, <1>11, <1>12, <1>13, <1>14, <1>15

\* The pipe and the issued list after a commit.
LEMMA CommitShifts ==
    ASSUME Sane, NEW t \in Threads, NEW i \in DOMAIN pipe[t], pipe[t][i].kind # "junk",
           NEW base \in {0, pipe[t][i].uid}
    PROVE  /\ Recount(SubSeq(pipe[t], i + 1, Len(pipe[t])), base) \in Seq(Entries)
           /\ Shifts(pipe[t], Recount(SubSeq(pipe[t], i + 1, Len(pipe[t])), base), i, base)
           /\ Recount(SubSeq(issued[t], i + 1, Len(issued[t])), base) \in Seq(Issues)
           /\ Shifts(issued[t], Recount(SubSeq(issued[t], i + 1, Len(issued[t])), base), i, base)
<1>1. PICK P, Q : P = pipe[t] /\ Q = issued[t]
  OBVIOUS
<1>2. /\ P \in Seq(Entries) /\ Q \in Seq(Issues) /\ Flow(P, fetchPc[t]) /\ Vouched(P, Q)
      /\ Len(P) \in Nat /\ Len(Q) \in Nat /\ Len(Q) <= Len(P)
  BY <1>1, Facts
<1>3. i \in 1 .. Len(P) /\ i \in 1 .. Len(Q) /\ P[i].uid \in Nat
  BY <1>1, InFlight
<1>4. base \in Nat /\ base <= P[i].uid
  BY <1>1, <1>3
<1>5. ASSUME NEW k \in i + 1 .. Len(P) PROVE P[k].uid - base \in Uids /\ P[k] \in Entries
  <2>1. k \in 1 .. Len(P) /\ i \in 1 .. k - 1
    BY <1>2, <1>3
  <2>2. P[i].uid < P[k].uid
    BY <2>1, <1>2 DEF Flow
  <2>3. P[k].uid \in Nat /\ P[k] \in Entries
    BY <2>1, <1>2, Entry
  <2> QED
    BY <2>2, <2>3, <1>3, <1>4 DEF Uids
<1>6. \A k \in i + 1 .. Len(P) : [P[k] EXCEPT !.uid = @ - base] \in Entries
  BY <1>5 DEF Entries
<1>7. ASSUME NEW k \in i + 1 .. Len(Q) PROVE Q[k].uid - base \in Uids /\ Q[k] \in Issues
  <2>1. k \in 1 .. Len(P) /\ k <= Len(Q) /\ k \in i + 1 .. Len(P) /\ k \in 1 .. Len(Q)
    BY <1>2, <1>3
  <2>2. Q[k].uid = P[k].uid
    BY <2>1, <1>2 DEF Vouched
  <2> QED
    BY <2>1, <2>2, <1>2, <1>5, Issued
<1>8. \A k \in i + 1 .. Len(Q) : [Q[k] EXCEPT !.uid = @ - base] \in Issues
  BY <1>7 DEF Issues
<1>9. i \in 0 .. Len(P) /\ i \in 0 .. Len(Q)
  BY <1>2, <1>3
<1>10. /\ Recount(SubSeq(P, i + 1, Len(P)), base) \in Seq(Entries)
       /\ Shifts(P, Recount(SubSeq(P, i + 1, Len(P)), base), i, base)
  BY <1>2, <1>6, <1>9, RecountShifts
<1>11. /\ Recount(SubSeq(Q, i + 1, Len(Q)), base) \in Seq(Issues)
       /\ Shifts(Q, Recount(SubSeq(Q, i + 1, Len(Q)), base), i, base)
  BY <1>2, <1>8, <1>9, RecountShifts
<1> QED
  BY <1>1, <1>10, <1>11

\* Commit, with what is at the places it takes.
LEMMA CommitDoes ==
    ASSUME Sane, NEW t \in Threads, NEW i \in DOMAIN pipe[t], Commit(t, i),
           NEW e, e = pipe[t][i]
    PROVE  /\ Done(e) /\ \A k \in 1 .. i - 1 : pipe[t][k].kind = "nop"
           /\ e.kind = "store" => senior[t] = {}
           /\ error' = error
           /\ senior' = [senior EXCEPT ![t] = IF e.kind # "store" \/ e.wrote THEN senior[t]
                                              ELSE {[uid |-> e.uid, spec |-> e.spec]}]
           /\ \E base \in {0, e.uid} :
                /\ pipe' = [pipe EXCEPT ![t] = Recount(SubSeq(pipe[t], i + 1, Len(pipe[t])), base)]
                /\ issued' = [issued EXCEPT ![t] =
                                Recount(SubSeq(issued[t], i + 1, Len(issued[t])), base)]
           /\ committed' \in [Threads -> Nat] /\ ended' \in [Threads -> BOOLEAN]
           /\ lastTest' = [lastTest EXCEPT ![t] = IF e.kind \in Tests THEN e.found ELSE lastTest[t]]
           /\ UNCHANGED <<cell, memopMap, iteration, status, needJump, wrongPath, fetchPc, owner,
                          traps, holds>>
<1>1. PICK places, count, base :
        /\ places = CommitPlaces(t, e.uid)
        /\ count = IF NumToCommit[t] = 0 THEN 0 ELSE committed[t] + Cardinality(places)
        /\ base = IF senior'[t] = {} /\ memopMap[t] = {} THEN e.uid ELSE 0
  OBVIOUS
<1>2. /\ Done(e) /\ \A k \in 1 .. i - 1 : pipe[t][k].kind = "nop"
      /\ e.kind = "store" => senior[t] = {}
      /\ senior' = [senior EXCEPT ![t] = IF e.kind # "store" \/ e.wrote THEN senior[t]
                                         ELSE {[uid |-> e.uid, spec |-> e.spec]}]
      /\ pipe' = [pipe EXCEPT ![t] = Recount(SubSeq(pipe[t], i + 1, Len(pipe[t])), base)]
      /\ issued' = [issued EXCEPT ![t] =
           IF places = {} THEN <<>>
           ELSE Recount(SubSeq(issued[t], Max(places) + 1, Len(issued[t])), base)]
      /\ error' = IF places = {} /\ \E s \in Range(issued[t]) : s.kind # "nop"
                  THEN "commit" ELSE error
      /\ committed' = [committed EXCEPT ![t] = count]
      /\ ended' = [ended EXCEPT ![t] = NumToCommit[t] # 0 /\ count = NumToCommit[t]]
      /\ lastTest' = [lastTest EXCEPT ![t] = IF e.kind \in Tests THEN e.found ELSE lastTest[t]]
      /\ UNCHANGED <<cell, memopMap, iteration, status, needJump, wrongPath, fetchPc, owner,
                     traps, holds>>
  BY <1>1 DEF Commit
<1>3. places = {i}
  BY <1>1, <1>2, CommitIs
<1>4. places # {} /\ Max(places) = i
  <2>1. i \in Nat
    BY InFlight
  <2>2. {i} \subseteq Nat /\ {i} # {} /\ \A x \in {i} : x <= i
    BY <2>1
  <2>3. Max({i}) \in {i}
    BY <2>1, <2>2, MaxIs
  <2> QED
    BY <2>3, <1>3
<1>5. error' = error
  BY <1>2, <1>4
<1>6. issued' = [issued EXCEPT ![t] = Recount(SubSeq(issued[t], i + 1, Len(issued[t])), base)]
  BY <1>2, <1>4
<1>7. base \in {0, e.uid}
  BY <1>1
<1>8. count \in Nat
  <2>1. Cardinality(places) = 1
    BY <1>3, FS_Singleton
  <2>2. committed[t] \in Nat
    BY DEF Sane, FeederType
  <2> QED
    BY <2>1, <2>2, <1>1
<1>9. committed' \in [Threads -> Nat]
  BY <1>2, <1>8 DEF Sane, FeederType
<1>10. ended' \in [Threads -> BOOLEAN]
  BY <1>2 DEF Sane, FeederType
<1> QED
  BY <1>2, <1>5, <1>6, <1>7, <1>9, <1>10

LEMMA CommitSane ==
    ASSUME Sane, NEW t \in Threads, NEW i \in DOMAIN pipe[t], Commit(t, i)
    PROVE  Sane'
<1>1. PICK P, Q, e, f : P = pipe[t] /\ Q = issued[t] /\ e = pipe[t][i] /\ f = fetchPc[t]
  OBVIOUS
<1>2. /\ Done(e) /\ \A k \in 1 .. i - 1 : P[k].kind = "nop"
      /\ e.kind = "store" => senior[t] = {}
      /\ error' = error
      /\ senior' = [senior EXCEPT ![t] = IF e.kind # "store" \/ e.wrote THEN senior[t]
                                         ELSE {[uid |-> e.uid, spec |-> e.spec]}]
      /\ committed' \in [Threads -> Nat] /\ ended' \in [Threads -> BOOLEAN]
      /\ lastTest' = [lastTest EXCEPT ![t] = IF e.kind \in Tests THEN e.found ELSE lastTest[t]]
      /\ UNCHANGED <<cell, memopMap, iteration, status, needJump, wrongPath, fetchPc, owner,
                     traps, holds>>
  BY <1>1, CommitDoes
<1>3. PICK base \in {0, e.uid} :
        /\ pipe' = [pipe EXCEPT ![t] = Recount(SubSeq(P, i + 1, Len(P)), base)]
        /\ issued' = [issued EXCEPT ![t] = Recount(SubSeq(Q, i + 1, Len(Q)), base)]
  BY <1>1, CommitDoes
<1>4. PICK R, S : /\ R = Recount(SubSeq(P, i + 1, Len(P)), base)
                  /\ S = Recount(SubSeq(Q, i + 1, Len(Q)), base)
  OBVIOUS
<1>5. /\ e.kind \in Tests \cup Branches \cup {"store"} /\ e.kind # "junk"
      /\ i = 1 \/ (i = 2 /\ P[1].pc = 2)
      /\ e.kind = "cmpxchg" => e.wrote
  BY <1>1, <1>2, CommitIs
<1>6. R \in Seq(Entries) /\ Shifts(P, R, i, base) /\ S \in Seq(Issues) /\ Shifts(Q, S, i, base)
  BY <1>1, <1>4, <1>5, CommitShifts
<1>7. /\ P \in Seq(Entries) /\ Q \in Seq(Issues) /\ Flow(P, f)
      /\ Len(P) \in Nat /\ Len(Q) \in Nat /\ DOMAIN P = 1 .. Len(P)
      /\ Sound(P, Q, f, iteration[t], status[t], lastTest[t])
      /\ Standing(P, f, senior[t], holds[t], lastTest[t])
      /\ Tidy(P, Q, f, wrongPath[t]) /\ wrongPath[t] \in Nat
      /\ needJump[t] <=> (Len(P) = 0 /\ f = 0)
      /\ t \in owner <=> Reserving(P)
      /\ \A x, y \in senior[t] : x = y
  BY <1>1, Facts
<1>8. i \in 1 .. Len(P) /\ i \in Nat /\ i >= 1 /\ i <= Len(P) /\ e.uid \in Nat /\ e.uid \in Uids
      /\ e \in Entries /\ e.kind = KindAt(e.pc) /\ e.pc \in Pcs
  <2>1. e \in Entries
    BY <1>1, InFlight
  <2> QED
    BY <2>1, <1>1, InFlight DEF Entries
<1>9. base \in Nat
  BY <1>8
<1>10. PICK lt : lt = IF e.kind \in Tests THEN e.found ELSE lastTest[t]
  OBVIOUS
<1>11. Sound(R, S, f, iteration[t], status[t], lt)
  <2>1. Sound(R, S, f, iteration[t], status[t], IF P[i].kind \in Tests THEN P[i].found ELSE lastTest[t])
    <3>1. P[i].kind # "junk" /\ \A k \in 1 .. i - 1 : P[k].kind = "nop"
      BY <1>1, <1>2, <1>5
    <3> QED
      BY <3>1, <1>6, <1>7, <1>8, <1>9, SoundShift
  <2> QED
    BY <2>1, <1>1, <1>10
<1>12. Len(R) = Len(P) - i /\ Len(S) = Len(Q) - i /\ Len(R) \in Nat
  BY <1>6, <1>7, <1>8 DEF Shifts
<1>13. ASSUME Len(R) # 0
       PROVE  /\ R[1].pc = P[i + 1].pc /\ P[i + 1].pc = e.next /\ ~OnlyFirst(R[1])
              /\ R[1].kind = P[i + 1].kind /\ R[1].kind = KindAt(R[1].pc)
  <2>1. 1 \in 1 .. Len(P) - i /\ i + 1 \in 2 .. Len(P) /\ i + 1 \in 1 .. Len(P)
    BY <1>7, <1>8, <1>12, <1>13
  <2>2. R[1] = [P[1 + i] EXCEPT !.uid = @ - base]
    BY <2>1, <1>6 DEF Shifts
  <2>3. 1 + i = i + 1
    BY <1>8
  <2>4. P[i + 1] \in Entries
    BY <2>1, <1>7, Entry
  <2>5. /\ R[1].pc = P[i + 1].pc /\ R[1].kind = P[i + 1].kind /\ R[1].found = P[i + 1].found
        /\ R[1].wrote = P[i + 1].wrote
    BY <2>2, <2>3, <2>4 DEF Entries
  <2>6. \A k \in 2 .. Len(P) : P[k].pc = P[k - 1].next /\ ~OnlyFirst(P[k])
    BY <1>7 DEF Flow
  <2>7. P[i + 1].pc = P[i].next /\ ~OnlyFirst(P[i + 1])
    <3>1. PICK k \in 2 .. Len(P) : k = i + 1
      BY <2>1
    <3>2. k - 1 = i
      BY <3>1, <1>8
    <3>3. P[k].pc = P[i].next /\ ~OnlyFirst(P[k])
      BY <3>2, <2>6
    <3> QED
      BY <3>1, <3>3
  <2>8. P[i + 1].kind = KindAt(P[i + 1].pc)
    BY <2>1, <1>7, KindsOf
  <2> QED
    BY <2>5, <2>7, <2>8, <1>1 DEF OnlyFirst
<1>14. HeadPc(R, f) = e.next
  <2>1. CASE Len(R) = 0
    <3>1. Len(P) = i /\ Len(P) # 0
      BY <2>1, <1>8, <1>12
    <3>2. f = P[i].next
      BY <3>1, <1>7 DEF Flow
    <3> QED
      BY <2>1, <3>2, <1>1 DEF HeadPc
  <2>2. CASE Len(R) # 0
    BY <2>2, <1>13 DEF HeadPc
  <2> QED
    BY <2>1, <2>2
<1>15. ~HeadWrote(R) /\ (e.next = 4 => ~HeadFound(R)) /\ ~Reserving(R)
  <2>1. CASE Len(R) = 0
    BY <2>1 DEF HeadWrote, HeadFound, Reserving
  <2>2. CASE Len(R) # 0
    <3>1. e.next = 4 => R[1].kind = "cmpxchg"
      BY <2>2, <1>13, RoutineIs
    <3> QED
      BY <2>2, <3>1, <1>13 DEF HeadWrote, HeadFound, Reserving, OnlyFirst
  <2> QED
    BY <2>1, <2>2
<1>16. PICK s : s = IF e.kind # "store" \/ e.wrote THEN senior[t]
                    ELSE {[uid |-> e.uid, spec |-> e.spec]}
  OBVIOUS
<1>17. /\ s # {} <=> (senior[t] # {} \/ (e.kind = "store" /\ ~e.wrote))
       /\ \A x, y \in s : x = y
       /\ s \in SUBSET Seniors
  <2>1. CASE e.kind # "store" \/ e.wrote
    <3>1. s = senior[t] /\ senior[t] \in SUBSET Seniors
      BY <2>1, <1>16, Facts
    <3> QED
      BY <2>1, <3>1, <1>7
  <2>2. CASE ~(e.kind # "store" \/ e.wrote)
    <3>1. s = {[uid |-> e.uid, spec |-> e.spec]} /\ e.spec \in BOOLEAN
      BY <2>2, <1>8, <1>16 DEF Entries
    <3> QED
      BY <2>2, <3>1, <1>8 DEF Seniors
  <2> QED
    BY <2>1, <2>2
<1>18. Standing(R, f, s, holds[t], lt)
  BY <1>1, <1>2, <1>10, <1>14, <1>15, <1>17, StandingNext
<1>19. ~Reserving(P)
  <2>1. SUFFICES ASSUME Reserving(P) PROVE FALSE
    OBVIOUS
  <2>2. CASE i = 1
    BY <2>1, <2>2, <1>1, <1>5 DEF Reserving
  <2>3. CASE i = 2
    <3>1. 1 \in 1 .. i - 1
      BY <2>3
    <3>2. P[1].kind = "nop"
      BY <3>1, <1>2
    <3> QED
      BY <2>1, <3>2 DEF Reserving
  <2> QED
    BY <2>2, <2>3, <1>5
<1>20. Tidy(R, S, f, wrongPath[t])
  <2>1. Len(R) - Len(S) = Len(P) - Len(Q)
    BY <1>7, <1>8, <1>12
  <2> QED
    BY <2>1, <1>7 DEF Tidy
<1>21. ~(Len(R) = 0 /\ f = 0) /\ ~needJump[t]
  <2>1. f # 0
    <3>1. Len(P) \in 1 .. Len(P) /\ Len(P) # 0
      BY <1>7, <1>8
    <3>2. f = P[Len(P)].next
      BY <3>1, <1>7 DEF Flow
    <3> QED
      BY <3>1, <3>2, <1>7, KindsOf, GoesOn
  <2> QED
    BY <2>1, <1>7
<1>22. /\ pipe' = [pipe EXCEPT ![t] = R] /\ issued' = [issued EXCEPT ![t] = S]
       /\ senior' = [senior EXCEPT ![t] = s] /\ lastTest' = [lastTest EXCEPT ![t] = lt]
  BY <1>2, <1>3, <1>4, <1>10, <1>16
<1>23. /\ pipe \in [Threads -> Seq(Entries)] /\ issued \in [Threads -> Seq(Issues)]
       /\ senior \in [Threads -> SUBSET Seniors] /\ lastTest \in [Threads -> Statuses]
  BY DEF Sane, FeederType, ModelType
<1>24. lt \in Statuses
  BY <1>8, <1>10, Facts DEF Entries
<1>25. /\ pipe' \in [Threads -> Seq(Entries)] /\ issued' \in [Threads -> Seq(Issues)]
       /\ senior' \in [Threads -> SUBSET Seniors] /\ lastTest' \in [Threads -> Statuses]
  BY <1>6, <1>17, <1>22, <1>23, <1>24
<1>26. pipe'[t] = R /\ issued'[t] = S /\ senior'[t] = s /\ lastTest'[t] = lt
  BY <1>22, <1>23
<1>27. \A u \in Threads : u # t => Steady(u)
  BY <1>2, <1>22, <1>23 DEF Steady
<1>28. ThreadInv(t)'
  <2>1. t \in owner' <=> Reserving(pipe'[t])
    BY <1>2, <1>7, <1>15, <1>19, <1>26
  <2>2. needJump'[t] <=> (Len(pipe'[t]) = 0 /\ fetchPc'[t] = 0)
    BY <1>1, <1>2, <1>21, <1>26
  <2>3. \A x, y \in senior'[t] : x = y
    BY <1>17, <1>26
  <2>4. Sound(pipe'[t], issued'[t], fetchPc'[t], iteration'[t], status'[t], lastTest'[t])
    BY <1>1, <1>2, <1>11, <1>26
  <2>5. Standing(pipe'[t], fetchPc'[t], senior'[t], holds'[t], lastTest'[t])
    BY <1>1, <1>2, <1>18, <1>26
  <2>6. Tidy(pipe'[t], issued'[t], fetchPc'[t], wrongPath'[t])
    BY <1>1, <1>2, <1>20, <1>26
  <2> QED
    BY <2>1, <2>2, <2>3, <2>4, <2>5, <2>6 DEF ThreadInv
<1>29. CellType' /\ FeederType' /\ ModelType' /\ ErrorType'
  BY <1>2, <1>25 DEF Sane, CellType, FeederType, ModelType, ErrorType
<1> QED
  BY <1>27, <1>28, <1>29, Framed

-----------------------------------------------------------------------------
(* Kill.                                                                   *)

LEMMA KillDoes ==
    ASSUME Sane, NEW t \in Threads, NEW i \in DOMAIN pipe[t], pipe[t][i].kind # "junk",
           NEW uid, uid = pipe[t][i].uid,
           NEW killMe \in BOOLEAN, NEW r, r = IF killMe THEN i - 1 ELSE i, Kill(t, uid, killMe)
    PROVE  /\ cell' = cell /\ error' = error
           /\ r \in 0 .. Len(issued[t])
           /\ IterationAt(issued[t], iteration[t], r) \in 0 .. History - 1
           /\ iteration' = [iteration EXCEPT ![t] = IterationAt(issued[t], iteration[t], r)]
           /\ issued' = [issued EXCEPT ![t] = SubSeq(issued[t], 1, r)]
<1>1. PICK P, Q : P = pipe[t] /\ Q = issued[t]
  OBVIOUS
<1>2. /\ P \in Seq(Entries) /\ Q \in Seq(Issues) /\ Flow(P, fetchPc[t]) /\ Vouched(P, Q)
      /\ Len(P) \in Nat /\ Len(Q) \in Nat /\ Len(Q) <= Len(P) /\ DOMAIN Q = 1 .. Len(Q)
      /\ Sound(P, Q, fetchPc[t], iteration[t], status[t], lastTest[t])
  BY <1>1, Facts
<1>3. i \in 1 .. Len(P) /\ i \in 1 .. Len(Q) /\ i \in Nat /\ uid \in Nat /\ Q[i].uid = uid
  BY <1>1, InFlight
<1>4. r \in 0 .. Len(Q) /\ r \in Nat
  BY <1>2, <1>3
<1>5. ASSUME NEW k \in 1 .. Len(Q), NEW j \in 1 .. k - 1
      PROVE  Q[k].uid \in Nat /\ Q[j].uid \in Nat /\ Q[j].uid < Q[k].uid
  <2>1. k \in 1 .. Len(P) /\ k <= Len(Q) /\ j \in 1 .. Len(P) /\ j <= Len(Q)
    BY <1>2
  <2>2. P[j].uid < P[k].uid
    BY <2>1, <1>2 DEF Flow
  <2>3. Q[j].uid = P[j].uid /\ Q[k].uid = P[k].uid
    BY <2>1, <1>2 DEF Vouched
  <2>4. P[j].uid \in Nat /\ P[k].uid \in Nat
    BY <2>1, <1>2, Entry
  <2> QED
    BY <2>2, <2>3, <2>4
<1>6. PICK gone : gone = Squashed(t, uid, killMe)
  OBVIOUS
<1>7. gone = {s \in Range(Q) : s.uid > uid \/ (killMe /\ s.uid = uid)}
  BY <1>1, <1>6 DEF Squashed
<1>8. ASSUME NEW k \in 1 .. Len(Q)
      PROVE  (Q[k].uid > uid \/ (killMe /\ Q[k].uid = uid)) <=> k \in r + 1 .. Len(Q)
  <2>0. k \in Nat /\ Q[k].uid \in Nat
    BY <1>2, Issued
  <2>1. CASE k < i
    <3>1. k \in 1 .. i - 1
      BY <2>0, <2>1, <1>3
    <3>2. Q[k].uid < uid
      BY <3>1, <1>3, <1>5
    <3>3. ~(k \in r + 1 .. Len(Q))
      BY <2>0, <2>1, <1>3, <1>4
    <3> QED
      BY <3>2, <3>3, <2>0, <1>3
  <2>2. CASE k = i
    <3>1. k \in r + 1 .. Len(Q) <=> killMe
      BY <2>2, <1>2, <1>3, <1>4
    <3> QED
      BY <3>1, <2>2, <1>3
  <2>3. CASE k > i
    <3>1. i \in 1 .. k - 1
      BY <2>0, <2>3, <1>3
    <3>2. uid < Q[k].uid
      BY <3>1, <1>3, <1>5
    <3>3. k \in r + 1 .. Len(Q)
      BY <2>0, <2>3, <1>2, <1>3, <1>4
    <3> QED
      BY <3>2, <3>3, <2>0, <1>3
  <2> QED
    BY <2>0, <2>1, <2>2, <2>3, <1>3
<1>9. Range(Q) = {Q[k] : k \in 1 .. Len(Q)}
  BY <1>2 DEF Range
<1>10. ASSUME NEW k \in 1 .. Len(Q) PROVE Q[k] \in gone <=> k \in r + 1 .. Len(Q)
  BY <1>7, <1>8, <1>9
<1>11. {s.iter : s \in {x \in gone : x.kind \in Tests}} = TestsBehind(Q, r)
  <2>1. ASSUME NEW s \in gone, s.kind \in Tests PROVE s.iter \in TestsBehind(Q, r)
    <3>1. PICK k \in 1 .. Len(Q) : s = Q[k]
      BY <1>7, <1>9
    <3>2. k \in r + 1 .. Len(Q)
      BY <3>1, <2>1, <1>10
    <3> QED
      BY <3>1, <3>2, <2>1 DEF TestsBehind
  <2>2. ASSUME NEW k \in r + 1 .. Len(Q), Q[k].kind \in Tests
        PROVE  Q[k] \in gone
    <3>1. k \in 1 .. Len(Q)
      BY <1>4
    <3> QED
      BY <3>1, <1>10
  <2> QED
    BY <2>1, <2>2 DEF TestsBehind
<1>12. PICK n : n = IterationAt(Q, iteration[t], r)
  OBVIOUS
<1>13. n \in 0 .. History - 1 /\ n \in Nat
  <2>1. PICK lev : Levels(Q, iteration[t], lev)
    BY <1>2 DEF Sound
  <2>2. lev[r] = IF TestsBehind(Q, r) = {} THEN iteration[t] ELSE Min(TestsBehind(Q, r)) - 1
    BY <2>1, <1>2, <1>4, LevelBefore
  <2>3. n = lev[r]
    BY <2>2, <1>12 DEF IterationAt
  <2>4. lev[r] \in 0 .. History - 1 /\ lev[r] \in Nat
    BY <2>1, <1>2, <1>4, LevelsAre
  <2> QED
    BY <2>3, <2>4
<1>14. NewIteration(t, uid, killMe) = n
  <2>1. {s.iter : s \in {x \in Squashed(t, uid, killMe) : x.kind \in Tests}} = TestsBehind(Q, r)
    BY <1>6, <1>11
  <2> QED
    BY <2>1, <1>1, <1>12 DEF NewIteration, IterationAt
<1>15. Max({0, n}) = n
  <2>1. {0, n} \subseteq Nat /\ {0, n} # {} /\ \A x \in {0, n} : x <= n
    BY <1>13
  <2>2. Max({0, n}) \in {0, n} /\ \A y \in {0, n} : y <= Max({0, n})
    BY <2>1, <1>13, MaxIs
  <2>3. n <= Max({0, n})
    BY <2>2
  <2> QED
    BY <2>2, <2>3, <1>13
<1>16. Popped(Q, gone) = SubSeq(Q, 1, r)
  <2>1. PICK T : T = {0} \cup {k \in DOMAIN Q : Q[k] \notin gone}
    OBVIOUS
  <2>2. T = 0 .. r
    <3>1. ASSUME NEW k \in 0 .. r PROVE k \in T
      <4>1. CASE k = 0
        BY <4>1, <2>1
      <4>2. CASE k # 0
        <5>1. k \in 1 .. Len(Q) /\ ~(k \in r + 1 .. Len(Q))
          BY <4>2, <1>2, <1>4
        <5> QED
          BY <5>1, <2>1, <1>2, <1>10
      <4> QED
        BY <4>1, <4>2
    <3>2. ASSUME NEW k \in T PROVE k \in 0 .. r
      <4>1. CASE k = 0
        BY <4>1, <1>4
      <4>2. CASE k # 0
        <5>1. k \in 1 .. Len(Q) /\ Q[k] \notin gone
          BY <4>2, <2>1, <1>2
        <5>2. ~(k \in r + 1 .. Len(Q))
          BY <5>1, <1>10
        <5> QED
          BY <5>1, <5>2, <1>2, <1>4
      <4> QED
        BY <4>1, <4>2
    <3> QED
      BY <3>1, <3>2
  <2>3. T \subseteq Nat /\ T # {} /\ \A x \in T : x <= r
    BY <2>2, <1>4
  <2>4. Max(T) \in T /\ \A y \in T : y <= Max(T)
    BY <2>3, <1>4, MaxIs
  <2>5. r \in T
    BY <2>2, <1>4
  <2>6. Max(T) = r
    BY <2>2, <2>4, <2>5, <1>4
  <2> QED
    BY <2>1, <2>6 DEF Popped
<1>17. ~Emptied(t, uid)
  <2>1. Q[i] \in Range(Q) /\ ~(Q[i].uid > uid)
    BY <1>3, <1>9
  <2> QED
    BY <2>1, <1>1 DEF Emptied
<1>18. /\ cell' = [cell EXCEPT !.local[t] = Without(@, {s.uid : s \in gone} \cap memopMap[t])]
       /\ iteration' = [iteration EXCEPT ![t] = n]
       /\ issued' = [issued EXCEPT ![t] = SubSeq(Q, 1, r)]
       /\ error' = error
  <2>1. ~(n < 0)
    BY <1>13
  <2> QED
    BY <2>1, <1>1, <1>6, <1>14, <1>15, <1>16, <1>17 DEF Kill
<1>19. cell' = cell
  <2>1. {s.uid : s \in gone} \cap memopMap[t] \subseteq memopMap[t]
    OBVIOUS
  <2> QED
    BY <2>1, <1>18, NothingKilled
<1> QED
  BY <1>1, <1>4, <1>12, <1>13, <1>18, <1>19

LEMMA ResteerSane ==
    ASSUME Sane, NEW t \in Threads, NEW i \in DOMAIN pipe[t], Resteer(t, i)
    PROVE  Sane'
<1>1. PICK P, Q, e, f : P = pipe[t] /\ Q = issued[t] /\ e = pipe[t][i] /\ f = fetchPc[t]
  OBVIOUS
<1>2. PICK x, R, S : /\ x = [e EXCEPT !.next = e.actual]
                     /\ R = Append(SubSeq(P, 1, i - 1), x)
                     /\ S = SubSeq(Q, 1, i)
  OBVIOUS
<1>3. /\ e.actual \notin {NoPc, e.next} /\ Kill(t, e.uid, FALSE)
      /\ pipe' = [pipe EXCEPT ![t] = R]
      /\ fetchPc' = [fetchPc EXCEPT ![t] = e.actual]
      /\ UNCHANGED <<memopMap, status, needJump, wrongPath, committed, ended, senior, owner,
                     traps, lastTest, holds>>
  BY <1>1, <1>2 DEF Resteer
<1>4. /\ P \in Seq(Entries) /\ Q \in Seq(Issues) /\ Flow(P, f)
      /\ Len(P) \in Nat /\ Len(Q) \in Nat /\ DOMAIN P = 1 .. Len(P)
      /\ Sound(P, Q, f, iteration[t], status[t], lastTest[t])
      /\ Standing(P, f, senior[t], holds[t], lastTest[t])
      /\ needJump[t] <=> (Len(P) = 0 /\ f = 0)
      /\ t \in owner <=> Reserving(P)
      /\ \A y, z \in senior[t] : y = z
  BY <1>1, Facts
<1>5. /\ i \in 1 .. Len(P) /\ i \in Nat /\ i >= 1 /\ i <= Len(P) /\ e \in Entries /\ Proper(e)
      /\ e.kind = KindAt(e.pc) /\ e.pc \in Pcs
  BY <1>1, InFlight
<1>6. e.kind \in Branches /\ e.actual \in Pcs
  BY <1>3, <1>5 DEF Proper, Entries
<1>7. e.kind # "junk"
  BY <1>6 DEF Branches
<1>8. e.kind = "cbranch" => e.pc = 3 \/ e.pc = 5
  BY <1>5, AddressOf
<1>9. e.actual = 1 \/ (e.kind = "cbranch" /\ e.actual = e.pc + 1)
  <2>1. Start = 1
    BY RoutineIs
  <2> QED
    BY <2>1, <1>3, <1>5 DEF Proper
<1>10. e.actual # Outside /\ e.actual # 0
  <2>1. Outside = 8
    BY RoutineIs
  <2> QED
    BY <2>1, <1>8, <1>9
<1>11. e.actual \in Predictions(e.kind, e.pc)
  <2>1. CASE e.kind = "jump"
    BY <2>1, <1>9, RoutineIs DEF Predictions
  <2>2. CASE e.kind # "jump"
    <3>1. Predictions(e.kind, e.pc) = {Start, e.pc + 1}
      BY <2>2, <1>6 DEF Predictions
    <3> QED
      BY <3>1, <1>9, RoutineIs
  <2> QED
    BY <2>1, <2>2
<1>12. x \in Entries
  BY <1>2, <1>5, <1>6 DEF Entries
<1>13. /\ x.uid = e.uid /\ x.pc = e.pc /\ x.kind = e.kind /\ x.next = e.actual
       /\ x.actual = e.actual /\ x.found = e.found /\ x.spec = e.spec /\ x.wrote = e.wrote
  BY <1>2, <1>5 DEF Entries
<1>14. Proper(x)
  BY <1>5, <1>11, <1>13 DEF Proper
<1>15. /\ cell' = cell /\ error' = error /\ i \in 0 .. Len(Q)
       /\ IterationAt(Q, iteration[t], i) \in 0 .. History - 1
       /\ iteration' = [iteration EXCEPT ![t] = IterationAt(Q, iteration[t], i)]
       /\ issued' = [issued EXCEPT ![t] = S]
  <2>1. PICK killMe \in BOOLEAN : killMe = FALSE
    OBVIOUS
  <2>2. i = (IF killMe THEN i - 1 ELSE i) /\ Kill(t, e.uid, killMe)
    BY <2>1, <1>3
  <2>3. pipe[t][i].kind # "junk" /\ e.uid = pipe[t][i].uid
    BY <1>1, <1>7
  <2>4. /\ cell' = cell /\ error' = error
        /\ i \in 0 .. Len(issued[t])
        /\ IterationAt(issued[t], iteration[t], i) \in 0 .. History - 1
        /\ iteration' = [iteration EXCEPT ![t] = IterationAt(issued[t], iteration[t], i)]
        /\ issued' = [issued EXCEPT ![t] = SubSeq(issued[t], 1, i)]
    BY <2>2, <2>3, KillDoes
  <2> QED
    BY <2>4, <1>1, <1>2
<1>16. /\ R \in Seq(Entries) /\ Len(R) = i /\ R[i] = x
       /\ \A k \in 1 .. i - 1 : R[k] = P[k]
  <2>1. PICK p : p = SubSeq(P, 1, i - 1)
    OBVIOUS
  <2>2. 1 \in 1 .. Len(P) + 1 /\ i - 1 \in 0 .. Len(P) /\ 1 <= i - 1 + 1
    BY <1>4, <1>5
  <2>3. /\ p \in Seq(Entries) /\ Len(p) = i - 1 - 1 + 1
        /\ \A k \in 1 .. i - 1 - 1 + 1 : p[k] = P[1 + k - 1]
    BY <2>1, <2>2, <1>4, PartOf
  <2>4. Len(p) = i - 1 /\ \A k \in 1 .. i - 1 : p[k] = P[k]
    BY <2>3, <1>5
  <2>5. /\ Append(p, x) \in Seq(Entries) /\ Len(Append(p, x)) = Len(p) + 1
        /\ \A k \in 1 .. Len(p) : Append(p, x)[k] = p[k]
        /\ Append(p, x)[Len(p) + 1] = x
    BY <2>3, <1>12, Extended
  <2>6. R = Append(p, x) /\ i - 1 + 1 = i
    BY <2>1, <1>2, <1>5
  <2> QED
    BY <2>4, <2>5, <2>6
<1>17. S \in Seq(Issues) /\ Len(S) = i /\ \A k \in 1 .. i : S[k] = Q[k]
  <2>1. 1 \in 1 .. Len(Q) + 1 /\ i \in 0 .. Len(Q) /\ 1 <= i + 1
    BY <1>4, <1>5, <1>15
  <2>2. /\ S \in Seq(Issues) /\ Len(S) = i - 1 + 1
        /\ \A k \in 1 .. i - 1 + 1 : S[k] = Q[1 + k - 1]
    BY <2>1, <1>2, <1>4, PartOf
  <2> QED
    BY <2>2, <1>5
<1>18. PICK n : n = IterationAt(Q, iteration[t], i)
  OBVIOUS
<1>19. Sound(R, S, e.actual, n, status[t], lastTest[t])
  <2>1. PICK r, h : r = i /\ h = e.actual
    OBVIOUS
  <2>2. (r # 0 => Redirected(R[r], P[r])) /\ (r # 0 => h = R[r].next)
    BY <2>1, <1>1, <1>13, <1>14, <1>16 DEF Redirected
  <2>3. /\ P \in Seq(Entries) /\ Q \in Seq(Issues) /\ r \in 0 .. Len(Q)
        /\ Sound(P, Q, f, iteration[t], status[t], lastTest[t])
    BY <2>1, <1>4, <1>15
  <2>4. R \in Seq(Entries) /\ Len(R) = r /\ \A k \in 1 .. r - 1 : R[k] = P[k]
    BY <2>1, <1>16
  <2>5. S \in Seq(Issues) /\ Len(S) = r /\ \A k \in 1 .. r : S[k] = Q[k]
    BY <2>1, <1>17
  <2>6. n = IterationAt(Q, iteration[t], r)
    BY <2>1, <1>18
  <2>7. Sound(R, S, h, n, status[t], lastTest[t])
    BY <2>2, <2>3, <2>4, <2>5, <2>6, SoundCut
  <2> QED
    BY <2>1, <2>7
<1>20. Len(R) # 0 /\ Len(P) # 0
  BY <1>4, <1>5, <1>16
<1>21. /\ R[1].pc = P[1].pc /\ R[1].found = P[1].found /\ R[1].wrote = P[1].wrote
       /\ R[1].kind = P[1].kind
  <2>1. CASE i = 1
    BY <2>1, <1>1, <1>13, <1>16
  <2>2. CASE i # 1
    <3>1. 1 \in 1 .. i - 1
      BY <2>2, <1>5
    <3> QED
      BY <3>1, <1>16
  <2> QED
    BY <2>1, <2>2
<1>22. /\ HeadPc(R, e.actual) = HeadPc(P, f) /\ (HeadFound(R) <=> HeadFound(P))
       /\ (HeadWrote(R) <=> HeadWrote(P)) /\ (HeadWrote(P) => R[1].found = P[1].found)
       /\ (Reserving(R) <=> Reserving(P))
  BY <1>20, <1>21 DEF HeadPc, HeadFound, HeadWrote, Reserving
<1>23. Standing(R, e.actual, senior[t], holds[t], lastTest[t])
  BY <1>4, <1>22, StandingSame
<1>24. /\ pipe \in [Threads -> Seq(Entries)] /\ issued \in [Threads -> Seq(Issues)]
       /\ fetchPc \in [Threads -> Pcs] /\ iteration \in [Threads -> 0 .. History - 1]
  BY DEF Sane, FeederType, ModelType
<1>25. /\ pipe' \in [Threads -> Seq(Entries)] /\ issued' \in [Threads -> Seq(Issues)]
       /\ fetchPc' \in [Threads -> Pcs] /\ iteration' \in [Threads -> 0 .. History - 1]
  BY <1>3, <1>6, <1>15, <1>16, <1>17, <1>24
<1>26. pipe'[t] = R /\ issued'[t] = S /\ fetchPc'[t] = e.actual /\ iteration'[t] = n
  BY <1>3, <1>15, <1>18, <1>24
<1>27. \A u \in Threads : u # t => Steady(u)
  BY <1>3, <1>15, <1>24 DEF Steady
<1>28. ThreadInv(t)'
  <2>1. t \in owner' <=> Reserving(pipe'[t])
    BY <1>3, <1>4, <1>22, <1>26
  <2>2. needJump'[t] <=> (Len(pipe'[t]) = 0 /\ fetchPc'[t] = 0)
    BY <1>3, <1>4, <1>20, <1>26
  <2>3. \A y, z \in senior'[t] : y = z
    BY <1>3, <1>4
  <2>4. Sound(pipe'[t], issued'[t], fetchPc'[t], iteration'[t], status'[t], lastTest'[t])
    BY <1>3, <1>19, <1>26
  <2>5. Standing(pipe'[t], fetchPc'[t], senior'[t], holds'[t], lastTest'[t])
    BY <1>3, <1>23, <1>26
  <2>6. Tidy(pipe'[t], issued'[t], fetchPc'[t], wrongPath'[t])
    BY <1>10, <1>26 DEF Tidy
  <2> QED
    BY <2>1, <2>2, <2>3, <2>4, <2>5, <2>6 DEF ThreadInv
<1>29. CellType' /\ FeederType' /\ ModelType' /\ ErrorType'
  BY <1>3, <1>15, <1>25 DEF Sane, CellType, FeederType, ModelType, ErrorType
<1> QED
  BY <1>27, <1>28, <1>29, Framed

LEMMA TrapSane ==
    ASSUME Sane, NEW t \in Threads, NEW i \in DOMAIN pipe[t], Trap(t, i)
    PROVE  Sane'
<1>1. PICK P, Q, e, f : P = pipe[t] /\ Q = issued[t] /\ e = pipe[t][i] /\ f = fetchPc[t]
  OBVIOUS
<1>2. PICK R, S, r : /\ r = i - 1 /\ R = SubSeq(P, 1, r) /\ S = SubSeq(Q, 1, r)
  OBVIOUS
<1>3. /\ traps < MaxTraps /\ e.kind \in Tests \cup {"store"} /\ ~e.wrote
      /\ Kill(t, e.uid, TRUE)
      /\ pipe' = [pipe EXCEPT ![t] = R]
      /\ fetchPc' = [fetchPc EXCEPT ![t] = e.pc]
      /\ traps' = traps + 1
      /\ owner' = IF i = 1 THEN owner \ {t} ELSE owner
      /\ UNCHANGED <<memopMap, status, needJump, wrongPath, committed, ended, senior,
                     lastTest, holds>>
  <2>1. i \in i .. Len(pipe[t])
    BY InFlight
  <2> QED
    BY <2>1, <1>1, <1>2 DEF Trap
<1>4. /\ P \in Seq(Entries) /\ Q \in Seq(Issues) /\ Flow(P, f)
      /\ Len(P) \in Nat /\ Len(Q) \in Nat /\ DOMAIN P = 1 .. Len(P)
      /\ Sound(P, Q, f, iteration[t], status[t], lastTest[t])
      /\ Standing(P, f, senior[t], holds[t], lastTest[t])
      /\ needJump[t] <=> (Len(P) = 0 /\ f = 0)
      /\ t \in owner <=> Reserving(P)
      /\ \A y, z \in senior[t] : y = z
  BY <1>1, Facts
<1>5. /\ i \in 1 .. Len(P) /\ i \in Nat /\ i >= 1 /\ i <= Len(P) /\ e \in Entries /\ Proper(e)
      /\ e.kind = KindAt(e.pc) /\ e.pc \in Pcs
  BY <1>1, InFlight
<1>6. e.kind # "junk"
  BY <1>3 DEF Tests
<1>7. e.pc = 1 \/ e.pc = 4 \/ e.pc = 6
  <2>1. e.kind \in Tests \/ e.kind = "store"
    BY <1>3
  <2> QED
    BY <2>1, <1>5, AddressOf
<1>8. e.pc # Outside /\ e.pc # 0
  BY <1>7, RoutineIs
<1>9. /\ cell' = cell /\ error' = error /\ r \in 0 .. Len(Q)
      /\ IterationAt(Q, iteration[t], r) \in 0 .. History - 1
      /\ iteration' = [iteration EXCEPT ![t] = IterationAt(Q, iteration[t], r)]
      /\ issued' = [issued EXCEPT ![t] = S]
  <2>1. PICK killMe \in BOOLEAN : killMe = TRUE
    OBVIOUS
  <2>2. r = (IF killMe THEN i - 1 ELSE i) /\ Kill(t, e.uid, killMe)
    BY <2>1, <1>2, <1>3
  <2>3. pipe[t][i].kind # "junk" /\ e.uid = pipe[t][i].uid
    BY <1>1, <1>6
  <2>4. /\ cell' = cell /\ error' = error
        /\ r \in 0 .. Len(issued[t])
        /\ IterationAt(issued[t], iteration[t], r) \in 0 .. History - 1
        /\ iteration' = [iteration EXCEPT ![t] = IterationAt(issued[t], iteration[t], r)]
        /\ issued' = [issued EXCEPT ![t] = SubSeq(issued[t], 1, r)]
    BY <2>2, <2>3, KillDoes
  <2> QED
    BY <2>4, <1>1, <1>2
<1>10. r \in Nat /\ r < Len(P) /\ r + 1 = i
  BY <1>2, <1>4, <1>5
<1>11. /\ R \in Seq(Entries) /\ Len(R) = r /\ \A k \in 1 .. r : R[k] = P[k]
  <2>1. 1 \in 1 .. Len(P) + 1 /\ r \in 0 .. Len(P) /\ 1 <= r + 1
    BY <1>4, <1>10
  <2>2. /\ R \in Seq(Entries) /\ Len(R) = r - 1 + 1
        /\ \A k \in 1 .. r - 1 + 1 : R[k] = P[1 + k - 1]
    BY <2>1, <1>2, <1>4, PartOf
  <2> QED
    BY <2>2, <1>10
<1>12. S \in Seq(Issues) /\ Len(S) = r /\ \A k \in 1 .. r : S[k] = Q[k]
  <2>1. 1 \in 1 .. Len(Q) + 1 /\ r \in 0 .. Len(Q) /\ 1 <= r + 1
    BY <1>4, <1>9, <1>10
  <2>2. /\ S \in Seq(Issues) /\ Len(S) = r - 1 + 1
        /\ \A k \in 1 .. r - 1 + 1 : S[k] = Q[1 + k - 1]
    BY <2>1, <1>2, <1>4, PartOf
  <2> QED
    BY <2>2, <1>10
<1>13. PICK n : n = IterationAt(Q, iteration[t], r)
  OBVIOUS
<1>14. Sound(R, S, e.pc, n, status[t], lastTest[t])
  <2>1. ASSUME r # 0 PROVE Redirected(R[r], P[r]) /\ e.pc = R[r].next
    <3>1. r \in 1 .. r /\ r \in 1 .. Len(P) /\ i \in 2 .. Len(P) /\ i - 1 = r
      BY <2>1, <1>5, <1>10
    <3>2. R[r] = P[r] /\ Proper(P[r])
      BY <3>1, <1>4, <1>11 DEF Flow
    <3>3. P[i].pc = P[i - 1].next
      BY <3>1, <1>4 DEF Flow
    <3> QED
      BY <3>1, <3>2, <3>3, <1>1 DEF Redirected
  <2>3. (r # 0 => Redirected(R[r], P[r])) /\ (r # 0 => e.pc = R[r].next)
    BY <2>1
  <2>4. /\ P \in Seq(Entries) /\ Q \in Seq(Issues) /\ r \in 0 .. Len(Q)
        /\ Sound(P, Q, f, iteration[t], status[t], lastTest[t])
    BY <1>4, <1>9
  <2>5. R \in Seq(Entries) /\ Len(R) = r /\ \A k \in 1 .. r - 1 : R[k] = P[k]
    BY <1>10, <1>11
  <2>6. PICK h, it, st, lt : h = e.pc /\ it = iteration[t] /\ st = status[t] /\ lt = lastTest[t]
    OBVIOUS
  <2>7. Sound(P, Q, f, it, st, lt) /\ r \in 0 .. Len(Q) /\ n = IterationAt(Q, it, r)
    BY <2>4, <2>6, <1>13
  <2>8. (r # 0 => Redirected(R[r], P[r])) /\ (r # 0 => h = R[r].next)
    BY <2>3, <2>6
  <2>9. Sound(R, S, h, n, st, lt)
    BY <2>5, <2>7, <2>8, <1>4, <1>12, SoundCut
  <2> QED
    BY <2>6, <2>9
<1>15. /\ HeadPc(R, e.pc) = HeadPc(P, f) /\ (HeadFound(R) => HeadFound(P))
       /\ (HeadWrote(R) <=> HeadWrote(P)) /\ (HeadWrote(P) => R[1].found = P[1].found)
       /\ (i # 1 => (Reserving(R) <=> Reserving(P))) /\ (i = 1 => ~Reserving(R))
  <2>1. Len(P) # 0
    BY <1>4, <1>5
  <2>2. CASE i = 1
    <3>1. Len(R) = 0
      BY <2>2, <1>10, <1>11
    <3> QED
      BY <2>1, <2>2, <3>1, <1>1, <1>3 DEF HeadPc, HeadFound, HeadWrote, Reserving
  <2>3. CASE i # 1
    <3>1. 1 \in 1 .. r
      BY <2>3, <1>5, <1>10
    <3>2. R[1] = P[1] /\ Len(R) # 0
      BY <3>1, <1>11
    <3> QED
      BY <2>1, <2>3, <3>2 DEF HeadPc, HeadFound, HeadWrote, Reserving
  <2> QED
    BY <2>2, <2>3
<1>16. Standing(R, e.pc, senior[t], holds[t], lastTest[t])
  BY <1>4, <1>15, StandingSame
<1>17. /\ pipe \in [Threads -> Seq(Entries)] /\ issued \in [Threads -> Seq(Issues)]
       /\ fetchPc \in [Threads -> Pcs] /\ iteration \in [Threads -> 0 .. History - 1]
       /\ traps \in 0 .. MaxTraps /\ owner \subseteq Threads /\ \A u, v \in owner : u = v
  BY DEF Sane, FeederType, ModelType
<1>18. /\ pipe' \in [Threads -> Seq(Entries)] /\ issued' \in [Threads -> Seq(Issues)]
       /\ fetchPc' \in [Threads -> Pcs] /\ iteration' \in [Threads -> 0 .. History - 1]
  BY <1>3, <1>5, <1>9, <1>11, <1>12, <1>17
<1>19. traps' \in 0 .. MaxTraps
  <2>1. MaxTraps \in Nat
    BY FeederAssumption
  <2> QED
    BY <2>1, <1>3, <1>17
<1>20. owner' \subseteq Threads /\ \A u, v \in owner' : u = v
  BY <1>3, <1>17
<1>21. pipe'[t] = R /\ issued'[t] = S /\ fetchPc'[t] = e.pc /\ iteration'[t] = n
  BY <1>3, <1>9, <1>13, <1>17
<1>22. \A u \in Threads : u # t => Steady(u)
  BY <1>3, <1>9, <1>17 DEF Steady
<1>23. ThreadInv(t)'
  <2>1. t \in owner' <=> Reserving(pipe'[t])
    <3>1. CASE i = 1
      BY <3>1, <1>3, <1>15, <1>21
    <3>2. CASE i # 1
      BY <3>2, <1>3, <1>4, <1>15, <1>21
    <3> QED
      BY <3>1, <3>2
  <2>2. needJump'[t] <=> (Len(pipe'[t]) = 0 /\ fetchPc'[t] = 0)
    <3>1. ~needJump[t]
      BY <1>4, <1>5
    <3> QED
      BY <3>1, <1>3, <1>8, <1>21
  <2>3. \A y, z \in senior'[t] : y = z
    BY <1>3, <1>4
  <2>4. Sound(pipe'[t], issued'[t], fetchPc'[t], iteration'[t], status'[t], lastTest'[t])
    BY <1>3, <1>14, <1>21
  <2>5. Standing(pipe'[t], fetchPc'[t], senior'[t], holds'[t], lastTest'[t])
    BY <1>3, <1>16, <1>21
  <2>6. Tidy(pipe'[t], issued'[t], fetchPc'[t], wrongPath'[t])
    BY <1>8, <1>21 DEF Tidy
  <2> QED
    BY <2>1, <2>2, <2>3, <2>4, <2>5, <2>6 DEF ThreadInv
<1>24. CellType' /\ FeederType' /\ ErrorType'
  BY <1>3, <1>9, <1>18 DEF Sane, CellType, FeederType, ErrorType
<1>25. ModelType'
  BY <1>3, <1>18, <1>19, <1>20 DEF Sane, ModelType
<1> QED
  BY <1>22, <1>23, <1>24, <1>25, Framed

-----------------------------------------------------------------------------
(* The invariant of the threads is inductive.                              *)

LEMMA SaneInit == Init => Sane
<1> SUFFICES ASSUME Init PROVE Sane
  OBVIOUS
<1>1. /\ History \in Nat \ {0} /\ WrongPathLimit \in Nat \ {0} /\ MaxTraps \in Nat /\ MaxLocal \in Nat
  BY FeederAssumption
<1>2. 0 \in 0 .. History - 1 /\ 0 < WrongPathLimit /\ 0 \in 0 .. WrongPathLimit /\ 0 \in 0 .. MaxTraps
  BY <1>1
<1>3. CellType
  <2>1. Zeros \in Words
    BY CellAssumption DEF Zeros, Words
  <2>2. cell = [global |-> Zeros, has |-> {}, local |-> [c \in Cpus |-> <<>>]]
    BY DEF Init, NewCell
  <2>3. [c \in Cpus |-> <<>>] \in [Cpus -> Seq(Locals)]
    OBVIOUS
  <2>4. \A t \in Threads : Len(cell.local[t]) = 0
    BY <2>2 DEF Threads
  <2>5. cell \in [global : Words, has : SUBSET Bytes, local : [Cpus -> Seq(Locals)]]
    BY <2>1, <2>2, <2>3
  <2> QED
    BY <2>4, <2>5, <1>1 DEF CellType
<1>4. FeederType
  BY <1>2 DEF Init, FeederType, Statuses
<1>5. ModelType
  <2>1. 0 \in Pcs
    BY RoutineIs
  <2> QED
    BY <2>1, <1>2 DEF Init, ModelType, Statuses
<1>6. ErrorType
  BY <1>2 DEF Init, ErrorType
<1>7. ASSUME NEW t \in Threads PROVE ThreadInv(t)
  <2>1. /\ pipe[t] = <<>> /\ issued[t] = <<>> /\ fetchPc[t] = 0 /\ iteration[t] = 0
        /\ status[t] = [i \in 0 .. History - 1 |-> "invalid"] /\ lastTest[t] = "invalid"
        /\ senior[t] = {} /\ holds[t] = FALSE /\ needJump[t] = TRUE /\ owner = {}
    BY DEF Init
  <2>2. Len(pipe[t]) = 0 /\ Len(issued[t]) = 0
    BY <2>1
  <2>3. Flow(pipe[t], fetchPc[t]) /\ Vouched(pipe[t], issued[t])
    BY <2>2 DEF Flow, Vouched
  <2>4. PICK lev : lev = [k \in 0 .. 0 |-> 0]
    OBVIOUS
  <2>5. Levels(issued[t], iteration[t], lev)
    <3>1. lev \in [0 .. Len(issued[t]) -> 0 .. History - 1] /\ lev[0] = 0
      BY <2>2, <2>4, <1>2
    <3>2. \A k \in 0 .. Len(issued[t]) : 0 .. k - 1 = {}
      BY <2>2
    <3>3. 1 .. Len(issued[t]) = {}
      BY <2>2
    <3> QED
      BY <3>1, <3>2, <3>3, <2>1, <2>2 DEF Levels
  <2>6. Recorded(pipe[t], issued[t], status[t], lastTest[t], lev)
    <3>1. status[t][lev[0]] = lastTest[t]
      BY <2>1, <2>4, <1>2
    <3>2. 1 .. Len(issued[t]) = {}
      BY <2>2
    <3> QED
      BY <3>1, <3>2 DEF Recorded
  <2>7. Sound(pipe[t], issued[t], fetchPc[t], iteration[t], status[t], lastTest[t])
    BY <2>3, <2>5, <2>6 DEF Sound
  <2>8. Standing(pipe[t], fetchPc[t], senior[t], holds[t], lastTest[t])
    BY <2>1, <2>2 DEF Standing, HeadPc
  <2>9. Tidy(pipe[t], issued[t], fetchPc[t], wrongPath[t])
    BY <2>1, RoutineIs DEF Tidy
  <2> QED
    BY <2>1, <2>2, <2>7, <2>8, <2>9 DEF ThreadInv, Reserving
<1> QED
  BY <1>3, <1>4, <1>5, <1>6, <1>7 DEF Sane

LEMMA SaneNext ==
    ASSUME Sane, ~Wraps, [Next]_vars
    PROVE  Sane'
<1>1. CASE UNCHANGED vars
  BY <1>1 DEF vars, feeder, model, Sane, CellType, FeederType, ModelType, ErrorType, ThreadInv
<1>2. ASSUME NEW t \in Threads, Proceed(t) PROVE Sane'
  <2>1. CASE Fetch(t)
    BY <2>1, FetchSane
  <2>2. CASE DoWriteSemaphore(t)
    BY <2>2, DoWriteSemaphoreSane
  <2>3. CASE DoWriteStore(t)
    BY <2>3, DoWriteStoreSane
  <2>4. ASSUME NEW i \in DOMAIN pipe[t], Issue(t, i) PROVE Sane'
    BY <2>4, IssueSane
  <2>5. ASSUME NEW i \in DOMAIN pipe[t], DoRead(t, i) PROVE Sane'
    BY <2>5, DoReadSane
  <2>6. ASSUME NEW i \in DOMAIN pipe[t], Commit(t, i) PROVE Sane'
    BY <2>6, CommitSane
  <2>7. ASSUME NEW i \in DOMAIN pipe[t], Resteer(t, i) PROVE Sane'
    BY <2>7, ResteerSane
  <2> QED
    BY <2>1, <2>2, <2>3, <2>4, <2>5, <2>6, <2>7, <1>2 DEF Proceed
<1>3. ASSUME NEW t \in Threads, NEW i \in DOMAIN pipe[t], DoSpecWrite(t, i) PROVE Sane'
  BY <1>3, DoSpecWriteSane
<1>4. ASSUME NEW t \in Threads, NEW i \in DOMAIN pipe[t], Trap(t, i) PROVE Sane'
  BY <1>4, TrapSane
<1> QED
  BY <1>1, <1>2, <1>3, <1>4 DEF Next

LEMMA SaneAlways ==
    ASSUME ~Wraps
    PROVE  Spec => []Sane
<1>1. Sane /\ [Next]_vars => Sane'
  BY SaneNext
<1> QED
  BY <1>1, SaneInit, PTL DEF Spec

-----------------------------------------------------------------------------
(* What follows for each thread.                                           *)

\* The test of a branch is the last one that counted the iteration up.
LEMMA BranchFollows == Sane => BranchFollowsItsTest
<1> SUFFICES ASSUME Sane, NEW t \in Threads, NEW i \in 1 .. Window, i \in DOMAIN pipe[t],
                    pipe[t][i].kind = "cbranch", pipe[t][i].actual # NoPc
             PROVE  pipe[t][i].actual = Start <=> TestOf(t, i) = "blocked"
  BY DEF BranchFollowsItsTest
<1>1. PICK P, Q, st, lt : P = pipe[t] /\ Q = issued[t] /\ st = status[t] /\ lt = lastTest[t]
  OBVIOUS
<1>2. Sound(P, Q, fetchPc[t], iteration[t], st, lt)
  BY <1>1, Facts
<1>3. PICK lev : Levels(Q, iteration[t], lev) /\ Recorded(P, Q, st, lt, lev)
  BY <1>2 DEF Sound
<1>4. /\ i \in 1 .. Len(Q) /\ Len(Q) \in Nat /\ Q[i].kind = "cbranch" /\ i \in Nat
      /\ i \in 0 .. Len(Q)
  <2>1. Len(Q) \in Nat
    BY <1>1, Facts
  <2>2. i \in 1 .. Len(Q) /\ Q[i].kind = "cbranch" /\ i \in Nat
    BY <1>1, InFlight
  <2> QED
    BY <2>1, <2>2
<1>5. \A k \in 1 .. i : k \in 1 .. Len(Q) /\ Q[k].kind = P[k].kind
  <2>1. ASSUME NEW k \in 1 .. i PROVE k \in 1 .. Len(Q) /\ Q[k].kind = P[k].kind
    <3>1. k \in 1 .. Len(Q) /\ k <= Len(Q)
      BY <1>4
    <3>2. k \in 1 .. Len(P) /\ Vouched(P, Q)
      BY <3>1, <1>1, Facts
    <3> QED
      BY <3>1, <3>2 DEF Vouched
  <2> QED
    BY <2>1
<1>6. P[i].actual = Start <=> st[lev[i]] = "blocked"
  BY <1>1, <1>3, <1>4 DEF Recorded
<1>7. \A j \in 0 .. i - 1 : lev[j] # lev[i] => \E x \in j + 1 .. i : Q[x].kind \in Tests
  BY <1>3, <1>4 DEF Levels
<1>8. PICK tests : tests = {k \in 1 .. i - 1 : P[k].kind \in Tests}
  OBVIOUS
<1>9. ASSUME NEW j \in 0 .. i - 1, NEW x \in j + 1 .. i, Q[x].kind \in Tests
      PROVE  x \in tests /\ x > j
  <2>1. x \in 1 .. i /\ x \in Nat /\ x > j
    BY <1>4
  <2>2. P[x].kind \in Tests /\ x # i
    BY <2>1, <1>4, <1>5, <1>9 DEF Tests
  <2> QED
    BY <2>1, <2>2, <1>4, <1>8
<1>10. CASE tests = {}
  <2>1. 0 \in 0 .. i - 1
    BY <1>4
  <2>2. lev[0] = lev[i]
    BY <2>1, <1>7, <1>9, <1>10
  <2>3. st[lev[0]] = lt
    BY <1>3 DEF Recorded
  <2>4. TestOf(t, i) = lt
    BY <1>1, <1>8, <1>10 DEF TestOf
  <2> QED
    BY <2>2, <2>3, <2>4, <1>1, <1>6
<1>11. CASE tests # {}
  <2>1. tests \subseteq Nat /\ \A x \in tests : x <= i
    BY <1>4, <1>8
  <2>2. PICK m : m = Max(tests)
    OBVIOUS
  <2>3. m \in tests /\ \A y \in tests : y <= m
    BY <2>1, <2>2, <1>4, <1>11, MaxIs
  <2>4. m \in 1 .. i - 1 /\ m \in 0 .. i - 1 /\ m \in 1 .. i /\ P[m].kind \in Tests
    BY <2>3, <1>4, <1>8
  <2>5. lev[m] = lev[i]
    <3>1. SUFFICES ASSUME lev[m] # lev[i] PROVE FALSE
      OBVIOUS
    <3>2. PICK x \in m + 1 .. i : Q[x].kind \in Tests
      BY <3>1, <2>4, <1>7
    <3>3. x \in tests /\ x > m
      BY <3>2, <2>4, <1>9
    <3> QED
      BY <3>3, <2>1, <2>3
  <2>6. st[lev[m]] = P[m].found
    BY <2>4, <1>3, <1>5 DEF Recorded
  <2>7. TestOf(t, i) = P[m].found
    BY <2>2, <1>1, <1>8, <1>11 DEF TestOf
  <2> QED
    BY <2>5, <2>6, <2>7, <1>1, <1>6
<1> QED
  BY <1>10, <1>11

\* A branch goes back to the start of the routine exactly when the load or the
\* compare-exchange in front of it was blocked: the iteration numbers that
\* find_new_iteration_count hands out again never mix two tests up.
THEOREM BranchFollowsTest ==
    ASSUME ~Wraps
    PROVE  Spec => []BranchFollowsItsTest
BY SaneAlways, BranchFollows, PTL

LEMMA SaneTypes == Sane => TypeOK
<1> SUFFICES ASSUME Sane PROVE TypeOK
  OBVIOUS
<1>1. cell.global \in Words /\ cell.has \subseteq Bytes
  BY DEF Sane, CellType
<1>2. memopMap \in [Threads -> SUBSET Uids]
  BY DEF Sane, FeederType
<1>3. ASSUME NEW t \in Threads
      PROVE  /\ Len(cell.local[t]) <= MaxLocal
             /\ issued[t] \in Seq(Issues) /\ pipe[t] \in Seq(Entries)
             /\ senior[t] \in SUBSET Seniors
  BY DEF Sane, CellType, FeederType, ModelType
<1>4. /\ iteration \in [Threads -> 0 .. History - 1]
      /\ status \in [Threads -> [0 .. History - 1 -> Statuses]]
      /\ {needJump, ended, holds} \subseteq [Threads -> BOOLEAN]
      /\ wrongPath \in [Threads -> 0 .. WrongPathLimit]
      /\ committed \in [Threads -> Nat]
      /\ fetchPc \in [Threads -> Pcs]
      /\ owner \subseteq Threads
      /\ traps \in 0 .. MaxTraps
      /\ lastTest \in [Threads -> Statuses]
  BY DEF Sane, FeederType, ModelType
<1>5. error \in {"none", "wrongPath", "issue", "commit", "iteration", "emptied"}
  BY DEF Sane, ErrorType
<1> QED
  BY <1>1, <1>2, <1>3, <1>4, <1>5 DEF TypeOK, Issues, Entries, Seniors

LEMMA IssuedIsInFlight == Sane => IssuedIsPipe
<1> SUFFICES ASSUME Sane, NEW t \in Threads
             PROVE  /\ Len(issued[t]) <= Len(pipe[t])
                    /\ \A k \in DOMAIN pipe[t] :
                         IF k <= Len(issued[t])
                         THEN issued[t][k].uid = pipe[t][k].uid /\ issued[t][k].kind = pipe[t][k].kind
                         ELSE pipe[t][k].kind = "junk"
  BY DEF IssuedIsPipe
<1> QED
  BY Facts DEF Vouched

\* The head of the pipe lies on the routine, so that it is on the issued list,
\* and fewer calls of Fetch are wasted in a row than instructions are in flight.
LEMMA NoErrorNext ==
    ASSUME Sane, ~Wraps, Window <= WrongPathLimit, error = "none", [Next]_vars
    PROVE  error' = "none"
<1>1. CASE UNCHANGED vars
  BY <1>1 DEF vars
<1>2. ASSUME NEW t \in Threads, Fetch(t) PROVE error' = "none"
  <2>1. PICK pc, kind, P, Q, w : /\ pc = fetchPc[t] /\ kind = Fetched(t, pc)
                                 /\ P = pipe[t] /\ Q = issued[t] /\ w = wrongPath[t]
    OBVIOUS
  <2>2. /\ wrongPath' = [wrongPath EXCEPT ![t] = IF kind = "junk" THEN w + 1 ELSE 0]
        /\ error' = IF wrongPath'[t] >= WrongPathLimit THEN "wrongPath" ELSE error
        /\ Len(P) < Window
    BY <2>1, <1>2 DEF Fetch
  <2>3. wrongPath'[t] = IF kind = "junk" THEN w + 1 ELSE 0
    BY <2>2 DEF Sane, FeederType
  <2>4. Window \in Nat /\ WrongPathLimit \in Nat /\ WrongPathLimit >= 1
    BY FeederAssumption
  <2>5. CASE kind # "junk"
    BY <2>2, <2>3, <2>4, <2>5
  <2>6. CASE kind = "junk"
    <3>1. /\ pc \in Pcs /\ w \in Nat /\ Len(P) \in Nat /\ Len(Q) \in Nat
          /\ Tidy(P, Q, pc, w) /\ Standing(P, pc, senior[t], holds[t], lastTest[t])
      BY <2>1, Facts
    <3>2. kind = KindAt(pc)
      BY <2>1, FetchedIs
    <3>3. pc = 8 /\ pc = Outside
      BY <3>1, <3>2, <2>6, AddressOf, RoutineIs
    <3>4. w <= Len(P) - Len(Q)
      BY <3>1, <3>3 DEF Tidy
    <3>5. HeadPc(P, pc) \in 0 .. 7
      BY <3>1 DEF Standing
    <3>6. Len(P) # 0 /\ P[1].pc # 8
      BY <3>3, <3>5 DEF HeadPc
    <3>7. 1 \in DOMAIN P
      BY <3>1, <3>6, <2>1, Facts
    <3>8. P[1].kind # "junk"
      BY <3>6, <3>7, <2>1, InFlight, AddressOf
    <3>9. 1 \in 1 .. Len(Q)
      BY <3>7, <3>8, <2>1, InFlight
    <3>10. w + 1 < WrongPathLimit
      BY <3>1, <3>4, <3>9, <2>2, <2>4
    <3> QED
      BY <3>1, <3>10, <2>2, <2>3, <2>4, <2>6
  <2> QED
    BY <2>5, <2>6
<1>3. ASSUME NEW t \in Threads, NEW i \in DOMAIN pipe[t], Issue(t, i) PROVE error' = "none"
  <2>1. pipe[t][i].kind \in Branches
        /\ error' = IF pipe[t][i].kind = "cbranch" /\ FindSI(t, pipe[t][i].uid) = {}
                    THEN "issue" ELSE error
    BY <1>3 DEF Issue
  <2>2. pipe[t][i].kind # "junk"
    BY <2>1 DEF Branches
  <2>3. FindSI(t, pipe[t][i].uid) = {issued[t][i]}
    BY <2>2, InFlight
  <2> QED
    BY <2>1, <2>3
<1>4. ASSUME NEW t \in Threads, NEW i \in DOMAIN pipe[t], Commit(t, i) PROVE error' = "none"
  BY <1>4, CommitDoes
<1>5. ASSUME NEW t \in Threads, NEW i \in DOMAIN pipe[t], Resteer(t, i) \/ Trap(t, i)
      PROVE  error' = "none"
  <2>1. error' \in {"none", "wrongPath"}
    BY <1>5, ResteerSane, TrapSane DEF Sane, ErrorType
  <2>2. error' \in {"iteration", "emptied", error}
    BY <1>5 DEF Resteer, Trap, Kill
  <2> QED
    BY <2>1, <2>2
<1>6. ASSUME NEW t \in Threads, DoWriteSemaphore(t) \/ DoWriteStore(t) PROVE error' = "none"
  BY <1>6 DEF DoWriteSemaphore, DoWriteStore
<1>7. ASSUME NEW t \in Threads, NEW i \in DOMAIN pipe[t], DoRead(t, i) \/ DoSpecWrite(t, i)
      PROVE  error' = "none"
  BY <1>7 DEF DoRead, DoSpecWrite
<1> QED
  BY <1>1, <1>2, <1>3, <1>4, <1>5, <1>6, <1>7 DEF Next, Proceed

\* What is on the issued lists is what is in flight, and no ASIMERROR, ASSERT
\* or assert of Fetch, Issue, Commit and Kill is ever reached, as long as there
\* is less in flight than WRONG_PATH_LIMIT.
THEOREM FeederLists ==
    ASSUME ~Wraps, Window <= WrongPathLimit
    PROVE  Spec => []FeederInvariant
<1>1. Init => NoFeederError
  BY DEF Init, NoFeederError
<1>2. Sane /\ NoFeederError /\ [Next]_vars => NoFeederError'
  BY NoErrorNext DEF NoFeederError
<1>3. Spec => []Sane
  BY SaneAlways
<1>4. Spec => []NoFeederError
  BY <1>1, <1>2, <1>3, PTL DEF Spec
<1>5. Sane /\ NoFeederError => FeederInvariant
  BY SaneTypes, IssuedIsInFlight DEF FeederInvariant
<1> QED
  BY <1>3, <1>4, <1>5, PTL

-----------------------------------------------------------------------------
(* Locally visible stores that are left over.                              *)

\* Places of the stores in flight that are only locally visible.
Waiting(P) == {k \in 1 .. Len(P) : P[k].spec /\ ~P[k].wrote}

\* The same of a committed store.
Pending(s) == {x \in s : x.spec}

LEMMA WaitingFinite ==
    ASSUME NEW P, Len(P) \in Nat
    PROVE  IsFiniteSet(Waiting(P)) /\ Cardinality(Waiting(P)) \in Nat
<1>1. IsFiniteSet(1 .. Len(P))
  BY FS_Interval
<1>2. Waiting(P) \in SUBSET (1 .. Len(P))
  BY DEF Waiting
<1>3. IsFiniteSet(Waiting(P))
  BY <1>1, <1>2, FS_Subset
<1> QED
  BY <1>3, FS_CardinalityType

\* No two instructions in flight have the same uid, so that places can be
\* counted instead of instructions.
LEMMA WaitingCounted ==
    ASSUME NEW P \in Seq(Entries), NEW f, Flow(P, f)
    PROVE  Cardinality({e \in Range(P) : e.spec /\ ~e.wrote}) = Cardinality(Waiting(P))
<1>1. Len(P) \in Nat /\ DOMAIN P = 1 .. Len(P)
  BY Members
<1>2. PICK E, W : E = {e \in Range(P) : e.spec /\ ~e.wrote} /\ W = Waiting(P)
  OBVIOUS
<1>3. PICK g : g = [k \in W |-> P[k]]
  OBVIOUS
<1>4. ASSUME NEW k \in W PROVE k \in 1 .. Len(P) /\ k \in Nat /\ P[k] \in E /\ P[k].uid \in Nat
  <2>1. k \in 1 .. Len(P) /\ P[k].spec /\ ~P[k].wrote
    BY <1>2 DEF Waiting
  <2>2. P[k] \in Range(P)
    BY <2>1, <1>1 DEF Range
  <2> QED
    BY <2>1, <2>2, <1>1, <1>2, Entry
<1>5. ASSUME NEW j \in W, NEW k \in W, j < k PROVE P[j] # P[k]
  <2>1. j \in 1 .. k - 1 /\ k \in 1 .. Len(P)
    BY <1>4, <1>5
  <2>2. P[j].uid < P[k].uid
    BY <2>1 DEF Flow
  <2> QED
    BY <2>2, <1>4
<1>6. ASSUME NEW j \in W, NEW k \in W, P[j] = P[k] PROVE j = k
  <2>1. ~(j < k) /\ ~(k < j)
    BY <1>5, <1>6
  <2> QED
    BY <2>1, <1>4
<1>7. ASSUME NEW e \in E PROVE \E k \in W : g[k] = e
  <2>1. e \in Range(P) /\ e.spec /\ ~e.wrote
    BY <1>2
  <2>2. PICK k \in 1 .. Len(P) : e = P[k]
    BY <2>1, <1>1 DEF Range
  <2>3. k \in W
    BY <2>1, <2>2, <1>2 DEF Waiting
  <2> QED
    BY <2>2, <2>3, <1>3
<1>8. g \in [W -> E]
  BY <1>3, <1>4
<1>9. g \in Bijection(W, E)
  <2>1. g \in Injection(W, E)
    BY <1>3, <1>6, <1>8 DEF Injection, IsInjective
  <2>2. g \in Surjection(W, E)
    BY <1>7, <1>8 DEF Surjection
  <2> QED
    BY <2>1, <2>2 DEF Bijection
<1>10. ExistsBijection(W, E)
  BY <1>9 DEF ExistsBijection
<1>11. IsFiniteSet(W)
  BY <1>1, <1>2, WaitingFinite
<1> QED
  BY <1>2, <1>10, <1>11, FS_Bijection

\* A thread has one committed store at most that is not written yet.
LEMMA PendingIs ==
    ASSUME Sane, NEW t \in Threads
    PROVE  /\ IsFiniteSet(Pending(senior[t])) /\ Cardinality(Pending(senior[t])) \in {0, 1}
           /\ Cardinality(Pending(senior[t])) = 0 <=> Pending(senior[t]) = {}
<1>1. \A x, y \in senior[t] : x = y
  BY Facts
<1>2. CASE Pending(senior[t]) = {}
  BY <1>2, FS_EmptySet
<1>3. CASE Pending(senior[t]) # {}
  <2>1. PICK x : x \in Pending(senior[t])
    BY <1>3
  <2>2. Pending(senior[t]) = {x}
    BY <2>1, <1>1 DEF Pending
  <2>3. IsFiniteSet({x}) /\ Cardinality({x}) = 1
    BY FS_Singleton
  <2>4. IsFiniteSet(Pending(senior[t])) /\ Cardinality(Pending(senior[t])) = 1
    BY <2>2, <2>3
  <2> QED
    BY <2>4, <1>3
<1> QED
  BY <1>2, <1>3

LeftCounts(t) ==
    /\ LeftOver(t) <=> Len(cell.local[t]) > Cardinality(Waiting(pipe[t]))
                                            + Cardinality(Pending(senior[t]))
    /\ Cardinality(Waiting(pipe[t])) \in Nat /\ Cardinality(Pending(senior[t])) \in {0, 1}
    /\ IsFiniteSet(Waiting(pipe[t])) /\ IsFiniteSet(Pending(senior[t]))
    /\ Len(cell.local[t]) \in Nat

LEMMA LeftOverIs ==
    ASSUME NEW t \in Threads
    PROVE  Sane => LeftCounts(t)
<1> SUFFICES ASSUME Sane PROVE LeftCounts(t)
  OBVIOUS
<1>1. pipe[t] \in Seq(Entries) /\ Flow(pipe[t], fetchPc[t]) /\ Len(pipe[t]) \in Nat
  BY Facts
<1>2. Cardinality({e \in Range(pipe[t]) : e.spec /\ ~e.wrote}) = Cardinality(Waiting(pipe[t]))
  BY <1>1, WaitingCounted
<1>3. LeftOver(t) <=> Len(cell.local[t]) > Cardinality(Waiting(pipe[t]))
                                           + Cardinality(Pending(senior[t]))
  BY <1>2 DEF LeftOver, Pending
<1>4. cell.local \in [Threads -> Seq(Locals)]
  BY DEF Sane, CellType, Threads
<1>5. Len(cell.local[t]) \in Nat
  BY <1>4, LenProperties
<1> QED
  BY <1>1, <1>3, <1>5, WaitingFinite, PendingIs DEF LeftCounts

LEMMA LeftOverThen ==
    ASSUME NEW t \in Threads
    PROVE  Sane' => LeftCounts(t)'
<1>1. Sane => LeftCounts(t)
  BY LeftOverIs
<1> QED
  BY <1>1, PTL

\* What is left over stays left over when nothing is stored locally, and no
\* more stores wait than before.
LEMMA LeftStays ==
    ASSUME Sane, Sane', NEW t \in Threads, cell'.local[t] = cell.local[t],
           Waiting(pipe'[t]) \subseteq Waiting(pipe[t]), senior'[t] \subseteq senior[t], LeftOver(t)
    PROVE  LeftOver(t)'
<1>1. PICK l, w, p : /\ l = Len(cell.local[t]) /\ w = Cardinality(Waiting(pipe[t]))
                     /\ p = Cardinality(Pending(senior[t]))
  OBVIOUS
<1>2. PICK v, q : /\ v = Cardinality(Waiting(pipe'[t])) /\ q = Cardinality(Pending(senior'[t]))
  OBVIOUS
<1>3. /\ l > w + p /\ l \in Nat /\ w \in Nat /\ p \in {0, 1}
      /\ IsFiniteSet(Waiting(pipe[t])) /\ IsFiniteSet(Pending(senior[t]))
  <2>1. LeftCounts(t)
    BY LeftOverIs
  <2> QED
    BY <2>1, <1>1 DEF LeftCounts
<1>4. (LeftOver(t)' <=> l > v + q) /\ v \in Nat /\ q \in {0, 1}
  <2>1. LeftCounts(t)'
    BY LeftOverThen
  <2> QED
    BY <2>1, <1>1, <1>2 DEF LeftCounts
<1>5. v <= w
  BY <1>1, <1>2, <1>3, FS_Subset
<1>6. q <= p
  <2>1. Pending(senior'[t]) \subseteq Pending(senior[t])
    BY DEF Pending
  <2> QED
    BY <2>1, <1>1, <1>2, <1>3, FS_Subset
<1> QED
  BY <1>3, <1>4, <1>5, <1>6

-----------------------------------------------------------------------------
(* The lock.                                                               *)

Clean == \A t \in Threads : ~LeftOver(t)

\* What a compare-exchange has read while it holds the line is what is there.
ReservedWord(t) ==
    Reserving(pipe[t]) => (pipe[t][1].found = "entering" <=> LockIsFree(cell.global))

\* get_value32 looks at two bytes that no store of the routine writes.
UpperHalf == \A b \in 2 .. 3 : cell.global[b] = 0

Locked ==
    /\ \A t, u \in Threads : holds[t] /\ holds[u] => t = u
    /\ LockIsFree(cell.global) <=> \A t \in Threads : ~holds[t]
    /\ \A t \in Threads : ReservedWord(t)

LockInv == UpperHalf /\ (Clean => Locked)

\* What is left over stays left over.
Stays == \A u \in Threads : LeftOver(u) => LeftOver(u)'

LEMMA LockStep ==
    ASSUME LockInv, Stays, UpperHalf', Clean /\ Locked => Locked'
    PROVE  LockInv'
BY DEF LockInv, Stays, Clean

\* Only t changes what it has stored.
LEMMA StaysBut ==
    ASSUME Sane, Sane', NEW t \in Threads,
           \A u \in Threads : u # t => /\ pipe'[u] = pipe[u] /\ senior'[u] = senior[u]
                                       /\ cell'.local[u] = cell.local[u],
           LeftOver(t) => LeftOver(t)'
    PROVE  Stays
<1>1. ASSUME NEW u \in Threads, LeftOver(u) PROVE LeftOver(u)'
  <2>1. CASE u = t
    BY <2>1, <1>1
  <2>2. CASE u # t
    <3>1. pipe'[u] = pipe[u] /\ senior'[u] = senior[u] /\ cell'.local[u] = cell.local[u]
      BY <2>2
    <3> QED
      BY <3>1, <1>1 DEF LeftOver
  <2> QED
    BY <2>1, <2>2
<1> QED
  BY <1>1 DEF Stays

\* A step that takes and releases nothing, and reads nothing for a reservation.
LEMMA LockQuiet ==
    ASSUME LockInv, Stays, NEW t \in Threads, cell'.global = cell.global, holds' = holds,
           \A u \in Threads : u # t => pipe'[u] = pipe[u],
           Reserving(pipe'[t]) => Reserving(pipe[t]) /\ pipe'[t][1].found = pipe[t][1].found
    PROVE  LockInv'
<1>1. UpperHalf'
  BY DEF LockInv, UpperHalf
<1>2. ASSUME Clean, Locked PROVE Locked'
  <2>1. ASSUME NEW u \in Threads PROVE ReservedWord(u)'
    <3>1. ReservedWord(u)
      BY <1>2 DEF Locked
    <3>2. Reserving(pipe'[u]) => Reserving(pipe[u]) /\ pipe'[u][1].found = pipe[u][1].found
      BY <2>1
    <3>3. LockIsFree(cell'.global) <=> LockIsFree(cell.global)
      OBVIOUS
    <3> QED
      BY <3>1, <3>2, <3>3 DEF ReservedWord
  <2>2. LockIsFree(cell.global)' <=> LockIsFree(cell.global)
    OBVIOUS
  <2> QED
    BY <2>1, <2>2, <1>2 DEF Locked
<1> QED
  BY <1>1, <1>2, LockStep

\* The same when the step stores nothing, either.
LEMMA LockCalm ==
    ASSUME Sane, Sane', LockInv, NEW t \in Threads, cell' = cell, holds' = holds, senior' = senior,
           \A u \in Threads : u # t => pipe'[u] = pipe[u],
           Waiting(pipe'[t]) \subseteq Waiting(pipe[t]),
           Reserving(pipe'[t]) => Reserving(pipe[t]) /\ pipe'[t][1].found = pipe[t][1].found
    PROVE  LockInv'
<1>1. LeftOver(t) => LeftOver(t)'
  BY LeftStays
<1>2. Stays
  BY <1>1, StaysBut
<1> QED
  BY <1>2, LockQuiet

\* One instruction is changed, and keeps what counts for the lock.
LEMMA LockAltered ==
    ASSUME NEW P, Len(P) \in Nat, NEW R, NEW i \in 1 .. Len(P), Alters(P, R, i),
           R[i].found = P[i].found, R[i].wrote = P[i].wrote, R[i].spec = P[i].spec
    PROVE  /\ Waiting(R) \subseteq Waiting(P)
           /\ Reserving(R) => Reserving(P) /\ R[1].found = P[1].found
<1>1. Len(R) = Len(P) /\ \A k \in 1 .. Len(P) : k # i => R[k] = P[k]
  BY DEF Alters
<1>2. \A k \in 1 .. Len(P) : R[k].found = P[k].found /\ R[k].wrote = P[k].wrote /\ R[k].spec = P[k].spec
  BY <1>1
<1>3. Reserving(R) <=> Reserving(P)
  BY HeadsAlter
<1>4. Reserving(R) => 1 \in 1 .. Len(P)
  BY <1>1 DEF Reserving
<1> QED
  BY <1>1, <1>2, <1>3, <1>4 DEF Waiting

LEMMA FetchLock ==
    ASSUME Sane, Sane', LockInv, NEW t \in Threads, Fetch(t)
    PROVE  LockInv'
<1>0. PICK pc, kind, uid : /\ pc = fetchPc[t] /\ kind = Fetched(t, pc) /\ uid = FreshUid(t)
  OBVIOUS
<1>0a. PICK next \in Predictions(kind, pc) :
         pipe' = [pipe EXCEPT ![t] = Append(@,
                     [uid |-> uid, pc |-> pc, next |-> next, actual |-> NoPc, kind |-> kind,
                      found |-> "invalid", spec |-> FALSE, wrote |-> FALSE])]
  BY <1>0 DEF Fetch
<1>0b. PICK P, e : /\ P = pipe[t]
                   /\ e = [uid |-> uid, pc |-> pc, next |-> next, actual |-> NoPc, kind |-> kind,
                           found |-> "invalid", spec |-> FALSE, wrote |-> FALSE]
  OBVIOUS
<1>1. /\ P = pipe[t]
      /\ e.found = "invalid" /\ ~e.spec
      /\ pipe' = [pipe EXCEPT ![t] = Append(P, e)]
      /\ cell' = cell /\ holds' = holds /\ senior' = senior
  BY <1>0a, <1>0b DEF Fetch
<1>2. PICK R : R = pipe'[t]
  OBVIOUS
<1>3. R = Append(P, e) /\ \A u \in Threads : u # t => pipe'[u] = pipe[u]
  BY <1>1, <1>2 DEF Sane, ModelType
<1>4. P \in Seq(Entries) /\ Len(P) \in Nat
  BY <1>1, Facts
<1>5. Len(R) = Len(P) + 1 /\ (\A k \in 1 .. Len(P) : R[k] = P[k]) /\ R[Len(P) + 1] = e
  BY <1>3, <1>4, AppendProperties
<1>6. Waiting(R) \subseteq Waiting(P)
  <2>1. ASSUME NEW k \in 1 .. Len(P) + 1, R[k].spec PROVE k \in 1 .. Len(P) /\ R[k] = P[k]
    <3>1. k # Len(P) + 1
      BY <2>1, <1>1, <1>5
    <3> QED
      BY <3>1, <1>4, <1>5
  <2> QED
    BY <2>1, <1>5 DEF Waiting
<1>7. Reserving(R) => Reserving(P) /\ R[1].found = P[1].found
  <2>1. CASE Len(P) = 0
    <3>1. R[1] = e
      BY <2>1, <1>5
    <3> QED
      BY <3>1, <1>1 DEF Reserving
  <2>2. CASE Len(P) # 0
    <3>1. R[1] = P[1]
      BY <2>2, <1>4, <1>5
    <3> QED
      BY <3>1, <2>2 DEF Reserving
  <2> QED
    BY <2>1, <2>2
<1>8. /\ Waiting(pipe'[t]) \subseteq Waiting(pipe[t])
      /\ Reserving(pipe'[t]) => Reserving(pipe[t]) /\ pipe'[t][1].found = pipe[t][1].found
  BY <1>1, <1>2, <1>6, <1>7
<1> QED
  BY <1>1, <1>3, <1>8, LockCalm

LEMMA IssueLock ==
    ASSUME Sane, Sane', LockInv, NEW t \in Threads, NEW i \in DOMAIN pipe[t], Issue(t, i)
    PROVE  LockInv'
<1>1. PICK e, target, P : e = pipe[t][i] /\ P = pipe[t]
                       /\ pipe' = [pipe EXCEPT ![t][i].actual = target]
  BY DEF Issue
<1>2. cell' = cell /\ holds' = holds /\ senior' = senior
  BY DEF Issue
<1>3. PICK x : x = [e EXCEPT !.actual = target]
  OBVIOUS
<1>4. P \in Seq(Entries) /\ Len(P) \in Nat /\ i \in 1 .. Len(P) /\ e \in Entries
  BY <1>1, Facts, InFlight
<1>5. /\ x.uid = e.uid /\ x.pc = e.pc /\ x.next = e.next /\ x.kind = e.kind
      /\ x.found = e.found /\ x.spec = e.spec /\ x.wrote = e.wrote
  BY <1>3, <1>4 DEF Entries
<1>6. pipe' = [pipe EXCEPT ![t] = [P EXCEPT ![i] = x]]
  BY <1>1, <1>3
<1>7. PICK R : R = pipe'[t]
  OBVIOUS
<1>8. R = [P EXCEPT ![i] = x] /\ \A u \in Threads : u # t => pipe'[u] = pipe[u]
  BY <1>6, <1>7 DEF Sane, ModelType
<1>9. /\ Len(R) = Len(P) /\ R[i] = x /\ \A k \in 1 .. Len(P) : k # i => R[k] = P[k]
  BY <1>4, <1>8
<1>10. Alters(P, R, i)
  BY <1>1, <1>5, <1>9 DEF Alters
<1>11. R[i].found = P[i].found /\ R[i].wrote = P[i].wrote /\ R[i].spec = P[i].spec
  BY <1>1, <1>5, <1>9
<1>12. /\ Waiting(R) \subseteq Waiting(P)
       /\ Reserving(R) => Reserving(P) /\ R[1].found = P[1].found
  BY <1>4, <1>10, <1>11, LockAltered
<1>13. /\ Waiting(pipe'[t]) \subseteq Waiting(pipe[t])
       /\ Reserving(pipe'[t]) => Reserving(pipe[t]) /\ pipe'[t][1].found = pipe[t][1].found
  BY <1>1, <1>7, <1>12
<1> QED
  BY <1>2, <1>8, <1>13, LockCalm

\* At the head of the pipe, nothing the thread has stored is waiting, unless
\* a store has been left over: the compare-exchange reads what is global.
LEMMA ReadsGlobal ==
    ASSUME Sane, NEW t \in Threads, 1 \in DOMAIN pipe[t], ~Executed(pipe[t][1]),
           pipe[t][1].kind # "store", senior[t] = {}, ~LeftOver(t)
    PROVE  LockIsFree(ReadValue(cell, t, LockAddr, LockSize)) <=> LockIsFree(cell.global)
<1>1. PICK P, l : P = pipe[t] /\ l = cell.local[t]
  OBVIOUS
<1>2. /\ P \in Seq(Entries) /\ Flow(P, fetchPc[t]) /\ Len(P) \in Nat /\ 1 \in 1 .. Len(P)
  BY <1>1, Facts
<1>3. Waiting(P) = {}
  <2>1. ASSUME NEW k \in 1 .. Len(P), P[k].spec PROVE FALSE
    <3>1. CASE k = 1
      <4>1. Proper(P[1])
        BY <1>2, KindsOf
      <4> QED
        BY <4>1, <3>1, <2>1, <1>1 DEF Proper
    <3>2. CASE k # 1
      <4>1. 1 \in 1 .. k - 1
        BY <3>2, <1>2
      <4>2. Begun(P[k])
        BY <2>1 DEF Begun
      <4>3. Executed(P[1])
        BY <4>1, <4>2, <1>2 DEF Flow
      <4> QED
        BY <4>3, <1>1
    <3> QED
      BY <3>1, <3>2
  <2> QED
    BY <2>1 DEF Waiting
<1>4. Len(l) = 0
  <2>1. LeftCounts(t)
    BY LeftOverIs
  <2>2. Pending(senior[t]) = {} /\ Waiting(pipe[t]) = {}
    BY <1>1, <1>3 DEF Pending
  <2>3. Cardinality(Waiting(pipe[t])) = 0 /\ Cardinality(Pending(senior[t])) = 0
    BY <2>2, FS_EmptySet
  <2>4. Len(cell.local[t]) \in Nat /\ ~(Len(cell.local[t]) > 0 + 0)
    BY <2>1, <2>3 DEF LeftCounts
  <2> QED
    BY <2>4, <1>1
<1>5. DOMAIN l = {}
  <2>1. cell.local \in [Threads -> Seq(Locals)]
    BY DEF Sane, CellType, Threads
  <2>2. l \in Seq(Locals)
    BY <2>1, <1>1
  <2>3. DOMAIN l = 1 .. 0
    BY <2>2, <1>4, Members
  <2> QED
    BY <2>3
<1>6. \A b \in Bytes : ReadByte(cell, t, b) = cell.global[b]
  <2>1. \A b \in Bytes : Covering(l, b) = {}
    BY <1>5 DEF Covering
  <2> QED
    BY <2>1, <1>1 DEF ReadByte
<1>7. PICK v : v = ReadValue(cell, t, LockAddr, LockSize)
  OBVIOUS
<1>8. \A b \in Bytes : v[b] = cell.global[b]
  BY <1>6, <1>7 DEF ReadValue
<1>9. \A b \in 0 .. 3 : v[b] = cell.global[b]
  BY <1>8, LockElements
<1>10. Element(LockAddr, 4) = 0 .. 3
  BY LockElements
<1> QED
  BY <1>7, <1>9, <1>10 DEF LockIsFree

LEMMA DoReadLock ==
    ASSUME Sane, Sane', LockInv, NEW t \in Threads, NEW i \in DOMAIN pipe[t], DoRead(t, i)
    PROVE  LockInv'
<1>1. PICK found : found = IF LockIsFree(ReadValue(cell, t, LockAddr, LockSize))
                           THEN "entering" ELSE "blocked"
  OBVIOUS
<1>2. PICK e, x, P, R : /\ e = pipe[t][i] /\ P = pipe[t] /\ R = pipe'[t]
                        /\ x = [e EXCEPT !.found = found]
  OBVIOUS
<1>3. /\ e.kind \in Tests /\ e.found = "invalid"
      /\ e.kind = "cmpxchg" => i = 1 /\ senior[t] = {} /\ owner = {}
      /\ pipe' = [pipe EXCEPT ![t][i].found = found]
      /\ cell' = cell /\ senior' = senior /\ holds' = holds
  BY <1>1, <1>2 DEF DoRead
<1>4. P \in Seq(Entries) /\ Len(P) \in Nat /\ i \in 1 .. Len(P) /\ e \in Entries /\ Proper(e)
  BY <1>2, Facts, InFlight
<1>5. /\ x.kind = e.kind /\ x.found = found /\ x.spec = e.spec /\ x.wrote = e.wrote
  BY <1>2, <1>4 DEF Entries
<1>6. pipe' = [pipe EXCEPT ![t] = [P EXCEPT ![i] = x]]
  BY <1>2, <1>3
<1>7. R = [P EXCEPT ![i] = x] /\ \A u \in Threads : u # t => pipe'[u] = pipe[u]
  BY <1>2, <1>6 DEF Sane, ModelType
<1>8. /\ Len(R) = Len(P) /\ R[i] = x /\ \A k \in 1 .. Len(P) : k # i => R[k] = P[k]
  BY <1>4, <1>7
<1>9. \A k \in 1 .. Len(P) : R[k].kind = P[k].kind /\ R[k].wrote = P[k].wrote /\ R[k].spec = P[k].spec
  BY <1>2, <1>5, <1>8
<1>10. Waiting(R) \subseteq Waiting(P)
  BY <1>8, <1>9 DEF Waiting
<1>11. CASE e.kind # "cmpxchg"
  <2>1. Reserving(R) => Reserving(P) /\ R[1].found = P[1].found
    <3>1. CASE i = 1
      BY <3>1, <1>2, <1>5, <1>8, <1>11 DEF Reserving
    <3>2. CASE i # 1
      <4>1. Len(P) # 0 => R[1] = P[1]
        BY <3>2, <1>4, <1>8
      <4> QED
        BY <4>1, <1>8 DEF Reserving
    <3> QED
      BY <3>1, <3>2
  <2>2. /\ Waiting(pipe'[t]) \subseteq Waiting(pipe[t])
        /\ Reserving(pipe'[t]) => Reserving(pipe[t]) /\ pipe'[t][1].found = pipe[t][1].found
    BY <2>1, <1>2, <1>10
  <2> QED
    BY <2>2, <1>3, <1>7, LockCalm
<1>12. CASE e.kind = "cmpxchg"
  <2>1. i = 1 /\ senior[t] = {}
    BY <1>3, <1>12
  <2>2. Waiting(pipe'[t]) \subseteq Waiting(pipe[t])
    BY <1>2, <1>10
  <2>3. LeftOver(t) => LeftOver(t)'
    BY <2>2, <1>3, LeftStays
  <2>4. Stays
    BY <2>3, <1>3, <1>7, StaysBut
  <2>5. UpperHalf'
    BY <1>3 DEF LockInv, UpperHalf
  <2>6. ASSUME Clean, Locked PROVE Locked'
    <3>1. ASSUME NEW u \in Threads, u # t PROVE ReservedWord(u)'
      <4>1. ReservedWord(u) /\ pipe'[u] = pipe[u]
        BY <3>1, <2>6, <1>7 DEF Locked
      <4> QED
        BY <4>1, <1>3 DEF ReservedWord
    <3>2. ReservedWord(t)'
      <4>1. ~Executed(pipe[t][1]) /\ pipe[t][1].kind # "store" /\ 1 \in DOMAIN pipe[t]
        BY <2>1, <1>2, <1>3, <1>12 DEF Executed, Tests
      <4>2. ~LeftOver(t)
        BY <2>6 DEF Clean
      <4>3. LockIsFree(ReadValue(cell, t, LockAddr, LockSize)) <=> LockIsFree(cell.global)
        BY <4>1, <4>2, <2>1, ReadsGlobal
      <4>4. R[1].found = "entering" <=> LockIsFree(cell.global)
        BY <4>3, <2>1, <1>1, <1>5, <1>8
      <4>5. LockIsFree(cell'.global) <=> LockIsFree(cell.global)
        BY <1>3
      <4> QED
        BY <4>4, <4>5, <1>2 DEF ReservedWord
    <3>3. LockIsFree(cell.global)' <=> LockIsFree(cell.global)
      BY <1>3
    <3>4. \A u \in Threads : ReservedWord(u)'
      BY <3>1, <3>2
    <3> QED
      BY <3>3, <3>4, <2>6, <1>3 DEF Locked
  <2> QED
    BY <2>4, <2>5, <2>6, LockStep
<1> QED
  BY <1>11, <1>12

\* A store that becomes locally visible waits for its write.
LEMMA DoSpecWriteLock ==
    ASSUME Sane, Sane', LockInv, NEW t \in Threads, NEW i \in DOMAIN pipe[t], DoSpecWrite(t, i)
    PROVE  LockInv'
<1>1. PICK e, x, P, R : /\ e = pipe[t][i] /\ P = pipe[t] /\ R = pipe'[t]
                        /\ x = [e EXCEPT !.spec = TRUE]
  OBVIOUS
<1>2. /\ e.kind = "store" /\ ~e.spec /\ ~e.wrote
      /\ Len(cell.local[t]) < MaxLocal
      /\ cell' = StoreLocally(cell, t, StoreMemop(Unreachable, 0))
      /\ pipe' = [pipe EXCEPT ![t][i].spec = TRUE]
      /\ senior' = senior /\ holds' = holds
  BY <1>1 DEF DoSpecWrite, Found
<1>3. P \in Seq(Entries) /\ Len(P) \in Nat /\ i \in 1 .. Len(P) /\ e \in Entries /\ i \in Nat
  BY <1>1, Facts, InFlight
<1>4. /\ x.kind = e.kind /\ x.found = e.found /\ x.spec /\ x.wrote = e.wrote
  BY <1>1, <1>3 DEF Entries
<1>5. pipe' = [pipe EXCEPT ![t] = [P EXCEPT ![i] = x]]
  BY <1>1, <1>2
<1>6. R = [P EXCEPT ![i] = x] /\ \A u \in Threads : u # t => pipe'[u] = pipe[u]
  BY <1>1, <1>5 DEF Sane, ModelType
<1>7. /\ Len(R) = Len(P) /\ R[i] = x /\ \A k \in 1 .. Len(P) : k # i => R[k] = P[k]
  BY <1>3, <1>6
<1>8. Reserving(R) => Reserving(P) /\ R[1].found = P[1].found
  <2>1. \A k \in 1 .. Len(P) : /\ R[k].kind = P[k].kind /\ R[k].found = P[k].found
                               /\ R[k].wrote = P[k].wrote
    BY <1>1, <1>4, <1>7
  <2>2. Reserving(R) => 1 \in 1 .. Len(P)
    BY <1>3, <1>7 DEF Reserving
  <2> QED
    BY <2>1, <2>2, <1>7 DEF Reserving
<1>9. Waiting(R) \subseteq Waiting(P) \cup {i}
  BY <1>7 DEF Waiting
<1>10. /\ cell'.global = cell.global
       /\ Len(cell'.local[t]) = Len(cell.local[t]) + 1
       /\ \A u \in Threads : u # t => cell'.local[u] = cell.local[u]
  BY <1>2, LocallyWritten
<1>11. ASSUME LeftOver(t) PROVE LeftOver(t)'
  <2>1. PICK l, w, p, v : /\ l = Len(cell.local[t]) /\ w = Cardinality(Waiting(P))
                          /\ p = Cardinality(Pending(senior[t])) /\ v = Cardinality(Waiting(R))
    OBVIOUS
  <2>2. l > w + p /\ l \in Nat /\ w \in Nat /\ p \in {0, 1} /\ IsFiniteSet(Waiting(P))
    <3>1. LeftCounts(t)
      BY LeftOverIs
    <3> QED
      BY <3>1, <2>1, <1>1, <1>11 DEF LeftCounts
  <2>3. (LeftOver(t)' <=> l + 1 > v + p) /\ v \in Nat
    <3>1. LeftCounts(t)'
      BY LeftOverThen
    <3>2. Pending(senior[t])' = Pending(senior[t])
      BY <1>2
    <3> QED
      BY <3>1, <3>2, <2>1, <1>1, <1>10 DEF LeftCounts
  <2>4. v <= w + 1
    <3>1. PICK W, V : W = Waiting(P) /\ V = Waiting(P) \cup {i}
      OBVIOUS
    <3>2. IsFiniteSet(V) /\ Cardinality(V) = IF i \in W THEN w ELSE w + 1
      BY <3>1, <2>1, <2>2, FS_AddElement
    <3>3. Waiting(R) \in SUBSET V
      BY <3>1, <1>9
    <3>4. v <= Cardinality(V)
      BY <3>2, <3>3, <2>1, FS_Subset
    <3>5. Cardinality(V) <= w + 1
      BY <3>2, <2>2
    <3>6. Cardinality(V) \in Nat
      BY <3>2, <2>2
    <3> QED
      BY <3>4, <3>5, <3>6, <2>2, <2>3
  <2> QED
    BY <2>2, <2>3, <2>4
<1>12. Stays
  BY <1>2, <1>6, <1>10, <1>11, StaysBut
<1>13. Reserving(pipe'[t]) => Reserving(pipe[t]) /\ pipe'[t][1].found = pipe[t][1].found
  BY <1>1, <1>8
<1> QED
  BY <1>2, <1>6, <1>10, <1>12, <1>13, LockQuiet

LEMMA LockWordIs ==
    ASSUME NEW w
    PROVE  LockIsFree(w) <=> \A b \in 0 .. 3 : w[b] = 0
<1>1. Element(LockAddr, 4) = 0 .. 3
  BY LockElements
<1> QED
  BY <1>1 DEF LockIsFree

\* The compare-exchange that found the lock free takes it; nobody else can
\* have come between its read and its write.
LEMMA DoWriteSemaphoreLock ==
    ASSUME Sane, Sane', LockInv, NEW t \in Threads, DoWriteSemaphore(t)
    PROVE  LockInv'
<1>1. PICK e, P, R : e = pipe[t][1] /\ P = pipe[t] /\ R = pipe'[t]
  OBVIOUS
<1>2. pipe' = [pipe EXCEPT ![t][1].wrote = TRUE] /\ senior' = senior
  BY DEF DoWriteSemaphore
<1>3. /\ Reserving(pipe[t]) /\ owner = {t} /\ owner' = {} /\ 1 \in DOMAIN pipe[t]
      /\ IF e.found = "entering"
         THEN WriteGlobally(t, e.uid, 1) /\ holds' = [holds EXCEPT ![t] = TRUE]
         ELSE UNCHANGED <<cell, holds>>
  BY <1>1, SemaphoreIs
<1>4. P \in Seq(Entries) /\ Len(P) \in Nat /\ 1 \in 1 .. Len(P) /\ e \in Entries
  BY <1>1, <1>3, Facts, InFlight
<1>5. PICK x : x = [e EXCEPT !.wrote = TRUE]
  OBVIOUS
<1>6. x.wrote
  BY <1>4, <1>5 DEF Entries
<1>7. pipe' = [pipe EXCEPT ![t] = [P EXCEPT ![1] = x]]
  BY <1>1, <1>2, <1>5
<1>8. R = [P EXCEPT ![1] = x] /\ \A u \in Threads : u # t => pipe'[u] = pipe[u]
  BY <1>1, <1>7 DEF Sane, ModelType
<1>9. /\ Len(R) = Len(P) /\ R[1] = x /\ \A k \in 1 .. Len(P) : k # 1 => R[k] = P[k]
  BY <1>4, <1>8
<1>10. Waiting(R) \subseteq Waiting(P)
  <2>1. ASSUME NEW k \in Waiting(R) PROVE k \in Waiting(P)
    <3>1. k \in 1 .. Len(P) /\ R[k].spec /\ ~R[k].wrote
      BY <2>1, <1>9 DEF Waiting
    <3>2. k # 1
      BY <3>1, <1>6, <1>9
    <3> QED
      BY <3>1, <3>2, <1>9 DEF Waiting
  <2> QED
    BY <2>1
<1>11. ~Reserving(R)
  BY <1>6, <1>9 DEF Reserving
<1>12. CASE e.found # "entering"
  <2>1. cell' = cell /\ holds' = holds
    BY <1>3, <1>12
  <2>2. /\ Waiting(pipe'[t]) \subseteq Waiting(pipe[t])
        /\ Reserving(pipe'[t]) => Reserving(pipe[t]) /\ pipe'[t][1].found = pipe[t][1].found
    BY <1>1, <1>10, <1>11
  <2> QED
    BY <2>1, <2>2, <1>2, <1>8, LockCalm
<1>13. CASE e.found = "entering"
  <2>1. WriteGlobally(t, e.uid, 1) /\ holds' = [holds EXCEPT ![t] = TRUE]
    BY <1>3, <1>13
  <2>2. /\ cell'.local = cell.local
        /\ \A b \in Bytes : cell'.global[b] = IF b \in 0 .. 1 THEN 1 ELSE cell.global[b]
    BY <2>1, GloballyWritten
  <2>3. cell'.global[0] = 1 /\ \A b \in 2 .. 3 : cell'.global[b] = cell.global[b]
    <3>1. \A b \in 0 .. 3 : b \in Bytes
      BY LockElements
    <3>2. 0 \in 0 .. 3 /\ 0 \in 0 .. 1 /\ \A b \in 2 .. 3 : b \in 0 .. 3 /\ b \notin 0 .. 1
      OBVIOUS
    <3> QED
      BY <3>1, <3>2, <2>2
  <2>4. LeftOver(t) => LeftOver(t)'
    <3>1. Waiting(pipe'[t]) \subseteq Waiting(pipe[t]) /\ senior'[t] \subseteq senior[t]
          /\ cell'.local[t] = cell.local[t]
      BY <2>2, <1>1, <1>2, <1>10
    <3> QED
      BY <3>1, LeftStays
  <2>5. Stays
    BY <2>2, <2>4, <1>2, <1>8, StaysBut
  <2>6. UpperHalf'
    BY <2>3 DEF LockInv, UpperHalf
  <2>7. /\ holds'[t] = TRUE /\ \A u \in Threads : u # t => holds'[u] = holds[u]
    BY <2>1 DEF Sane, ModelType
  <2>8. ~LockIsFree(cell'.global)
    <3>1. 0 \in 0 .. 3 /\ cell'.global[0] # 0
      BY <2>3
    <3> QED
      BY <3>1, LockWordIs
  <2>9. \A u \in Threads : ~Reserving(pipe'[u])
    <3>1. ASSUME NEW u \in Threads, u # t PROVE ~Reserving(pipe'[u])
      <4>1. u \notin owner /\ pipe'[u] = pipe[u]
        BY <3>1, <1>3, <1>8
      <4> QED
        BY <4>1, Facts
    <3> QED
      BY <3>1, <1>1, <1>11
  <2>10. ASSUME Clean, Locked PROVE Locked'
    <3>1. LockIsFree(cell.global)
      <4>1. ReservedWord(t)
        BY <2>10 DEF Locked
      <4> QED
        BY <4>1, <1>1, <1>3, <1>13 DEF ReservedWord
    <3>2. \A u \in Threads : ~holds[u]
      BY <3>1, <2>10 DEF Locked
    <3>3. \A u \in Threads : holds'[u] => u = t
      BY <3>2, <2>7
    <3>4. \A u, v \in Threads : holds'[u] /\ holds'[v] => u = v
      BY <3>3
    <3>5. LockIsFree(cell.global)' <=> \A u \in Threads : ~holds'[u]
      BY <2>7, <2>8
    <3>6. \A u \in Threads : ReservedWord(u)'
      BY <2>9 DEF ReservedWord
    <3> QED
      BY <3>4, <3>5, <3>6 DEF Locked
  <2> QED
    BY <2>5, <2>6, <2>10, LockStep
<1> QED
  BY <1>12, <1>13

\* The release: the thread that writes it is the one that holds the lock.
LEMMA DoWriteStoreLock ==
    ASSUME Sane, Sane', LockInv, NEW t \in Threads, DoWriteStore(t)
    PROVE  LockInv'
<1>1. PICK uid : WriteGlobally(t, uid, 0)
  BY StoreIs
<1>2. /\ cell'.local = cell.local
      /\ \A b \in Bytes : cell'.global[b] = IF b \in 0 .. 1 THEN 0 ELSE cell.global[b]
  BY <1>1, GloballyWritten
<1>3. /\ \A b \in 0 .. 1 : cell'.global[b] = 0
      /\ \A b \in 2 .. 3 : cell'.global[b] = cell.global[b]
  <2>1. \A b \in 0 .. 3 : b \in Bytes
    BY LockElements
  <2>2. /\ \A b \in 0 .. 1 : b \in 0 .. 3
        /\ \A b \in 2 .. 3 : b \in 0 .. 3 /\ b \notin 0 .. 1
    OBVIOUS
  <2> QED
    BY <2>1, <2>2, <1>2
<1>4. UpperHalf'
  BY <1>3 DEF LockInv, UpperHalf
<1>5. LockIsFree(cell'.global)
  <2>1. \A b \in 0 .. 3 : b \in 0 .. 1 \/ b \in 2 .. 3
    OBVIOUS
  <2>2. \A b \in 2 .. 3 : cell'.global[b] = 0
    BY <1>4 DEF UpperHalf
  <2> QED
    BY <2>1, <2>2, <1>3, LockWordIs
<1>6. holds[t] /\ owner' = owner /\ ~Reserving(pipe[t])
  BY StoreIs
<1>7. holds'[t] = FALSE /\ \A u \in Threads : u # t => holds'[u] = holds[u]
  BY DEF DoWriteStore, Sane, ModelType
<1>8. owner' = {}
  <2>1. owner \subseteq {t}
    BY DEF DoWriteStore
  <2>2. t \notin owner
    BY <1>6, Facts
  <2> QED
    BY <2>1, <2>2, <1>6
<1>9. \A u \in Threads : ~Reserving(pipe'[u])
  <2>1. \A u \in Threads : ThreadInv(u)'
    BY DEF Sane
  <2> QED
    BY <2>1, <1>8 DEF ThreadInv
<1>10. /\ \A u \in Threads : u # t => pipe'[u] = pipe[u] /\ senior'[u] = senior[u]
       /\ Waiting(pipe'[t]) \subseteq Waiting(pipe[t]) /\ senior'[t] \subseteq senior[t]
  <2>0. /\ \A u \in Threads : u # t => pipe'[u] = pipe[u] /\ senior'[u] = senior[u]
        /\ senior'[t] \subseteq senior[t]
    <3>1. senior \in [Threads -> SUBSET Seniors] /\ pipe \in [Threads -> Seq(Entries)]
      BY DEF Sane, ModelType
    <3>2. pipe' = pipe \/ pipe' = [pipe EXCEPT ![t][1].wrote = TRUE]
      BY StoreIs
    <3>3. senior' = senior \/ senior' = [senior EXCEPT ![t] = {}]
      BY StoreIs
    <3>4. \A u \in Threads : u # t => pipe'[u] = pipe[u]
      BY <3>1, <3>2
    <3>5. (\A u \in Threads : u # t => senior'[u] = senior[u]) /\ senior'[t] \subseteq senior[t]
      BY <3>1, <3>3
    <3> QED
      BY <3>4, <3>5
  <2>1. CASE pipe' = pipe
    BY <2>0, <2>1
  <2>2. CASE 1 \in DOMAIN pipe[t] /\ pipe' = [pipe EXCEPT ![t][1].wrote = TRUE]
    <3>1. PICK e, P, R, x : /\ e = pipe[t][1] /\ P = pipe[t] /\ R = pipe'[t]
                            /\ x = [e EXCEPT !.wrote = TRUE]
      OBVIOUS
    <3>2. P \in Seq(Entries) /\ Len(P) \in Nat /\ 1 \in 1 .. Len(P) /\ e \in Entries
      BY <3>1, <2>2, Facts, InFlight
    <3>3. x.wrote
      BY <3>1, <3>2 DEF Entries
    <3>4. pipe' = [pipe EXCEPT ![t] = [P EXCEPT ![1] = x]]
      BY <3>1, <2>2
    <3>5. R = [P EXCEPT ![1] = x]
      BY <3>1, <3>4 DEF Sane, ModelType
    <3>6. /\ Len(R) = Len(P) /\ R[1] = x /\ \A k \in 1 .. Len(P) : k # 1 => R[k] = P[k]
      BY <3>2, <3>5
    <3>7. ASSUME NEW k \in Waiting(R) PROVE k \in Waiting(P)
      <4>1. k \in 1 .. Len(P) /\ R[k].spec /\ ~R[k].wrote
        BY <3>6, <3>7 DEF Waiting
      <4>2. k # 1
        BY <4>1, <3>3, <3>6
      <4> QED
        BY <4>1, <4>2, <3>6 DEF Waiting
    <3> QED
      BY <3>1, <3>7, <2>0
  <2> QED
    BY <2>1, <2>2, StoreIs
<1>11. LeftOver(t) => LeftOver(t)'
  BY <1>2, <1>10, LeftStays
<1>12. Stays
  BY <1>2, <1>10, <1>11, StaysBut
<1>13. ASSUME Clean, Locked PROVE Locked'
  <2>1. \A u \in Threads : holds[u] => u = t
    BY <1>6, <1>13 DEF Locked
  <2>2. \A u \in Threads : ~holds'[u]
    BY <2>1, <1>7
  <2>3. \A u, v \in Threads : holds'[u] /\ holds'[v] => u = v
    BY <2>2
  <2>4. LockIsFree(cell.global)' <=> \A u \in Threads : ~holds'[u]
    BY <2>2, <1>5
  <2>5. \A u \in Threads : ReservedWord(u)'
    BY <1>9 DEF ReservedWord
  <2> QED
    BY <2>3, <2>4, <2>5 DEF Locked
<1> QED
  BY <1>4, <1>12, <1>13, LockStep

\* What is left in the pipe keeps what counts for the lock.
LEMMA LockCut ==
    ASSUME NEW P, Len(P) \in Nat, NEW R, Len(R) \in Nat, Len(R) <= Len(P),
           \A k \in 1 .. Len(R) : /\ R[k].kind = P[k].kind /\ R[k].found = P[k].found
                                  /\ R[k].spec = P[k].spec /\ R[k].wrote = P[k].wrote
    PROVE  /\ Waiting(R) \subseteq Waiting(P)
           /\ Reserving(R) => Reserving(P) /\ R[1].found = P[1].found
<1>1. \A k \in 1 .. Len(R) : k \in 1 .. Len(P)
  OBVIOUS
<1>2. Waiting(R) \subseteq Waiting(P)
  BY <1>1 DEF Waiting
<1>3. ASSUME Reserving(R) PROVE Reserving(P) /\ R[1].found = P[1].found
  <2>1. 1 \in 1 .. Len(R) /\ Len(P) # 0
    BY <1>3 DEF Reserving
  <2> QED
    BY <2>1, <1>3 DEF Reserving
<1> QED
  BY <1>2, <1>3

LEMMA ResteerLock ==
    ASSUME Sane, Sane', LockInv, NEW t \in Threads, NEW i \in DOMAIN pipe[t], Resteer(t, i)
    PROVE  LockInv'
<1>1. PICK P, e, x, R, S : /\ P = pipe[t] /\ e = pipe[t][i] /\ x = [e EXCEPT !.next = e.actual]
                           /\ S = SubSeq(P, 1, i - 1) /\ R = Append(S, x)
  OBVIOUS
<1>2. /\ e.actual # NoPc /\ Kill(t, e.uid, FALSE)
      /\ pipe' = [pipe EXCEPT ![t] = R]
      /\ senior' = senior /\ holds' = holds
  BY <1>1 DEF Resteer
<1>3. /\ P \in Seq(Entries) /\ Len(P) \in Nat /\ i \in 1 .. Len(P) /\ i \in Nat /\ e \in Entries
      /\ Proper(e)
  BY <1>1, Facts, InFlight
<1>4. e.kind # "junk"
  BY <1>2, <1>3 DEF Proper, Branches
<1>5. cell' = cell
  <2>1. PICK killMe, r : killMe \in BOOLEAN /\ killMe = FALSE /\ r = i
    OBVIOUS
  <2>2. killMe \in BOOLEAN /\ r = (IF killMe THEN i - 1 ELSE i) /\ Kill(t, e.uid, killMe)
    BY <2>1, <1>2
  <2>3. pipe[t][i].kind # "junk" /\ e.uid = pipe[t][i].uid
    BY <1>1, <1>4
  <2> QED
    BY <2>2, <2>3, KillDoes
<1>6. pipe'[t] = R /\ \A u \in Threads : u # t => pipe'[u] = pipe[u]
  BY <1>2 DEF Sane, ModelType
<1>7. S \in Seq(Entries) /\ Len(S) = i - 1 /\ \A k \in 1 .. i - 1 : S[k] = P[k]
  <2>1. 1 \in 1 .. Len(P) + 1 /\ i - 1 \in 0 .. Len(P) /\ 1 <= i - 1 + 1
    BY <1>3
  <2>2. /\ S \in Seq(Entries) /\ Len(S) = i - 1 - 1 + 1
        /\ \A k \in 1 .. i - 1 - 1 + 1 : S[k] = P[1 + k - 1]
    BY <2>1, <1>1, <1>3, PartOf
  <2> QED
    BY <2>2, <1>3
<1>8. Len(R) = i /\ R[i] = x /\ \A k \in 1 .. i - 1 : R[k] = P[k]
  <2>1. /\ Len(R) = Len(S) + 1 /\ (\A k \in 1 .. Len(S) : R[k] = S[k]) /\ R[Len(S) + 1] = x
    BY <1>1, <1>7, AppendProperties
  <2> QED
    BY <2>1, <1>3, <1>7
<1>9. x.kind = e.kind /\ x.found = e.found /\ x.spec = e.spec /\ x.wrote = e.wrote
  BY <1>1, <1>3 DEF Entries
<1>10. ASSUME NEW k \in 1 .. i
       PROVE  /\ R[k].kind = P[k].kind /\ R[k].found = P[k].found
              /\ R[k].spec = P[k].spec /\ R[k].wrote = P[k].wrote
  <2>1. CASE k = i
    BY <2>1, <1>1, <1>8, <1>9
  <2>2. CASE k # i
    BY <2>2, <1>3, <1>8
  <2> QED
    BY <2>1, <2>2
<1>11. Len(R) \in Nat /\ Len(R) <= Len(P)
  BY <1>3, <1>8
<1>12. /\ Waiting(R) \subseteq Waiting(P)
       /\ Reserving(R) => Reserving(P) /\ R[1].found = P[1].found
  BY <1>3, <1>8, <1>10, <1>11, LockCut
<1>13. /\ Waiting(pipe'[t]) \subseteq Waiting(pipe[t])
       /\ Reserving(pipe'[t]) => Reserving(pipe[t]) /\ pipe'[t][1].found = pipe[t][1].found
  BY <1>1, <1>6, <1>12
<1> QED
  BY <1>2, <1>5, <1>6, <1>13, LockCalm

LEMMA TrapLock ==
    ASSUME Sane, Sane', LockInv, NEW t \in Threads, NEW i \in DOMAIN pipe[t], Trap(t, i)
    PROVE  LockInv'
<1>1. PICK P, e, R : P = pipe[t] /\ e = pipe[t][i] /\ R = SubSeq(P, 1, i - 1)
  OBVIOUS
<1>2. /\ e.kind \in Tests \cup {"store"} /\ Kill(t, e.uid, TRUE)
      /\ pipe' = [pipe EXCEPT ![t] = R]
      /\ senior' = senior /\ holds' = holds
  BY <1>1 DEF Trap
<1>3. P \in Seq(Entries) /\ Len(P) \in Nat /\ i \in 1 .. Len(P) /\ i \in Nat
  BY <1>1, Facts, InFlight
<1>4. e.kind # "junk"
  BY <1>2 DEF Tests
<1>5. cell' = cell
  <2>1. PICK killMe, r : killMe \in BOOLEAN /\ killMe = TRUE /\ r = i - 1
    OBVIOUS
  <2>2. killMe \in BOOLEAN /\ r = (IF killMe THEN i - 1 ELSE i) /\ Kill(t, e.uid, killMe)
    BY <2>1, <1>2
  <2>3. pipe[t][i].kind # "junk" /\ e.uid = pipe[t][i].uid
    BY <1>1, <1>4
  <2> QED
    BY <2>2, <2>3, KillDoes
<1>6. pipe'[t] = R /\ \A u \in Threads : u # t => pipe'[u] = pipe[u]
  BY <1>2 DEF Sane, ModelType
<1>7. Len(R) = i - 1 /\ \A k \in 1 .. i - 1 : R[k] = P[k]
  <2>1. 1 \in 1 .. Len(P) + 1 /\ i - 1 \in 0 .. Len(P) /\ 1 <= i - 1 + 1
    BY <1>3
  <2>2. Len(R) = i - 1 - 1 + 1 /\ \A k \in 1 .. i - 1 - 1 + 1 : R[k] = P[1 + k - 1]
    BY <2>1, <1>1, <1>3, PartOf
  <2> QED
    BY <2>2, <1>3
<1>8. Len(R) \in Nat /\ Len(R) <= Len(P)
  BY <1>3, <1>7
<1>9. /\ Waiting(R) \subseteq Waiting(P)
      /\ Reserving(R) => Reserving(P) /\ R[1].found = P[1].found
  BY <1>3, <1>7, <1>8, LockCut
<1>10. /\ Waiting(pipe'[t]) \subseteq Waiting(pipe[t])
       /\ Reserving(pipe'[t]) => Reserving(pipe[t]) /\ pipe'[t][1].found = pipe[t][1].found
  BY <1>1, <1>6, <1>9
<1> QED
  BY <1>2, <1>5, <1>6, <1>10, LockCalm

\* A committed store takes its place among the stores that wait.
LEMMA CommitLock ==
    ASSUME Sane, Sane', LockInv, NEW t \in Threads, NEW i \in DOMAIN pipe[t], Commit(t, i)
    PROVE  LockInv'
<1>1. PICK P, e : P = pipe[t] /\ e = pipe[t][i]
  OBVIOUS
<1>2. /\ e.kind = "store" => senior[t] = {}
      /\ senior' = [senior EXCEPT ![t] = IF e.kind # "store" \/ e.wrote THEN senior[t]
                                         ELSE {[uid |-> e.uid, spec |-> e.spec]}]
      /\ cell' = cell /\ holds' = holds
      /\ e.kind # "junk"
  BY <1>1, CommitDoes, CommitIs
<1>3. PICK base \in {0, e.uid} :
        pipe' = [pipe EXCEPT ![t] = Recount(SubSeq(P, i + 1, Len(P)), base)]
  BY <1>1, CommitDoes
<1>4. PICK R : R = Recount(SubSeq(P, i + 1, Len(P)), base)
  OBVIOUS
<1>5. R \in Seq(Entries) /\ Shifts(P, R, i, base)
  BY <1>1, <1>2, <1>4, CommitShifts
<1>6. /\ P \in Seq(Entries) /\ Flow(P, fetchPc[t]) /\ Len(P) \in Nat /\ i \in 1 .. Len(P)
      /\ i \in Nat /\ i >= 1 /\ i <= Len(P)
  BY <1>1, Facts, InFlight
<1>7. Len(R) = Len(P) - i /\ \A k \in 1 .. Len(P) - i : R[k] = [P[k + i] EXCEPT !.uid = @ - base]
  BY <1>5 DEF Shifts
<1>8. PICK d \in Nat : d = Len(P) - i
  BY <1>6
<1>9. ASSUME NEW k \in 1 .. d
      PROVE  /\ k + i \in 2 .. Len(P) /\ k + i \in 1 .. Len(P) /\ k + i # i
             /\ R[k].kind = P[k + i].kind /\ R[k].found = P[k + i].found
             /\ R[k].spec = P[k + i].spec /\ R[k].wrote = P[k + i].wrote
  <2>1. k + i \in 2 .. Len(P) /\ k + i \in 1 .. Len(P) /\ k + i # i
    BY <1>6, <1>8
  <2>2. P[k + i] \in Entries
    BY <2>1, <1>6, Entry
  <2>3. R[k] = [P[k + i] EXCEPT !.uid = @ - base]
    BY <1>7, <1>8
  <2> QED
    BY <2>1, <2>2, <2>3, RecountedEntry
<1>10. Len(R) = d
  BY <1>7, <1>8
<1>11. pipe'[t] = R /\ \A u \in Threads : u # t => pipe'[u] = pipe[u]
  BY <1>3, <1>4 DEF Sane, ModelType
<1>12. ~Reserving(R)
  <2>1. SUFFICES ASSUME Reserving(R) PROVE FALSE
    OBVIOUS
  <2>2. 1 \in 1 .. d
    BY <2>1, <1>8, <1>10 DEF Reserving
  <2>3. OnlyFirst(P[1 + i])
    BY <2>1, <2>2, <1>9 DEF Reserving, OnlyFirst
  <2>4. 1 + i \in 2 .. Len(P)
    BY <2>2, <1>9
  <2> QED
    BY <2>3, <2>4, <1>6 DEF Flow
<1>13. /\ \A u \in Threads : u # t => senior'[u] = senior[u]
       /\ senior'[t] = IF e.kind # "store" \/ e.wrote THEN senior[t]
                       ELSE {[uid |-> e.uid, spec |-> e.spec]}
  BY <1>2 DEF Sane, ModelType
<1>14. ASSUME LeftOver(t) PROVE LeftOver(t)'
  <2>1. PICK l, w, p, v, q :
          /\ l = Len(cell.local[t]) /\ w = Cardinality(Waiting(P))
          /\ p = Cardinality(Pending(senior[t]))
          /\ v = Cardinality(Waiting(R)) /\ q = Cardinality(Pending(senior'[t]))
    OBVIOUS
  <2>2. l > w + p /\ l \in Nat /\ w \in Nat /\ p \in {0, 1} /\ IsFiniteSet(Waiting(P))
    <3>1. LeftCounts(t)
      BY LeftOverIs
    <3> QED
      BY <3>1, <2>1, <1>1, <1>14 DEF LeftCounts
  <2>3. (LeftOver(t)' <=> l > v + q) /\ v \in Nat /\ q \in {0, 1}
    <3>1. LeftCounts(t)'
      BY LeftOverThen
    <3> QED
      BY <3>1, <2>1, <1>2, <1>11 DEF LeftCounts
  <2>4. PICK W, V, U : W = Waiting(P) /\ V = Waiting(R) /\ U = W \ {i}
    OBVIOUS
  <2>5. IsFiniteSet(U) /\ Cardinality(U) = IF i \in W THEN w - 1 ELSE w
    BY <2>1, <2>2, <2>4, FS_RemoveElement
  <2>6. PICK g : g = [k \in V |-> k + i]
    OBVIOUS
  <2>7. ASSUME NEW k \in V PROVE k \in Nat /\ k + i \in U
    <3>1. k \in 1 .. d /\ R[k].spec /\ ~R[k].wrote
      BY <2>4, <2>7, <1>10 DEF Waiting
    <3>2. k + i \in 1 .. Len(P) /\ k + i # i /\ P[k + i].spec /\ ~P[k + i].wrote
      BY <3>1, <1>9
    <3>3. k + i \in W /\ k + i # i
      BY <3>2, <2>4 DEF Waiting
    <3> QED
      BY <3>1, <3>3, <2>4
  <2>8. g \in [V -> U]
    BY <2>6, <2>7
  <2>9. ASSUME NEW j \in V, NEW k \in V, g[j] = g[k] PROVE j = k
    <3>1. j + i = k + i
      BY <2>6, <2>9
    <3> QED
      BY <3>1, <2>7, <1>6
  <2>10. g \in Injection(V, U)
    BY <2>8, <2>9 DEF Injection, IsInjective
  <2>11. v <= Cardinality(U)
    BY <2>1, <2>4, <2>5, <2>10, FS_Injection
  <2>12. CASE e.kind # "store" \/ e.wrote
    <3>1. q = p
      BY <2>1, <2>12, <1>13
    <3>2. v <= w
      BY <2>2, <2>3, <2>5, <2>11
    <3> QED
      BY <3>1, <3>2, <2>2, <2>3
  <2>13. CASE ~(e.kind # "store" \/ e.wrote) /\ e.spec
    <3>1. i \in W
      BY <2>4, <2>13, <1>1, <1>6 DEF Waiting
    <3>2. v <= w - 1
      BY <3>1, <2>5, <2>11
    <3> QED
      BY <3>2, <2>2, <2>3
  <2>14. CASE ~(e.kind # "store" \/ e.wrote) /\ ~e.spec
    <3>1. senior'[t] = {[uid |-> e.uid, spec |-> e.spec]}
      BY <2>14, <1>13
    <3>2. Pending(senior'[t]) = {}
      BY <3>1, <2>14 DEF Pending
    <3>3. q = 0
      BY <3>2, <2>1, FS_EmptySet
    <3>4. v <= w
      BY <2>2, <2>3, <2>5, <2>11
    <3> QED
      BY <3>3, <3>4, <2>2, <2>3
  <2> QED
    BY <2>12, <2>13, <2>14
<1>15. Stays
  BY <1>2, <1>11, <1>13, <1>14, StaysBut
<1>16. Reserving(pipe'[t]) => Reserving(pipe[t]) /\ pipe'[t][1].found = pipe[t][1].found
  BY <1>11, <1>12
<1> QED
  BY <1>2, <1>11, <1>15, <1>16, LockQuiet

-----------------------------------------------------------------------------
(* The lock is held by one thread.                                         *)

LEMMA LockInit == Init => LockInv
<1> SUFFICES ASSUME Init PROVE LockInv
  OBVIOUS
<1>1. \A b \in Bytes : cell.global[b] = 0
  BY DEF Init, NewCell, Zeros
<1>2. \A b \in 0 .. 3 : cell.global[b] = 0
  BY <1>1, LockElements
<1>3. UpperHalf
  <2>1. \A b \in 2 .. 3 : b \in 0 .. 3
    OBVIOUS
  <2> QED
    BY <2>1, <1>2 DEF UpperHalf
<1>4. LockIsFree(cell.global)
  BY <1>2, LockWordIs
<1>5. \A t \in Threads : ~holds[t] /\ ~Reserving(pipe[t])
  <2>1. \A t \in Threads : holds[t] = FALSE /\ Len(pipe[t]) = 0
    BY DEF Init
  <2> QED
    BY <2>1 DEF Reserving
<1>6. Locked
  BY <1>4, <1>5 DEF Locked, ReservedWord
<1> QED
  BY <1>3, <1>6 DEF LockInv

LEMMA LockNext ==
    ASSUME Sane, Sane', LockInv, [Next]_vars
    PROVE  LockInv'
<1>1. CASE UNCHANGED vars
  <2>1. cell' = cell /\ pipe' = pipe /\ senior' = senior /\ holds' = holds
    BY <1>1 DEF vars, model
  <2> QED
    BY <2>1 DEF LockInv, UpperHalf, Clean, LeftOver, Locked, ReservedWord
<1>2. ASSUME NEW t \in Threads, Proceed(t) PROVE LockInv'
  <2>1. CASE Fetch(t)
    BY <2>1, FetchLock
  <2>2. CASE DoWriteSemaphore(t)
    BY <2>2, DoWriteSemaphoreLock
  <2>3. CASE DoWriteStore(t)
    BY <2>3, DoWriteStoreLock
  <2>4. ASSUME NEW i \in DOMAIN pipe[t], Issue(t, i) PROVE LockInv'
    BY <2>4, IssueLock
  <2>5. ASSUME NEW i \in DOMAIN pipe[t], DoRead(t, i) PROVE LockInv'
    BY <2>5, DoReadLock
  <2>6. ASSUME NEW i \in DOMAIN pipe[t], Commit(t, i) PROVE LockInv'
    BY <2>6, CommitLock
  <2>7. ASSUME NEW i \in DOMAIN pipe[t], Resteer(t, i) PROVE LockInv'
    BY <2>7, ResteerLock
  <2> QED
    BY <2>1, <2>2, <2>3, <2>4, <2>5, <2>6, <2>7, <1>2 DEF Proceed
<1>3. ASSUME NEW t \in Threads, NEW i \in DOMAIN pipe[t], DoSpecWrite(t, i) PROVE LockInv'
  BY <1>3, DoSpecWriteLock
<1>4. ASSUME NEW t \in Threads, NEW i \in DOMAIN pipe[t], Trap(t, i) PROVE LockInv'
  BY <1>4, TrapLock
<1> QED
  BY <1>1, <1>2, <1>3, <1>4 DEF Next

LEMMA LockGivesOne == Sane /\ LockInv => LockHeldByOne
<1> SUFFICES ASSUME Sane, LockInv, \A t \in Threads : ~LeftOver(t)
             PROVE  Cardinality({t \in Threads : holds[t]}) =
                      IF LockIsFree(cell.global) THEN 0 ELSE 1
  BY DEF LockHeldByOne
<1>1. Locked
  BY DEF LockInv, Clean
<1>2. CASE LockIsFree(cell.global)
  <2>1. {t \in Threads : holds[t]} = {}
    BY <1>1, <1>2 DEF Locked
  <2> QED
    BY <2>1, <1>2, FS_EmptySet
<1>3. CASE ~LockIsFree(cell.global)
  <2>1. PICK u \in Threads : holds[u]
    BY <1>1, <1>3 DEF Locked
  <2>2. {t \in Threads : holds[t]} = {u}
    BY <2>1, <1>1 DEF Locked
  <2>3. Cardinality({u}) = 1
    BY FS_Singleton
  <2> QED
    BY <2>2, <2>3, <1>3
<1> QED
  BY <1>2, <1>3

\* As long as no locally visible store is left over, the lock word is set
\* exactly while one thread is between its compare-exchange and its release:
\* whatever is fetched wrongly, squashed and replayed, the outcome that
\* handle_mvm_one_write looks up is the one its own read has found, and no
\* other thread has come in between.
THEOREM OneHolder ==
    ASSUME ~Wraps
    PROVE  Spec => []LockHeldByOne
<1>1. Init => LockInv
  BY LockInit
<1>2. Sane /\ Sane' /\ LockInv /\ [Next]_vars => LockInv'
  BY LockNext
<1>3. Spec => []Sane
  BY SaneAlways
<1>4. Spec => []LockInv
  BY <1>1, <1>2, <1>3, PTL DEF Spec
<1>5. Sane /\ LockInv => LockHeldByOne
  BY LockGivesOne
<1> QED
  BY <1>3, <1>4, <1>5, PTL
=============================================================================
