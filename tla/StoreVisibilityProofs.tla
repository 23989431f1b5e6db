----------------------- MODULE StoreVisibilityProofs ------------------------
(***************************************************************************)
(* Proofs about the memory value model: whatever stores of whatever sizes  *)
(* any number of processors makes visible or kills, a cell's lists are the *)
(* outstanding stores, and a load is bound to what its processor has to    *)
(* see.                                                                    *)
(***************************************************************************)
EXTENDS StoreVisibility, SequenceTheorems, FiniteSetTheorems,
        WellFoundedInduction, TLAPS

-----------------------------------------------------------------------------
(* Least and greatest elements.                                            *)

LEMMA LeastNat ==
    ASSUME NEW T, T \subseteq Nat, T # {}
    PROVE  \E x \in T : \A y \in T : x <= y
<1>1. PICK x \in T : \A y \in T : ~(<<y, x>> \in OpToRel(<, Nat))
  BY WFMin, NatLessThanWellFounded
<1>2. ASSUME NEW y \in T PROVE x <= y
  <2>1. ~(<<y, x>> \in OpToRel(<, Nat))
    BY <1>1
  <2>2. ~(y < x)
    BY <2>1 DEF OpToRel
  <2> QED
    BY <2>2
<1> QED
  BY <1>2

\* A set of places in a list has a first and a last one.
LEMMA FirstAndLast ==
    ASSUME NEW n \in Nat, NEW T, T \subseteq 1 .. n, T # {}
    PROVE  /\ Min(T) \in T /\ \A y \in T : Min(T) <= y
           /\ Max(T) \in T /\ \A y \in T : Max(T) >= y
<1>1. T \subseteq Nat
  OBVIOUS
<1>2. \E x \in T : \A y \in T : x <= y
  BY <1>1, LeastNat
<1>3. \E x \in T : \A y \in T : x >= y
  <2> DEFINE U == {n - x : x \in T}
  <2>1. U \subseteq Nat /\ U # {}
    <3>1. \A x \in T : n - x \in Nat
      OBVIOUS
    <3> QED
      BY <3>1
  <2>2. PICK u \in U : \A w \in U : u <= w
    <3> HIDE DEF U
    <3> QED
      BY <2>1, LeastNat
  <2>3. PICK x \in T : u = n - x
    OBVIOUS
  <2>4. ASSUME NEW y \in T PROVE x >= y
    <3>1. n - y \in U
      OBVIOUS
    <3>2. n - x <= n - y
      BY <2>2, <2>3, <3>1
    <3>3. x \in Nat /\ y \in Nat
      OBVIOUS
    <3> QED
      BY <3>2, <3>3
  <2> QED
    BY <2>4
<1> QED
  BY <1>2, <1>3 DEF Min, Max

-----------------------------------------------------------------------------
(* What list::remove leaves.                                               *)

\* Without computes what a function that meets its equation computes.
LEMMA WithoutIs ==
    ASSUME NEW s, NEW ids, Len(s) \in Nat, NEW G,
           G = [i \in 0 .. Len(s) |->
                  IF i = 0 THEN <<>>
                  ELSE IF s[i].id \in ids THEN G[i - 1]
                  ELSE Append(G[i - 1], s[i])]
    PROVE  Without(s, ids) = G[Len(s)]
<1> DEFINE Meets(f) == f = [i \in 0 .. Len(s) |->
                              IF i = 0 THEN <<>>
                              ELSE IF s[i].id \in ids THEN f[i - 1]
                              ELSE Append(f[i - 1], s[i])]
           F == CHOOSE f : Meets(f)
<1>1. Meets(F)
  <2>1. Meets(G)
    OBVIOUS
  <2> HIDE DEF Meets
  <2> QED
    BY <2>1
<1>2. Without(s, ids) = F[Len(s)]
  BY DEF Without
<1>3. \A i \in 0 .. Len(s) : F[i] = IF i = 0 THEN <<>>
                                    ELSE IF s[i].id \in ids THEN F[i - 1]
                                    ELSE Append(F[i - 1], s[i])
  <2> HIDE DEF F
  <2> QED
    BY <1>1
<1>4. \A i \in 0 .. Len(s) : G[i] = IF i = 0 THEN <<>>
                                    ELSE IF s[i].id \in ids THEN G[i - 1]
                                    ELSE Append(G[i - 1], s[i])
  OBVIOUS
<1> HIDE DEF F
<1> DEFINE Differ == {i \in 0 .. Len(s) : F[i] # G[i]}
<1>5. Differ = {}
  <2> SUFFICES ASSUME Differ # {} PROVE FALSE
    OBVIOUS
  <2>1. Differ \subseteq Nat
    OBVIOUS
  <2>2. PICK i \in Differ : \A j \in Differ : i <= j
    <3> HIDE DEF Differ
    <3> QED
      BY <2>1, LeastNat
  <2>3. i \in 0 .. Len(s) /\ F[i] # G[i]
    OBVIOUS
  <2>4. i # 0
    BY <1>3, <1>4, <2>3
  <2>5. i - 1 \in 0 .. Len(s) /\ ~(i <= i - 1)
    BY <2>3, <2>4
  <2>6. F[i - 1] = G[i - 1]
    BY <2>2, <2>5
  <2> QED
    BY <1>3, <1>4, <2>3, <2>4, <2>6
<1> QED
  BY <1>2, <1>5

LEMMA WithoutMiss ==
    ASSUME NEW S, NEW s \in Seq(S), NEW ids,
           \A i \in 1 .. Len(s) : s[i].id \notin ids
    PROVE  Without(s, ids) = s
<1> DEFINE G == [i \in 0 .. Len(s) |-> SubSeq(s, 1, i)]
<1>1. \A i \in 1 .. Len(s) : SubSeq(s, 1, i) = Append(SubSeq(s, 1, i - 1), s[i])
  OBVIOUS
<1>2. G = [i \in 0 .. Len(s) |-> IF i = 0 THEN <<>>
                                 ELSE IF s[i].id \in ids THEN G[i - 1]
                                 ELSE Append(G[i - 1], s[i])]
  <2>1. SubSeq(s, 1, 0) = <<>>
    OBVIOUS
  <2>2. \A i \in 1 .. Len(s) : i - 1 \in 0 .. Len(s)
    OBVIOUS
  <2>3. \A i \in 0 .. Len(s) : i # 0 => i \in 1 .. Len(s)
    OBVIOUS
  <2> QED
    BY <1>1, <2>1, <2>2, <2>3
<1>3. Len(s) \in Nat
  OBVIOUS
<1>5. SubSeq(s, 1, Len(s)) = s
  OBVIOUS
<1>4. Without(s, ids) = G[Len(s)]
  <2> HIDE DEF G
  <2> QED
    BY <1>2, <1>3, WithoutIs
<1> QED
  BY <1>3, <1>4, <1>5

LEMMA RemoveAtSeq ==
    ASSUME NEW S, NEW s \in Seq(S), NEW k \in 1 .. Len(s)
    PROVE  /\ RemoveAt(s, k) \in Seq(S)
           /\ Len(RemoveAt(s, k)) = Len(s) - 1
           /\ \A i \in 1 .. Len(s) - 1 :
                RemoveAt(s, k)[i] = IF i < k THEN s[i] ELSE s[i + 1]
<1> DEFINE p == SubSeq(s, 1, k - 1)
           q == SubSeq(s, k + 1, Len(s))
<1>1. Len(s) \in Nat /\ k \in Nat
  OBVIOUS
<1>2. p \in Seq(S) /\ Len(p) = k - 1 /\ \A i \in 1 .. k - 1 : p[i] = s[i]
  OBVIOUS
<1>3. /\ q \in Seq(S) /\ Len(q) = Len(s) - k
      /\ \A i \in 1 .. Len(s) - k : q[i] = s[i + k]
  OBVIOUS
<1>4. RemoveAt(s, k) = p \o q
  BY DEF RemoveAt
<1> HIDE DEF p, q
<1>5. /\ p \o q \in Seq(S) /\ Len(p \o q) = Len(s) - 1
      /\ \A i \in 1 .. Len(s) - 1 :
           (p \o q)[i] = IF i < k THEN p[i] ELSE q[i - (k - 1)]
  <2> PICK n \in Nat : n = Len(s)
    BY <1>1
  <2>1. Len(p) + Len(q) = n - 1 /\ Len(p) = k - 1
    BY <1>1, <1>2, <1>3
  <2>2. p \o q \in Seq(S)
    BY <1>2, <1>3
  <2>3. Len(p \o q) = Len(p) + Len(q)
    BY <1>2, <1>3, ConcatProperties
  <2>4. \A i \in 1 .. Len(p) + Len(q) :
          (p \o q)[i] = IF i <= Len(p) THEN p[i] ELSE q[i - Len(p)]
    BY <1>2, <1>3
  <2>5. \A i \in 1 .. n - 1 : i < k <=> i <= k - 1
    BY <1>1
  <2> QED
    BY <2>1, <2>2, <2>3, <2>4, <2>5
<1> QED
  BY <1>1, <1>2, <1>3, <1>4, <1>5

LEMMA WithoutHit ==
    ASSUME NEW S, NEW s \in Seq(S), NEW ids, NEW k \in 1 .. Len(s),
           s[k].id \in ids,
           \A i \in 1 .. Len(s) : i # k => s[i].id \notin ids
    PROVE  Without(s, ids) = RemoveAt(s, k)
<1> DEFINE g(i) == IF i < k THEN SubSeq(s, 1, i)
                   ELSE SubSeq(s, 1, k - 1) \o SubSeq(s, k + 1, i)
           G == [i \in 0 .. Len(s) |-> g(i)]
<1>1. g(0) = <<>>
  OBVIOUS
<1>2. g(k) = g(k - 1)
  <2>1. SubSeq(s, 1, k - 1) \in Seq(S)
    OBVIOUS
  <2>2. SubSeq(s, k + 1, k) = <<>>
    OBVIOUS
  <2>3. SubSeq(s, 1, k - 1) \o <<>> = SubSeq(s, 1, k - 1)
    BY <2>1
  <2>4. k - 1 < k /\ ~(k < k)
    OBVIOUS
  <2> QED
    BY <2>2, <2>3, <2>4
<1>3. \A i \in 1 .. Len(s) : i # k => g(i) = Append(g(i - 1), s[i])
  OBVIOUS
<1>4. Len(s) \in Nat /\ g(Len(s)) = RemoveAt(s, k)
  <2>1. Len(s) \in Nat /\ ~(Len(s) < k)
    OBVIOUS
  <2> QED
    BY <2>1 DEF RemoveAt
<1> HIDE DEF g
<1>5. G = [i \in 0 .. Len(s) |-> IF i = 0 THEN <<>>
                                 ELSE IF s[i].id \in ids THEN G[i - 1]
                                 ELSE Append(G[i - 1], s[i])]
  <2>2. \A i \in 1 .. Len(s) : i - 1 \in 0 .. Len(s)
    OBVIOUS
  <2>3. \A i \in 0 .. Len(s) : i # 0 => i \in 1 .. Len(s)
    OBVIOUS
  <2> QED
    BY <1>1, <1>2, <1>3, <2>2, <2>3
<1>6. Without(s, ids) = G[Len(s)]
  <2> HIDE DEF G
  <2> QED
    BY <1>4, <1>5, WithoutIs
<1> QED
  BY <1>4, <1>6

\* The latest store is first in a cell's list and last among those held.
LEMMA ReverseSeq ==
    ASSUME NEW S, NEW s \in Seq(S)
    PROVE  /\ Reverse(s) \in Seq(S)
           /\ Len(Reverse(s)) = Len(s)
           /\ \A i \in 1 .. Len(s) : Reverse(s)[i] = s[Len(s) - i + 1]
<1>1. Len(s) \in Nat
  OBVIOUS
<1>2. \A i \in 1 .. Len(s) : Len(s) - i + 1 \in 1 .. Len(s)
  BY <1>1
<1>3. \A i \in 1 .. Len(s) : s[Len(s) - i + 1] \in S
  BY <1>2
<1> QED
  BY <1>1, <1>3 DEF Reverse

LEMMA ReverseAppend ==
    ASSUME NEW S, NEW s \in Seq(S), NEW m \in S
    PROVE  <<m>> \o Reverse(s) = Reverse(Append(s, m))
<1> DEFINE r == Reverse(s)
           a == Append(s, m)
           one == <<m>>
<1>1. PICK n \in Nat : n = Len(s)
  OBVIOUS
<1>2. r \in Seq(S) /\ Len(r) = n /\ \A i \in 1 .. n : r[i] = s[n - i + 1]
  BY <1>1, ReverseSeq
<1>3. /\ a \in Seq(S) /\ Len(a) = n + 1 /\ a[n + 1] = m
      /\ \A i \in 1 .. n : a[i] = s[i]
  BY <1>1
<1>4. one \in Seq(S) /\ Len(one) = 1 /\ one[1] = m
  OBVIOUS
<1>5. /\ Reverse(a) \in Seq(S) /\ Len(Reverse(a)) = n + 1
      /\ \A i \in 1 .. n + 1 : Reverse(a)[i] = a[n + 1 - i + 1]
  <2> HIDE DEF a
  <2> QED
    BY <1>3, ReverseSeq
<1> HIDE DEF r, a, one
<1>6. /\ one \o r \in Seq(S) /\ Len(one \o r) = 1 + n
      /\ \A i \in 1 .. 1 + n : (one \o r)[i] = IF i <= 1 THEN one[i] ELSE r[i - 1]
  <2>0. one \in Seq(S) /\ r \in Seq(S)
    BY <1>2, <1>4
  <2>1. /\ one \o r \in Seq(S) /\ Len(one \o r) = Len(one) + Len(r)
        /\ \A i \in 1 .. Len(one) + Len(r) :
             (one \o r)[i] = IF i <= Len(one) THEN one[i] ELSE r[i - Len(one)]
    BY <2>0, ConcatProperties, Zenon
  <2> QED
    BY <1>2, <1>4, <2>1
<1>7. ASSUME NEW i \in 1 .. n + 1 PROVE (one \o r)[i] = Reverse(a)[i]
  <2>1. CASE i = 1
    BY <1>3, <1>4, <1>5, <1>6, <2>1
  <2>2. CASE i # 1
    <3>1. i - 1 \in 1 .. n /\ n - (i - 1) + 1 = n - i + 2 /\ n + 1 - i + 1 = n - i + 2
          /\ n - i + 2 \in 1 .. n
      BY <2>2
    <3>2. (one \o r)[i] = r[i - 1] /\ r[i - 1] = s[n - i + 2]
      BY <1>2, <1>6, <2>2, <3>1
    <3>3. Reverse(a)[i] = a[n - i + 2] /\ a[n - i + 2] = s[n - i + 2]
      BY <1>3, <1>5, <3>1
    <3> QED
      BY <3>2, <3>3
  <2> QED
    BY <2>1, <2>2
<1>8. one \o r = Reverse(a)
  <2>1. Len(one \o r) = n + 1
    BY <1>6
  <2>2. \A i \in 1 .. Len(one \o r) : (one \o r)[i] = Reverse(a)[i]
    BY <1>7, <2>1
  <2>3. one \o r \in Seq(S) /\ Reverse(a) \in Seq(S)
        /\ Len(one \o r) = Len(Reverse(a))
    BY <1>5, <1>6, <2>1
  <2> QED
    BY <2>2, <2>3, SeqEqual, Zenon
<1> QED
  BY <1>8 DEF one, r, a

\* A memop is in a list of outstanding stores once.
Distinct(s) == \A j, k \in 1 .. Len(s) : j # k => s[j].id # s[k].id

LEMMA ReverseWithout ==
    ASSUME NEW S, NEW s \in Seq(S), Distinct(s), NEW k \in 1 .. Len(s)
    PROVE  Without(Reverse(s), {s[k].id}) = Reverse(RemoveAt(s, k))
<1> DEFINE r == Reverse(s)
           a == RemoveAt(s, k)
<1>1. PICK n \in Nat : n = Len(s)
  OBVIOUS
<1>2. k \in 1 .. n /\ n - k + 1 \in 1 .. n /\ n - (n - k + 1) + 1 = k
  BY <1>1
<1>3. r \in Seq(S) /\ Len(r) = n /\ \A i \in 1 .. n : r[i] = s[n - i + 1]
  BY <1>1, ReverseSeq
<1>4. /\ a \in Seq(S) /\ Len(a) = n - 1
      /\ \A i \in 1 .. n - 1 : a[i] = IF i < k THEN s[i] ELSE s[i + 1]
  BY <1>1, RemoveAtSeq
<1>5. /\ Reverse(a) \in Seq(S) /\ Len(Reverse(a)) = n - 1
      /\ \A i \in 1 .. n - 1 : Reverse(a)[i] = a[n - 1 - i + 1]
  <2> HIDE DEF a
  <2>1. a \in Seq(S) /\ Len(a) = n - 1
    BY <1>4
  <2>2. /\ Reverse(a) \in Seq(S) /\ Len(Reverse(a)) = Len(a)
        /\ \A i \in 1 .. Len(a) : Reverse(a)[i] = a[Len(a) - i + 1]
    BY <2>1, ReverseSeq, Zenon
  <2> QED
    BY <2>1, <2>2
<1> HIDE DEF r, a
<1>6. PICK d : d = n - k + 1
  OBVIOUS
<1>7. d \in 1 .. n /\ r[d] = s[k]
  BY <1>2, <1>3, <1>6
<1>8. \A i \in 1 .. n : i # d => r[i].id # s[k].id
  <2> SUFFICES ASSUME NEW i \in 1 .. n, i # d PROVE r[i].id # s[k].id
    OBVIOUS
  <2>1. n - i + 1 \in 1 .. n /\ n - i + 1 # k
    BY <1>2, <1>6
  <2>2. s[n - i + 1].id # s[k].id
    BY <1>1, <1>2, <2>1 DEF Distinct
  <2> QED
    BY <1>3, <2>2
<1>9. Without(r, {s[k].id}) = RemoveAt(r, d)
  BY <1>3, <1>7, <1>8, WithoutHit
<1>10. /\ RemoveAt(r, d) \in Seq(S) /\ Len(RemoveAt(r, d)) = n - 1
       /\ \A i \in 1 .. n - 1 : RemoveAt(r, d)[i] = IF i < d THEN r[i] ELSE r[i + 1]
  BY <1>3, <1>7, RemoveAtSeq
<1>11. ASSUME NEW i \in 1 .. n - 1 PROVE RemoveAt(r, d)[i] = Reverse(a)[i]
  <2>1. /\ n - 1 - i + 1 = n - i /\ n - i \in 1 .. n - 1
        /\ i \in 1 .. n /\ i + 1 \in 1 .. n /\ n - (i + 1) + 1 = n - i
    OBVIOUS
  <2>2. Reverse(a)[i] = IF n - i < k THEN s[n - i] ELSE s[n - i + 1]
    BY <1>4, <1>5, <2>1
  <2>3. RemoveAt(r, d)[i] = IF i < d THEN s[n - i + 1] ELSE s[n - i]
    BY <1>3, <1>10, <2>1
  <2>4. n - i < k <=> ~(i < d)
    BY <1>2, <1>6
  <2> QED
    BY <2>2, <2>3, <2>4
<1>12. RemoveAt(r, d) = Reverse(a)
  BY <1>5, <1>10, <1>11, SeqEqual
<1> QED
  BY <1>9, <1>12 DEF r, a

LEMMA FrontRemovesLast ==
    ASSUME NEW S, NEW s \in Seq(S), s # <<>>
    PROVE  /\ Len(s) \in 1 .. Len(s) /\ Last(s) = s[Len(s)]
           /\ Front(s) = RemoveAt(s, Len(s))
<1>1. Len(s) \in Nat \ {0}
  OBVIOUS
<1>2. /\ Front(s) \in Seq(S) /\ Len(Front(s)) = Len(s) - 1
      /\ \A i \in 1 .. Len(s) - 1 : Front(s)[i] = s[i]
  <2>2. PICK n \in Nat : n = Len(s) - 1
    BY <1>1
  <2>3. /\ SubSeq(s, 1, n) \in Seq(S) /\ Len(SubSeq(s, 1, n)) = n
        /\ \A i \in 1 .. n : SubSeq(s, 1, n)[i] = s[i]
    BY <1>1, <2>2
  <2> QED
    BY <2>2, <2>3 DEF Front
<1>3. /\ RemoveAt(s, Len(s)) \in Seq(S) /\ Len(RemoveAt(s, Len(s))) = Len(s) - 1
      /\ \A i \in 1 .. Len(s) - 1 :
           RemoveAt(s, Len(s))[i] = IF i < Len(s) THEN s[i] ELSE s[i + 1]
  BY <1>1, RemoveAtSeq
<1>4. \A i \in 1 .. Len(s) - 1 : i < Len(s)
  BY <1>1
<1>5. \A i \in 1 .. Len(Front(s)) : Front(s)[i] = RemoveAt(s, Len(s))[i]
  BY <1>2, <1>3, <1>4
<1>6. Front(s) = RemoveAt(s, Len(s))
  BY <1>2, <1>3, <1>5, SeqEqual
<1> QED
  BY <1>1, <1>6 DEF Last

-----------------------------------------------------------------------------
(* The elements of a cell.                                                 *)

\* UWORD128 is indexed inside its 16 bytes, whatever the address.
LEMMA ElementInCell ==
    ASSUME NEW x \in Accesses
    PROVE  /\ Element(x[1], x[2]) \subseteq Bytes
           /\ Element(x[1], x[2]) # {}
<1>1. PICK a \in Nat, n \in Nat \ {0} : a = x[1] /\ n = x[2]
  BY AccessAssumption
<1>2. CellBytes \in Nat \ {0} /\ n <= CellBytes
  BY <1>1, CellAssumption, AccessAssumption
<1>3. PICK q \in Nat : q = CellBytes \div n
  BY <1>2
<1>4. q >= 1 /\ q * n <= CellBytes
  BY <1>2, <1>3
<1>5. PICK i \in Nat : i = a % q
  BY <1>4
<1>6. i <= q - 1
  BY <1>4, <1>5
<1>7. PICK p \in Nat : p = i * n
  BY <1>1
<1>8. p + n <= CellBytes
  <2>1. (i + 1) * n <= q * n
    BY <1>6
  <2>2. (i + 1) * n = i * n + n
    OBVIOUS
  <2>3. q * n \in Nat
    OBVIOUS
  <2> QED
    BY <1>2, <1>4, <1>7, <2>1, <2>2, <2>3
<1>9. Element(x[1], x[2]) = p .. p + n - 1
  BY <1>1, <1>3, <1>5, <1>7 DEF Element
<1>10. p \in p .. p + n - 1
  BY <1>1
<1>11. \A b \in p .. p + n - 1 : b \in 0 .. CellBytes - 1
  BY <1>2, <1>8
<1> QED
  BY <1>9, <1>10, <1>11 DEF Bytes

LEMMA SpanInCell ==
    ASSUME NEW x \in Accesses
    PROVE  Span(x[1], x[2]) \subseteq Bytes
<1>1. CellBytes \in Nat \ {0} /\ x[1] \in Nat /\ x[2] \in Nat
  BY CellAssumption, AccessAssumption
<1>2. \A k \in Nat : k % CellBytes \in 0 .. CellBytes - 1
  BY <1>1
<1>3. \A i \in 0 .. x[2] - 1 : x[1] + i \in Nat
  BY <1>1
<1> QED
  BY <1>2, <1>3 DEF Span, Bytes

-----------------------------------------------------------------------------
(* The inductive invariant of the lists.                                   *)

\* A memop as the feeder makes it: an access, and a value put in its element.
IsStore(m) ==
    \E x \in Accesses, v \in Values :
      m.addr = x[1] /\ m.size = x[2] /\ m.val = Put(x[1], x[2], v)

CellShape ==
    /\ cell \in [global : Words, has : SUBSET Bytes, local : [Cpus -> Seq(Memops)]]
    /\ held \in [Cpus -> Seq(Memops)]
    /\ memory \in [Bytes -> Values \cup {NoValue}]

\* The stores a processor holds: no more than there are pointers, each with a
\* pointer of its own, each as it was made.
Outstanding(s) ==
    /\ s \in Seq(Memops)
    /\ Len(s) <= MaxHeld
    /\ Distinct(s)
    /\ \A k \in 1 .. Len(s) : IsStore(s[k])

ListInv ==
    /\ CellShape
    /\ \A c \in Cpus : Outstanding(held[c])
    /\ ListsOutstanding

\* The value put in an element is what every byte of it holds.
LEMMA GivenIsPut ==
    ASSUME NEW x \in Accesses, NEW v \in Values, NEW m,
           m.addr = x[1], m.size = x[2], m.val = Put(x[1], x[2], v)
    PROVE  /\ Given(m) = v
           /\ \A b \in Element(m.addr, m.size) : b \in Bytes /\ m.val[b] = v
<1>1. /\ Element(x[1], x[2]) \subseteq Bytes
      /\ Element(x[1], x[2]) # {}
  BY ElementInCell
<1>2. \A b \in Element(x[1], x[2]) : m.val[b] = v
  BY <1>1 DEF Put
<1>3. (CHOOSE b \in Element(x[1], x[2]) : TRUE) \in Element(x[1], x[2])
  BY <1>1
<1> QED
  BY <1>1, <1>2, <1>3 DEF Given

\* There is a pointer that is not in use.
LEMMA FreshPointer ==
    ASSUME NEW s, Outstanding(s)
    PROVE  \E i \in Ids : i \notin {s[k].id : k \in DOMAIN s}
<1> SUFFICES ASSUME \A i \in Ids : i \in {s[k].id : k \in DOMAIN s} PROVE FALSE
  OBVIOUS
<1>1. PICK n \in Nat : n = Len(s)
  BY DEF Outstanding
<1>2. DOMAIN s = 1 .. n /\ n <= MaxHeld /\ MaxHeld \in Nat
  BY <1>1, AccessAssumption DEF Outstanding
<1>3. \A i \in Ids : \E k \in 1 .. n : s[k].id = i
  BY <1>2
<1> DEFINE f == [i \in Ids |-> CHOOSE k \in 1 .. n : s[k].id = i]
<1>4. f \in [Ids -> 1 .. n] /\ \A i \in Ids : s[f[i]].id = i
  BY <1>3
<1>5. IsFiniteSet(1 .. n) /\ Cardinality(1 .. n) = n
  <2>1. 1 \in Int /\ n \in Int
    OBVIOUS
  <2>2. /\ IsFiniteSet(1 .. n)
        /\ Cardinality(1 .. n) = IF 1 > n THEN 0 ELSE n - 1 + 1
    BY <2>1, FS_Interval
  <2> QED
    BY <2>2
<1>6. IsFiniteSet(Ids) /\ Cardinality(Ids) = MaxHeld + 1
  <2>1. 1 \in Int /\ MaxHeld + 1 \in Int
    BY <1>2
  <2>2. /\ IsFiniteSet(1 .. MaxHeld + 1)
        /\ Cardinality(1 .. MaxHeld + 1) = IF 1 > MaxHeld + 1 THEN 0
                                           ELSE (MaxHeld + 1) - 1 + 1
    BY <2>1, FS_Interval
  <2> QED
    BY <1>2, <2>2 DEF Ids
<1>7. Cardinality(1 .. n) < Cardinality(Ids)
  BY <1>2, <1>5, <1>6
<1> HIDE DEF f
<1>8. PICK x \in Ids, y \in Ids : x # y /\ f[x] = f[y]
  BY <1>4, <1>5, <1>6, <1>7, FS_PigeonHole
<1> QED
  BY <1>4, <1>8

LEMMA NewMemopIsStore ==
    ASSUME NEW c \in Cpus, Outstanding(held[c]), NEW x \in Accesses, NEW v \in Values
    PROVE  LET m == NewMemop(c, x, v)
           IN  /\ m \in Memops
               /\ m.addr = x[1] /\ m.size = x[2] /\ m.val = Put(x[1], x[2], v)
               /\ \A k \in 1 .. Len(held[c]) : held[c][k].id # m.id
<1> DEFINE used == {held[c][k].id : k \in DOMAIN held[c]}
           i == CHOOSE j \in Ids : j \notin used
<1>1. i \in Ids /\ i \notin used
  <2>1. \E j \in Ids : j \notin used
    BY FreshPointer
  <2> HIDE DEF used
  <2> QED
    BY <2>1
<1>2. NewMemop(c, x, v) = [id |-> i, addr |-> x[1], size |-> x[2],
                           val |-> Put(x[1], x[2], v)]
  BY DEF NewMemop, Memop
<1>3. Put(x[1], x[2], v) \in Words
  BY CellAssumption DEF Put, Words
<1>4. \A k \in 1 .. Len(held[c]) : held[c][k].id # i
  <2>1. DOMAIN held[c] = 1 .. Len(held[c])
    BY DEF Outstanding
  <2> HIDE DEF i
  <2> QED
    BY <1>1, <2>1
<1> HIDE DEF i, used
<1> QED
  BY <1>1, <1>2, <1>3, <1>4 DEF Memops

\* One store more, and one store less.
LEMMA OutstandingAppend ==
    ASSUME NEW s, Outstanding(s), NEW m \in Memops, IsStore(m), Len(s) < MaxHeld,
           \A k \in 1 .. Len(s) : s[k].id # m.id
    PROVE  Outstanding(Append(s, m))
<1>1. PICK n \in Nat : n = Len(s)
  BY DEF Outstanding
<1>2. s \in Seq(Memops) /\ n < MaxHeld /\ MaxHeld \in Nat
  BY <1>1, AccessAssumption DEF Outstanding
<1>3. PICK a : a = Append(s, m)
  OBVIOUS
<1>4. /\ a \in Seq(Memops) /\ Len(a) = n + 1 /\ a[n + 1] = m
      /\ \A k \in 1 .. n : a[k] = s[k]
  BY <1>1, <1>2, <1>3
<1>5. \A k \in 1 .. n + 1 : k = n + 1 \/ k \in 1 .. n
  OBVIOUS
<1>6. Distinct(a)
  BY <1>1, <1>4, <1>5 DEF Outstanding, Distinct
<1>7. \A k \in 1 .. n + 1 : IsStore(a[k])
  BY <1>1, <1>4, <1>5 DEF Outstanding
<1>8. Len(a) <= MaxHeld
  BY <1>2, <1>4
<1> QED
  BY <1>3, <1>4, <1>6, <1>7, <1>8 DEF Outstanding

LEMMA OutstandingRemove ==
    ASSUME NEW s, Outstanding(s), NEW k \in 1 .. Len(s)
    PROVE  Outstanding(RemoveAt(s, k))
<1>1. PICK n \in Nat : n = Len(s)
  BY DEF Outstanding
<1>2. s \in Seq(Memops) /\ n <= MaxHeld /\ MaxHeld \in Nat
  BY <1>1, AccessAssumption DEF Outstanding
<1>3. PICK a : a = RemoveAt(s, k)
  OBVIOUS
<1>4. /\ a \in Seq(Memops) /\ Len(a) = n - 1
      /\ \A i \in 1 .. n - 1 : a[i] = IF i < k THEN s[i] ELSE s[i + 1]
  BY <1>1, <1>2, <1>3, RemoveAtSeq
<1> DEFINE at(i) == IF i < k THEN i ELSE i + 1
<1>5. \A i \in 1 .. n - 1 : at(i) \in 1 .. n /\ a[i] = s[at(i)]
  BY <1>4
<1>6. \A i, j \in 1 .. n - 1 : i # j => at(i) # at(j)
  BY <1>1
<1> HIDE DEF at
<1>7. Distinct(a)
  BY <1>1, <1>4, <1>5, <1>6 DEF Outstanding, Distinct
<1>8. \A i \in 1 .. n - 1 : IsStore(a[i])
  BY <1>1, <1>5 DEF Outstanding
<1>9. Len(a) <= MaxHeld
  BY <1>2, <1>4
<1> QED
  BY <1>3, <1>4, <1>7, <1>8, <1>9 DEF Outstanding

\* A step that changes the list of one processor as it changes its stores.
LEMMA ListsKept ==
    ASSUME ListInv, NEW c \in Cpus, NEW h, Outstanding(h),
           held' = [held EXCEPT ![c] = h],
           cell' \in [global : Words, has : SUBSET Bytes, local : [Cpus -> Seq(Memops)]],
           cell'.local = [cell.local EXCEPT ![c] = Reverse(h)],
           memory' \in [Bytes -> Values \cup {NoValue}]
    PROVE  ListInv'
<1>1. held \in [Cpus -> Seq(Memops)] /\ cell.local \in [Cpus -> Seq(Memops)]
  BY DEF ListInv, CellShape
<1>2. \A d \in Cpus : held'[d] = IF d = c THEN h ELSE held[d]
  BY <1>1
<1>3. \A d \in Cpus : cell'.local[d] = IF d = c THEN Reverse(h) ELSE cell.local[d]
  BY <1>1
<1>4. \A d \in Cpus : Outstanding(held'[d])
  BY <1>2 DEF ListInv
<1>5. held' \in [Cpus -> Seq(Memops)]
  BY <1>1 DEF Outstanding
<1>6. \A d \in Cpus : cell'.local[d] = Reverse(held'[d])
  BY <1>2, <1>3 DEF ListInv, ListsOutstanding
<1> QED
  BY <1>4, <1>5, <1>6 DEF ListInv, CellShape, ListsOutstanding

\* Assignments to the members of a cell.
LEMMA SetGlobal ==
    ASSUME NEW k, NEW g, NEW p, NEW l, NEW v, NEW q,
           k = [global |-> g, has |-> p, local |-> l]
    PROVE  [k EXCEPT !.global = v, !.has = q]
             = [global |-> v, has |-> q, local |-> l]
<1>1. [k EXCEPT !.global = v] = [global |-> v, has |-> p, local |-> l]
  OBVIOUS
<1>2. [[global |-> v, has |-> p, local |-> l] EXCEPT !.has = q]
        = [global |-> v, has |-> q, local |-> l]
  OBVIOUS
<1> QED
  BY <1>1, <1>2

\* What store_globally_visible_now does to the members of a cell.
LEMMA StoreGloballyDoes ==
    ASSUME CellShape, NEW c \in Cpus, NEW m, IsStore(m),
           Without(cell.local[c], {m.id}) \in Seq(Memops)
    PROVE  LET n == StoreGlobally(cell, c, m)
           IN  /\ n \in [global : Words, has : SUBSET Bytes,
                         local : [Cpus -> Seq(Memops)]]
               /\ n.local = [cell.local EXCEPT ![c] = Without(@, {m.id})]
               /\ n.has = cell.has \cup Element(m.addr, m.size)
               /\ \A b \in Bytes :
                    n.global[b] = IF b \in Element(m.addr, m.size)
                                  THEN m.val[b] ELSE cell.global[b]
<1>1. PICK g \in Words, p \in SUBSET Bytes, l \in [Cpus -> Seq(Memops)] :
        cell = [global |-> g, has |-> p, local |-> l]
  BY DEF CellShape
<1>0. PICK w : w = Without(cell.local[c], {m.id})
  OBVIOUS
<1>2. PICK e : e = Element(m.addr, m.size)
  OBVIOUS
<1>3. e \in SUBSET Bytes /\ m.val \in Words
  <2>1. PICK x \in Accesses, v \in Values :
          m.addr = x[1] /\ m.size = x[2] /\ m.val = Put(x[1], x[2], v)
    BY DEF IsStore
  <2>2. Element(x[1], x[2]) \subseteq Bytes
    BY ElementInCell
  <2>3. Put(x[1], x[2], v) \in Words
    BY CellAssumption DEF Put, Words
  <2> QED
    BY <1>2, <2>1, <2>2, <2>3
<1>4. StoreGlobally(cell, c, m)
        = [global |-> [b \in Bytes |-> IF b \in e THEN m.val[b] ELSE g[b]],
           has |-> p \cup e, local |-> [l EXCEPT ![c] = w]]
  <2>3. PICK k : k = Killed(cell, c, m)
    OBVIOUS
  <2>4. k = [global |-> g, has |-> p, local |-> [l EXCEPT ![c] = w]]
    BY <1>0, <1>1, <2>3 DEF Killed
  <2>5. StoreGlobally(cell, c, m)
          = [k EXCEPT !.global = [b \in Bytes |-> IF b \in e THEN m.val[b] ELSE k.global[b]],
                      !.has = k.has \cup e]
    BY <1>2, <2>3 DEF StoreGlobally
  <2>6. k.global = g /\ k.has = p
    BY <2>4
  <2>7. StoreGlobally(cell, c, m)
          = [k EXCEPT !.global = [b \in Bytes |-> IF b \in e THEN m.val[b] ELSE g[b]],
                      !.has = p \cup e]
    BY <2>5, <2>6
  <2> QED
    BY <2>4, <2>7, SetGlobal
<1>5. [b \in Bytes |-> IF b \in e THEN m.val[b] ELSE g[b]] \in Words
  BY <1>1, <1>3 DEF Words
<1>6. [l EXCEPT ![c] = w] \in [Cpus -> Seq(Memops)] /\ p \cup e \in SUBSET Bytes
  BY <1>0, <1>1, <1>3
<1>7. cell.local = l /\ cell.has = p /\ cell.global = g
  BY <1>1
<1>8. [cell.local EXCEPT ![c] = Without(@, {m.id})] = [l EXCEPT ![c] = w]
  BY <1>0, <1>7
<1> QED
  BY <1>2, <1>4, <1>5, <1>6, <1>7, <1>8

-----------------------------------------------------------------------------
(* Every step keeps the lists.                                             *)

LEMMA LocallyVisibleKeepsLists ==
    ASSUME ListInv, NEW c \in Cpus, NEW x \in Accesses, NEW v \in Values,
           LocallyVisible(c, x, v)
    PROVE  ListInv'
<1>1. PICK m : m = NewMemop(c, x, v)
  OBVIOUS
<1>2. PICK h : h = Append(held[c], m)
  OBVIOUS
<1>3. Outstanding(held[c]) /\ held[c] \in Seq(Memops) /\ cell.local[c] = Reverse(held[c])
  BY DEF ListInv, ListsOutstanding, Outstanding
<1>4. /\ m \in Memops
      /\ m.addr = x[1] /\ m.size = x[2] /\ m.val = Put(x[1], x[2], v)
      /\ \A k \in 1 .. Len(held[c]) : held[c][k].id # m.id
  BY <1>1, <1>3, NewMemopIsStore
<1>5. Outstanding(h)
  BY <1>2, <1>3, <1>4, OutstandingAppend DEF LocallyVisible, IsStore
<1>6. <<m>> \o cell.local[c] = Reverse(h)
  BY <1>2, <1>3, <1>4, ReverseAppend
<1>7. Reverse(h) \in Seq(Memops)
  BY <1>5, ReverseSeq DEF Outstanding
<1>8. PICK g \in Words, p \in SUBSET Bytes, l \in [Cpus -> Seq(Memops)] :
        cell = [global |-> g, has |-> p, local |-> l]
  BY DEF ListInv, CellShape
<1>9. cell' = [global |-> g, has |-> p, local |-> [l EXCEPT ![c] = Reverse(h)]]
  BY <1>1, <1>6, <1>8 DEF LocallyVisible, StoreLocally
<1>10. held' = [held EXCEPT ![c] = h] /\ memory' = memory
  BY <1>1, <1>2 DEF LocallyVisible
<1>11. /\ cell' \in [global : Words, has : SUBSET Bytes, local : [Cpus -> Seq(Memops)]]
       /\ cell'.local = [cell.local EXCEPT ![c] = Reverse(h)]
  BY <1>7, <1>8, <1>9
<1> QED
  BY <1>5, <1>10, <1>11, ListsKept DEF ListInv, CellShape

\* GloballyVisible and Kill take the k-th store from both lists.
LEMMA TakesOne ==
    ASSUME ListInv, NEW c \in Cpus, NEW k \in 1 .. Len(held[c])
    PROVE  /\ Outstanding(RemoveAt(held[c], k))
           /\ Without(cell.local[c], {held[c][k].id}) = Reverse(RemoveAt(held[c], k))
           /\ Reverse(RemoveAt(held[c], k)) \in Seq(Memops)
           /\ IsStore(held[c][k])
<1>1. Outstanding(held[c]) /\ held[c] \in Seq(Memops) /\ cell.local[c] = Reverse(held[c])
  BY DEF ListInv, ListsOutstanding, Outstanding
<1>2. Outstanding(RemoveAt(held[c], k))
  BY <1>1, OutstandingRemove
<1>3. Without(Reverse(held[c]), {held[c][k].id}) = Reverse(RemoveAt(held[c], k))
  BY <1>1, ReverseWithout DEF Outstanding
<1>4. Reverse(RemoveAt(held[c], k)) \in Seq(Memops)
  BY <1>2, ReverseSeq DEF Outstanding
<1> QED
  BY <1>1, <1>2, <1>3, <1>4 DEF Outstanding

LEMMA KillKeepsLists ==
    ASSUME ListInv, NEW c \in Cpus, Kill(c)
    PROVE  ListInv'
<1>1. held[c] \in Seq(Memops) /\ held[c] # <<>>
  BY DEF ListInv, Outstanding, Kill
<1>2. PICK k : k = Len(held[c])
  OBVIOUS
<1>3. k \in 1 .. Len(held[c]) /\ Last(held[c]) = held[c][k]
      /\ Front(held[c]) = RemoveAt(held[c], k)
  BY <1>1, <1>2, FrontRemovesLast
<1>4. PICK h : h = RemoveAt(held[c], k)
  OBVIOUS
<1>5. /\ Outstanding(h) /\ Reverse(h) \in Seq(Memops)
      /\ Without(cell.local[c], {held[c][k].id}) = Reverse(h)
  BY <1>3, <1>4, TakesOne
<1>6. PICK g \in Words, p \in SUBSET Bytes, l \in [Cpus -> Seq(Memops)] :
        cell = [global |-> g, has |-> p, local |-> l]
  BY DEF ListInv, CellShape
<1>7. cell' = [global |-> g, has |-> p, local |-> [l EXCEPT ![c] = Reverse(h)]]
  BY <1>3, <1>5, <1>6 DEF Kill, Killed
<1>8. held' = [held EXCEPT ![c] = h] /\ memory' = memory
  BY <1>3, <1>4 DEF Kill
<1>9. /\ cell' \in [global : Words, has : SUBSET Bytes, local : [Cpus -> Seq(Memops)]]
      /\ cell'.local = [cell.local EXCEPT ![c] = Reverse(h)]
  BY <1>5, <1>6, <1>7
<1> QED
  BY <1>5, <1>8, <1>9, ListsKept DEF ListInv, CellShape

LEMMA WrittenShape ==
    ASSUME CellShape, NEW m, NEW v \in Values
    PROVE  Written(m, v) \in [Bytes -> Values \cup {NoValue}]
  BY DEF CellShape, Written

LEMMA GloballyVisibleKeepsLists ==
    ASSUME ListInv, NEW c \in Cpus, NEW k \in DOMAIN held[c], GloballyVisible(c, k)
    PROVE  ListInv'
<1>1. k \in 1 .. Len(held[c])
  BY DEF ListInv, Outstanding
<1>2. PICK h : h = RemoveAt(held[c], k)
  OBVIOUS
<1>3. PICK m : m = held[c][k]
  OBVIOUS
<1>4. /\ Outstanding(h) /\ Reverse(h) \in Seq(Memops) /\ IsStore(m)
      /\ Without(cell.local[c], {m.id}) = Reverse(h)
  BY <1>1, <1>2, <1>3, TakesOne
<1>5. held' = [held EXCEPT ![c] = h] /\ cell' = StoreGlobally(cell, c, m)
      /\ memory' = Written(m, Given(m))
  BY <1>2, <1>3 DEF GloballyVisible
<1>6. /\ cell' \in [global : Words, has : SUBSET Bytes, local : [Cpus -> Seq(Memops)]]
      /\ cell'.local = [cell.local EXCEPT ![c] = Reverse(h)]
  <2>1. CellShape /\ IsStore(m) /\ Without(cell.local[c], {m.id}) \in Seq(Memops)
    BY <1>4, <1>5 DEF ListInv
  <2>2. /\ cell' \in [global : Words, has : SUBSET Bytes, local : [Cpus -> Seq(Memops)]]
        /\ cell'.local = [cell.local EXCEPT ![c] = Without(@, {m.id})]
    BY <2>1, <1>5, StoreGloballyDoes
  <2> QED
    BY <1>4, <2>2
<1>7. Given(m) \in Values
  BY <1>4, GivenIsPut DEF IsStore
<1>8. memory' \in [Bytes -> Values \cup {NoValue}]
  BY <1>5, <1>7, WrittenShape DEF ListInv
<1> QED
  BY <1>4, <1>5, <1>6, <1>8, ListsKept

\* A memop that never was in the list is not taken from it.
LEMMA NewStoreLeavesList ==
    ASSUME ListInv, NEW c \in Cpus, NEW x \in Accesses, NEW v \in Values
    PROVE  /\ Without(cell.local[c], {NewMemop(c, x, v).id}) = Reverse(held[c])
           /\ Reverse(held[c]) \in Seq(Memops)
<1>1. PICK h : h = held[c]
  OBVIOUS
<1>2. PICK m : m = NewMemop(c, x, v)
  OBVIOUS
<1>3. Outstanding(h) /\ h \in Seq(Memops) /\ cell.local[c] = Reverse(h)
  BY <1>1 DEF ListInv, ListsOutstanding, Outstanding
<1>4. \A k \in 1 .. Len(h) : h[k].id # m.id
  BY <1>1, <1>2, <1>3, NewMemopIsStore
<1>5. PICK n \in Nat : n = Len(h)
  BY <1>3
<1>6. /\ Reverse(h) \in Seq(Memops) /\ Len(Reverse(h)) = n
      /\ \A i \in 1 .. n : Reverse(h)[i] = h[n - i + 1]
  BY <1>3, <1>5, ReverseSeq
<1>7. \A i \in 1 .. n : Reverse(h)[i].id \notin {m.id}
  <2> SUFFICES ASSUME NEW i \in 1 .. n PROVE Reverse(h)[i].id # m.id
    OBVIOUS
  <2>1. n - i + 1 \in 1 .. n
    OBVIOUS
  <2>2. h[n - i + 1].id # m.id
    BY <1>4, <1>5, <2>1
  <2> QED
    BY <1>6, <2>2
<1>8. Without(Reverse(h), {m.id}) = Reverse(h)
  BY <1>6, <1>7, WithoutMiss
<1> QED
  BY <1>1, <1>2, <1>3, <1>6, <1>8

LEMMA DirectlyGlobalKeepsLists ==
    ASSUME ListInv, NEW c \in Cpus, NEW x \in Accesses, NEW v \in Values,
           DirectlyGlobal(c, x, v)
    PROVE  ListInv'
<1>1. PICK m : m = NewMemop(c, x, v)
  OBVIOUS
<1>2. PICK h : h = held[c]
  OBVIOUS
<1>3. Outstanding(h) /\ h \in Seq(Memops)
  BY <1>2 DEF ListInv, Outstanding
<1>4. m.addr = x[1] /\ m.size = x[2] /\ m.val = Put(x[1], x[2], v)
  BY <1>1, <1>2, <1>3, NewMemopIsStore
<1>5. Without(cell.local[c], {m.id}) = Reverse(h) /\ Reverse(h) \in Seq(Memops)
  BY <1>1, <1>2, NewStoreLeavesList
<1>6. IsStore(m)
  BY <1>4 DEF IsStore
<1>7. cell' = StoreGlobally(cell, c, m) /\ memory' = Written(m, v) /\ held' = held
  BY <1>1 DEF DirectlyGlobal
<1>8. /\ cell' \in [global : Words, has : SUBSET Bytes, local : [Cpus -> Seq(Memops)]]
      /\ cell'.local = [cell.local EXCEPT ![c] = Reverse(h)]
  <2>1. CellShape /\ IsStore(m) /\ Without(cell.local[c], {m.id}) \in Seq(Memops)
    BY <1>5, <1>6 DEF ListInv
  <2>2. /\ cell' \in [global : Words, has : SUBSET Bytes, local : [Cpus -> Seq(Memops)]]
        /\ cell'.local = [cell.local EXCEPT ![c] = Without(@, {m.id})]
    BY <2>1, <1>7, StoreGloballyDoes
  <2> QED
    BY <1>5, <2>2
<1>9. memory' \in [Bytes -> Values \cup {NoValue}]
  BY <1>7, WrittenShape DEF ListInv
<1>10. held' = [held EXCEPT ![c] = h]
  BY <1>2, <1>7 DEF ListInv, CellShape
<1> QED
  BY <1>3, <1>8, <1>9, <1>10, ListsKept

LEMMA InitLists == Init => ListInv
<1> SUFFICES ASSUME Init PROVE ListInv
  OBVIOUS
<1>1. cell = NewCell /\ held = [c \in Cpus |-> <<>>] /\ memory = [b \in Bytes |-> NoValue]
  BY DEF Init
<1>2. Zeros \in Words
  BY CellAssumption DEF Zeros, Words
<1>3. CellShape
  BY <1>1, <1>2 DEF CellShape, NewCell
<1>4. <<>> \in Seq(Memops) /\ Len(<<>>) = 0 /\ 0 <= MaxHeld
  BY AccessAssumption
<1>5. Outstanding(<<>>)
  BY <1>4 DEF Outstanding, Distinct
<1>6. Reverse(<<>>) = <<>>
  BY <1>4 DEF Reverse
<1>7. ListsOutstanding
  BY <1>1, <1>6 DEF ListsOutstanding, NewCell
<1> QED
  BY <1>1, <1>3, <1>5, <1>7 DEF ListInv

LEMMA NextLists == ListInv /\ [Next]_vars => ListInv'
<1> SUFFICES ASSUME ListInv, [Next]_vars PROVE ListInv'
  OBVIOUS
<1>1. CASE UNCHANGED vars
  BY <1>1 DEF vars, ListInv, CellShape, ListsOutstanding
<1>2. CASE Next
  <2>1. PICK c \in Cpus :
          \/ \E x \in Accesses, v \in Values :
               LocallyVisible(c, x, v) \/ DirectlyGlobal(c, x, v)
          \/ \E k \in DOMAIN held[c] : GloballyVisible(c, k)
          \/ Kill(c)
    BY <1>2 DEF Next
  <2> QED
    BY <2>1, LocallyVisibleKeepsLists, DirectlyGlobalKeepsLists,
       GloballyVisibleKeepsLists, KillKeepsLists
<1> QED
  BY <1>1, <1>2

\* A cell's list for a processor is the processor's outstanding stores,
\* whatever accesses the program makes: store_locally_visible_now, killed and
\* store_globally_visible_now leave none behind and take no other's.
THEOREM ListsAreOutstanding == Spec => [](TypeOK /\ ListsOutstanding)
<1>1. ListInv => TypeOK /\ ListsOutstanding
  BY DEF ListInv, CellShape, TypeOK
<1> QED
  BY <1>1, InitLists, NextLists, PTL DEF Spec

-----------------------------------------------------------------------------
(* What a load is bound to.                                                *)

\* The global value of a cell is the reference memory, as far as it is written.
GlobalIsMemory ==
    /\ \A b \in cell.has : b < CellBytes \div 2
    /\ \A b \in Bytes : memory[b] = IF b \in cell.has THEN cell.global[b] ELSE NoValue

LEMMA GlobalStoreKeepsMemory ==
    ASSUME ElementsAgree, ListInv, GlobalIsMemory,
           NEW c \in Cpus, NEW x \in Accesses, NEW v \in Values, NEW m,
           m.addr = x[1], m.size = x[2], m.val = Put(x[1], x[2], v),
           Without(cell.local[c], {m.id}) \in Seq(Memops),
           cell' = StoreGlobally(cell, c, m), memory' = Written(m, v)
    PROVE  GlobalIsMemory'
<1>1. PICK e : e = Element(m.addr, m.size)
  OBVIOUS
<1>2. /\ e \subseteq Bytes
      /\ \A b \in e : m.val[b] = v /\ b < CellBytes \div 2
      /\ \A b \in Bytes : Covers(m, b) <=> b \in e
  <2>1. \A b \in e : b \in Bytes /\ m.val[b] = v
    BY <1>1, GivenIsPut
  <2>2. e = Span(m.addr, m.size) /\ \A b \in e : b < CellBytes \div 2
    BY <1>1 DEF ElementsAgree
  <2> QED
    BY <2>1, <2>2 DEF Covers
<1>3. /\ cell'.has = cell.has \cup e
      /\ \A b \in Bytes : cell'.global[b] = IF b \in e THEN m.val[b] ELSE cell.global[b]
  <2>1. CellShape /\ IsStore(m)
    BY DEF ListInv, IsStore
  <2>2. LET n == StoreGlobally(cell, c, m)
        IN  /\ n.has = cell.has \cup Element(m.addr, m.size)
            /\ \A b \in Bytes :
                 n.global[b] = IF b \in Element(m.addr, m.size)
                               THEN m.val[b] ELSE cell.global[b]
    BY <2>1, StoreGloballyDoes, Zenon
  <2> QED
    BY <1>1, <2>2
<1>4. \A b \in Bytes : memory'[b] = IF b \in e THEN v ELSE memory[b]
  BY <1>2 DEF Written
<1>5. \A b \in Bytes : cell'.global[b] = IF b \in e THEN v ELSE cell.global[b]
  BY <1>2, <1>3
<1> QED
  BY <1>2, <1>3, <1>4, <1>5 DEF GlobalIsMemory

LEMMA NextMemory ==
    ASSUME ElementsAgree, ListInv, GlobalIsMemory, [Next]_vars
    PROVE  GlobalIsMemory'
<1>1. ASSUME cell'.has = cell.has, cell'.global = cell.global, memory' = memory
      PROVE  GlobalIsMemory'
  BY <1>1 DEF GlobalIsMemory
<1>2. CASE UNCHANGED vars
  BY <1>1, <1>2 DEF vars
<1>3. ASSUME NEW c \in Cpus, NEW x \in Accesses, NEW v \in Values,
             LocallyVisible(c, x, v)
      PROVE  GlobalIsMemory'
  <2>1. PICK m : cell' = [cell EXCEPT !.local[c] = <<m>> \o @] /\ memory' = memory
    BY <1>3 DEF LocallyVisible, StoreLocally
  <2>2. cell'.has = cell.has /\ cell'.global = cell.global
    BY <2>1 DEF ListInv, CellShape
  <2> QED
    BY <1>1, <2>1, <2>2
<1>4. ASSUME NEW c \in Cpus, Kill(c)
      PROVE  GlobalIsMemory'
  <2>1. PICK d : cell' = [cell EXCEPT !.local[c] = Without(@, {d})] /\ memory' = memory
    BY <1>4 DEF Kill, Killed
  <2>2. cell'.has = cell.has /\ cell'.global = cell.global
    BY <2>1 DEF ListInv, CellShape
  <2> QED
    BY <1>1, <2>1, <2>2
<1>5. ASSUME NEW c \in Cpus, NEW k \in DOMAIN held[c], GloballyVisible(c, k)
      PROVE  GlobalIsMemory'
  <2>1. PICK m : m = held[c][k]
    OBVIOUS
  <2>2. k \in 1 .. Len(held[c])
    BY DEF ListInv, Outstanding
  <2>3. Without(cell.local[c], {m.id}) \in Seq(Memops) /\ IsStore(m)
    BY <2>1, <2>2, TakesOne
  <2>4. PICK x \in Accesses, v \in Values :
          m.addr = x[1] /\ m.size = x[2] /\ m.val = Put(x[1], x[2], v)
    BY <2>3 DEF IsStore
  <2>5. Given(m) = v
    BY <2>4, GivenIsPut
  <2>6. cell' = StoreGlobally(cell, c, m) /\ memory' = Written(m, v)
    BY <1>5, <2>1, <2>5 DEF GloballyVisible
  <2> QED
    BY <2>3, <2>4, <2>6, GlobalStoreKeepsMemory
<1>6. ASSUME NEW c \in Cpus, NEW x \in Accesses, NEW v \in Values,
             DirectlyGlobal(c, x, v)
      PROVE  GlobalIsMemory'
  <2>1. PICK m : m = NewMemop(c, x, v)
    OBVIOUS
  <2>2. Outstanding(held[c])
    BY DEF ListInv
  <2>3. m.addr = x[1] /\ m.size = x[2] /\ m.val = Put(x[1], x[2], v)
    BY <2>1, <2>2, NewMemopIsStore
  <2>4. cell' = StoreGlobally(cell, c, m) /\ memory' = Written(m, v)
    BY <1>6, <2>1 DEF DirectlyGlobal
  <2>5. Without(cell.local[c], {m.id}) \in Seq(Memops)
    BY <2>1, <2>2, NewStoreLeavesList DEF ListInv
  <2> QED
    BY <2>3, <2>4, <2>5, GlobalStoreKeepsMemory
<1> QED
  BY <1>2, <1>3, <1>4, <1>5, <1>6 DEF Next

\* In a cell whose lists are the outstanding stores and whose global value is
\* the reference memory, every byte reads as its processor has to see it.
LEMMA ReadsVisible ==
    ASSUME ElementsAgree, ListInv, GlobalIsMemory,
           NEW c \in Cpus, NEW x \in Accesses, NEW b \in Span(x[1], x[2])
    PROVE  /\ (b \in GlobalBasis(cell) \/ Covering(cell.local[c], b) # {})
                <=> Visible(c, b) # NoValue
           /\ Visible(c, b) # NoValue => ReadByte(cell, c, b) = Visible(c, b)
<1>1. b \in Bytes /\ b < CellBytes \div 2
  BY SpanInCell DEF ElementsAgree
<1>2. PICK h : h = held[c]
  OBVIOUS
<1>3. Outstanding(h) /\ h \in Seq(Memops) /\ cell.local[c] = Reverse(h)
  BY <1>2 DEF ListInv, ListsOutstanding, Outstanding
<1>4. PICK n \in Nat : n = Len(h)
  BY <1>3
<1>5. /\ Reverse(h) \in Seq(Memops) /\ Len(Reverse(h)) = n
      /\ \A i \in 1 .. n : Reverse(h)[i] = h[n - i + 1]
  BY <1>3, <1>4, ReverseSeq
<1>6. PICK S : S = Covering(h, b)
  OBVIOUS
<1>7. PICK T : T = Covering(Reverse(h), b)
  OBVIOUS
<1>8. S = {i \in 1 .. n : Covers(h[i], b)} /\ S \subseteq 1 .. n
  BY <1>3, <1>4, <1>6 DEF Covering
<1>9. T = {i \in 1 .. n : Covers(Reverse(h)[i], b)} /\ T \subseteq 1 .. n
  BY <1>5, <1>7 DEF Covering
<1>10. \A i \in 1 .. n : n - i + 1 \in 1 .. n /\ n - (n - i + 1) + 1 = i
  OBVIOUS
<1>11. \A i \in 1 .. n : i \in T <=> n - i + 1 \in S
  BY <1>5, <1>8, <1>9, <1>10
<1>12. S = {} <=> T = {}
  BY <1>8, <1>9, <1>10, <1>11
<1>13. NoValue \notin Values
  BY CellAssumption DEF NoValue
<1>14. Visible(c, b) = IF S = {} THEN memory[b] ELSE Given(h[Max(S)])
  BY <1>2, <1>6 DEF Visible
<1>15. ReadByte(cell, c, b) = IF T = {} THEN cell.global[b]
                              ELSE Reverse(h)[Min(T)].val[b]
  BY <1>3, <1>7 DEF ReadByte
<1>16. CASE S = {}
  <2>1. memory[b] = IF b \in cell.has THEN cell.global[b] ELSE NoValue
    BY <1>1 DEF GlobalIsMemory
  <2>2. cell.global[b] \in Values
    BY <1>1 DEF ListInv, CellShape, Words
  <2>3. b \in GlobalBasis(cell) <=> b \in cell.has
    BY <1>1 DEF GlobalBasis
  <2> QED
    BY <1>3, <1>7, <1>12, <1>13, <1>14, <1>15, <1>16, <2>1, <2>2, <2>3
<1>17. CASE S # {}
  <2>1. Max(S) \in S /\ \A y \in S : Max(S) >= y
    BY <1>8, <1>17, FirstAndLast
  <2>2. Min(T) \in T /\ \A y \in T : Min(T) <= y
    BY <1>9, <1>12, <1>17, FirstAndLast
  <2>3. PICK p \in 1 .. n : p = Max(S)
    BY <1>8, <2>1
  <2>4. PICK q \in 1 .. n : q = Min(T)
    BY <1>9, <2>2
  <2>5. p = n - q + 1
    <3>1. n - q + 1 \in S /\ n - p + 1 \in T
      BY <1>10, <1>11, <2>1, <2>2, <2>3, <2>4
    <3>2. p >= n - q + 1 /\ q <= n - p + 1
      BY <2>1, <2>2, <2>3, <2>4, <3>1
    <3> QED
      BY <3>2
  <2>6. PICK m : m = h[p]
    OBVIOUS
  <2>7. Reverse(h)[q] = m
    BY <1>5, <2>5, <2>6
  <2>8. IsStore(m) /\ Covers(m, b)
    BY <1>3, <1>4, <1>8, <2>1, <2>3, <2>6 DEF Outstanding
  <2>9. PICK y \in Accesses, v \in Values :
          m.addr = y[1] /\ m.size = y[2] /\ m.val = Put(y[1], y[2], v)
    BY <2>8 DEF IsStore
  <2>10. b \in Element(m.addr, m.size)
    BY <2>8, <2>9 DEF Covers, ElementsAgree
  <2>11. Given(m) = v /\ m.val[b] = v
    BY <2>9, <2>10, GivenIsPut
  <2>12. Visible(c, b) = v /\ ReadByte(cell, c, b) = v
    BY <1>12, <1>14, <1>15, <1>17, <2>3, <2>4, <2>6, <2>7, <2>11
  <2> QED
    BY <1>3, <1>7, <1>12, <1>13, <1>17, <2>12
<1> QED
  BY <1>16, <1>17

\* The inductive invariant, and what follows from it.
CellInv == ListInv /\ GlobalIsMemory

LEMMA CellInvInductive ==
    ASSUME ElementsAgree
    PROVE  Spec => []CellInv
<1>1. Init => CellInv
  <2> SUFFICES ASSUME Init PROVE CellInv
    OBVIOUS
  <2>1. ListInv
    BY InitLists
  <2>2. GlobalIsMemory
    BY DEF Init, GlobalIsMemory, NewCell
  <2> QED
    BY <2>1, <2>2 DEF CellInv
<1>2. CellInv /\ [Next]_vars => CellInv'
  BY NextLists, NextMemory DEF CellInv
<1> QED
  BY <1>1, <1>2, PTL DEF Spec

LEMMA CellInvImplies ==
    ASSUME ElementsAgree, CellInv
    PROVE  CellInvariant /\ LoadsSeeStores
<1>1. ListInv /\ GlobalIsMemory
  BY DEF CellInv
<1>2. TypeOK /\ ListsOutstanding
  BY <1>1 DEF ListInv, CellShape, TypeOK
<1>3. BoundWhenWritten
  BY <1>1, ReadsVisible DEF BoundWhenWritten, Bound
<1>4. LoadsSeeStores
  <2> SUFFICES ASSUME NEW c \in Cpus, NEW x \in Accesses, Bound(cell, c, x[1], x[2]),
                      NEW b \in Span(x[1], x[2])
               PROVE  ReadValue(cell, c, x[1], x[2])[b] = Visible(c, b)
    BY DEF LoadsSeeStores
  <2>1. b \in Bytes
    BY SpanInCell
  <2>2. ReadValue(cell, c, x[1], x[2])[b] = ReadByte(cell, c, b)
    BY <2>1 DEF ReadValue
  <2>3. Visible(c, b) # NoValue
    BY <1>1, ReadsVisible DEF Bound
  <2> QED
    BY <1>1, <2>2, <2>3, ReadsVisible
<1> QED
  BY <1>2, <1>3, <1>4 DEF CellInvariant

\* With accesses whose element is made of their bytes, a cell's lists are the
\* outstanding stores and global_basis and local_basis bind a load exactly when
\* each of its bytes has been written.
THEOREM CellInvariantHolds ==
    ASSUME ElementsAgree
    PROVE  Spec => []CellInvariant
<1>1. CellInv => CellInvariant
  BY CellInvImplies
<1> QED
  BY <1>1, CellInvInductive, PTL

\* With such accesses read_value_now binds a load to what its processor has to
\* see: its own latest store to each byte, or the last one made global.
THEOREM LoadsSeeTheirStores ==
    ASSUME ElementsAgree
    PROVE  Spec => []LoadsSeeStores
<1>1. CellInv => LoadsSeeStores
  BY CellInvImplies
<1> QED
  BY <1>1, CellInvInductive, PTL
=============================================================================
