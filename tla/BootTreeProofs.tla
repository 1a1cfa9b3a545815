--------------------------- MODULE BootTreeProofs ---------------------------
(***************************************************************************)
(* Proofs about DeviceTree, the tools' edits and BootTree, for trees of any *)
(* size.                                                                   *)
(***************************************************************************)
EXTENDS BootTree, FiniteSetTheorems, SequenceTheorems, NaturalsInduction, WellFoundedInduction,
        TLAPS

(***************************************************************************)
(* Recursion over the places of a sequence.                                *)
(***************************************************************************)

\* The least of some places.
LEMMA Least ==
  ASSUME NEW S \in SUBSET Nat, S # {}
  PROVE  Min(S) \in S /\ \A i \in S : Min(S) <= i
<1> DEFINE R == {t \in Nat \X Nat : t[1] < t[2]}
<1>1. IsWellFoundedOn(R, Nat)
  BY NatLessThanWellFounded DEF OpToRel
<1>2. \A u, v \in Nat : u < v => <<u, v>> \in R
  OBVIOUS
<1> HIDE DEF R
<1>3. PICK t \in S : \A u \in S : <<u, t>> \notin R
  BY <1>1, WFMin
<1>4. \A u \in S : ~(u < t)
  BY <1>2, <1>3
<1>5. \A u \in S : t <= u
  BY <1>4
<1> QED BY <1>3, <1>5 DEF Min

\* Induction up to n, over a set of numbers.
LEMMA Upwards ==
  ASSUME NEW n \in Nat, NEW S, 0 \in S, \A i \in 0 .. n - 1 : i \in S => i + 1 \in S
  PROVE  0 .. n \subseteq S
<1> DEFINE missing == {i \in 0 .. n : i \notin S}
<1> SUFFICES ASSUME missing # {} PROVE FALSE
  OBVIOUS
<1>1. missing \in SUBSET Nat
  OBVIOUS
<1>2. Min(missing) \in missing /\ \A i \in missing : Min(missing) <= i
  <2> HIDE DEF missing
  <2> QED BY <1>1, Least
<1>3. PICK m : m = Min(missing)
  OBVIOUS
<1>4. m \in 1 .. n /\ m - 1 \notin missing
  BY <1>2, <1>3
<1> QED BY <1>2, <1>3, <1>4

\* f starts with e, and each of its values is made of the one before it.
Steps(n, e, step, f) == f[0] = e /\ \A i \in 1 .. n : f[i] = step[<<i, f[i - 1]>>]

\* What is made step by step exists.
LEMMA StepByStep ==
  ASSUME NEW n \in Nat, NEW V, NEW e \in V, NEW step \in [(1 .. n) \X V -> V]
  PROVE  \E f \in [0 .. n -> V] : Steps(n, e, step, f)
<1> DEFINE Made(k, f) == f[0] = e /\ \A i \in 1 .. k : f[i] = step[<<i, f[i - 1]>>]
           S == {k \in 0 .. n : \E f \in [0 .. k -> V] : Made(k, f)}
<1>1. 0 \in S
  <2> DEFINE f == [i \in 0 .. 0 |-> e]
  <2>1. f \in [0 .. 0 -> V] /\ f[0] = e
    OBVIOUS
  <2> HIDE DEF f
  <2>2. Made(0, f)
    BY <2>1
  <2> HIDE DEF Made
  <2> QED BY <2>1, <2>2
<1>2. ASSUME NEW k \in 0 .. n - 1, k \in S PROVE k + 1 \in S
  <2>1. PICK f \in [0 .. k -> V] : Made(k, f)
    BY <1>2
  <2> DEFINE g == [i \in 0 .. k + 1 |-> IF i <= k THEN f[i] ELSE step[<<k + 1, f[k]>>]]
  <2>2. k \in 0 .. k /\ k + 1 \in 1 .. n /\ f[k] \in V
    OBVIOUS
  <2>3. step[<<k + 1, f[k]>>] \in V
    BY <2>2
  <2>4. g \in [0 .. k + 1 -> V]
    BY <2>3
  <2>5. g[0] = e
    BY <2>1
  <2>6. ASSUME NEW i \in 1 .. k + 1 PROVE g[i] = step[<<i, g[i - 1]>>]
    <3>1. g[i - 1] = f[i - 1]
      OBVIOUS
    <3>2. CASE i <= k
      BY <2>1, <3>1, <3>2
    <3>3. CASE i = k + 1
      <4>1. g[k + 1] = step[<<k + 1, f[k]>>]
        OBVIOUS
      <4>2. i - 1 = k /\ g[i - 1] = f[k]
        BY <3>1, <3>3
      <4> QED BY <3>3, <4>1, <4>2
    <3> QED BY <3>2, <3>3
  <2> HIDE DEF g
  <2>7. Made(k + 1, g)
    BY <2>5, <2>6
  <2> QED BY <2>4, <2>7
<1> HIDE DEF S
<1>3. n \in S
  BY <1>1, <1>2, Upwards
<1> QED BY <1>3 DEF S, Steps

\* What is true at the start and of each place after the one before it.
LEMMA EveryPlace ==
  ASSUME NEW n \in Nat, NEW S, n > 0 => 1 \in S, \A i \in 2 .. n : i - 1 \in S => i \in S
  PROVE  1 .. n \subseteq S
<1> DEFINE T == {0} \cup {i \in 1 .. n : i \in S}
<1>1. ASSUME NEW i \in 0 .. n - 1, i \in T PROVE i + 1 \in T
  <2>1. CASE i = 0
    BY <2>1
  <2>2. CASE i > 0
    BY <1>1, <2>2
  <2> QED BY <2>1, <2>2
<1>2. 0 \in T
  OBVIOUS
<1> HIDE DEF T
<1>3. 0 .. n \subseteq T
  BY <1>1, <1>2, Upwards
<1> QED BY <1>3 DEF T

(***************************************************************************)
(* What the operators on sequences return.                                 *)
(***************************************************************************)

\* Picked keeps what it is told to, in order and nothing twice.
PickedFrom(from, t, s, kept) ==
  /\ \A k \in 1 .. Len(t) : from[k] \in kept /\ t[k] = s[from[k]]
  /\ \A j, k \in 1 .. Len(t) : j < k => from[j] < from[k]
  /\ \A i \in DOMAIN s : i \in kept => \E k \in 1 .. Len(t) : from[k] = i

\* Picked(s, kept) is a selection of the places of s.
LEMMA PickedIs ==
  ASSUME NEW V, NEW s \in Seq(V), NEW kept \in SUBSET (DOMAIN s)
  PROVE  /\ Picked(s, kept) \in Seq(V)
         /\ \E from \in [1 .. Len(Picked(s, kept)) -> DOMAIN s] :
              PickedFrom(from, Picked(s, kept), s, kept)
<1> DEFINE c == Cardinality(kept)
           upTo(p) == {q \in kept : q <= p}
           rank == [p \in kept |-> Cardinality(upTo(p))]
           nth(i) == CHOOSE p \in kept : Cardinality(upTo(p)) = i
           t == [i \in 1 .. c |-> s[nth(i)]]
           from == [i \in 1 .. c |-> nth(i)]
<1>1. Picked(s, kept) = t
  BY DEF Picked
<1>2. kept \in SUBSET Nat /\ \A p \in kept : p \in DOMAIN s /\ p \in Nat /\ s[p] \in V
  OBVIOUS
<1>3. IsFiniteSet(kept) /\ c \in Nat
  <2>1. IsFiniteSet(1 .. Len(s)) /\ kept \in SUBSET (1 .. Len(s))
    BY FS_Interval
  <2> QED BY <2>1, FS_Subset, FS_CardinalityType
<1>4. \A p \in kept : IsFiniteSet(upTo(p)) /\ Cardinality(upTo(p)) \in 1 .. c
  <2> SUFFICES ASSUME NEW p \in kept
               PROVE  IsFiniteSet(upTo(p)) /\ Cardinality(upTo(p)) \in 1 .. c
    OBVIOUS
  <2>1. upTo(p) \in SUBSET kept /\ p \in upTo(p)
    BY <1>2
  <2> HIDE DEF upTo
  <2>2. IsFiniteSet(upTo(p)) /\ Cardinality(upTo(p)) <= c /\ Cardinality(upTo(p)) \in Nat
    BY <1>3, <2>1, FS_Subset, FS_CardinalityType
  <2>3. Cardinality(upTo(p)) # 0
    BY <2>1, <2>2, FS_EmptySet
  <2> QED BY <1>3, <2>2, <2>3
<1>5. \A p, q \in kept : p < q => Cardinality(upTo(p)) < Cardinality(upTo(q))
  <2> SUFFICES ASSUME NEW p \in kept, NEW q \in kept, p < q
               PROVE  Cardinality(upTo(p)) < Cardinality(upTo(q))
    OBVIOUS
  <2>1. upTo(p) \in SUBSET upTo(q)
    BY <1>2
  <2>2. q \in upTo(q) /\ q \notin upTo(p)
    BY <1>2
  <2> HIDE DEF upTo
  <2>3. Cardinality(upTo(p)) <= Cardinality(upTo(q))
        /\ Cardinality(upTo(p)) # Cardinality(upTo(q))
    BY <1>4, <2>1, <2>2, FS_Subset
  <2> QED BY <1>3, <1>4, <2>3
<1> HIDE DEF upTo, c
<1>6. \A i \in 1 .. c : \E p \in kept : Cardinality(upTo(p)) = i
  <2>1. \A p \in kept : rank[p] = Cardinality(upTo(p))
    OBVIOUS
  <2>2. rank \in [kept -> 1 .. c]
    BY <1>4
  <2> HIDE DEF rank
  <2>3. \A p, q \in kept : rank[p] = rank[q] => p = q
    BY <1>2, <1>3, <1>4, <1>5, <2>1
  <2>4. rank \in Injection(kept, 1 .. c)
    BY <2>2, <2>3 DEF Injection, IsInjective
  <2>5. IsFiniteSet(1 .. c) /\ Cardinality(1 .. c) = c
    BY <1>3, FS_Interval
  <2>6. rank \in Surjection(kept, 1 .. c)
    BY <2>4, <2>5, FS_Injection DEF c
  <2> QED BY <2>1, <2>6 DEF Surjection
<1>7. \A i \in 1 .. c : nth(i) \in kept /\ Cardinality(upTo(nth(i))) = i
  BY <1>6
<1> HIDE DEF nth
<1>8. \A j, k \in 1 .. c : j < k => nth(j) < nth(k)
  BY <1>2, <1>3, <1>5, <1>7
<1>9. \A p \in kept : \E k \in 1 .. c : nth(k) = p
  <2> SUFFICES ASSUME NEW p \in kept PROVE \E k \in 1 .. c : nth(k) = p
    OBVIOUS
  <2> DEFINE k == Cardinality(upTo(p))
  <2>1. k \in 1 .. c /\ nth(k) \in kept /\ Cardinality(upTo(nth(k))) = k
    BY <1>4, <1>7
  <2>2. nth(k) = p
    BY <1>2, <1>3, <1>5, <2>1
  <2> QED BY <2>1, <2>2
<1>10. t \in Seq(V) /\ Len(t) = c
  BY <1>2, <1>3, <1>7
<1>11. from \in [1 .. c -> DOMAIN s]
  BY <1>2, <1>7
<1>12. PickedFrom(from, t, s, kept)
  <2>1. \A k \in 1 .. c : from[k] = nth(k) /\ t[k] = s[from[k]]
    OBVIOUS
  <2> HIDE DEF from, t
  <2> QED BY <1>7, <1>8, <1>9, <1>10, <2>1 DEF PickedFrom
<1> HIDE DEF from, t
<1> QED BY <1>1, <1>10, <1>11, <1>12

\* A blob's length is a number.
LEMMA SizeIs ==
  ASSUME NEW b, DOMAIN b.struct = 1 .. Len(b.struct),
         Len(b.struct) \in Nat, Len(b.strings) \in Nat,
         \A i \in 1 .. Len(b.struct) : Words(b.struct[i]) \in Nat
  PROVE  Size(b) \in Nat
<1> DEFINE n == Len(b.struct)
           words(p) == {p} \X (1 .. Words(b.struct[p]))
           all == {words(p) : p \in 1 .. n}
<1>1. DOMAIN b.struct = 1 .. n /\ n \in Nat
  OBVIOUS
<1>2. Size(b) = 2 * Len(b.strings) + Cardinality(UNION all)
  BY <1>1 DEF Size
<1>3. \A p \in 1 .. n : IsFiniteSet(words(p))
  <2> SUFFICES ASSUME NEW p \in 1 .. n PROVE IsFiniteSet(words(p))
    OBVIOUS
  <2>1. IsFiniteSet({p})
    BY FS_Singleton
  <2>2. Words(b.struct[p]) \in Int /\ 1 \in Int
    OBVIOUS
  <2>3. IsFiniteSet(1 .. Words(b.struct[p]))
    BY <2>2, FS_Interval, Zenon
  <2> QED BY <2>1, <2>3, FS_Product, Zenon
<1>4. IsFiniteSet(all)
  <2> HIDE DEF words
  <2> DEFINE f == [p \in 1 .. n |-> words(p)]
  <2>1. f \in Surjection(1 .. n, all)
    BY DEF Surjection
  <2> HIDE DEF f, all
  <2>2. 1 \in Int /\ n \in Int
    BY <1>1
  <2>3. IsFiniteSet(1 .. n)
    BY <2>2, FS_Interval, Zenon
  <2> QED BY <2>1, <2>3, FS_Surjection, Zenon
<1>5. IsFiniteSet(UNION all)
  <2>1. \A T \in all : IsFiniteSet(T)
    BY <1>3
  <2> HIDE DEF all
  <2> QED BY <1>4, <2>1, FS_UNION
<1> HIDE DEF all
<1>6. Cardinality(UNION all) \in Nat
  BY <1>5, FS_CardinalityType
<1> QED BY <1>2, <1>6

\* Sequences one behind the other are a sequence.
LEMMA FlattenIs ==
  ASSUME NEW V, NEW seqs \in Seq(Seq(V))
  PROVE  FlattenSeq(seqs) \in Seq(V)
<1>1. Len(seqs) \in Nat /\ \A i \in 1 .. Len(seqs) : seqs[i] \in Seq(V)
  <2> DEFINE W == Seq(V)
  <2> HIDE DEF W
  <2>1. \A s \in Seq(W) : Len(s) \in Nat /\ \A i \in 1 .. Len(s) : s[i] \in W
    OBVIOUS
  <2> QED BY <2>1 DEF W
<1>2. CASE Len(seqs) = 0
  <2>1. seqs = <<>>
    <3> DEFINE W == Seq(V)
    <3> HIDE DEF W
    <3>1. \A s \in Seq(W) : Len(s) = 0 => s = <<>>
      OBVIOUS
    <3> QED BY <1>2, <3>1 DEF W
  <2>2. FlattenSeq(seqs) = seqs
    BY <1>2 DEF FlattenSeq
  <2>3. <<>> \in Seq(V)
    OBVIOUS
  <2> QED BY <2>1, <2>2, <2>3, Zenon
<1>3. CASE Len(seqs) # 0
  <2> DEFINE m == Len(seqs)
             n == m - 1
             rec(h) == [i \in 1 .. m |-> IF i = 1 THEN seqs[i] ELSE h[i - 1] \o seqs[i]]
             flatten == CHOOSE h : h = rec(h)
             step == [x \in (1 .. n) \X Seq(V) |-> x[2] \o seqs[x[1] + 1]]
  <2>1. FlattenSeq(seqs) = flatten[m]
    BY <1>3 DEF FlattenSeq
  <2>2. m \in Nat /\ n \in Nat /\ n + 1 = m /\ \A i \in 1 .. m : seqs[i] \in Seq(V)
    BY <1>1, <1>3
  <2> HIDE DEF m, n
  <2>3. \A p \in 1 .. n, v \in Seq(V) : v \o seqs[p + 1] \in Seq(V)
    <3>1. \A p \in 1 .. n : seqs[p + 1] \in Seq(V)
      BY <2>2
    <3>2. \A u, v \in Seq(V) : u \o v \in Seq(V)
      OBVIOUS
    <3> QED BY <3>1, <3>2
  <2>4. step \in [(1 .. n) \X Seq(V) -> Seq(V)]
    BY <2>3
  <2>5. \A p \in 1 .. n, v \in Seq(V) : step[<<p, v>>] = v \o seqs[p + 1]
    OBVIOUS
  <2> HIDE DEF step
  <2>6. PICK f \in [0 .. n -> Seq(V)] : Steps(n, seqs[1], step, f)
    <3> DEFINE W == Seq(V)
               e == seqs[1]
    <3>1. n \in Nat /\ e \in W /\ step \in [(1 .. n) \X W -> W]
      BY <2>2, <2>4
    <3> HIDE DEF W, e
    <3>2. \E f \in [0 .. n -> W] : Steps(n, e, step, f)
      BY <3>1, StepByStep, Zenon
    <3> QED BY <3>2 DEF W, e
  <2> DEFINE g == [i \in 1 .. m |-> f[i - 1]]
  <2>7. \A p \in 1 .. n : f[p] = f[p - 1] \o seqs[p + 1]
    <3>1. \A p \in 1 .. n : p - 1 \in 0 .. n /\ f[p - 1] \in Seq(V)
      BY <2>2
    <3> QED BY <2>5, <2>6, <3>1 DEF Steps
  <2>8. g = rec(g)
    <3>1. ASSUME NEW i \in 1 .. m, i # 1 PROVE f[i - 1] = g[i - 1] \o seqs[i]
      <4>1. i - 1 \in 1 .. n /\ (i - 1) + 1 = i /\ g[i - 1] = f[(i - 1) - 1]
        BY <2>2, <3>1
      <4> QED BY <2>7, <4>1
    <3>2. f[0] = seqs[1]
      BY <2>6 DEF Steps
    <3>3. ASSUME NEW i \in 1 .. m
          PROVE  f[i - 1] = IF i = 1 THEN seqs[i] ELSE g[i - 1] \o seqs[i]
      <4> HIDE DEF g
      <4>1. CASE i = 1
        BY <3>2, <4>1
      <4>2. CASE i # 1
        BY <3>1, <4>2
      <4> QED BY <4>1, <4>2
    <3> QED BY <3>3, Zenon
  <2>9. flatten = rec(flatten)
    <3> HIDE DEF rec, g
    <3> QED BY <2>8
  <2> HIDE DEF flatten
  <2>10. flatten[1] = g[1] /\ \A i \in 2 .. m : flatten[i - 1] = g[i - 1] => flatten[i] = g[i]
    <3> HIDE DEF g
    <3>1. 1 \in 1 .. m /\ \A i \in 2 .. m : i \in 1 .. m
      BY <2>2
    <3>2. flatten[1] = seqs[1] /\ g[1] = seqs[1]
      BY <2>8, <2>9, <3>1
    <3>3. ASSUME NEW i \in 2 .. m
          PROVE  flatten[i] = flatten[i - 1] \o seqs[i] /\ g[i] = g[i - 1] \o seqs[i]
      <4>1. i \in 1 .. m /\ i # 1
        BY <3>1
      <4>2. rec(flatten)[i] = flatten[i - 1] \o seqs[i] /\ rec(g)[i] = g[i - 1] \o seqs[i]
        BY <4>1, Zenon
      <4> HIDE DEF rec
      <4> QED BY <2>8, <2>9, <4>2, Zenon
    <3> QED BY <3>2, <3>3
  <2>11. 1 .. m \subseteq {i \in 1 .. m : flatten[i] = g[i]}
    <3> DEFINE S == {i \in 1 .. m : flatten[i] = g[i]}
    <3> HIDE DEF g
    <3>1. 1 \in S /\ \A i \in 2 .. m : i - 1 \in S => i \in S
      BY <2>2, <2>10
    <3> HIDE DEF S
    <3>2. m \in Nat
      BY <2>2
    <3>3. 1 .. m \subseteq S
      BY <3>1, <3>2, EveryPlace, Zenon
    <3> QED BY <3>3 DEF S
  <2>12. flatten[m] = f[n]
    <3>1. m \in 1 .. m /\ g[m] = f[n]
      BY <2>2
    <3> HIDE DEF g
    <3> QED BY <2>11, <3>1
  <2> QED BY <2>1, <2>2, <2>12
<1> QED BY <1>2, <1>3

-----------------------------------------------------------------------------

\* Rounding up gives the next boundary.
LEMMA RoundUpIs ==
  ASSUME NEW n \in Nat, NEW to \in {SECTOR, PAGE}
  PROVE  RoundUp(n, to) \in Nat /\ RoundUp(n, to) >= n /\ RoundUp(n, to) % to = 0
<1>1. RoundUp(n, 128) \in Nat /\ RoundUp(n, 128) >= n /\ RoundUp(n, 128) % 128 = 0
  BY DEF RoundUp
<1>2. RoundUp(n, 512) \in Nat /\ RoundUp(n, 512) >= n /\ RoundUp(n, 512) % 512 = 0
  BY DEF RoundUp
<1> QED BY <1>1, <1>2 DEF SECTOR, PAGE

\* Payloads of any lengths lie on boundaries behind the start, none over another.
LEMMA OffsetsAre ==
  ASSUME NEW lens \in Seq(Nat), NEW start \in Nat, NEW align \in {SECTOR, PAGE}
  PROVE  /\ DOMAIN Offsets(lens, start, align) = 1 .. Len(lens)
         /\ \A i \in 1 .. Len(lens) :
              /\ Offsets(lens, start, align)[i] \in Nat
              /\ Offsets(lens, start, align)[i] % align = 0
              /\ Offsets(lens, start, align)[i] >= start
              /\ Offsets(lens, start, align)[i] + lens[i] <= TotalLen(lens, start, align)
         /\ \A i, j \in 1 .. Len(lens) :
              i < j => Offsets(lens, start, align)[i] + lens[i] <= Offsets(lens, start, align)[j]
         /\ TotalLen(lens, start, align) \in Nat
<1> DEFINE n == Len(lens)
           up(k) == RoundUp(k, align)
           rec(h) == [i \in 1 .. n + 1 |->
                        IF i = 1 THEN up(start) ELSE up(h[i - 1] + lens[i - 1])]
           at == CHOOSE h : h = rec(h)
           step == [x \in (1 .. n) \X Nat |-> up(x[2] + lens[x[1]])]
           offs == Offsets(lens, start, align)
<1>1. offs = [i \in DOMAIN lens |-> at[i]]
  BY DEF Offsets
<1>2. n \in Nat /\ DOMAIN lens = 1 .. n /\ \A i \in 1 .. n : lens[i] \in Nat
  OBVIOUS
<1>3. \A k \in Nat : up(k) \in Nat /\ up(k) >= k /\ up(k) % align = 0
  BY RoundUpIs
<1> HIDE DEF n, up
<1>4. step \in [(1 .. n) \X Nat -> Nat]
  <2>1. \A p \in 1 .. n, v \in Nat : v + lens[p] \in Nat
    BY <1>2
  <2>2. \A p \in 1 .. n, v \in Nat : up(v + lens[p]) \in Nat
    BY <1>3, <2>1
  <2> QED BY <2>2
<1>5. \A p \in 1 .. n, v \in Nat : step[<<p, v>>] = up(v + lens[p])
  OBVIOUS
<1> HIDE DEF step
<1>6. PICK f \in [0 .. n -> Nat] : Steps(n, up(start), step, f)
  <2> DEFINE e == up(start)
  <2>1. e \in Nat
    BY <1>3
  <2> HIDE DEF e
  <2>2. \E f \in [0 .. n -> Nat] : Steps(n, e, step, f)
    BY <1>2, <1>4, <2>1, StepByStep, Zenon
  <2> QED BY <2>2 DEF e
<1>7. f[0] = up(start) /\ \A p \in 1 .. n : f[p - 1] \in Nat /\ f[p] = up(f[p - 1] + lens[p])
  <2>1. \A p \in 1 .. n : p - 1 \in 0 .. n /\ f[p - 1] \in Nat
    BY <1>2
  <2> QED BY <1>5, <1>6, <2>1 DEF Steps
<1> DEFINE g == [i \in 1 .. n + 1 |-> f[i - 1]]
<1>8. g = rec(g)
  <2>1. ASSUME NEW i \in 1 .. n + 1, i # 1 PROVE f[i - 1] = up(g[i - 1] + lens[i - 1])
    <3>1. i - 1 \in 1 .. n /\ g[i - 1] = f[(i - 1) - 1]
      BY <1>2, <2>1
    <3> QED BY <1>7, <3>1
  <2>2. \A i \in 1 .. n + 1 :
          f[i - 1] = IF i = 1 THEN up(start) ELSE up(g[i - 1] + lens[i - 1])
    BY <1>7, <2>1
  <2> QED BY <2>2
<1>9. at = rec(at)
  <2> HIDE DEF rec, g
  <2> QED BY <1>8
<1> HIDE DEF at
<1>10. /\ at[1] = up(start) /\ g[1] = up(start)
       /\ \A i \in 1 .. n : /\ at[i + 1] = up(at[i] + lens[i])
                            /\ g[i + 1] = up(g[i] + lens[i])
  <2> HIDE DEF g
  <2>1. 1 \in 1 .. n + 1
        /\ \A i \in 1 .. n : i + 1 \in 1 .. n + 1 /\ i + 1 # 1 /\ (i + 1) - 1 = i
    BY <1>2
  <2>2. at[1] = up(start) /\ g[1] = up(start)
    BY <1>8, <1>9, <2>1
  <2>3. ASSUME NEW i \in 1 .. n
        PROVE  at[i + 1] = up(at[i] + lens[i]) /\ g[i + 1] = up(g[i] + lens[i])
    BY <1>8, <1>9, <2>1
  <2> QED BY <2>2, <2>3
<1>11. \A i \in 1 .. n + 1 : at[i] = g[i]
  <2> DEFINE S == {i \in 1 .. n + 1 : at[i] = g[i]}
  <2> HIDE DEF g
  <2>1. 1 \in S
    BY <1>2, <1>10
  <2>2. ASSUME NEW i \in 2 .. n + 1, i - 1 \in S PROVE i \in S
    <3>1. i - 1 \in 1 .. n /\ (i - 1) + 1 = i
      BY <1>2
    <3> QED BY <1>10, <2>2, <3>1
  <2> HIDE DEF S
  <2>3. 1 .. n + 1 \subseteq S
    <3>1. n + 1 \in Nat
      BY <1>2
    <3> DEFINE m == n + 1
    <3> HIDE DEF m
    <3>2. m \in Nat /\ \A i \in 2 .. m : i - 1 \in S => i \in S
      BY <3>1, <2>2 DEF m
    <3>3. 1 .. m \subseteq S
      BY <2>1, <3>2, EveryPlace
    <3> QED BY <3>3 DEF m
  <2> QED BY <2>3 DEF S
<1>12. \A i \in 1 .. n + 1 : at[i] \in Nat
  BY <1>2, <1>11
<1> HIDE DEF rec, g
<1>13. at[1] >= start /\ at[1] % align = 0
       /\ \A i \in 1 .. n : at[i + 1] >= at[i] + lens[i] /\ at[i + 1] % align = 0
  <2>1. \A i \in 1 .. n : at[i] \in Nat /\ at[i] + lens[i] \in Nat
    BY <1>2, <1>12
  <2> QED BY <1>3, <1>10, <2>1
<1>14. ASSUME NEW j \in 1 .. n + 1 PROVE \A i \in 1 .. j : at[i] <= at[j]
  <2> DEFINE S == {k \in 1 .. n + 1 : \A i \in 1 .. k : at[i] <= at[k]}
             m == n + 1
  <2>1. m \in Nat /\ (m > 0 => 1 \in S)
    BY <1>2, <1>12
  <2>2. ASSUME NEW k \in 2 .. m, k - 1 \in S PROVE k \in S
    <3>1. k - 1 \in 1 .. n /\ (k - 1) + 1 = k /\ k \in 1 .. n + 1
      BY <1>2
    <3>2. at[k - 1] <= at[k] /\ at[k] \in Nat /\ at[k - 1] \in Nat
      <4>1. lens[k - 1] \in Nat /\ k - 1 \in 1 .. n + 1
        BY <1>2, <3>1
      <4>2. at[k] \in Nat /\ at[k - 1] \in Nat
        BY <1>12, <3>1, <4>1
      <4>3. at[k] >= at[k - 1] + lens[k - 1]
        BY <1>13, <3>1
      <4> QED BY <4>1, <4>2, <4>3
    <3>3. ASSUME NEW i \in 1 .. k PROVE at[i] <= at[k]
      <4>1. CASE i = k
        BY <3>2, <4>1
      <4>2. CASE i \in 1 .. k - 1
        <5>1. at[i] <= at[k - 1]
          BY <2>2, <4>2
        <5>2. at[i] \in Nat
          BY <1>2, <1>12, <4>2
        <5> QED BY <3>2, <5>1, <5>2
      <4> QED BY <4>1, <4>2
    <3> QED BY <3>1, <3>3
  <2> HIDE DEF S, m
  <2>3. 1 .. m \subseteq S
    BY <2>1, <2>2, EveryPlace
  <2> QED BY <2>3 DEF S, m
<1>15. ASSUME NEW i \in 1 .. n, NEW j \in 1 .. n + 1, i < j PROVE at[i] + lens[i] <= at[j]
  <2>1. i + 1 \in 1 .. j /\ i \in 1 .. n + 1 /\ i + 1 \in 1 .. n + 1
    BY <1>2, <1>15
  <2>2. at[i + 1] <= at[j] /\ at[i + 1] >= at[i] + lens[i]
    BY <1>13, <1>14, <2>1
  <2>3. at[i] \in Nat /\ at[i + 1] \in Nat /\ at[j] \in Nat /\ lens[i] \in Nat
    BY <1>2, <1>12, <1>15, <2>1
  <2> QED BY <2>2, <2>3
<1>16. \A i \in 1 .. n : at[i] \in Nat /\ at[i] % align = 0 /\ at[i] >= start
  <2> SUFFICES ASSUME NEW i \in 1 .. n PROVE at[i] \in Nat /\ at[i] % align = 0 /\ at[i] >= start
    OBVIOUS
  <2>1. i \in 1 .. n + 1 /\ 1 \in 1 .. i /\ 1 \in 1 .. n + 1
    BY <1>2
  <2>2. at[i] \in Nat /\ at[1] \in Nat /\ at[1] <= at[i]
    BY <1>12, <1>14, <2>1
  <2>3. at[i] % align = 0
    <3>1. CASE i = 1
      BY <1>13, <3>1
    <3>2. CASE i > 1
      <4>1. i - 1 \in 1 .. n /\ (i - 1) + 1 = i
        BY <1>2, <3>2
      <4> QED BY <1>13, <4>1
    <3> QED BY <3>1, <3>2
  <2> QED BY <1>13, <2>2, <2>3
<1>17. TotalLen(lens, start, align) = at[n + 1]
  <2>1. CASE lens = <<>>
    <3>1. n = 0
      BY <2>1 DEF n
    <3> QED BY <1>10, <2>1, <3>1 DEF TotalLen, up
  <2>2. CASE lens # <<>>
    <3>1. n \in 1 .. n /\ n = Len(lens)
      BY <1>2, <2>2 DEF n
    <3>2. offs[n] = at[n]
      BY <1>1, <1>2, <3>1
    <3>3. TotalLen(lens, start, align) = up(offs[n] + lens[n])
      BY <2>2, <3>1 DEF TotalLen, up
    <3> QED BY <1>10, <3>1, <3>2, <3>3
  <2> QED BY <2>1, <2>2
<1>18. \A i \in 1 .. n : offs[i] = at[i]
  BY <1>1, <1>2
<1>19. n + 1 \in 1 .. n + 1 /\ \A i \in 1 .. n : i < n + 1 /\ i \in 1 .. n + 1
  BY <1>2
<1> HIDE DEF offs
<1>20. DOMAIN offs = 1 .. n
  BY <1>1, <1>2
<1>21. \A i \in 1 .. n : offs[i] + lens[i] <= at[n + 1]
  BY <1>15, <1>18, <1>19
<1>22. \A i, j \in 1 .. n : i < j => offs[i] + lens[i] <= offs[j]
  BY <1>15, <1>18, <1>19
<1>23. at[n + 1] \in Nat
  BY <1>12, <1>19
<1>24. \A i \in 1 .. n : offs[i] \in Nat /\ offs[i] % align = 0 /\ offs[i] >= start
  BY <1>16, <1>18
<1> QED BY <1>17, <1>20, <1>21, <1>22, <1>23, <1>24 DEF offs, n

-----------------------------------------------------------------------------

(***************************************************************************)
(* Paths: which node each token of a struct block belongs to.              *)
(***************************************************************************)

Own(t) == IF t.tok = "begin" THEN <<t.name>> ELSE <<>>

\* The node a reader is in behind a token of the node at this path.
Beyond(t, path) == IF t.tok = "end" THEN Front(path) ELSE path

\* A path for each token: a begin goes one down, an end one up behind it.
Follows(s, path) ==
  /\ DOMAIN path = 1 .. Len(s)
  /\ \A p \in 1 .. Len(s) :
       path[p] = (IF p = 1 THEN <<>> ELSE Beyond(s[p - 1], path[p - 1])) \o Own(s[p])

\* Each kind of token is one of its own.
LEMMA TokensAre ==
  /\ \A t \in Tokens : t.tok \in {"begin", "end", "prop", "nop"}
  /\ \A t \in Tokens : t.tok = "begin" => t \in [tok : {"begin"}, name : STRING]
  /\ \A t \in Tokens : t.tok = "prop" => t \in [tok : {"prop"}, at : Nat, val : Seq(Int)]
  /\ \A n \in STRING : Begin(n) \in Tokens
  /\ \A i \in Nat, v \in Seq(Int) : Prop(i, v) \in Tokens
  /\ EndNode \in Tokens /\ Nop \in Tokens
<1>1. \A t \in Tokens : t.tok \in {"begin", "end", "prop", "nop"}
  BY DEF Tokens
<1>2. \A t \in Tokens : t.tok = "begin" => t \in [tok : {"begin"}, name : STRING]
  BY DEF Tokens
<1>3. \A t \in Tokens : t.tok = "prop" => t \in [tok : {"prop"}, at : Nat, val : Seq(Int)]
  BY DEF Tokens
<1>4. \A n \in STRING : Begin(n) \in Tokens
  BY DEF Tokens, Begin
<1>5. \A i \in Nat, v \in Seq(Int) : Prop(i, v) \in Tokens
  BY DEF Tokens, Prop
<1>6. EndNode \in Tokens /\ Nop \in Tokens
  BY DEF Tokens, EndNode, Nop
<1> QED BY <1>1, <1>2, <1>3, <1>4, <1>5, <1>6

\* Front takes the last component off.
LEMMA FrontIs ==
  ASSUME NEW V, NEW y \in Seq(V)
  PROVE  /\ Front(y) \in Seq(V)
         /\ y = <<>> => Front(y) = <<>>
         /\ y # <<>> => Len(Front(y)) = Len(y) - 1
         /\ \A i \in 1 .. Len(y) - 1 : Front(y)[i] = y[i]
<1>1. Front(y) = [i \in 1 .. Len(y) - 1 |-> y[i]]
  BY DEF Front
<1>2. \A i \in 1 .. Len(y) - 1 : y[i] \in V
  OBVIOUS
<1> QED BY <1>1, <1>2

\* A path is a sequence of names.
LEMMA OwnIs ==
  ASSUME NEW t \in Tokens, NEW path \in Seq(STRING)
  PROVE  Own(t) \in Seq(STRING) /\ Len(Own(t)) <= 1 /\ Beyond(t, path) \in Seq(STRING)
<1>1. Own(t) \in Seq(STRING) /\ Len(Own(t)) <= 1
  <2>1. CASE t.tok = "begin"
    <3>1. t.name \in STRING
      BY <2>1, TokensAre
    <3> QED BY <2>1, <3>1 DEF Own
  <2>2. CASE t.tok # "begin"
    BY <2>2 DEF Own
  <2> QED BY <2>1, <2>2
<1>2. Beyond(t, path) \in Seq(STRING)
  BY FrontIs DEF Beyond
<1> QED BY <1>1, <1>2

\* Paths is the one such assignment.
LEMMA PathsAre ==
  ASSUME NEW s \in Seq(Tokens)
  PROVE  Paths(s) \in Seq(Seq(STRING)) /\ Follows(s, Paths(s))
<1> DEFINE n == Len(s)
           V == Seq(STRING)
           around(before, p) == IF p = 1 THEN <<>>
                                ELSE IF s[p - 1].tok = "end" THEN Front(before[p - 1])
                                ELSE before[p - 1]
           extended(before, p) ==
             Append(before, around(before, p)
                            \o (IF s[p].tok = "begin" THEN <<s[p].name>> ELSE <<>>))
           rec(h) == [p \in 0 .. n |-> IF p = 0 THEN <<<<>>>>
                                       ELSE [h[p - 1] EXCEPT ![1] = extended(@, p)]]
           upTo == CHOOSE h : h = rec(h)
           next(p, v) == (IF p = 1 THEN <<>> ELSE Beyond(s[p - 1], v)) \o Own(s[p])
           step == [x \in (1 .. n) \X V |-> next(x[1], x[2])]
<1>1. Paths(s) = upTo[n][1]
  BY DEF Paths
<1>2. n \in Nat /\ \A p \in 1 .. n : s[p] \in Tokens
  OBVIOUS
<1>3. \A p \in 1 .. n, v \in V : next(p, v) \in V
  <2> SUFFICES ASSUME NEW p \in 1 .. n, NEW v \in V PROVE next(p, v) \in V
    OBVIOUS
  <2>1. Own(s[p]) \in V
    BY <1>2, OwnIs
  <2>2. p # 1 => Beyond(s[p - 1], v) \in V
    BY <1>2, OwnIs
  <2>3. <<>> \in V /\ \A x, y \in V : x \o y \in V
    OBVIOUS
  <2> HIDE DEF V
  <2> QED BY <2>1, <2>2, <2>3
<1> HIDE DEF next
<1>4. step \in [(1 .. n) \X V -> V] /\ <<>> \in V
  <2>1. step \in [(1 .. n) \X V -> V]
    <3> HIDE DEF V
    <3> QED BY <1>3
  <2> QED BY <2>1
<1>5. \A p \in 1 .. n, v \in V : step[<<p, v>>] = next(p, v)
  OBVIOUS
<1> HIDE DEF step, V
<1>6. PICK g \in [0 .. n -> V] : Steps(n, <<>>, step, g)
  <2> DEFINE e == <<>>
  <2>1. e \in V /\ n \in Nat
    BY <1>2, <1>4
  <2> HIDE DEF n, e
  <2>2. \E f \in [0 .. n -> V] : Steps(n, e, step, f)
    BY <1>4, <2>1, StepByStep, Zenon
  <2> QED BY <2>2 DEF e
<1> HIDE DEF n
<1>7. \A p \in 1 .. n : g[p] \in V /\ g[p - 1] \in V /\ g[p] = next(p, g[p - 1])
  <2>1. \A p \in 1 .. n : p - 1 \in 0 .. n /\ p \in 0 .. n
    BY <1>2
  <2> QED BY <1>5, <1>6, <2>1 DEF Steps
<1> DEFINE upto(p) == [q \in 1 .. p |-> g[q]]
           h == [p \in 0 .. n |-> <<upto(p)>>]
<1>8. \A p \in 1 .. n : extended(upto(p - 1), p) = upto(p)
  <2> SUFFICES ASSUME NEW p \in 1 .. n PROVE extended(upto(p - 1), p) = upto(p)
    OBVIOUS
  <2>1. around(upto(p - 1), p) \o Own(s[p]) = g[p]
    <3>1. CASE p = 1
      BY <1>7, <3>1 DEF next
    <3>2. CASE p # 1
      <4>1. p - 1 \in 1 .. p - 1 /\ upto(p - 1)[p - 1] = g[p - 1]
        BY <1>2, <3>2
      <4> HIDE DEF upto
      <4>2. around(upto(p - 1), p) = Beyond(s[p - 1], g[p - 1])
        BY <3>2, <4>1 DEF Beyond
      <4> QED BY <1>7, <3>2, <4>2 DEF next
    <3> QED BY <3>1, <3>2
  <2>2. extended(upto(p - 1), p) = Append(upto(p - 1), g[p])
    BY <2>1 DEF Own
  <2> HIDE DEF extended
  <2>3. upto(p - 1) \in Seq(V) /\ Len(upto(p - 1)) = p - 1 /\ g[p] \in V /\ p - 1 \in Nat
    <3>1. \A q \in 1 .. p - 1 : q \in 1 .. n
      BY <1>2
    <3> QED BY <1>2, <1>7, <3>1
  <2>4. \A q \in 1 .. p - 1 : upto(p - 1)[q] = g[q]
    OBVIOUS
  <2>5. upto(p) \in Seq(V) /\ Len(upto(p)) = p /\ \A q \in 1 .. p : upto(p)[q] = g[q]
    <3>1. \A q \in 1 .. p : q \in 1 .. n
      BY <1>2
    <3> QED BY <1>2, <1>7, <3>1
  <2> HIDE DEF upto
  <2> DEFINE a == Append(upto(p - 1), g[p])
  <2>6. a \in Seq(V) /\ Len(a) = p /\ \A q \in 1 .. p : a[q] = g[q]
    <3>1. a \in Seq(V) /\ Len(a) = p /\ a[p] = g[p]
      BY <2>3
    <3>2. ASSUME NEW q \in 1 .. p PROVE a[q] = g[q]
      <4>1. CASE q = p
        BY <3>1, <4>1
      <4>2. CASE q \in 1 .. p - 1
        BY <2>3, <2>4, <4>2
      <4>3. q = p \/ q \in 1 .. p - 1
        BY <1>2
      <4> HIDE DEF a
      <4> QED BY <4>1, <4>2, <4>3
    <3> QED BY <3>1, <3>2
  <2> HIDE DEF a
  <2>7. a = upto(p)
    <3>1. \A q \in 1 .. p : a[q] = upto(p)[q]
      BY <2>5, <2>6
    <3> QED BY <2>5, <2>6, <3>1
  <2> QED BY <2>2, <2>7 DEF a
<1> HIDE DEF upto
<1>9. h = rec(h)
  <2> HIDE DEF extended
  <2>1. ASSUME NEW p \in 1 .. n
        PROVE  [h[p - 1] EXCEPT ![1] = extended(@, p)] = <<upto(p)>>
    <3>1. h[p - 1] = <<upto(p - 1)>>
      BY <1>2
    <3> HIDE DEF h
    <3>2. [<<upto(p - 1)>> EXCEPT ![1] = extended(upto(p - 1), p)]
            = <<extended(upto(p - 1), p)>>
      OBVIOUS
    <3> QED BY <1>8, <3>1, <3>2
  <2>2. upto(0) = <<>>
    BY DEF upto
  <2>3. ASSUME NEW p \in 0 .. n
        PROVE  h[p] = IF p = 0 THEN <<<<>>>> ELSE [h[p - 1] EXCEPT ![1] = extended(@, p)]
    <3>1. h[p] = <<upto(p)>>
      OBVIOUS
    <3> HIDE DEF h
    <3>2. CASE p = 0
      BY <2>2, <3>1, <3>2
    <3>3. CASE p # 0
      <4>1. p \in 1 .. n
        BY <1>2, <3>3
      <4> QED BY <2>1, <3>1, <3>3, <4>1
    <3> QED BY <3>2, <3>3
  <2>4. h = [p \in 0 .. n |-> h[p]]
    OBVIOUS
  <2> HIDE DEF h
  <2> QED BY <2>3, <2>4, Zenon
<1>10. upTo = rec(upTo)
  <2> HIDE DEF rec, h
  <2> QED BY <1>9
<1> HIDE DEF upTo, extended
<1>11. upTo[n] = h[n]
  <2> DEFINE S == {p \in 0 .. n : upTo[p] = h[p]}
  <2> HIDE DEF h
  <2>1. 0 \in S
    BY <1>2, <1>9, <1>10
  <2>2. ASSUME NEW i \in 0 .. n - 1, i \in S PROVE i + 1 \in S
    <3>1. i + 1 \in 0 .. n /\ (i + 1) - 1 = i /\ i + 1 # 0 /\ upTo[i] = h[i]
      BY <1>2, <2>2
    <3>2. \A x : rec(x)[i + 1] = [x[i] EXCEPT ![1] = extended(@, i + 1)]
      BY <3>1
    <3> HIDE DEF rec
    <3>3. upTo[i + 1] = [upTo[i] EXCEPT ![1] = extended(@, i + 1)]
      BY <1>10, <3>2
    <3>4. h[i + 1] = [h[i] EXCEPT ![1] = extended(@, i + 1)]
      BY <1>9, <3>2
    <3>5. upTo[i + 1] = h[i + 1]
      BY <3>1, <3>3, <3>4
    <3> QED BY <3>1, <3>5
  <2> HIDE DEF S
  <2>3. 0 .. n \subseteq S
    BY <1>2, <2>1, <2>2, Upwards
  <2> QED BY <1>2, <2>3 DEF S
<1>12. Paths(s) = upto(n)
  BY <1>1, <1>2, <1>11
<1>13. \A p \in 1 .. n : upto(n)[p] = g[p]
  BY DEF upto
<1>14. upto(n) \in Seq(V) /\ DOMAIN upto(n) = 1 .. n
  BY <1>2, <1>7 DEF upto
<1>15. ASSUME NEW p \in 1 .. n
       PROVE  upto(n)[p] = (IF p = 1 THEN <<>> ELSE Beyond(s[p - 1], upto(n)[p - 1]))
                           \o Own(s[p])
  <2>1. CASE p = 1
    BY <1>7, <1>13, <2>1 DEF next
  <2>2. CASE p # 1
    <3>1. p - 1 \in 1 .. n
      BY <1>2, <2>2
    <3>2. upto(n)[p - 1] = g[p - 1] /\ g[p] = Beyond(s[p - 1], g[p - 1]) \o Own(s[p])
      BY <1>7, <1>13, <2>2, <3>1 DEF next
    <3> QED BY <1>13, <2>2, <3>2
  <2> QED BY <2>1, <2>2
<1> QED BY <1>12, <1>14, <1>15 DEF Follows, V, n

\* A reader has no choice in it: whatever follows the tokens so is Paths.
LEMMA OnlyPaths ==
  ASSUME NEW s \in Seq(Tokens), NEW g, Follows(s, g)
  PROVE  \A p \in 1 .. Len(s) : g[p] = Paths(s)[p]
<1> DEFINE n == Len(s)
           path == Paths(s)
           S == {p \in 1 .. n : g[p] = path[p]}
<1>1. n \in Nat /\ Follows(s, path)
  BY PathsAre
<1> HIDE DEF path
<1>2. n > 0 => 1 \in S
  <2> SUFFICES ASSUME n > 0 PROVE g[1] = path[1]
    BY <1>1
  <2>1. 1 \in 1 .. n
    BY <1>1
  <2>2. g[1] = <<>> \o Own(s[1])
    BY <2>1 DEF Follows
  <2>3. path[1] = <<>> \o Own(s[1])
    BY <1>1, <2>1 DEF Follows
  <2> QED BY <2>2, <2>3
<1>3. ASSUME NEW p \in 2 .. n, p - 1 \in S PROVE p \in S
  <2>1. p \in 1 .. n /\ p # 1 /\ g[p - 1] = path[p - 1]
    BY <1>1, <1>3
  <2>2. g[p] = Beyond(s[p - 1], g[p - 1]) \o Own(s[p])
    BY <2>1 DEF Follows
  <2>3. path[p] = Beyond(s[p - 1], path[p - 1]) \o Own(s[p])
    BY <1>1, <2>1 DEF Follows
  <2> QED BY <2>1, <2>2, <2>3
<1> HIDE DEF S, n
<1>4. 1 .. n \subseteq S
  BY <1>1, <1>2, <1>3, EveryPlace
<1> QED BY <1>4 DEF S, n, path

\* x is the start of y, component by component.
Starts(x, y) == Len(x) <= Len(y) /\ \A i \in 1 .. Len(x) : x[i] = y[i]

\* The library's IsPrefix is Starts.
LEMMA PrefixIs ==
  ASSUME NEW V, NEW x \in Seq(V), NEW y \in Seq(V)
  PROVE  IsPrefix(x, y) <=> Starts(x, y)
<1>1. CASE Len(x) <= Len(y)
  <2>1. SubSeq(x, 1, Len(x)) = [i \in 1 .. Len(x) |-> x[i]]
    OBVIOUS
  <2>2. SubSeq(y, 1, Len(x)) = [i \in 1 .. Len(x) |-> y[i]]
    BY <1>1
  <2>3. SubSeq(x, 1, Len(x)) = SubSeq(y, 1, Len(x)) <=> \A i \in 1 .. Len(x) : x[i] = y[i]
    BY <2>1, <2>2
  <2> QED BY <1>1, <2>3 DEF IsPrefix, Starts
<1>2. CASE ~(Len(x) <= Len(y))
  BY <1>2 DEF IsPrefix, Starts
<1> QED BY <1>1, <1>2

\* Going up leaves a node's path and going down adds to it.
LEMMA StartsAre ==
  ASSUME NEW V, NEW x \in Seq(V), NEW y \in Seq(V)
  PROVE  /\ Starts(x, x)
         /\ Starts(x, Front(y)) => Starts(x, y)
         /\ x # <<>> => ~Starts(x, Front(x)) /\ ~Starts(x, <<>>)
         /\ Starts(x, y) /\ Len(x) = Len(y) => x = y
         /\ \A z \in Seq(V) : Starts(x, z) /\ Starts(z, y) => Starts(x, y)
<1>1. Starts(x, x)
  BY DEF Starts
<1>2. ASSUME Starts(x, Front(y)) PROVE Starts(x, y)
  <2>1. CASE y = <<>>
    BY <1>2, <2>1, FrontIs
  <2>2. CASE y # <<>>
    BY <1>2, <2>2, FrontIs DEF Starts
  <2> QED BY <2>1, <2>2
<1>3. ASSUME x # <<>> PROVE ~Starts(x, Front(x)) /\ ~Starts(x, <<>>)
  <2>1. Len(Front(x)) = Len(x) - 1 /\ Len(x) > 0 /\ Len(<<>>) = 0
    BY <1>3, FrontIs
  <2> QED BY <2>1 DEF Starts
<1>4. ASSUME Starts(x, y), Len(x) = Len(y) PROVE x = y
  BY <1>4 DEF Starts
<1>5. ASSUME NEW z \in Seq(V), Starts(x, z), Starts(z, y) PROVE Starts(x, y)
  <2>1. Len(x) \in Nat /\ Len(z) \in Nat /\ Len(y) \in Nat /\ Len(x) <= Len(z)
        /\ Len(z) <= Len(y)
    BY <1>5 DEF Starts
  <2>2. \A i \in 1 .. Len(x) : x[i] = z[i] /\ z[i] = y[i]
    BY <1>5, <2>1 DEF Starts
  <2> QED BY <2>1, <2>2 DEF Starts
<1> QED BY <1>1, <1>2, <1>3, <1>4, <1>5

\* One component more: what starts the longer path starts the shorter or is it.
LEMMA StartsLonger ==
  ASSUME NEW V, NEW x \in Seq(V), NEW y \in Seq(V), NEW v \in V,
         Starts(x, y \o <<v>>), ~Starts(x, y)
  PROVE  x = y \o <<v>>
<1>1. y \o <<v>> \in Seq(V) /\ Len(y \o <<v>>) = Len(y) + 1
      /\ \A i \in 1 .. Len(y) : (y \o <<v>>)[i] = y[i]
  OBVIOUS
<1>2. Len(x) = Len(y) + 1
  BY <1>1 DEF Starts
<1> QED BY <1>1, <1>2, StartsAre

\* The path of the node behind the first c tokens, the root's parent for none.
Standing(s, path, c) == IF c = 0 THEN <<>> ELSE Beyond(s[c], path[c])

\* A token's path is the one it stands in, and its own name for a begin.
LEMMA StandingIs ==
  ASSUME NEW s \in Seq(Tokens)
  PROVE  /\ \A c \in 0 .. Len(s) : Standing(s, Paths(s), c) \in Seq(STRING)
         /\ \A p \in 1 .. Len(s) :
              /\ Paths(s)[p] = Standing(s, Paths(s), p - 1) \o Own(s[p])
              /\ s[p].tok # "begin" => Paths(s)[p] = Standing(s, Paths(s), p - 1)
              /\ s[p].tok = "begin" =>
                   /\ Paths(s)[p] = Standing(s, Paths(s), p - 1) \o <<s[p].name>>
                   /\ s[p].name \in STRING
              /\ s[p].tok # "end" => Standing(s, Paths(s), p) = Paths(s)[p]
<1> DEFINE path == Paths(s)
<1>1. path \in Seq(Seq(STRING)) /\ Follows(s, path)
  BY PathsAre
<1> HIDE DEF path
<1>2. Len(s) \in Nat /\ DOMAIN path = 1 .. Len(s) /\ \A p \in 1 .. Len(s) : s[p] \in Tokens
  BY <1>1 DEF Follows
<1>3. \A p \in 1 .. Len(s) : path[p] \in Seq(STRING)
  <2> DEFINE V == Seq(STRING)
  <2> HIDE DEF V
  <2>1. \A x \in Seq(V) : \A p \in DOMAIN x : x[p] \in V
    OBVIOUS
  <2> QED BY <1>1, <1>2, <2>1 DEF V
<1>4. ASSUME NEW c \in 0 .. Len(s) PROVE Standing(s, path, c) \in Seq(STRING)
  <2>1. CASE c = 0
    BY <2>1 DEF Standing
  <2>2. CASE c # 0
    BY <1>2, <1>3, <2>2, OwnIs DEF Standing
  <2> QED BY <2>1, <2>2
<1>5. ASSUME NEW p \in 1 .. Len(s)
      PROVE  /\ path[p] = Standing(s, path, p - 1) \o Own(s[p])
             /\ s[p].tok # "begin" => path[p] = Standing(s, path, p - 1)
             /\ s[p].tok = "begin" =>
                  /\ path[p] = Standing(s, path, p - 1) \o <<s[p].name>>
                  /\ s[p].name \in STRING
             /\ s[p].tok # "end" => Standing(s, path, p) = path[p]
  <2>1. p - 1 \in 0 .. Len(s) /\ p # 0 /\ (p - 1 = 0 <=> p = 1)
    BY <1>2
  <2>2. path[p] = (IF p = 1 THEN <<>> ELSE Beyond(s[p - 1], path[p - 1])) \o Own(s[p])
    BY <1>1 DEF Follows
  <2>3. path[p] = Standing(s, path, p - 1) \o Own(s[p])
    BY <2>1, <2>2 DEF Standing
  <2>4. Standing(s, path, p - 1) \in Seq(STRING)
    BY <1>4, <2>1
  <2>5. \A x \in Seq(STRING) : x \o <<>> = x
    OBVIOUS
  <2>6. s[p].tok # "begin" => path[p] = Standing(s, path, p - 1)
    BY <2>3, <2>4, <2>5 DEF Own
  <2>7. s[p].tok = "begin" => s[p].name \in STRING
    BY <1>2, TokensAre
  <2>8. s[p].tok = "begin" => path[p] = Standing(s, path, p - 1) \o <<s[p].name>>
    BY <2>3 DEF Own
  <2>9. s[p].tok # "end" => Standing(s, path, p) = path[p]
    BY <2>1 DEF Standing, Beyond
  <2> QED BY <2>3, <2>6, <2>7, <2>8, <2>9
<1> QED BY <1>4, <1>5 DEF path

\* A node that is not entered already is entered by a begin of its own.
LEMMA Entered ==
  ASSUME NEW s \in Seq(Tokens), NEW x \in Seq(STRING), x # <<>>,
         NEW c \in 0 .. Len(s), ~Starts(x, Standing(s, Paths(s), c))
  PROVE  \A q \in c + 1 .. Len(s) :
           Starts(x, Paths(s)[q]) =>
             \E r \in c + 1 .. q : s[r].tok = "begin" /\ Paths(s)[r] = x
<1> DEFINE n == Len(s)
           path == Paths(s)
           in(q) == \E r \in c + 1 .. q : s[r].tok = "begin" /\ path[r] = x
           S == {i \in 0 .. n - c : Starts(x, Standing(s, path, c + i)) => in(c + i)}
<1>1. n \in Nat /\ c \in 0 .. n /\ n - c \in Nat
  OBVIOUS
<1>2. 0 \in S
  <2>1. c + 0 = c
    OBVIOUS
  <2> QED BY <1>1, <2>1
<1> HIDE DEF path
<1>3. ASSUME NEW q \in c + 1 .. n, Starts(x, path[q]),
             Starts(x, Standing(s, path, q - 1)) => in(q - 1)
      PROVE  in(q)
  <2>1. q \in 1 .. n /\ q - 1 \in 0 .. n /\ q \in c + 1 .. q
    BY <1>1
  <2>2. CASE Starts(x, Standing(s, path, q - 1))
    <3>1. PICK r \in c + 1 .. q - 1 : s[r].tok = "begin" /\ path[r] = x
      BY <1>3, <2>2
    <3> QED BY <1>1, <3>1
  <2>3. CASE ~Starts(x, Standing(s, path, q - 1))
    <3>1. s[q].tok = "begin"
      BY <1>3, <2>1, <2>3, StandingIs DEF path
    <3>2. path[q] = Standing(s, path, q - 1) \o <<s[q].name>> /\ s[q].name \in STRING
          /\ Standing(s, path, q - 1) \in Seq(STRING)
      BY <2>1, <3>1, StandingIs DEF path
    <3>3. x = path[q]
      BY <1>3, <2>3, <3>2, StartsLonger
    <3> QED BY <2>1, <3>1, <3>3
  <2> QED BY <2>2, <2>3
<1>4. ASSUME NEW i \in 0 .. (n - c) - 1, i \in S PROVE i + 1 \in S
  <2>1. c + (i + 1) \in c + 1 .. n /\ (c + (i + 1)) - 1 = c + i /\ i + 1 \in 0 .. n - c
    BY <1>1
  <2> DEFINE q == c + (i + 1)
  <2>2. q \in 1 .. n /\ q # 0
    BY <1>1, <2>1
  <2> HIDE DEF q
  <2>3. ASSUME Starts(x, Standing(s, path, q)) PROVE Starts(x, path[q])
    <3>1. path[q] \in Seq(STRING)
      <4>1. \A y, z \in Seq(STRING) : y \o z \in Seq(STRING)
        OBVIOUS
      <4>2. q - 1 \in 0 .. n
        BY <1>1, <2>2
      <4>3. path[q] = Standing(s, path, q - 1) \o Own(s[q])
            /\ Standing(s, path, q - 1) \in Seq(STRING)
        BY <2>2, <4>2, StandingIs DEF path
      <4>4. Own(s[q]) \in Seq(STRING)
        <5>1. s[q] \in Tokens
          BY <2>2
        <5> QED BY <4>3, <5>1, OwnIs
      <4> QED BY <4>1, <4>3, <4>4
    <3>2. Standing(s, path, q) = path[q] \/ Standing(s, path, q) = Front(path[q])
      BY <2>2 DEF Standing, Beyond
    <3> QED BY <2>3, <3>1, <3>2, StartsAre
  <2>4. Starts(x, Standing(s, path, q)) => in(q)
    <3>1. q \in c + 1 .. n /\ q - 1 = c + i
      BY <2>1 DEF q
    <3>2. Starts(x, Standing(s, path, q - 1)) => in(q - 1)
      BY <1>4, <3>1
    <3> HIDE DEF in
    <3> QED BY <1>3, <2>3, <3>1, <3>2
  <2> QED BY <2>1, <2>4 DEF q
<1> HIDE DEF S
<1>5. 0 .. n - c \subseteq S
  <2> DEFINE m == n - c
  <2>1. m \in Nat /\ 0 \in S /\ \A i \in 0 .. m - 1 : i \in S => i + 1 \in S
    BY <1>1, <1>2, <1>4
  <2> HIDE DEF m
  <2>2. 0 .. m \subseteq S
    BY <2>1, Upwards
  <2> QED BY <2>2 DEF m
<1>6. ASSUME NEW q \in c + 1 .. n, Starts(x, path[q]) PROVE in(q)
  <2>1. q - 1 - c \in 0 .. n - c /\ c + (q - 1 - c) = q - 1
    BY <1>1
  <2>2. Starts(x, Standing(s, path, q - 1)) => in(q - 1)
    BY <1>5, <2>1 DEF S
  <2> HIDE DEF in
  <2> QED BY <1>3, <1>6, <2>2
<1> QED BY <1>6 DEF path

(***************************************************************************)
(* Tokens put between two others, and up to one taken out.                 *)
(***************************************************************************)

Spliced(s, p, d, ins) == SubSeq(s, 1, p) \o ins \o SubSeq(s, p + d + 1, Len(s))

\* Where the token that was at q is.
Moved(p, d, k, q) == IF q <= p THEN q ELSE q - d + k

\* t is s with ins put behind p and the d tokens there taken out.
IsSpliced(t, s, p, d, ins) ==
  /\ Len(t) = Len(s) - d + Len(ins)
  /\ \A q \in 1 .. p : t[q] = s[q]
  /\ \A j \in 1 .. Len(ins) : t[p + j] = ins[j]
  /\ \A q \in p + d + 1 .. Len(s) : t[q - d + Len(ins)] = s[q]

\* Every token that is kept and every new one is where it belongs.
LEMMA SplicedIs ==
  ASSUME NEW V, NEW s \in Seq(V), NEW ins \in Seq(V), NEW d \in 0 .. 1,
         NEW p \in 1 .. Len(s), p + d <= Len(s)
  PROVE  /\ Spliced(s, p, d, ins) \in Seq(V)
         /\ IsSpliced(Spliced(s, p, d, ins), s, p, d, ins)
<1> DEFINE n == Len(s)
           k == Len(ins)
           a == SubSeq(s, 1, p)
           z == SubSeq(s, p + d + 1, n)
           t == Spliced(s, p, d, ins)
<1>1. n \in Nat /\ k \in Nat /\ p \in 1 .. n /\ d \in 0 .. 1 /\ p + d <= n
  OBVIOUS
<1>2. a \in Seq(V) /\ Len(a) = p /\ \A q \in 1 .. p : a[q] = s[q]
  OBVIOUS
<1>3. z \in Seq(V) /\ Len(z) = n - p - d
  <2>1. CASE d = 0
    BY <2>1
  <2>2. CASE d = 1
    BY <2>2
  <2> QED BY <2>1, <2>2
<1>4. \A q \in 1 .. n - p - d : z[q] = s[p + d + q]
  <2>1. CASE d = 0
    BY <2>1
  <2>2. CASE d = 1
    BY <2>2
  <2> QED BY <2>1, <2>2
<1>5. t = (a \o ins) \o z
  BY DEF Spliced
<1> HIDE DEF t, a, z, n, k
<1>6. a \o ins \in Seq(V) /\ Len(a \o ins) = p + k
      /\ (\A q \in 1 .. p : (a \o ins)[q] = s[q])
      /\ \A j \in 1 .. k : (a \o ins)[p + j] = ins[j]
  <2>1. a \o ins \in Seq(V) /\ Len(a \o ins) = p + k
    BY <1>2 DEF k
  <2>2. \A q \in 1 .. p : (a \o ins)[q] = s[q]
    BY <1>2
  <2>3. \A j \in 1 .. k : (a \o ins)[p + j] = ins[j]
    BY <1>2 DEF k
  <2> QED BY <2>1, <2>2, <2>3
<1> DEFINE b == a \o ins
<1> HIDE DEF b
<1>7. t = b \o z /\ b \in Seq(V) /\ Len(b) = p + k
      /\ (\A q \in 1 .. p : b[q] = s[q]) /\ \A j \in 1 .. k : b[p + j] = ins[j]
  <2> DEFINE c == a \o ins
  <2>1. b = c
    BY DEF b
  <2>2. t = c \o z /\ c \in Seq(V) /\ Len(c) = p + k
    BY <1>5, <1>6
  <2>3. \A q \in 1 .. p : c[q] = s[q]
    BY <1>6
  <2>4. \A j \in 1 .. k : c[p + j] = ins[j]
    BY <1>6
  <2> HIDE DEF c
  <2> QED BY <2>1, <2>2, <2>3, <2>4
<1>8. t \in Seq(V) /\ Len(t) = n - d + k
  <2>0. \A x, y \in Seq(V) : x \o y \in Seq(V) /\ Len(x \o y) = Len(x) + Len(y)
    OBVIOUS
  <2>1. t \in Seq(V) /\ Len(t) = Len(b) + Len(z)
    BY <1>3, <1>7, <2>0
  <2> QED BY <1>1, <1>3, <1>7, <2>1
<1>9. \A q \in 1 .. p + k : t[q] = b[q]
  BY <1>1, <1>3, <1>7, SMTT(30)
<1>10. \A q \in 1 .. n - p - d : t[p + k + q] = z[q]
  <2>1. \A q \in 1 .. n - p - d : q \in 1 .. Len(z) /\ p + k + q = Len(b) + q
    BY <1>1, <1>3, <1>7
  <2>2. \A q \in 1 .. Len(z) : t[Len(b) + q] = z[q]
    BY <1>3, <1>7, SMTT(30)
  <2> QED BY <2>1, <2>2
<1>11. \A q \in 1 .. p : t[q] = s[q]
  BY <1>1, <1>7, <1>9
<1>12. ASSUME NEW j \in 1 .. k PROVE t[p + j] = ins[j]
  <2>1. p + j \in 1 .. p + k
    BY <1>1
  <2> QED BY <1>7, <1>9, <2>1
<1>13. ASSUME NEW q \in p + d + 1 .. n PROVE t[q - d + k] = s[q]
  <2>1. q - p - d \in 1 .. n - p - d /\ p + k + (q - p - d) = q - d + k /\ p + d + (q - p - d) = q
    BY <1>1
  <2> QED BY <1>4, <1>10, <2>1
<1> QED BY <1>8, <1>11, <1>12, <1>13 DEF IsSpliced, t, n, k

\* What can stand where a reader is in the node P: tokens of the one node M, P
\* itself or one that is opened and closed, at the end of which he is in P.
Fits(ins, P, M) ==
  /\ Len(ins) >= 1
  /\ M = P \o Own(ins[1])
  /\ \A j \in 2 .. Len(ins) : ins[j - 1].tok # "end" /\ ins[j].tok # "begin"
  /\ Beyond(ins[Len(ins)], M) = P

\* Every token that is kept stays in its node.
StillIn(new, path, n, p, d, k, M) ==
  /\ \A q \in 1 .. p : new[q] = path[q]
  /\ \A j \in 1 .. k : new[p + j] = M
  /\ \A q \in p + d + 1 .. n : new[q - d + k] = path[q]

\* No path but those of the new tokens changes when they fit where they are put.
LEMMA SplicedPaths ==
  ASSUME NEW s \in Seq(Tokens), NEW ins \in Seq(Tokens), NEW d \in 0 .. 1,
         NEW p \in 1 .. Len(s), p + d <= Len(s),
         NEW M \in Seq(STRING), Fits(ins, Standing(s, Paths(s), p), M),
         Standing(s, Paths(s), p + d) = Standing(s, Paths(s), p)
  PROVE  StillIn(Paths(Spliced(s, p, d, ins)), Paths(s), Len(s), p, d, Len(ins), M)
<1> DEFINE n == Len(s)
           k == Len(ins)
           t == Spliced(s, p, d, ins)
           path == Paths(s)
           P == Standing(s, path, p)
           m == n - d + k
           g == [q \in 1 .. m |-> IF q <= p THEN path[q] ELSE IF q <= p + k THEN M
                                  ELSE path[q - k + d]]
<1>1. n \in Nat /\ k \in Nat /\ k >= 1 /\ p \in 1 .. n /\ d \in 0 .. 1 /\ p + d <= n
      /\ m \in Nat
  BY DEF Fits
<1>2. /\ t \in Seq(Tokens) /\ Len(t) = m
      /\ \A q \in 1 .. p : t[q] = s[q]
      /\ \A j \in 1 .. k : t[p + j] = ins[j]
      /\ \A q \in p + d + 1 .. n : t[q - d + k] = s[q]
  <2>1. t \in Seq(Tokens) /\ IsSpliced(t, s, p, d, ins)
    BY SplicedIs, Zenon
  <2> QED BY <2>1 DEF IsSpliced
<1>3. \A q \in 1 .. n : path[q] = Standing(s, path, q - 1) \o Own(s[q])
  BY StandingIs
<1>4. P = Standing(s, path, p + d) /\ Fits(ins, P, M)
  OBVIOUS
<1>5. p >= 1 /\ P = Beyond(s[p], path[p])
  BY <1>1 DEF Standing
<1> HIDE DEF t, path, P, n, k
<1>6. /\ \A q \in 1 .. p : g[q] = path[q]
      /\ \A j \in 1 .. k : g[p + j] = M
      /\ \A q \in p + d + 1 .. n : g[q - d + k] = path[q]
  BY <1>1
<1>7. DOMAIN g = 1 .. m
  OBVIOUS
<1>8. m = n - d + k
  OBVIOUS
<1> HIDE DEF g, m
<1>9. ASSUME NEW q \in 1 .. m
      PROVE  g[q] = (IF q = 1 THEN <<>> ELSE Beyond(t[q - 1], g[q - 1])) \o Own(t[q])
  <2>1. CASE q \in 1 .. p
    <3>1. q \in 1 .. n /\ g[q] = path[q] /\ t[q] = s[q] /\ (q = 1 <=> q - 1 = 0)
      BY <1>1, <1>2, <1>6, <2>1
    <3>2. q # 1 => g[q - 1] = path[q - 1] /\ t[q - 1] = s[q - 1]
      BY <1>1, <1>2, <1>6, <2>1
    <3> QED BY <1>3, <3>1, <3>2 DEF Standing
  <2>2. CASE q = p + 1
    <3>1. g[q] = M /\ t[q] = ins[1] /\ q # 1 /\ q - 1 = p /\ p \in 1 .. p /\ 1 \in 1 .. k
      BY <1>1, <1>2, <1>6, <2>2
    <3>2. g[q - 1] = path[p] /\ t[q - 1] = s[p]
      BY <1>2, <1>6, <3>1
    <3> QED BY <1>4, <1>5, <3>1, <3>2 DEF Fits
  <2>3. CASE q \in p + 2 .. p + k
    <3> DEFINE j == q - p
    <3>1. j \in 2 .. k /\ j \in 1 .. k /\ j - 1 \in 1 .. k /\ p + j = q /\ p + (j - 1) = q - 1
          /\ q # 1
      BY <1>1, <2>3
    <3> HIDE DEF j
    <3>2. g[q] = M /\ t[q] = ins[j] /\ g[q - 1] = M /\ t[q - 1] = ins[j - 1]
      BY <1>2, <1>6, <3>1
    <3>3. ins[j - 1].tok # "end" /\ ins[j].tok # "begin"
      BY <1>4, <3>1 DEF Fits, k
    <3>4. M \o <<>> = M
      OBVIOUS
    <3> QED BY <3>1, <3>2, <3>3, <3>4 DEF Beyond, Own
  <2>4. CASE q = p + k + 1
    <3> DEFINE r == p + d + 1
    <3>1. r \in p + d + 1 .. n /\ r - d + k = q /\ r - 1 = p + d /\ k \in 1 .. k
          /\ q - 1 = p + k /\ q # 1 /\ r \in 1 .. n
      BY <1>1, <1>8, <2>4
    <3> HIDE DEF r
    <3>2. g[q] = path[r] /\ t[q] = s[r] /\ g[q - 1] = M /\ t[q - 1] = ins[k]
      BY <1>2, <1>6, <3>1
    <3>3. path[r] = P \o Own(s[r])
      BY <1>3, <1>4, <3>1
    <3>4. Beyond(ins[k], M) = P
      BY <1>4 DEF Fits, k
    <3> QED BY <3>1, <3>2, <3>3, <3>4
  <2>5. CASE q \in p + k + 2 .. m
    <3> DEFINE r == q - k + d
    <3>1. r \in p + d + 1 .. n /\ r - d + k = q /\ r - 1 \in p + d + 1 .. n
          /\ (r - 1) - d + k = q - 1 /\ q # 1 /\ r \in 1 .. n /\ r - 1 # 0
      BY <1>1, <1>8, <2>5
    <3> HIDE DEF r
    <3>2. g[q] = path[r] /\ t[q] = s[r] /\ g[q - 1] = path[r - 1] /\ t[q - 1] = s[r - 1]
      BY <1>2, <1>6, <3>1
    <3>3. path[r] = Beyond(s[r - 1], path[r - 1]) \o Own(s[r])
      BY <1>3, <3>1 DEF Standing
    <3> QED BY <3>1, <3>2, <3>3
  <2>6. q \in 1 .. p \/ q = p + 1 \/ q \in p + 2 .. p + k \/ q = p + k + 1
        \/ q \in p + k + 2 .. m
    BY <1>1, <1>8
  <2> QED BY <2>1, <2>2, <2>3, <2>4, <2>5, <2>6
<1>10. Follows(t, g)
  BY <1>2, <1>7, <1>9 DEF Follows
<1>11. \A q \in 1 .. m : g[q] = Paths(t)[q]
  BY <1>2, <1>10, OnlyPaths
<1>12. /\ \A q \in 1 .. p : q \in 1 .. m
       /\ \A j \in 1 .. k : p + j \in 1 .. m
       /\ \A q \in p + d + 1 .. n : q - d + k \in 1 .. m
  BY <1>1, <1>8
<1>13. \A q \in 1 .. p : Paths(t)[q] = path[q]
  BY <1>6, <1>11, <1>12
<1>14. \A j \in 1 .. k : Paths(t)[p + j] = M
  BY <1>6, <1>11, <1>12
<1>15. \A q \in p + d + 1 .. n : Paths(t)[q - d + k] = path[q]
  BY <1>6, <1>11, <1>12
<1> QED BY <1>13, <1>14, <1>15 DEF StillIn, t, path, n, k

(***************************************************************************)
(* Well-formed trees.                                                      *)
(***************************************************************************)

\* Every node a reader enters he leaves, by the name it has below the root.
Closed(s, path) ==
  /\ s # <<>> /\ s[1].tok = "begin" /\ s[Len(s)].tok = "end"
  /\ \A p \in 1 .. Len(s) :
       s[p].tok = "begin" =>
         /\ \E q \in p .. Len(s) : s[q].tok = "end" /\ Len(path[q]) = Len(path[p])
         /\ p > 1 => path[p] # <<s[p].name>>
  /\ \A q \in 1 .. Len(s) : s[q].tok = "end" => path[q] # <<>>

\* No node is entered twice, and its properties come before what is below it.
Ordered(s, path) ==
  /\ \A p, q \in 1 .. Len(s) :
       s[p].tok = "prop" /\ s[q].tok = "end" /\ q < p /\ Starts(path[p], path[q])
         => path[p] = path[q]
  /\ \A p, q \in 1 .. Len(s) :
       s[p].tok = "begin" /\ s[q].tok = "begin" /\ path[p] = path[q] => p = q

\* Every property has a name, its own in its node.
Distinct(s, path, strings) ==
  /\ \A p \in 1 .. Len(s) : s[p].tok = "prop" => s[p].at \in DOMAIN strings
  /\ \A p, q \in 1 .. Len(s) :
       s[p].tok = "prop" /\ s[q].tok = "prop" /\ path[p] = path[q]
         /\ strings[s[p].at] = strings[s[q].at] => p = q

Formed(s, path, strings) == Closed(s, path) /\ Ordered(s, path) /\ Distinct(s, path, strings)

\* The format's demands, said of the tokens and their paths.
LEMMA FormedIs ==
  ASSUME NEW b \in Blobs
  PROVE  WellFormed(b) <=> Formed(b.struct, Paths(b.struct), b.strings)
<1> DEFINE s == b.struct
           strings == b.strings
           path == Paths(s)
           n == Len(s)
<1>1. s \in Seq(Tokens) /\ DOMAIN s = 1 .. n
  BY DEF Blobs
<1>2. \A p \in 1 .. n : path[p] \in Seq(STRING)
  <2>1. path \in Seq(Seq(STRING)) /\ DOMAIN path = 1 .. n
    BY <1>1, PathsAre DEF Follows
  <2> DEFINE V == Seq(STRING)
  <2> HIDE DEF V, path
  <2>2. \A x \in Seq(V) : \A p \in DOMAIN x : x[p] \in V
    OBVIOUS
  <2> QED BY <2>1, <2>2 DEF V
<1>3. /\ NodesAt(b) = {p \in 1 .. n : s[p].tok = "begin"}
      /\ PropsAt(b) = {p \in 1 .. n : s[p].tok = "prop"}
      /\ \A p : NameAt(b, p) = strings[s[p].at]
  BY <1>1 DEF NodesAt, PropsAt, NameAt
<1> DEFINE shut(p) == {q \in p .. n : s[q].tok = "end" /\ Len(path[q]) = Len(path[p])}
<1>4. WellFormed(b) <=>
        /\ s # <<>> /\ s[1].tok = "begin" /\ s[n].tok = "end"
        /\ \A p \in NodesAt(b) : shut(p) # {} /\ (p > 1 => path[p] # <<s[p].name>>)
        /\ \A q \in DOMAIN s : s[q].tok = "end" => path[q] # <<>>
        /\ \A p \in PropsAt(b) : s[p].at \in DOMAIN strings
        /\ \A p \in PropsAt(b), q \in DOMAIN s :
             q < p /\ s[q].tok = "end" => ~IsStrictPrefix(path[p], path[q])
        /\ \A p, q \in PropsAt(b) :
             p # q /\ path[p] = path[q] => NameAt(b, p) # NameAt(b, q)
        /\ \A p, q \in NodesAt(b) : p # q => path[p] # path[q]
  BY DEF WellFormed
<1>5. \A p, q \in 1 .. n : IsStrictPrefix(path[p], path[q])
                             <=> Starts(path[p], path[q]) /\ path[p] # path[q]
  <2> SUFFICES ASSUME NEW p \in 1 .. n, NEW q \in 1 .. n
               PROVE  IsStrictPrefix(path[p], path[q])
                        <=> Starts(path[p], path[q]) /\ path[p] # path[q]
    OBVIOUS
  <2>1. path[p] \in Seq(STRING) /\ path[q] \in Seq(STRING)
    BY <1>2
  <2> HIDE DEF path
  <2>2. IsPrefix(path[p], path[q]) <=> Starts(path[p], path[q])
    BY <2>1, PrefixIs
  <2> QED BY <2>2 DEF IsStrictPrefix
<1> HIDE DEF s, path, strings, n
<1>6. \A p \in 1 .. n :
        shut(p) # {} <=> \E q \in p .. n : s[q].tok = "end" /\ Len(path[q]) = Len(path[p])
  OBVIOUS
<1> HIDE DEF shut
<1>7. Closed(s, path) <=>
        /\ s # <<>> /\ s[1].tok = "begin" /\ s[n].tok = "end"
        /\ \A p \in NodesAt(b) : shut(p) # {} /\ (p > 1 => path[p] # <<s[p].name>>)
        /\ \A q \in DOMAIN s : s[q].tok = "end" => path[q] # <<>>
  BY <1>1, <1>3, <1>6 DEF Closed, n
<1>8. Ordered(s, path) <=>
        /\ \A p \in PropsAt(b), q \in DOMAIN s :
             q < p /\ s[q].tok = "end" => ~IsStrictPrefix(path[p], path[q])
        /\ \A p, q \in NodesAt(b) : p # q => path[p] # path[q]
  BY <1>1, <1>3, <1>5 DEF Ordered, n
<1>9. Distinct(s, path, strings) <=>
        /\ \A p \in PropsAt(b) : s[p].at \in DOMAIN strings
        /\ \A p, q \in PropsAt(b) :
             p # q /\ path[p] = path[q] => NameAt(b, p) # NameAt(b, q)
  BY <1>1, <1>3 DEF Distinct, n
<1>10. WellFormed(b) <=> Closed(s, path) /\ Ordered(s, path) /\ Distinct(s, path, strings)
  BY <1>4, <1>7, <1>8, <1>9
<1> QED BY <1>10 DEF Formed, s, path, strings

\* The places of the result: those that were kept, and those of what was put in.
PlacesOf(n, k, d, p) ==
  LET at(q) == Moved(p, d, k, q)
      kept == 1 .. p \cup p + d + 1 .. n
      m == n - d + k
  IN /\ \A q \in kept : at(q) \in 1 .. m
     /\ \A j \in 1 .. k : p + j \in 1 .. m
     /\ \A x \in 1 .. m : (\E q \in kept : x = at(q)) \/ \E j \in 1 .. k : x = p + j
     /\ \A q, r \in kept : (q < r <=> at(q) < at(r)) /\ (q <= r => at(q) <= at(r))
     /\ \A q \in kept, j \in 1 .. k : at(q) # p + j /\ (at(q) < p + j <=> q <= p)
     /\ 1 \in kept /\ n \in kept /\ at(1) = 1 /\ at(n) = m

\* Each place of the result is of one kind, and the order is kept.
LEMMA Places ==
  ASSUME NEW n \in Nat, NEW k \in Nat, NEW d \in 0 .. 1, NEW p \in 1 .. n, p + d < n, k >= 1
  PROVE  PlacesOf(n, k, d, p)
<1> DEFINE at(q) == Moved(p, d, k, q)
           kept == 1 .. p \cup p + d + 1 .. n
           m == n - d + k
<1>1. /\ \A q \in 1 .. p : at(q) = q
      /\ \A q \in p + d + 1 .. n : at(q) = q - d + k
  BY DEF Moved
<1> HIDE DEF at, m
<1>2. m = n - d + k
  BY DEF m
<1>3. \A q \in kept : at(q) \in 1 .. m
  BY <1>1, <1>2
<1>4. \A j \in 1 .. k : p + j \in 1 .. m
  BY <1>2
<1>5. ASSUME NEW x \in 1 .. m
      PROVE  (\E q \in kept : x = at(q)) \/ \E j \in 1 .. k : x = p + j
  <2>1. CASE x \in 1 .. p
    BY <1>1, <2>1
  <2>2. CASE x \in p + 1 .. p + k
    <3>1. x - p \in 1 .. k /\ x = p + (x - p)
      BY <2>2
    <3> QED BY <3>1
  <2>3. CASE x \in p + k + 1 .. m
    <3>1. x - k + d \in p + d + 1 .. n /\ x = (x - k + d) - d + k
      BY <1>2, <2>3
    <3> QED BY <1>1, <3>1
  <2> QED BY <1>2, <2>1, <2>2, <2>3
<1>6. \A q, r \in kept : (q < r <=> at(q) < at(r)) /\ (q <= r => at(q) <= at(r))
  BY <1>1
<1>7. \A q \in kept, j \in 1 .. k : at(q) # p + j /\ (at(q) < p + j <=> q <= p)
  BY <1>1
<1>8. 1 \in kept /\ n \in kept /\ at(1) = 1 /\ at(n) = m
  BY <1>1, <1>2
<1> QED BY <1>3, <1>4, <1>5, <1>6, <1>7, <1>8 DEF PlacesOf, at, m

\* What may be put behind p of a well-formed tree, in the node M.
Welcome(s, path, p, d, ins, M, strings) ==
  LET k == Len(ins)
      n == Len(s)
  IN /\ \A j \in 1 .. k : ins[j].tok = "prop" => ins[j].at \in DOMAIN strings
     /\ \A i, j \in 1 .. k :
          ins[i].tok = "prop" /\ ins[j].tok = "prop"
            /\ strings[ins[i].at] = strings[ins[j].at] => i = j
     /\ \A j \in 1 .. k, q \in 1 .. n :
          ins[j].tok = "prop" /\ s[q].tok = "prop" /\ path[q] = M
            => strings[ins[j].at] # strings[s[q].at]
     /\ \A j \in 1 .. k, q \in 1 .. p :
          ins[j].tok = "prop" /\ s[q].tok = "end" /\ Starts(M, path[q]) => path[q] = M
     /\ \A j \in 1 .. k :
          ins[j].tok = "begin" =>
            /\ j = 1 /\ ins[k].tok = "end" /\ M # <<ins[1].name>>
            /\ \A q \in 1 .. n : s[q].tok = "begin" => path[q] # M
     /\ \A j \in 1 .. k :
          ins[j].tok = "end" =>
            /\ j = k /\ M # <<>>
            /\ \A q \in p + d + 1 .. n :
                 s[q].tok = "prop" /\ Starts(path[q], M) => path[q] = M

\* A tree stays well-formed when that is put there and no token but a property
\* is taken out.
LEMMA StaysFormed ==
  ASSUME NEW s \in Seq(Tokens), NEW strings \in Seq(STRING), Formed(s, Paths(s), strings),
         NEW ins \in Seq(Tokens), NEW more \in Seq(STRING),
         NEW d \in 0 .. 1, NEW p \in 1 .. Len(s), p + d < Len(s),
         d = 1 => s[p + 1].tok = "prop",
         NEW M \in Seq(STRING), Fits(ins, Standing(s, Paths(s), p), M),
         Standing(s, Paths(s), p + d) = Standing(s, Paths(s), p),
         Len(strings) <= Len(more), \A i \in 1 .. Len(strings) : more[i] = strings[i],
         Welcome(s, Paths(s), p, d, ins, M, more)
  PROVE  Formed(Spliced(s, p, d, ins), Paths(Spliced(s, p, d, ins)), more)
<1> DEFINE n == Len(s)
           k == Len(ins)
           m == n - d + k
           t == Spliced(s, p, d, ins)
           old == Paths(s)
           new == Paths(t)
           at(q) == Moved(p, d, k, q)
           kept == 1 .. p \cup p + d + 1 .. n
<1>1. n \in Nat /\ k \in Nat /\ k >= 1 /\ p \in 1 .. n /\ d \in 0 .. 1 /\ p + d < n
  BY DEF Fits
<1>2. IsSpliced(t, s, p, d, ins) /\ t \in Seq(Tokens)
  <2>1. p + d <= Len(s)
    BY <1>1
  <2> QED BY <2>1, SplicedIs, Zenon
<1>3. StillIn(new, old, n, p, d, k, M)
  <2>1. p + d <= Len(s)
    BY <1>1
  <2> QED BY <2>1, SplicedPaths, Zenon
<1>4. /\ \A q \in kept : at(q) \in 1 .. m
      /\ \A j \in 1 .. k : p + j \in 1 .. m
      /\ \A x \in 1 .. m : (\E q \in kept : x = at(q)) \/ \E j \in 1 .. k : x = p + j
      /\ \A q, r \in kept : (q < r <=> at(q) < at(r)) /\ (q <= r => at(q) <= at(r))
      /\ \A q \in kept, j \in 1 .. k : at(q) # p + j /\ (at(q) < p + j <=> q <= p)
      /\ 1 \in kept /\ n \in kept /\ at(1) = 1 /\ at(n) = m
  <2> HIDE DEF n, k
  <2>1. PlacesOf(n, k, d, p)
    BY <1>1, Places, Zenon
  <2> QED BY <2>1, Zenon DEF PlacesOf
<1>5. \A q \in kept : q \in 1 .. n
  BY <1>1
<1>6. \A q \in 1 .. n : q \in kept \/ s[q].tok = "prop"
  <2> SUFFICES ASSUME NEW q \in 1 .. n, q \notin kept PROVE s[q].tok = "prop"
    OBVIOUS
  <2>1. q = p + 1 /\ d = 1
    BY <1>1
  <2> QED BY <2>1
<1>7. m \in Nat /\ m = n - d + k
  BY <1>1
<1> HIDE DEF t, old, new, m
<1>8. \A q \in kept : t[at(q)] = s[q] /\ new[at(q)] = old[q]
  <2>1. ASSUME NEW q \in 1 .. p PROVE t[at(q)] = s[q] /\ new[at(q)] = old[q]
    <3>1. at(q) = q
      BY <1>1 DEF Moved
    <3> HIDE DEF at
    <3> QED BY <1>2, <1>3, <3>1 DEF IsSpliced, StillIn
  <2>2. ASSUME NEW q \in p + d + 1 .. n PROVE t[at(q)] = s[q] /\ new[at(q)] = old[q]
    <3>1. at(q) = q - d + k
      BY <1>1 DEF Moved
    <3> HIDE DEF at
    <3> QED BY <1>2, <1>3, <3>1 DEF IsSpliced, StillIn
  <2> QED BY <2>1, <2>2
<1>9. \A j \in 1 .. k : t[p + j] = ins[j] /\ new[p + j] = M
  BY <1>2, <1>3 DEF IsSpliced, StillIn
<1>10. Len(t) = m
  BY <1>2 DEF IsSpliced, m
<1>11. /\ \A j \in 1 .. k : ins[j].tok = "prop" => ins[j].at \in DOMAIN more
       /\ \A i, j \in 1 .. k :
            ins[i].tok = "prop" /\ ins[j].tok = "prop"
              /\ more[ins[i].at] = more[ins[j].at] => i = j
       /\ \A j \in 1 .. k, q \in 1 .. n :
            ins[j].tok = "prop" /\ s[q].tok = "prop" /\ old[q] = M
              => more[ins[j].at] # more[s[q].at]
       /\ \A j \in 1 .. k, q \in 1 .. p :
            ins[j].tok = "prop" /\ s[q].tok = "end" /\ Starts(M, old[q]) => old[q] = M
       /\ \A j \in 1 .. k :
            ins[j].tok = "begin" =>
              /\ j = 1 /\ ins[k].tok = "end" /\ M # <<ins[1].name>>
              /\ \A q \in 1 .. n : s[q].tok = "begin" => old[q] # M
       /\ \A j \in 1 .. k :
            ins[j].tok = "end" =>
              /\ j = k /\ M # <<>>
              /\ \A q \in p + d + 1 .. n :
                   s[q].tok = "prop" /\ Starts(old[q], M) => old[q] = M
  BY DEF Welcome, old
<1>12. Closed(s, old) /\ Ordered(s, old) /\ Distinct(s, old, strings)
  BY DEF Formed, old
<1> DEFINE N == 1 .. n
           K == 1 .. k
           T == 1 .. m
<1>13. /\ \A q \in kept : at(q) \in T /\ q \in N
       /\ \A j \in K : p + j \in T
       /\ \A x \in T : (\E q \in kept : x = at(q)) \/ \E j \in K : x = p + j
  BY <1>4, <1>5
<1>14. /\ \A q, r \in kept : (q < r <=> at(q) < at(r)) /\ (q <= r => at(q) <= at(r))
       /\ \A q \in kept, j \in K : at(q) # p + j /\ (at(q) < p + j <=> q <= p)
       /\ 1 \in kept /\ n \in kept /\ at(1) = 1 /\ at(n) = m
  BY <1>4
<1>15. \A q \in kept : q \in 1 .. p \/ q \in p + d + 1 .. n
  OBVIOUS
<1>16. \A q \in kept : (q <= p <=> q \in 1 .. p) /\ (~(q <= p) <=> q \in p + d + 1 .. n)
  BY <1>1
<1> HIDE DEF n, k, at, kept
<1>17. Closed(t, new)
  <2>1. t # <<>> /\ t[1].tok = "begin" /\ t[m].tok = "end"
    <3>1. s[1].tok = "begin" /\ s[n].tok = "end"
      BY <1>12 DEF Closed, n
    <3>2. t[1] = s[1] /\ t[m] = s[n]
      BY <1>8, <1>14
    <3>3. t # <<>>
      <4>1. m >= 1
        BY <1>1, <1>7
      <4> QED BY <1>7, <1>10, <4>1
    <3> QED BY <3>1, <3>2, <3>3
  <2>2. ASSUME NEW x \in T, t[x].tok = "begin"
        PROVE  /\ \E y \in x .. m : t[y].tok = "end" /\ Len(new[y]) = Len(new[x])
               /\ x > 1 => new[x] # <<t[x].name>>
    <3>1. ASSUME NEW q \in kept, x = at(q)
          PROVE  /\ \E y \in x .. m : t[y].tok = "end" /\ Len(new[y]) = Len(new[x])
                 /\ x > 1 => new[x] # <<t[x].name>>
      <4>1. q \in N /\ t[x] = s[q] /\ new[x] = old[q]
        BY <1>8, <1>13, <3>1
      <4>2. PICK r \in q .. n : s[r].tok = "end" /\ Len(old[r]) = Len(old[q])
        BY <1>12, <2>2, <4>1 DEF Closed, n
      <4>3. r \in N /\ r \in kept
        <5>1. r \in N
          BY <1>1, <4>1
        <5> QED BY <1>6, <4>2, <5>1
      <4>4. q <= r /\ at(q) <= at(r) /\ at(r) \in T /\ at(q) \in T
        BY <1>1, <1>13, <1>14, <4>1, <4>3
      <4>5. at(r) \in x .. m
        BY <1>7, <3>1, <4>4
      <4>8. t[at(r)].tok = "end" /\ Len(new[at(r)]) = Len(new[x])
        BY <1>8, <4>1, <4>2, <4>3
      <4>6. x > 1 => q > 1
        BY <1>1, <1>14, <3>1, <4>1
      <4>7. q > 1 => old[q] # <<s[q].name>>
        BY <1>12, <2>2, <4>1 DEF Closed, n
      <4> QED BY <4>1, <4>5, <4>6, <4>7, <4>8
    <3>2. ASSUME NEW j \in K, x = p + j
          PROVE  /\ \E y \in x .. m : t[y].tok = "end" /\ Len(new[y]) = Len(new[x])
                 /\ x > 1 => new[x] # <<t[x].name>>
      <4>1. t[x] = ins[j] /\ new[x] = M
        BY <1>9, <3>2
      <4>2. j = 1 /\ ins[k].tok = "end" /\ M # <<ins[1].name>>
        BY <1>11, <2>2, <4>1
      <4>3. k \in K /\ p + k \in x .. m
        BY <1>1, <1>7, <3>2, <4>2
      <4>4. t[p + k] = ins[k] /\ new[p + k] = M
        BY <1>9, <4>3
      <4> QED BY <4>1, <4>2, <4>3, <4>4
    <3> QED BY <1>13, <3>1, <3>2
  <2>3. ASSUME NEW x \in T, t[x].tok = "end" PROVE new[x] # <<>>
    <3>1. ASSUME NEW q \in kept, x = at(q) PROVE new[x] # <<>>
      <4>1. q \in N /\ t[x] = s[q] /\ new[x] = old[q]
        BY <1>8, <1>13, <3>1
      <4> QED BY <1>12, <2>3, <4>1 DEF Closed, n
    <3>2. ASSUME NEW j \in K, x = p + j PROVE new[x] # <<>>
      BY <1>9, <1>11, <2>3, <3>2
    <3> QED BY <1>13, <3>1, <3>2
  <2> QED BY <1>10, <2>1, <2>2, <2>3 DEF Closed
<1>18. Ordered(t, new)
  <2>1. ASSUME NEW x \in T, NEW y \in T, t[x].tok = "prop", t[y].tok = "end", y < x,
               Starts(new[x], new[y])
        PROVE  new[x] = new[y]
    <3>1. CASE \E q \in kept : x = at(q)
      <4>1. PICK q \in kept : x = at(q)
        BY <3>1
      <4>2. q \in N /\ t[x] = s[q] /\ new[x] = old[q]
        BY <1>8, <1>13, <4>1
      <4>3. ASSUME NEW r \in kept, y = at(r) PROVE new[x] = new[y]
        <5>1. r \in N /\ t[y] = s[r] /\ new[y] = old[r] /\ r < q
          BY <1>8, <1>13, <1>14, <2>1, <4>1, <4>3
        <5> QED BY <1>12, <2>1, <4>2, <5>1 DEF Ordered, n
      <4>4. ASSUME NEW j \in K, y = p + j PROVE new[x] = new[y]
        <5>1. t[y] = ins[j] /\ new[y] = M
          BY <1>9, <4>4
        <5>2. ~(q <= p)
          <6>1. ~(at(q) < p + j)
            <7>1. at(q) \in T /\ p + j \in T
              BY <1>13
            <7> QED BY <1>7, <2>1, <4>1, <4>4, <7>1
          <6> QED BY <1>14, <6>1
        <5>3. q \in p + d + 1 .. n
          BY <1>16, <5>2
        <5> QED BY <1>11, <2>1, <4>2, <5>1, <5>3
      <4> QED BY <1>13, <4>3, <4>4
    <3>2. CASE \E j \in K : x = p + j
      <4>1. PICK j \in K : x = p + j
        BY <3>2
      <4>2. t[x] = ins[j] /\ new[x] = M
        BY <1>9, <4>1
      <4>3. ASSUME NEW r \in kept, y = at(r) PROVE new[x] = new[y]
        <5>1. r \in N /\ t[y] = s[r] /\ new[y] = old[r] /\ r <= p
          BY <1>8, <1>13, <1>14, <2>1, <4>1, <4>3
        <5>2. r \in 1 .. p
          BY <1>16, <5>1
        <5> QED BY <1>11, <2>1, <4>2, <5>1, <5>2
      <4>4. ASSUME NEW i \in K, y = p + i PROVE new[x] = new[y]
        BY <1>9, <4>2, <4>4
      <4> QED BY <1>13, <4>3, <4>4
    <3> QED BY <1>13, <3>1, <3>2
  <2>2. ASSUME NEW x \in T, NEW y \in T, t[x].tok = "begin", t[y].tok = "begin",
               new[x] = new[y]
        PROVE  x = y
    <3>1. ASSUME NEW q \in kept, NEW r \in kept, x = at(q), y = at(r) PROVE x = y
      <4>1. q \in N /\ r \in N /\ t[x] = s[q] /\ t[y] = s[r] /\ new[x] = old[q]
            /\ new[y] = old[r]
        BY <1>8, <1>13, <3>1
      <4>2. q = r
        <5>1. s[q].tok = "begin" /\ s[r].tok = "begin" /\ old[q] = old[r]
          BY <2>2, <4>1
        <5> QED BY <1>12, <4>1, <5>1 DEF Ordered, n
      <4> QED BY <3>1, <4>2
    <3>2. ASSUME NEW q \in kept, NEW j \in K, new[at(q)] = new[p + j],
                 t[at(q)].tok = "begin", t[p + j].tok = "begin"
          PROVE  FALSE
      <4>1. s[q].tok = "begin" /\ ins[j].tok = "begin" /\ old[q] = M /\ q \in N
        BY <1>8, <1>9, <1>13, <3>2
      <4> QED BY <1>11, <4>1
    <3>3. ASSUME NEW i \in K, NEW j \in K, x = p + i, y = p + j PROVE x = y
      <4>1. ins[i].tok = "begin" /\ ins[j].tok = "begin"
        BY <1>9, <2>2, <3>3
      <4>2. i = 1 /\ j = 1
        BY <1>11, <4>1
      <4> QED BY <3>3, <4>2
    <3>4. CASE \E q \in kept : x = at(q)
      <4>1. PICK q \in kept : x = at(q)
        BY <3>4
      <4> QED BY <1>13, <2>2, <3>1, <3>2, <4>1
    <3>5. CASE \E i \in K : x = p + i
      <4>1. PICK i \in K : x = p + i
        BY <3>5
      <4> QED BY <1>13, <2>2, <3>2, <3>3, <4>1
    <3> QED BY <1>13, <3>4, <3>5
  <2> QED BY <1>10, <2>1, <2>2 DEF Ordered
<1>19. Distinct(t, new, more)
  <2>1. \A i \in DOMAIN strings : i \in DOMAIN more /\ more[i] = strings[i]
    <3>1. DOMAIN strings = 1 .. Len(strings) /\ DOMAIN more = 1 .. Len(more)
          /\ Len(strings) \in Nat /\ Len(more) \in Nat
      OBVIOUS
    <3> QED BY <3>1
  <2>2. ASSUME NEW x \in T, t[x].tok = "prop" PROVE t[x].at \in DOMAIN more
    <3>1. ASSUME NEW q \in kept, x = at(q) PROVE t[x].at \in DOMAIN more
      <4>1. q \in N /\ t[x] = s[q]
        BY <1>8, <1>13, <3>1
      <4>2. s[q].at \in DOMAIN strings
        BY <1>12, <2>2, <4>1 DEF Distinct, n
      <4> QED BY <2>1, <4>1, <4>2
    <3>2. ASSUME NEW j \in K, x = p + j PROVE t[x].at \in DOMAIN more
      BY <1>9, <1>11, <2>2, <3>2
    <3> QED BY <1>13, <3>1, <3>2
  <2>3. ASSUME NEW x \in T, NEW y \in T, t[x].tok = "prop", t[y].tok = "prop",
               new[x] = new[y], more[t[x].at] = more[t[y].at]
        PROVE  x = y
    <3>1. ASSUME NEW q \in kept, NEW r \in kept, x = at(q), y = at(r) PROVE x = y
      <4>1. q \in N /\ r \in N /\ t[x] = s[q] /\ t[y] = s[r] /\ new[x] = old[q]
            /\ new[y] = old[r]
        BY <1>8, <1>13, <3>1
      <4>2. s[q].at \in DOMAIN strings /\ s[r].at \in DOMAIN strings
        BY <1>12, <2>3, <4>1 DEF Distinct, n
      <4>3. strings[s[q].at] = strings[s[r].at]
        BY <2>1, <2>3, <4>1, <4>2
      <4>4. q = r
        <5>1. s[q].tok = "prop" /\ s[r].tok = "prop" /\ old[q] = old[r]
          BY <2>3, <4>1
        <5> QED BY <1>12, <4>1, <4>3, <5>1 DEF Distinct, n
      <4> QED BY <3>1, <4>4
    <3>2. ASSUME NEW q \in kept, NEW j \in K, new[at(q)] = new[p + j],
                 t[at(q)].tok = "prop", t[p + j].tok = "prop",
                 more[t[at(q)].at] = more[t[p + j].at]
          PROVE  FALSE
      <4>1. s[q].tok = "prop" /\ ins[j].tok = "prop" /\ old[q] = M /\ q \in N
            /\ more[s[q].at] = more[ins[j].at]
        BY <1>8, <1>9, <1>13, <3>2
      <4> QED BY <1>11, <4>1
    <3>3. ASSUME NEW i \in K, NEW j \in K, x = p + i, y = p + j PROVE x = y
      <4>1. ins[i].tok = "prop" /\ ins[j].tok = "prop" /\ more[ins[i].at] = more[ins[j].at]
        BY <1>9, <2>3, <3>3
      <4>2. i = j
        BY <1>11, <4>1
      <4> QED BY <3>3, <4>2
    <3>4. CASE \E q \in kept : x = at(q)
      <4>1. PICK q \in kept : x = at(q)
        BY <3>4
      <4> QED BY <1>13, <2>3, <3>1, <3>2, <4>1
    <3>5. CASE \E i \in K : x = p + i
      <4>1. PICK i \in K : x = p + i
        BY <3>5
      <4> QED BY <1>13, <2>3, <3>2, <3>3, <4>1
    <3> QED BY <1>13, <3>4, <3>5
  <2> QED BY <1>10, <2>2, <2>3 DEF Distinct
<1> QED BY <1>17, <1>18, <1>19 DEF Formed, t, new

(***************************************************************************)
(* Looking things up, and names in the strings block.                      *)
(***************************************************************************)

\* The greatest of some places.
LEMMA Greatest ==
  ASSUME NEW n \in Nat, NEW S \in SUBSET (1 .. n), S # {}
  PROVE  Max(S) \in S /\ \A i \in S : i <= Max(S)
<1> DEFINE above == {u \in Nat : \A i \in S : i <= u}
<1>1. above \in SUBSET Nat /\ n \in above
  OBVIOUS
<1>2. Min(above) \in above /\ \A u \in above : Min(above) <= u
  <2> HIDE DEF above
  <2> QED BY <1>1, Least
<1>3. PICK m \in Nat : m = Min(above) /\ (\A i \in S : i <= m) /\ \A u \in above : m <= u
  BY <1>2
<1>4. m \in S
  <2> SUFFICES ASSUME m \notin S PROVE FALSE
    OBVIOUS
  <2>1. PICK i \in S : TRUE
    OBVIOUS
  <2>2. m >= 1 /\ m - 1 \in Nat
    BY <1>3, <2>1
  <2>3. \A j \in S : j <= m - 1
    BY <1>3, <2>2
  <2>4. m - 1 \in above
    BY <2>2, <2>3
  <2> QED BY <1>3, <2>2, <2>4
<1>5. \A x \in S : (\A y \in S : x >= y) => x = m
  BY <1>3, <1>4
<1>6. Max(S) = m
  BY <1>3, <1>4, <1>5 DEF Max
<1> QED BY <1>3, <1>4, <1>6

\* The parts of a blob.
LEMMA BlobIs ==
  ASSUME NEW b \in Blobs
  PROVE  /\ b.struct \in Seq(Tokens) /\ DOMAIN b.struct = 1 .. Len(b.struct)
         /\ Len(b.struct) \in Nat
         /\ b.strings \in Seq(STRING)
         /\ b = [struct |-> b.struct, strings |-> b.strings]
         /\ \A p \in 1 .. Len(b.struct) :
              b.struct[p] \in Tokens /\ Paths(b.struct)[p] \in Seq(STRING)
         /\ NodesAt(b) = {p \in 1 .. Len(b.struct) : b.struct[p].tok = "begin"}
         /\ PropsAt(b) = {p \in 1 .. Len(b.struct) : b.struct[p].tok = "prop"}
<1>1. /\ b.struct \in Seq(Tokens) /\ DOMAIN b.struct = 1 .. Len(b.struct)
      /\ Len(b.struct) \in Nat /\ b.strings \in Seq(STRING)
      /\ b = [struct |-> b.struct, strings |-> b.strings]
  BY DEF Blobs
<1>2. \A p \in 1 .. Len(b.struct) : b.struct[p] \in Tokens
  BY <1>1
<1>3. \A p \in 1 .. Len(b.struct) : Paths(b.struct)[p] \in Seq(STRING)
  <2> DEFINE V == Seq(STRING)
             path == Paths(b.struct)
  <2>1. path \in Seq(V) /\ DOMAIN path = 1 .. Len(b.struct)
    BY <1>1, PathsAre DEF Follows
  <2> HIDE DEF V, path
  <2>2. \A x \in Seq(V) : \A p \in DOMAIN x : x[p] \in V
    OBVIOUS
  <2> QED BY <2>1, <2>2 DEF V, path
<1>4. /\ NodesAt(b) = {p \in 1 .. Len(b.struct) : b.struct[p].tok = "begin"}
      /\ PropsAt(b) = {p \in 1 .. Len(b.struct) : b.struct[p].tok = "prop"}
  BY <1>1 DEF NodesAt, PropsAt
<1> QED BY <1>1, <1>2, <1>3, <1>4

\* The first node so named is one, and there is none when it is not found.
LEMMA FirstIs ==
  ASSUME NEW b \in Blobs, NEW node
  PROVE  /\ FirstNode(b, node) # 0 => FirstNode(b, node) \in NodesAt(b)
         /\ FirstNode(b, node) = 0 =>
              \A p \in NodesAt(b) : ~Is(Paths(b.struct)[p], node)
<1> DEFINE named == {p \in NodesAt(b) : Is(Paths(b.struct)[p], node)}
<1>1. FirstNode(b, node) = IF named = {} THEN 0 ELSE Min(named)
  BY DEF FirstNode, FirstOn
<1>2. NodesAt(b) \subseteq Nat \ {0}
  BY BlobIs
<1>3. named # {} => Min(named) \in named
  <2> SUFFICES ASSUME named # {} PROVE Min(named) \in named
    OBVIOUS
  <2>1. named \in SUBSET Nat
    BY <1>2
  <2> HIDE DEF named
  <2> QED BY <2>1, Least
<1>4. \A p \in named : p \in NodesAt(b) /\ p # 0
  BY <1>2
<1>5. named = {} => \A p \in NodesAt(b) : ~Is(Paths(b.struct)[p], node)
  OBVIOUS
<1> HIDE DEF named
<1> QED BY <1>1, <1>3, <1>4, <1>5

\* A property that is found is one.
LEMMA FindIs ==
  ASSUME NEW b \in Blobs, NEW node, NEW prop, FindProp(b, node, prop) # 0
  PROVE  /\ FindProp(b, node, prop) \in 1 .. Len(b.struct)
         /\ b.struct[FindProp(b, node, prop)].tok = "prop"
         /\ b.struct[FindProp(b, node, prop)].val \in Seq(Int)
<1> DEFINE named == {p \in PropsAt(b) : NameAt(b, p) = prop /\ Is(Paths(b.struct)[p], node)}
<1>1. FindProp(b, node, prop) = IF named = {} THEN 0 ELSE Min(named)
  BY DEF FindProp
<1>2. named \in SUBSET Nat
  BY BlobIs
<1>3. \A p \in named : p \in PropsAt(b)
  OBVIOUS
<1> HIDE DEF named
<1>4. named # {} => Min(named) \in named
  BY <1>2, Least
<1>5. FindProp(b, node, prop) \in PropsAt(b)
  BY <1>1, <1>3, <1>4
<1>6. FindProp(b, node, prop) \in 1 .. Len(b.struct)
      /\ b.struct[FindProp(b, node, prop)].tok = "prop"
  BY <1>5, BlobIs
<1>7. b.struct[FindProp(b, node, prop)] \in Tokens
  BY <1>6, BlobIs
<1> QED BY <1>6, <1>7, TokensAre

\* A node of a well-formed tree is opened once, ahead of all that is in it.
LEMMA OpenedOnce ==
  ASSUME NEW b \in Blobs, Formed(b.struct, Paths(b.struct), b.strings),
         NEW p \in NodesAt(b), NEW q \in 1 .. Len(b.struct),
         Starts(Paths(b.struct)[p], Paths(b.struct)[q])
  PROVE  p <= q
<1> DEFINE s == b.struct
           path == Paths(s)
           x == path[p]
<1>1. s \in Seq(Tokens) /\ p \in 1 .. Len(s) /\ s[p].tok = "begin" /\ x \in Seq(STRING)
      /\ Len(s) \in Nat
  BY BlobIs
<1>2. x # <<>>
  <2>1. x = Standing(s, path, p - 1) \o <<s[p].name>> /\ s[p].name \in STRING
    BY <1>1, StandingIs
  <2>2. Standing(s, path, p - 1) \in Seq(STRING)
    <3>1. p - 1 \in 0 .. Len(s)
      BY <1>1
    <3> QED BY <1>1, <3>1, StandingIs
  <2>3. Len(x) = Len(Standing(s, path, p - 1)) + 1
    BY <2>1, <2>2
  <2> QED BY <2>2, <2>3
<1>3. ~Starts(x, Standing(s, path, 0)) /\ 0 \in 0 .. Len(s)
  <2>1. ~Starts(x, <<>>)
    BY <1>1, <1>2, StartsAre
  <2> QED BY <1>1, <2>1 DEF Standing
<1> HIDE DEF s
<1>4. PICK r \in 1 .. q : s[r].tok = "begin" /\ path[r] = x
  <2>1. q \in 0 + 1 .. Len(s) /\ Starts(x, path[q])
    BY DEF s
  <2>2. \A u \in 0 + 1 .. Len(s) :
          Starts(x, path[u]) => \E r \in 0 + 1 .. u : s[r].tok = "begin" /\ path[r] = x
    <3> HIDE DEF x
    <3>1. x \in Seq(STRING) /\ x # <<>> /\ ~Starts(x, Standing(s, Paths(s), 0))
      BY <1>1, <1>2, <1>3
    <3> QED BY <1>1, <1>3, <3>1, Entered, Zenon
  <2>3. \E r \in 0 + 1 .. q : s[r].tok = "begin" /\ path[r] = x
    BY <2>1, <2>2
  <2> QED BY <2>3
<1>5. r \in 1 .. Len(s)
  BY <1>1 DEF s
<1>6. \A u, v \in 1 .. Len(s) :
        s[u].tok = "begin" /\ s[v].tok = "begin" /\ path[u] = path[v] => u = v
  BY DEF Formed, Ordered, s
<1>7. r = p
  BY <1>1, <1>4, <1>5, <1>6
<1> QED BY <1>1, <1>4, <1>7 DEF s

\* Left for good: once a reader is out of a node that was opened, nothing that
\* follows is in it.
LEMMA NotAgain ==
  ASSUME NEW b \in Blobs, Formed(b.struct, Paths(b.struct), b.strings),
         NEW x \in Seq(STRING), x # <<>>,
         NEW c \in 0 .. Len(b.struct), ~Starts(x, Standing(b.struct, Paths(b.struct), c)),
         NEW p \in NodesAt(b), Paths(b.struct)[p] = x, p <= c,
         NEW q \in c + 1 .. Len(b.struct)
  PROVE  ~Starts(x, Paths(b.struct)[q])
<1> DEFINE s == b.struct
           path == Paths(s)
<1>1. s \in Seq(Tokens) /\ p \in 1 .. Len(s) /\ s[p].tok = "begin" /\ Len(s) \in Nat
  BY BlobIs
<1> SUFFICES ASSUME Starts(x, path[q]) PROVE FALSE
  OBVIOUS
<1>2. \A u \in c + 1 .. Len(s) :
        Starts(x, path[u]) => \E r \in c + 1 .. u : s[r].tok = "begin" /\ path[r] = x
  BY <1>1, Entered, Zenon
<1>3. PICK r \in c + 1 .. q : s[r].tok = "begin" /\ path[r] = x
  BY <1>2
<1>4. r \in 1 .. Len(s) /\ r # p
  BY <1>1
<1>5. \A u, v \in 1 .. Len(s) :
        s[u].tok = "begin" /\ s[v].tok = "begin" /\ path[u] = path[v] => u = v
  BY DEF Formed, Ordered
<1> QED BY <1>1, <1>3, <1>4, <1>5

\* fdt_node_props finds every property of the node, and nothing but values.
LEMMA NodePropsAre ==
  ASSUME NEW b \in Blobs, Formed(b.struct, Paths(b.struct), b.strings),
         NEW node, FirstNode(b, node) # 0
  PROVE  /\ \A n \in DOMAIN NodeProps(b, node) : NodeProps(b, node)[n] \in Seq(Int)
         /\ \A p \in PropsAt(b) :
              Paths(b.struct)[p] = Paths(b.struct)[FirstNode(b, node)]
                => NameAt(b, p) \in DOMAIN NodeProps(b, node)
<1> DEFINE s == b.struct
           path == Paths(s)
           first == FirstNode(b, node)
           left == {q \in NodesAt(b) \cup PropsAt(b) : q > first /\ ~IsPrefix(path[first], path[q])}
           own == {p \in PropsAt(b) :
                     /\ p > first /\ path[p] = path[first]
                     /\ \A q \in left : p < q}
           named(n) == {p \in own : NameAt(b, p) = n}
<1>1. NodeProps(b, node) = [n \in {NameAt(b, p) : p \in own} |-> s[Max(named(n))].val]
  BY DEF NodeProps, FirstNode
<1>2. /\ s \in Seq(Tokens) /\ Len(s) \in Nat /\ first \in NodesAt(b)
      /\ \A p \in 1 .. Len(s) : s[p] \in Tokens /\ path[p] \in Seq(STRING)
      /\ NodesAt(b) = {p \in 1 .. Len(s) : s[p].tok = "begin"}
      /\ PropsAt(b) = {p \in 1 .. Len(s) : s[p].tok = "prop"}
  BY BlobIs, FirstIs
<1>3. own \subseteq PropsAt(b)
  OBVIOUS
<1>4. ASSUME NEW p \in PropsAt(b), path[p] = path[first] PROVE p \in own
  <2>1. p > first
    <3>1. p \in 1 .. Len(s) /\ first \in 1 .. Len(s) /\ p # first
      BY <1>2
    <3>2. Starts(path[first], path[p])
      BY <1>2, <1>4, <3>1, StartsAre
    <3>3. first <= p
      BY <1>2, <3>1, <3>2, OpenedOnce
    <3> QED BY <3>1, <3>3
  <2>2. ASSUME NEW q \in left PROVE p < q
    <3>1. q \in 1 .. Len(s) /\ q > first /\ ~IsPrefix(path[first], path[q])
          /\ first \in 1 .. Len(s) /\ p \in 1 .. Len(s)
      BY <1>2
    <3>2. path[first] \in Seq(STRING) /\ path[q] \in Seq(STRING)
      BY <1>2, <3>1
    <3> HIDE DEF left, own, s, path, first
    <3>3. ~Starts(path[first], path[q])
      BY <3>1, <3>2, PrefixIs
    <3>4. p # q
      BY <1>4, <3>2, <3>3, StartsAre
    <3>5. SUFFICES ASSUME q < p PROVE FALSE
      BY <3>1, <3>4
    <3>6. ~Starts(path[first], Standing(s, path, q))
      <4>1. Standing(s, path, q) = path[q] \/ Standing(s, path, q) = Front(path[q])
        BY <3>1 DEF Standing, Beyond
      <4> QED BY <3>2, <3>3, <4>1, StartsAre
    <3>7. path[first] # <<>>
      <4>1. path[first] = Standing(s, path, first - 1) \o <<s[first].name>>
            /\ s[first].name \in STRING
        BY <1>2, <3>1, StandingIs DEF s, path
      <4>2. Standing(s, path, first - 1) \in Seq(STRING)
        <5>1. first - 1 \in 0 .. Len(s)
          BY <1>2, <3>1
        <5> QED BY <1>2, <5>1, StandingIs DEF path
      <4>3. Len(path[first]) = Len(Standing(s, path, first - 1)) + 1
        BY <4>1, <4>2
      <4> QED BY <4>2, <4>3
    <3>8. q \in 0 .. Len(s) /\ p \in q + 1 .. Len(s) /\ first <= q
      BY <1>2, <3>1, <3>5
    <3> DEFINE x == path[first]
    <3>9. ~Starts(x, path[p])
      <4>1. x \in Seq(STRING) /\ x # <<>> /\ ~Starts(x, Standing(s, path, q))
            /\ path[first] = x
        BY <3>2, <3>6, <3>7
      <4>2. first \in NodesAt(b)
        BY <1>2
      <4> HIDE DEF x
      <4> QED BY <3>8, <4>1, <4>2, NotAgain DEF s, path
    <3> QED BY <1>4, <3>2, <3>9, StartsAre
  <2> QED BY <1>4, <2>1, <2>2
<1> HIDE DEF own
<1>5. ASSUME NEW n \in DOMAIN NodeProps(b, node) PROVE NodeProps(b, node)[n] \in Seq(Int)
  <2>1. n \in {NameAt(b, p) : p \in own}
    BY <1>1
  <2>2. NodeProps(b, node)[n] = s[Max(named(n))].val
    BY <1>1, <2>1
  <2>3. named(n) \in SUBSET (1 .. Len(s)) /\ named(n) # {} /\ named(n) \subseteq PropsAt(b)
    BY <1>2, <1>3, <2>1
  <2>4. Max(named(n)) \in named(n)
    <3> DEFINE S == named(n)
    <3>1. S \in SUBSET (1 .. Len(s)) /\ S # {} /\ Len(s) \in Nat
      BY <1>2, <2>3
    <3> HIDE DEF S
    <3>2. Max(S) \in S
      BY <3>1, Greatest
    <3> QED BY <3>2 DEF S
  <2>5. s[Max(named(n))] \in Tokens /\ s[Max(named(n))].tok = "prop"
    BY <1>2, <2>3, <2>4
  <2> QED BY <2>2, <2>5, TokensAre
<1>6. ASSUME NEW p \in PropsAt(b), path[p] = path[first]
      PROVE  NameAt(b, p) \in DOMAIN NodeProps(b, node)
  BY <1>1, <1>4, <1>6
<1> QED BY <1>5, <1>6

\* A name that is there is found.
LEMMA OffsetInIs ==
  ASSUME NEW strings \in Seq(STRING), NEW n, n \in Elems(strings)
  PROVE  /\ OffsetIn(strings, n) \in 1 .. Len(strings)
         /\ strings[OffsetIn(strings, n)] = n
<1> DEFINE S == {i \in DOMAIN strings : strings[i] = n}
<1>1. DOMAIN strings = 1 .. Len(strings) /\ Len(strings) \in Nat
  OBVIOUS
<1>2. S \in SUBSET Nat /\ S # {}
  BY <1>1 DEF Elems
<1>3. OffsetIn(strings, n) = Min(S)
  BY DEF OffsetIn
<1>4. Min(S) \in S
  <2> HIDE DEF S
  <2> QED BY <1>2, Least
<1> QED BY <1>1, <1>3, <1>4

\* Interning keeps the strings in their places and adds what was not there.
LEMMA InternIs ==
  ASSUME NEW strings \in Seq(STRING), NEW names \in Seq(STRING)
  PROVE  /\ Intern(strings, names) \in Seq(STRING)
         /\ Len(strings) <= Len(Intern(strings, names))
         /\ \A i \in 1 .. Len(strings) : Intern(strings, names)[i] = strings[i]
         /\ \A i \in 1 .. Len(names) : names[i] \in Elems(Intern(strings, names))
<1> DEFINE kept == {i \in DOMAIN names : names[i] \notin Elems(strings)}
           added == Picked(names, kept)
           t == Intern(strings, names)
<1>1. t = strings \o added
  BY DEF Intern
<1>2. kept \in SUBSET (DOMAIN names) /\ added \in Seq(STRING)
  BY PickedIs
<1>3. \A i \in DOMAIN names : i \in kept => \E k \in 1 .. Len(added) : added[k] = names[i]
  <2> HIDE DEF kept
  <2>1. PICK from \in [1 .. Len(added) -> DOMAIN names] : PickedFrom(from, added, names, kept)
    BY <1>2, PickedIs, Zenon
  <2> HIDE DEF added
  <2> QED BY <2>1 DEF PickedFrom
<1> HIDE DEF added
<1>4. t \in Seq(STRING) /\ Len(t) = Len(strings) + Len(added) /\ Len(strings) \in Nat
      /\ Len(added) \in Nat /\ DOMAIN t = 1 .. Len(t)
  BY <1>1, <1>2
<1>5. \A i \in 1 .. Len(strings) : t[i] = strings[i]
  BY <1>1, <1>2
<1>6. \A k \in 1 .. Len(added) : t[Len(strings) + k] = added[k]
  BY <1>1, <1>2
<1>7. ASSUME NEW i \in 1 .. Len(names) PROVE names[i] \in Elems(t)
  <2>1. i \in DOMAIN names
    OBVIOUS
  <2>2. CASE i \in kept
    <3>1. PICK k \in 1 .. Len(added) : added[k] = names[i]
      BY <1>3, <2>1, <2>2
    <3>2. Len(strings) + k \in DOMAIN t /\ t[Len(strings) + k] = names[i]
      BY <1>4, <1>6, <3>1
    <3> HIDE DEF t
    <3> QED BY <3>2 DEF Elems
  <2>3. CASE i \notin kept
    <3>1. PICK j \in DOMAIN strings : strings[j] = names[i]
      BY <2>1, <2>3 DEF Elems
    <3>2. j \in DOMAIN t /\ t[j] = names[i]
      <4>1. j \in 1 .. Len(strings)
        BY <3>1
      <4>2. j \in 1 .. Len(t)
        BY <1>4, <4>1
      <4> QED BY <1>4, <1>5, <3>1, <4>1, <4>2
    <3> HIDE DEF t
    <3> QED BY <3>2 DEF Elems
  <2> QED BY <2>2, <2>3
<1> HIDE DEF t
<1>8. Len(strings) <= Len(t)
  BY <1>4
<1> QED BY <1>4, <1>5, <1>7, <1>8 DEF t

\* Properties to be put in: names and values.
Additions == Seq(STRING \X Seq(Int))

\* The strings and tokens of props, where there were some strings already.
Interned(more, ins, strings, props) ==
  /\ more \in Seq(STRING) /\ Len(strings) <= Len(more)
  /\ \A i \in 1 .. Len(strings) : more[i] = strings[i]
  /\ ins \in Seq(Tokens) /\ Len(ins) = Len(props)
  /\ \A i \in 1 .. Len(props) :
       /\ ins[i].tok = "prop" /\ ins[i].at \in DOMAIN more
       /\ more[ins[i].at] = props[i][1]

\* Interning props gives tokens that resolve to their names.
LEMMA PropTokensAre ==
  ASSUME NEW strings \in Seq(STRING), NEW props \in Additions
  PROVE  Interned(Intern(strings, NamesOf(props)),
                  PropTokens(Intern(strings, NamesOf(props)), props), strings, props)
<1> DEFINE names == NamesOf(props)
           more == Intern(strings, names)
           ins == PropTokens(more, props)
<1>1. DOMAIN props = 1 .. Len(props) /\ Len(props) \in Nat
      /\ \A i \in 1 .. Len(props) : props[i][1] \in STRING /\ props[i][2] \in Seq(Int)
  <2> DEFINE V == STRING \X Seq(Int)
  <2>1. \A v \in V : v[1] \in STRING /\ v[2] \in Seq(Int)
    OBVIOUS
  <2>2. props \in Seq(V)
    BY DEF Additions
  <2> HIDE DEF V
  <2> QED BY <2>1, <2>2
<1>2. names = [i \in 1 .. Len(props) |-> props[i][1]]
  BY <1>1 DEF NamesOf
<1>3. names \in Seq(STRING) /\ Len(names) = Len(props)
      /\ \A i \in 1 .. Len(props) : names[i] = props[i][1]
  <2> HIDE DEF names
  <2> QED BY <1>1, <1>2
<1> HIDE DEF names
<1>4. /\ more \in Seq(STRING) /\ Len(strings) <= Len(more)
      /\ \A i \in 1 .. Len(strings) : more[i] = strings[i]
      /\ \A i \in 1 .. Len(names) : names[i] \in Elems(more)
  BY <1>3, InternIs
<1> HIDE DEF more
<1>5. ins = [i \in 1 .. Len(props) |-> Prop(OffsetIn(more, props[i][1]), props[i][2])]
  BY <1>1 DEF PropTokens
<1>6. ASSUME NEW i \in 1 .. Len(props)
      PROVE  /\ OffsetIn(more, props[i][1]) \in DOMAIN more
             /\ OffsetIn(more, props[i][1]) \in Nat
             /\ more[OffsetIn(more, props[i][1])] = props[i][1]
  <2>1. props[i][1] \in Elems(more)
    BY <1>3, <1>4
  <2>2. OffsetIn(more, props[i][1]) \in 1 .. Len(more)
        /\ more[OffsetIn(more, props[i][1])] = props[i][1]
    BY <1>4, <2>1, OffsetInIs
  <2> QED BY <1>4, <2>2
<1> HIDE DEF ins
<1>7. ASSUME NEW i \in 1 .. Len(props)
      PROVE  /\ ins[i] \in Tokens /\ ins[i].tok = "prop" /\ ins[i].at \in DOMAIN more
             /\ more[ins[i].at] = props[i][1]
  <2>1. ins[i] = Prop(OffsetIn(more, props[i][1]), props[i][2])
    BY <1>5
  <2>2. ins[i] \in Tokens
    BY <1>1, <1>6, <2>1, TokensAre
  <2>3. ins[i].tok = "prop" /\ ins[i].at = OffsetIn(more, props[i][1])
    BY <2>1 DEF Prop
  <2> QED BY <1>6, <2>2, <2>3
<1>8. ins \in Seq(Tokens) /\ Len(ins) = Len(props)
  BY <1>1, <1>5, <1>7
<1> QED BY <1>3, <1>4, <1>7, <1>8 DEF Interned, ins, more, names

(***************************************************************************)
(* The four ways a tree is changed.                                        *)
(***************************************************************************)

Sane(b) == b \in Blobs /\ Formed(b.struct, Paths(b.struct), b.strings)

\* The parts of a well-formed tree that the lemmas below go by.
LEMMA SaneIs ==
  ASSUME NEW b, Sane(b)
  PROVE  /\ b \in Blobs /\ b.struct \in Seq(Tokens) /\ b.strings \in Seq(STRING)
         /\ Len(b.struct) \in Nat
         /\ b.struct # <<>> /\ b.struct[1].tok = "begin"
         /\ b.struct[Len(b.struct)].tok = "end"
         /\ \A p \in 1 .. Len(b.struct) : b.struct[p].tok # "end" => p < Len(b.struct)
         /\ \A p \in 1 .. Len(b.struct) : b.struct[p].tok # "begin" => p > 1
         /\ Len(b.struct) >= 1
<1>1. b \in Blobs /\ b.struct \in Seq(Tokens) /\ b.strings \in Seq(STRING)
      /\ Len(b.struct) \in Nat
  BY BlobIs DEF Sane
<1>2. b.struct # <<>> /\ b.struct[1].tok = "begin" /\ b.struct[Len(b.struct)].tok = "end"
  BY DEF Sane, Formed, Closed
<1>3. Len(b.struct) >= 1
  BY <1>1, <1>2
<1>4. \A p \in 1 .. Len(b.struct) : b.struct[p].tok # "end" => p < Len(b.struct)
  BY <1>1, <1>2
<1>5. \A p \in 1 .. Len(b.struct) : b.struct[p].tok # "begin" => p > 1
  BY <1>1, <1>2
<1> QED BY <1>1, <1>2, <1>3, <1>4, <1>5

\* A value put in place leaves every token where it is, in its node.
LEMMA SetValueIs ==
  ASSUME NEW b, Sane(b), NEW p \in 1 .. Len(b.struct), b.struct[p].tok = "prop",
         NEW v \in Seq(Int)
  PROVE  LET new == SetValue(b, p, v)
         IN /\ Sane(new) /\ Len(new.struct) = Len(b.struct) /\ new.strings = b.strings
            /\ Paths(new.struct) = Paths(b.struct)
            /\ \A q \in 1 .. Len(b.struct) :
                 /\ new.struct[q].tok = b.struct[q].tok
                 /\ b.struct[q].tok = "prop" => new.struct[q].at = b.struct[q].at
            /\ new.struct[p].val = v
<1> DEFINE s == b.struct
           path == Paths(s)
           new == SetValue(b, p, v)
           t == [s EXCEPT ![p].val = v]
           n == Len(s)
<1>1. b \in Blobs /\ s \in Seq(Tokens) /\ n \in Nat /\ b.strings \in Seq(STRING)
      /\ b = [struct |-> s, strings |-> b.strings]
  BY SaneIs, BlobIs
<1>2. new = [struct |-> t, strings |-> b.strings]
  <2>1. new = [b EXCEPT !.struct = t]
    BY DEF SetValue, WithTokens
  <2>2. \A r \in Blobs : \A x : [r EXCEPT !.struct = x] = [struct |-> x, strings |-> r.strings]
    BY SMTT(30) DEF Blobs
  <2> HIDE DEF t, new
  <2> QED BY <1>1, <2>1, <2>2
<1>3. s[p] \in [tok : {"prop"}, at : Nat, val : Seq(Int)]
  BY <1>1, TokensAre
<1>4. t[p] = [tok |-> "prop", at |-> s[p].at, val |-> v] /\ s[p].at \in Nat
  <2> DEFINE tp == [s[p] EXCEPT !.val = v]
  <2>1. tp = [tok |-> "prop", at |-> s[p].at, val |-> v] /\ s[p].at \in Nat
    <3>1. \A r \in [tok : {"prop"}, at : Nat, val : Seq(Int)] :
            [r EXCEPT !.val = v] = [tok |-> "prop", at |-> r.at, val |-> v] /\ r.at \in Nat
      BY SMTT(30)
    <3> HIDE DEF s
    <3> QED BY <1>3, <3>1, Zenon
  <2>2. t[p] = tp
    BY <1>1
  <2> HIDE DEF t, tp
  <2> QED BY <2>1, <2>2
<1>5. \A q \in 1 .. n : q # p => t[q] = s[q]
  BY <1>1
<1>6. t \in Seq(Tokens) /\ Len(t) = n
  <2>1. t[p] \in Tokens
    <3>1. Prop(s[p].at, v) \in Tokens
      BY <1>4, TokensAre
    <3> QED BY <1>4, <3>1 DEF Prop
  <2>2. DOMAIN t = 1 .. n
    BY <1>1
  <2>3. \A q \in 1 .. n : t[q] \in Tokens
    <3> HIDE DEF t
    <3> QED BY <1>1, <1>5, <2>1
  <2>4. t = [q \in 1 .. n |-> t[q]]
    <3>1. t = [q \in DOMAIN s |-> t[q]]
      OBVIOUS
    <3> HIDE DEF t
    <3> QED BY <1>1, <3>1
  <2> HIDE DEF t
  <2> QED BY <1>1, <2>2, <2>3, <2>4
<1> HIDE DEF t
<1>7. \A q \in 1 .. n : /\ t[q].tok = s[q].tok
                        /\ s[q].tok = "prop" => t[q].at = s[q].at
                        /\ s[q].tok = "begin" => t[q] = s[q]
  BY <1>4, <1>5
<1> HIDE DEF n, new
<1>8. \A q \in 1 .. n : Own(t[q]) = Own(s[q]) /\ \A x : Beyond(t[q], x) = Beyond(s[q], x)
  BY <1>7 DEF Own, Beyond
<1>9. path \in Seq(Seq(STRING)) /\ Follows(s, path)
  BY <1>1, PathsAre
<1>10. Follows(t, path)
  <2> HIDE DEF path
  <2>1. \A q \in 1 .. n : q # 1 => q - 1 \in 1 .. n
    BY <1>1
  <2>2. DOMAIN path = 1 .. n
    BY <1>9 DEF Follows, n
  <2>3. ASSUME NEW q \in 1 .. n
        PROVE  path[q] = (IF q = 1 THEN <<>> ELSE Beyond(t[q - 1], path[q - 1])) \o Own(t[q])
    <3>1. path[q] = (IF q = 1 THEN <<>> ELSE Beyond(s[q - 1], path[q - 1])) \o Own(s[q])
      BY <1>9 DEF Follows, n
    <3> QED BY <1>8, <2>1, <3>1
  <2> QED BY <1>6, <2>2, <2>3 DEF Follows
<1>11. Paths(t) = path
  <2>1. \A q \in 1 .. n : path[q] = Paths(t)[q]
    BY <1>6, <1>10, OnlyPaths
  <2>2. Paths(t) \in Seq(Seq(STRING)) /\ DOMAIN Paths(t) = 1 .. n /\ DOMAIN path = 1 .. n
    BY <1>6, <1>9, <1>10, PathsAre DEF Follows
  <2> DEFINE W == Seq(STRING)
             y == Paths(t)
  <2>3. path \in Seq(W) /\ y \in Seq(W) /\ DOMAIN y = 1 .. n /\ DOMAIN path = 1 .. n
    BY <1>9, <2>2
  <2>4. \A q \in 1 .. n : path[q] = y[q]
    BY <2>1
  <2> HIDE DEF path, W, y
  <2>5. path = y
    <3>1. path = [q \in DOMAIN path |-> path[q]] /\ y = [q \in DOMAIN y |-> y[q]]
      BY <2>3
    <3>2. [q \in 1 .. n |-> path[q]] = [q \in 1 .. n |-> y[q]]
      BY <2>4, Zenon
    <3> QED BY <2>3, <3>1, <3>2
  <2> QED BY <2>5 DEF y
<1>12. Formed(t, path, b.strings)
  <2>1. Closed(s, path) /\ Ordered(s, path) /\ Distinct(s, path, b.strings)
    BY DEF Sane, Formed
  <2> HIDE DEF s, path
  <2>2. Closed(t, path)
    <3>1. t # <<>> /\ 1 \in 1 .. n /\ n \in 1 .. n
      <4>1. n >= 1
        BY SaneIs DEF n, s
      <4> QED BY <1>1, <1>6, <4>1
    <3>2. t[1].tok = "begin" /\ t[n].tok = "end"
      BY <1>7, <2>1, <3>1 DEF Closed, n
    <3>3. ASSUME NEW u \in 1 .. n, t[u].tok = "begin"
          PROVE  /\ \E w \in u .. n : t[w].tok = "end" /\ Len(path[w]) = Len(path[u])
                 /\ u > 1 => path[u] # <<t[u].name>>
      <4>1. s[u].tok = "begin" /\ t[u] = s[u]
        BY <1>7, <3>3
      <4>2. PICK w \in u .. n : s[w].tok = "end" /\ Len(path[w]) = Len(path[u])
        BY <2>1, <4>1 DEF Closed, n
      <4>3. w \in 1 .. n
        BY <1>1
      <4>4. u > 1 => path[u] # <<s[u].name>>
        BY <2>1, <4>1 DEF Closed, n
      <4> QED BY <1>7, <4>1, <4>2, <4>3, <4>4
    <3>4. \A w \in 1 .. n : t[w].tok = "end" => path[w] # <<>>
      BY <1>7, <2>1 DEF Closed, n
    <3> QED BY <1>6, <3>1, <3>2, <3>3, <3>4 DEF Closed
  <2>3. Ordered(t, path)
    <3>1. \A u, w \in 1 .. n :
            t[u].tok = "prop" /\ t[w].tok = "end" /\ w < u /\ Starts(path[u], path[w])
              => path[u] = path[w]
      BY <1>7, <2>1 DEF Ordered, n
    <3>2. \A u, w \in 1 .. n :
            t[u].tok = "begin" /\ t[w].tok = "begin" /\ path[u] = path[w] => u = w
      BY <1>7, <2>1 DEF Ordered, n
    <3> QED BY <1>6, <3>1, <3>2 DEF Ordered
  <2>4. Distinct(t, path, b.strings)
    <3>1. \A u \in 1 .. n : t[u].tok = "prop" => t[u].at \in DOMAIN b.strings
      BY <1>7, <2>1 DEF Distinct, n
    <3>2. \A u, w \in 1 .. n :
            t[u].tok = "prop" /\ t[w].tok = "prop" /\ path[u] = path[w]
              /\ b.strings[t[u].at] = b.strings[t[w].at] => u = w
      BY <1>7, <2>1 DEF Distinct, n
    <3> QED BY <1>6, <3>1, <3>2 DEF Distinct
  <2> QED BY <2>2, <2>3, <2>4 DEF Formed
<1>13. new.struct = t /\ new.strings = b.strings /\ new \in Blobs
  BY <1>1, <1>2, <1>6 DEF Blobs
<1>14. Sane(new)
  BY <1>11, <1>12, <1>13 DEF Sane
<1>15. Len(new.struct) = n /\ Paths(new.struct) = path /\ new.struct[p].val = v
  BY <1>4, <1>6, <1>11, <1>13
<1>16. \A q \in 1 .. n : /\ new.struct[q].tok = s[q].tok
                         /\ s[q].tok = "prop" => new.struct[q].at = s[q].at
  BY <1>7, <1>13
<1> QED BY <1>13, <1>14, <1>15, <1>16 DEF new, n

\* The names of some properties to put in, each once.
Names(props) == {props[i][1] : i \in DOMAIN props}
Once(props) == \A i, j \in 1 .. Len(props) : props[i][1] = props[j][1] => i = j

\* Where a reader is ahead of a token that is no begin.
LEMMA AheadOf ==
  ASSUME NEW b, Sane(b), NEW p \in 1 .. Len(b.struct), b.struct[p].tok # "begin"
  PROVE  /\ p - 1 \in 1 .. Len(b.struct)
         /\ Standing(b.struct, Paths(b.struct), p - 1) = Paths(b.struct)[p]
<1>1. p > 1 /\ Len(b.struct) \in Nat /\ b.struct \in Seq(Tokens)
  BY SaneIs
<1>2. p - 1 \in 1 .. Len(b.struct)
  BY <1>1
<1>3. Standing(b.struct, Paths(b.struct), p - 1) = Paths(b.struct)[p]
  BY <1>1, StandingIs
<1> QED BY <1>2, <1>3

\* Properties a node does not have go in at its head.
LEMMA InsertIs ==
  ASSUME NEW b, Sane(b), NEW p \in NodesAt(b), NEW props \in Additions, props # <<>>,
         Once(props),
         \A q \in PropsAt(b) :
           Paths(b.struct)[q] = Paths(b.struct)[p] => NameAt(b, q) \notin Names(props)
  PROVE  /\ Sane(Insert(b, p, props))
         /\ \A i \in 1 .. Len(props) :
              /\ p + i \in PropsAt(Insert(b, p, props))
              /\ Paths(Insert(b, p, props).struct)[p + i] = Paths(b.struct)[p]
              /\ NameAt(Insert(b, p, props), p + i) = props[i][1]
<1> DEFINE s == b.struct
           path == Paths(s)
           n == Len(s)
           M == path[p]
           more == Intern(b.strings, NamesOf(props))
           ins == PropTokens(more, props)
           k == Len(props)
           t == Spliced(s, p, 0, ins)
           new == [struct |-> t, strings |-> more]
<1>1. /\ b \in Blobs /\ s \in Seq(Tokens) /\ n \in Nat /\ b.strings \in Seq(STRING)
      /\ p \in 1 .. n /\ s[p].tok = "begin" /\ p < n /\ M \in Seq(STRING)
      /\ PropsAt(b) = {q \in 1 .. n : s[q].tok = "prop"}
  BY SaneIs, BlobIs
<1>2. /\ more \in Seq(STRING) /\ Len(b.strings) <= Len(more)
      /\ \A i \in 1 .. Len(b.strings) : more[i] = b.strings[i]
      /\ ins \in Seq(Tokens) /\ Len(ins) = k
      /\ \A i \in 1 .. k :
           /\ ins[i].tok = "prop" /\ ins[i].at \in DOMAIN more
           /\ more[ins[i].at] = props[i][1]
  <2>1. Interned(more, ins, b.strings, props)
    BY <1>1, PropTokensAre, Zenon
  <2> HIDE DEF more, ins
  <2> QED BY <2>1 DEF Interned
<1>3. k \in Nat /\ k >= 1 /\ DOMAIN props = 1 .. k
  BY DEF Additions
<1>4. Insert(b, p, props) = new
  <2>1. p + 0 + 1 = p + 1
    BY <1>1
  <2> QED BY <2>1 DEF Insert, Splice, Spliced
<1>5. Standing(s, path, p) = M
  BY <1>1, StandingIs
<1> HIDE DEF ins, more, k
<1>6. Fits(ins, M, M)
  <2>1. \A j \in 1 .. Len(ins) : ins[j].tok = "prop"
    BY <1>2
  <2>2. 1 \in 1 .. Len(ins) /\ Len(ins) \in 1 .. Len(ins) /\ Len(ins) >= 1
    BY <1>2, <1>3
  <2>3. \A j \in 2 .. Len(ins) : j \in 1 .. Len(ins) /\ j - 1 \in 1 .. Len(ins)
    BY <2>2
  <2>4. M \o <<>> = M
    BY <1>1
  <2> HIDE DEF M
  <2>5. M = M \o Own(ins[1])
    BY <2>1, <2>2, <2>4 DEF Own
  <2>6. Beyond(ins[Len(ins)], M) = M
    BY <2>1, <2>2 DEF Beyond
  <2> QED BY <2>1, <2>2, <2>3, <2>5, <2>6 DEF Fits
<1> HIDE DEF M
<1>7. Welcome(s, path, p, 0, ins, M, more)
  <2>1. \A i, j \in 1 .. k : more[ins[i].at] = more[ins[j].at] => i = j
    BY <1>2 DEF Once, k
  <2>2. ASSUME NEW j \in 1 .. k, NEW q \in 1 .. n, s[q].tok = "prop", path[q] = M
        PROVE  more[ins[j].at] # more[s[q].at]
    <3>1. NameAt(b, q) \notin Names(props) /\ NameAt(b, q) = b.strings[s[q].at]
      BY <1>1, <2>2 DEF NameAt, M
    <3>2. more[ins[j].at] \in Names(props)
      BY <1>2, <1>3 DEF Names
    <3>3. s[q].at \in DOMAIN b.strings
      BY <2>2 DEF Sane, Formed, Distinct
    <3>4. more[s[q].at] = b.strings[s[q].at]
      <4>1. s[q].at \in 1 .. Len(b.strings)
        BY <1>1, <3>3
      <4> QED BY <1>2, <4>1
    <3> QED BY <3>1, <3>2, <3>4
  <2>3. ASSUME NEW q \in 1 .. p, s[q].tok = "end", Starts(M, path[q]) PROVE FALSE
    <3>1. q \in 1 .. n /\ q # p
      BY <1>1, <2>3
    <3>2. p <= q
      BY <2>3, <3>1, OpenedOnce DEF M, Sane
    <3> QED BY <1>1, <3>1, <3>2
  <2>4. \A j \in 1 .. k : ins[j].tok = "prop" /\ ins[j].at \in DOMAIN more
    BY <1>2
  <2>5. \A j \in 1 .. k : ins[j].tok # "begin" /\ ins[j].tok # "end"
    BY <2>4
  <2>6. k = Len(ins)
    BY <1>2
  <2> HIDE DEF s, path
  <2> QED BY <2>1, <2>2, <2>3, <2>4, <2>5, <2>6 DEF Welcome, n
<1>8. Formed(t, Paths(t), more)
  <2>1. Formed(s, Paths(s), b.strings)
    BY DEF Sane
  <2>2. 0 \in 0 .. 1 /\ p + 0 < Len(s) /\ (0 = 1 => s[p + 1].tok = "prop")
        /\ Standing(s, Paths(s), p + 0) = Standing(s, Paths(s), p)
    BY <1>1
  <2>3. Fits(ins, Standing(s, Paths(s), p), M) /\ Welcome(s, Paths(s), p, 0, ins, M, more)
    BY <1>5, <1>6, <1>7
  <2> QED BY <1>1, <1>2, <2>1, <2>2, <2>3, StaysFormed, Zenon DEF M
<1>9. StillIn(Paths(t), path, n, p, 0, Len(ins), M) /\ IsSpliced(t, s, p, 0, ins)
      /\ t \in Seq(Tokens)
  <2>1. 0 \in 0 .. 1 /\ p + 0 <= Len(s)
        /\ Standing(s, Paths(s), p + 0) = Standing(s, Paths(s), p)
    BY <1>1
  <2>2. Fits(ins, Standing(s, Paths(s), p), M) /\ M \in Seq(STRING)
    BY <1>1, <1>5, <1>6 DEF M
  <2>3. StillIn(Paths(t), path, n, p, 0, Len(ins), M)
    BY <1>1, <1>2, <2>1, <2>2, SplicedPaths, Zenon
  <2>4. IsSpliced(t, s, p, 0, ins) /\ t \in Seq(Tokens)
    BY <1>1, <1>2, <2>1, SplicedIs, Zenon
  <2> QED BY <2>3, <2>4
<1> HIDE DEF t
<1>10. new \in Blobs /\ new.struct = t /\ new.strings = more
  BY <1>2, <1>9 DEF Blobs
<1> HIDE DEF new
<1>11. Sane(new)
  BY <1>8, <1>10 DEF Sane
<1>12. ASSUME NEW i \in 1 .. k
       PROVE  p + i \in PropsAt(new) /\ Paths(new.struct)[p + i] = M
              /\ NameAt(new, p + i) = props[i][1]
  <2>1. i \in 1 .. Len(ins)
    BY <1>2
  <2>2. t[p + i] = ins[i] /\ Paths(t)[p + i] = M /\ Len(t) = n - 0 + Len(ins)
    BY <1>9, <2>1 DEF StillIn, IsSpliced, n
  <2>3. p + i \in 1 .. Len(t)
    <3>1. n \in Nat /\ p \in 1 .. n /\ Len(ins) \in Nat
      BY <1>1, <1>2 DEF n
    <3>2. Len(t) = n - 0 + Len(ins)
      BY <2>2
    <3> HIDE DEF n
    <3> QED BY <2>1, <3>1, <3>2
  <2>4. p + i \in PropsAt(new)
    BY <1>2, <1>10, <2>2, <2>3, BlobIs
  <2> QED BY <1>2, <1>10, <2>2, <2>4 DEF NameAt
<1> QED BY <1>4, <1>11, <1>12 DEF k, M

\* A property may be overwritten by tokens that mean nothing.
LEMMA NopIs ==
  ASSUME NEW b, Sane(b), NEW p \in 1 .. Len(b.struct), b.struct[p].tok = "prop"
  PROVE  Sane(WithTokens(b, SubSeq(b.struct, 1, p - 1)
                            \o [i \in 1 .. Words(b.struct[p]) |-> Nop]
                            \o SubSeq(b.struct, p + 1, Len(b.struct))))
<1> DEFINE s == b.struct
           path == Paths(s)
           n == Len(s)
           M == path[p]
           k == Words(s[p])
           ins == [i \in 1 .. k |-> Nop]
           t == SubSeq(s, 1, p - 1) \o ins \o SubSeq(s, p + 1, n)
           c == p - 1
<1>1. /\ b \in Blobs /\ s \in Seq(Tokens) /\ n \in Nat /\ b.strings \in Seq(STRING)
      /\ p < n /\ c \in 1 .. n /\ M \in Seq(STRING) /\ s[p] \in Tokens
  BY SaneIs, BlobIs, AheadOf
<1>2. k \in Nat /\ k >= 1
  <2>1. s[p].val \in Seq(Int)
    BY <1>1, TokensAre
  <2>2. k = 3 + Len(s[p].val)
    BY DEF Words
  <2>3. Len(s[p].val) \in Nat
    BY <2>1
  <2> HIDE DEF k
  <2> QED BY <2>2, <2>3
<1> HIDE DEF k
<1>3. ins \in Seq(Tokens) /\ Len(ins) = k /\ \A i \in 1 .. k : ins[i].tok = "nop"
  <2>1. Nop \in Tokens /\ Nop.tok = "nop"
    BY TokensAre DEF Nop
  <2> QED BY <1>2, <2>1
<1>4. t = Spliced(s, c, 1, ins)
  <2>1. c + 1 + 1 = p + 1
    BY <1>1
  <2> QED BY <2>1 DEF Spliced
<1>5. Standing(s, path, c) = M /\ Standing(s, path, p) = M /\ c + 1 = p
  <2>1. Standing(s, path, c) = M
    BY AheadOf
  <2>2. Standing(s, path, p) = M
    BY <1>1, StandingIs
  <2> QED BY <1>1, <2>1, <2>2
<1> HIDE DEF ins, t, c
<1>6. Fits(ins, M, M)
  <2>1. 1 \in 1 .. k /\ Len(ins) \in 1 .. k /\ Len(ins) >= 1
    BY <1>2, <1>3
  <2>2. \A j \in 2 .. Len(ins) : j \in 1 .. k /\ j - 1 \in 1 .. k
    BY <1>2, <1>3
  <2>3. M \o <<>> = M
    BY <1>1
  <2> HIDE DEF M
  <2>4. M = M \o Own(ins[1])
    BY <1>3, <2>1, <2>3 DEF Own
  <2>5. Beyond(ins[Len(ins)], M) = M
    BY <1>3, <2>1 DEF Beyond
  <2> QED BY <1>3, <2>1, <2>2, <2>4, <2>5 DEF Fits
<1>7. Welcome(s, path, c, 1, ins, M, b.strings)
  <2>1. \A j \in 1 .. Len(ins) :
          ins[j].tok # "prop" /\ ins[j].tok # "begin" /\ ins[j].tok # "end"
    BY <1>3
  <2> QED BY <2>1 DEF Welcome
<1>8. Formed(t, Paths(t), b.strings)
  <2>1. Formed(s, Paths(s), b.strings)
    BY DEF Sane
  <2>2. 1 \in 0 .. 1 /\ c + 1 < Len(s) /\ (1 = 1 => s[c + 1].tok = "prop")
        /\ Standing(s, Paths(s), c + 1) = Standing(s, Paths(s), c)
    BY <1>1, <1>5
  <2>3. Fits(ins, Standing(s, Paths(s), c), M) /\ Welcome(s, Paths(s), c, 1, ins, M, b.strings)
    BY <1>5, <1>6, <1>7
  <2>4. Len(b.strings) <= Len(b.strings)
        /\ \A i \in 1 .. Len(b.strings) : b.strings[i] = b.strings[i]
    BY <1>1
  <2>5. c \in 1 .. Len(s) /\ s \in Seq(Tokens) /\ ins \in Seq(Tokens)
        /\ b.strings \in Seq(STRING) /\ M \in Seq(STRING)
    BY <1>1, <1>3
  <2> HIDE DEF M
  <2>6. Formed(Spliced(s, c, 1, ins), Paths(Spliced(s, c, 1, ins)), b.strings)
    BY <2>1, <2>2, <2>3, <2>4, <2>5, StaysFormed, Zenon
  <2> QED BY <1>4, <2>6
<1>9. t \in Seq(Tokens)
  <2>1. 1 \in 0 .. 1 /\ c + 1 <= Len(s)
    BY <1>1, <1>5
  <2> QED BY <1>1, <1>3, <1>4, <2>1, SplicedIs
<1>10. WithTokens(b, t) = [struct |-> t, strings |-> b.strings]
  <2>1. \A r \in Blobs : \A x : [r EXCEPT !.struct = x] = [struct |-> x, strings |-> r.strings]
    BY DEF Blobs
  <2> QED BY <1>1, <2>1 DEF WithTokens
<1>11. WithTokens(b, t) \in Blobs
  BY <1>1, <1>9, <1>10 DEF Blobs
<1>12. Sane(WithTokens(b, t))
  BY <1>8, <1>10, <1>11 DEF Sane
<1> QED BY <1>12 DEF t, ins, k

\* Whatever node a token is in was opened at or ahead of it.
LEMMA WasOpened ==
  ASSUME NEW b, Sane(b), NEW x \in Seq(STRING), x # <<>>,
         NEW q \in 1 .. Len(b.struct), Starts(x, Paths(b.struct)[q])
  PROVE  \E r \in NodesAt(b) : r <= q /\ Paths(b.struct)[r] = x
<1> DEFINE s == b.struct
           path == Paths(s)
<1>1. s \in Seq(Tokens) /\ Len(s) \in Nat
      /\ NodesAt(b) = {p \in 1 .. Len(s) : s[p].tok = "begin"}
  BY SaneIs, BlobIs
<1>2. ~Starts(x, Standing(s, path, 0)) /\ 0 \in 0 .. Len(s)
  BY <1>1, StartsAre DEF Standing
<1>3. \A u \in 0 + 1 .. Len(s) :
        Starts(x, path[u]) => \E r \in 0 + 1 .. u : s[r].tok = "begin" /\ path[r] = x
  BY <1>1, <1>2, Entered, Zenon
<1>4. PICK r \in 0 + 1 .. q : s[r].tok = "begin" /\ path[r] = x
  <2>1. q \in 0 + 1 .. Len(s)
    OBVIOUS
  <2> QED BY <1>3, <2>1
<1>5. r \in NodesAt(b) /\ r <= q
  BY <1>1, <1>4
<1> QED BY <1>4, <1>5

\* A node is closed behind where it is opened.
LEMMA ClosedIs ==
  ASSUME NEW b, Sane(b), NEW p \in NodesAt(b)
  PROVE  /\ ClosedAt(b, p) \in 1 .. Len(b.struct) /\ ClosedAt(b, p) > 1
         /\ b.struct[ClosedAt(b, p)].tok = "end"
<1> DEFINE s == b.struct
           path == Paths(s)
           n == Len(s)
           S == {q \in p .. n : s[q].tok = "end" /\ Len(path[q]) = Len(path[p])}
<1>1. n \in Nat /\ p \in 1 .. n /\ s[p].tok = "begin"
  BY SaneIs, BlobIs
<1>2. ClosedAt(b, p) = Min(S)
  BY DEF ClosedAt
<1>3. S # {}
  BY <1>1 DEF Sane, Formed, Closed
<1>4. S \in SUBSET Nat
  BY <1>1
<1>5. Min(S) \in S
  <2> HIDE DEF S
  <2> QED BY <1>3, <1>4, Least
<1>6. Min(S) \in 1 .. n /\ s[Min(S)].tok = "end"
  BY <1>1, <1>5
<1>7. Min(S) > 1
  BY <1>6, SaneIs
<1> QED BY <1>2, <1>6, <1>7

\* A new node goes in ahead of the end of another.
LEMMA SubnodeIs ==
  ASSUME NEW b, Sane(b), NEW c \in 1 .. Len(b.struct), c > 1, b.struct[c].tok = "end",
         NEW name \in STRING, FirstNode(b, <<name>>) = 0,
         NEW props \in Additions, Once(props)
  PROVE  LET more == Intern(b.strings, NamesOf(props))
             child == <<Begin(name)>> \o PropTokens(more, props) \o <<EndNode>>
         IN Sane([struct |-> Splice(b.struct, c - 1, child), strings |-> more])
<1> DEFINE s == b.struct
           path == Paths(s)
           n == Len(s)
           P == path[c]
           M == P \o <<name>>
           more == Intern(b.strings, NamesOf(props))
           mid == PropTokens(more, props)
           child == <<Begin(name)>> \o mid \o <<EndNode>>
           l == Len(props)
           k == l + 2
           p == c - 1
           t == Spliced(s, p, 0, child)
           new == [struct |-> t, strings |-> more]
<1>1. /\ b \in Blobs /\ s \in Seq(Tokens) /\ n \in Nat /\ b.strings \in Seq(STRING)
      /\ P \in Seq(STRING) /\ PropsAt(b) = {q \in 1 .. n : s[q].tok = "prop"}
      /\ NodesAt(b) = {q \in 1 .. n : s[q].tok = "begin"}
      /\ \A q \in 1 .. n : path[q] \in Seq(STRING)
  BY SaneIs, BlobIs
<1>2. /\ more \in Seq(STRING) /\ Len(b.strings) <= Len(more)
      /\ \A i \in 1 .. Len(b.strings) : more[i] = b.strings[i]
      /\ mid \in Seq(Tokens) /\ Len(mid) = l
      /\ \A i \in 1 .. l :
           /\ mid[i].tok = "prop" /\ mid[i].at \in DOMAIN more
           /\ more[mid[i].at] = props[i][1]
  <2>1. Interned(more, mid, b.strings, props)
    BY <1>1, PropTokensAre, Zenon
  <2> HIDE DEF more, mid
  <2> QED BY <2>1 DEF Interned
<1>3. l \in Nat /\ k \in Nat
  BY DEF Additions
<1>4. Splice(s, c - 1, child) = t
  <2>1. (c - 1) + 0 + 1 = (c - 1) + 1
    BY <1>1
  <2> QED BY <2>1 DEF Splice, Spliced
<1>5. p \in 1 .. n /\ p < n /\ Standing(s, path, p) = P
  <2>1. p \in 1 .. n /\ p < n
    BY <1>1
  <2>2. Standing(s, path, p) = P
    BY AheadOf
  <2> QED BY <2>1, <2>2
<1>6. P # <<>>
  BY DEF Sane, Formed, Closed
<1> HIDE DEF more, mid, l
<1>7. /\ child \in Seq(Tokens) /\ Len(child) = k
      /\ child[1] = Begin(name) /\ child[k] = EndNode
      /\ \A j \in 2 .. k - 1 : child[j] = mid[j - 1]
  <2> DEFINE a == <<Begin(name)>> \o mid
  <2>1. Begin(name) \in Tokens /\ EndNode \in Tokens
    BY TokensAre
  <2>2. a \in Seq(Tokens) /\ Len(a) = l + 1 /\ a[1] = Begin(name)
        /\ \A j \in 2 .. l + 1 : a[j] = mid[j - 1]
    BY <1>2, <1>3, <2>1
  <2> HIDE DEF a
  <2>3. child = a \o <<EndNode>>
    BY DEF a
  <2> DEFINE w == a \o <<EndNode>>
  <2>4. w \in Seq(Tokens) /\ Len(w) = l + 2 /\ w[l + 2] = EndNode
    BY <1>3, <2>1, <2>2
  <2>5. \A j \in 1 .. l + 1 : w[j] = a[j]
    BY <1>3, <2>1, <2>2
  <2> HIDE DEF w
  <2>6. child = w
    BY <2>3 DEF w
  <2> HIDE DEF child
  <2>7. 1 \in 1 .. l + 1 /\ \A j \in 2 .. k - 1 : j \in 2 .. l + 1 /\ j \in 1 .. l + 1
    BY <1>3
  <2> QED BY <2>2, <2>4, <2>5, <2>6, <2>7
<1> HIDE DEF child, k
<1>8. k = l + 2
  BY DEF k
<1>9. /\ child[1].tok = "begin" /\ child[1].name = name /\ child[k].tok = "end"
      /\ \A j \in 2 .. k - 1 : child[j].tok = "prop" /\ child[j].at \in DOMAIN more
                               /\ j - 1 \in 1 .. l /\ more[child[j].at] = props[j - 1][1]
  <2>1. child[1].tok = "begin" /\ child[1].name = name /\ child[k].tok = "end"
    BY <1>7 DEF Begin, EndNode
  <2>2. ASSUME NEW j \in 2 .. k - 1
        PROVE  child[j].tok = "prop" /\ child[j].at \in DOMAIN more
               /\ j - 1 \in 1 .. l /\ more[child[j].at] = props[j - 1][1]
    <3>1. j - 1 \in 1 .. l
      BY <1>3, <1>8
    <3> QED BY <1>2, <1>7, <3>1
  <2> QED BY <2>1, <2>2
<1>10. /\ M \in Seq(STRING) /\ Len(M) = Len(P) + 1 /\ Len(P) >= 1
       /\ M # <<name>> /\ M # <<>> /\ Front(M) = P
  <2>1. M \in Seq(STRING) /\ Len(M) = Len(P) + 1 /\ Len(P) >= 1
    BY <1>1, <1>6
  <2>2. M # <<name>> /\ M # <<>>
    BY <2>1
  <2>3. Front(M) = P
    <3>1. \A i \in 1 .. Len(P) : M[i] = P[i]
      BY <1>1
    <3>2. Front(M) \in Seq(STRING) /\ Len(Front(M)) = Len(P)
          /\ \A i \in 1 .. Len(P) : Front(M)[i] = M[i]
      <4> HIDE DEF P
      <4>1. Len(P) \in Nat
        BY <1>1
      <4> HIDE DEF M
      <4>2. Len(M) - 1 = Len(P)
        BY <2>1, <4>1
      <4>3. Front(M) \in Seq(STRING) /\ Len(Front(M)) = Len(M) - 1
            /\ \A i \in 1 .. Len(M) - 1 : Front(M)[i] = M[i]
        BY <2>1, <2>2, FrontIs
      <4> QED BY <4>2, <4>3
    <3>3. P \in Seq(STRING)
      BY <1>1
    <3>4. \A i \in 1 .. Len(Front(M)) : Front(M)[i] = P[i]
      BY <3>1, <3>2
    <3> HIDE DEF M, P
    <3> QED BY <3>2, <3>3, <3>4, SeqEqual
  <2> QED BY <2>1, <2>2, <2>3
<1>11. ASSUME NEW q \in 1 .. n, Starts(M, path[q]) PROVE FALSE
  <2>1. PICK r \in NodesAt(b) : path[r] = M
    BY <1>10, <1>11, WasOpened
  <2>2. ~Is(M, <<name>>)
    <3> HIDE DEF M
    <3>1. ~Is(path[r], <<name>>)
      BY <1>1, FirstIs
    <3> QED BY <2>1, <3>1
  <2>3. Len(M) - 1 >= 0 /\ SubSeq(M, (Len(M) - 1) + 1, Len(M)) = <<name>>
    <3>1. M[Len(M)] = name
      BY <1>1
    <3>2. Len(M) - 1 >= 0 /\ Len(M) \in Nat
      BY <1>10
    <3> HIDE DEF M
    <3> DEFINE m == Len(M)
    <3>3. m \in Nat /\ m >= 1 /\ m - 1 >= 0 /\ (m - 1) + 1 = m /\ M \in Seq(STRING)
          /\ M[m] = name
      BY <1>10, <3>1, <3>2
    <3> HIDE DEF m
    <3>4. SubSeq(M, m, m) = <<M[m]>>
      <4>1. m \in 1 .. Len(M)
        BY <3>3 DEF m
      <4>2. SubSeq(M, m, m) = [i \in 1 .. (1 + m) - m |-> M[(i + m) - 1]]
        BY <3>3, <4>1
      <4>3. (1 + m) - m = 1 /\ (1 + m) - 1 = m
        BY <3>3
      <4>4. SubSeq(M, m, m) = [i \in 1 .. 1 |-> M[m]]
        BY <4>2, <4>3
      <4> QED BY <4>4
    <3> QED BY <3>3, <3>4 DEF m
  <2> HIDE DEF M
  <2>4. Len(<<name>>) = 1
    OBVIOUS
  <2> QED BY <2>2, <2>3, <2>4 DEF Is
<1> HIDE DEF p
<1>12. p = c - 1
  BY DEF p
<1>13. Fits(child, P, M)
  <2> HIDE DEF P
  <2>1. M = P \o Own(child[1])
    BY <1>9 DEF Own
  <2>2. Beyond(child[k], M) = P
    BY <1>9, <1>10 DEF Beyond
  <2> HIDE DEF M
  <2>3. ASSUME NEW j \in 2 .. k PROVE child[j - 1].tok # "end" /\ child[j].tok # "begin"
    <3>1. (j - 1 = 1 \/ j - 1 \in 2 .. k - 1) /\ (j = k \/ j \in 2 .. k - 1)
      BY <1>3, <1>8
    <3> QED BY <1>9, <3>1
  <2>4. Len(child) = k /\ k >= 1
    BY <1>3, <1>7, <1>8
  <2> QED BY <2>1, <2>2, <2>3, <2>4 DEF Fits
<1>14. \A j \in 1 .. k : /\ child[j].tok = "prop" => j \in 2 .. k - 1
                         /\ child[j].tok = "begin" => j = 1
                         /\ child[j].tok = "end" => j = k
  <2>1. \A j \in 1 .. k : j = 1 \/ j = k \/ j \in 2 .. k - 1
    BY <1>3, <1>8
  <2> QED BY <1>9, <2>1
<1>15. ASSUME NEW q \in p + 0 + 1 .. n, s[q].tok = "prop", Starts(path[q], M)
       PROVE  path[q] = M
  <2>1. q \in c .. n /\ q \in 1 .. n /\ q # c
    BY <1>1, <1>12, <1>15
  <2>2. CASE ~Starts(path[q], P)
    <3>1. path[q] \in Seq(STRING) /\ P \in Seq(STRING) /\ name \in STRING
      BY <1>1, <2>1
    <3>2. Starts(path[q], P \o <<name>>) /\ M = P \o <<name>>
      BY <1>15
    <3>3. path[q] = P \o <<name>>
      <4>1. \A x, y \in Seq(STRING) : \A v \in STRING :
              Starts(x, y \o <<v>>) /\ ~Starts(x, y) => x = y \o <<v>>
        <5>1. SUFFICES ASSUME NEW x \in Seq(STRING), NEW y \in Seq(STRING),
                              NEW v \in STRING, Starts(x, y \o <<v>>), ~Starts(x, y)
                       PROVE  x = y \o <<v>>
          OBVIOUS
        <5> QED BY <5>1, StartsLonger, SMTT(30)
      <4> HIDE DEF P, path
      <4> QED BY <2>2, <3>1, <3>2, <4>1, Zenon
    <3> QED BY <3>2, <3>3, Zenon
  <2>3. CASE Starts(path[q], P)
    <3>1. \A u, v \in 1 .. n :
            s[u].tok = "prop" /\ s[v].tok = "end" /\ v < u /\ Starts(path[u], path[v])
              => path[u] = path[v]
      BY DEF Sane, Formed, Ordered
    <3>2. c < q
      BY <1>1, <2>1
    <3>3. path[q] = P
      BY <1>15, <2>1, <2>3, <3>1, <3>2
    <3>4. Starts(P, path[c])
      BY <1>1, StartsAre
    <3>5. PICK r \in NodesAt(b) : r <= c /\ path[r] = P
      BY <1>1, <1>6, <3>4, WasOpened
    <3>6. ~Starts(P, Standing(s, path, c)) /\ c \in 0 .. n
      <4>1. Standing(s, path, c) = Front(P)
        BY DEF Standing, Beyond
      <4>2. ~Starts(P, Front(P))
        BY <1>1, <1>6, StartsAre
      <4> QED BY <4>1, <4>2
    <3>7. q \in c + 1 .. n
      BY <1>1, <2>1, <3>2
    <3>8. ~Starts(P, path[q])
      <4> DEFINE x == P
      <4>1. x \in Seq(STRING) /\ x # <<>> /\ ~Starts(x, Standing(s, path, c)) /\ path[r] = x
        BY <1>1, <1>6, <3>5, <3>6
      <4>2. ~Starts(x, path[q])
        <5> HIDE DEF x
        <5> QED BY <1>1, <3>5, <3>6, <3>7, <4>1, NotAgain DEF Sane
      <4> QED BY <4>2
    <3> QED BY <1>1, <3>3, <3>8, StartsAre
  <2> QED BY <2>2, <2>3
<1> HIDE DEF M
<1>16. Welcome(s, path, p, 0, child, M, more)
  <2> HIDE DEF s, path
  <2>1. \A j \in 1 .. k : child[j].tok = "prop" => child[j].at \in DOMAIN more
    BY <1>9, <1>14
  <2>2. ASSUME NEW i \in 1 .. k, NEW j \in 1 .. k, child[i].tok = "prop",
               child[j].tok = "prop", more[child[i].at] = more[child[j].at]
        PROVE  i = j
    <3>1. i \in 2 .. k - 1 /\ j \in 2 .. k - 1
      BY <1>14, <2>2
    <3>2. i - 1 \in 1 .. l /\ j - 1 \in 1 .. l /\ props[i - 1][1] = props[j - 1][1]
      BY <1>9, <2>2, <3>1
    <3>3. i - 1 = j - 1
      BY <3>2 DEF Once, l
    <3> QED BY <3>1, <3>3
  <2>3. \A q \in 1 .. n : path[q] # M
    BY <1>1, <1>10, <1>11, StartsAre
  <2>4. \A q \in 1 .. p : q \in 1 .. n
    BY <1>1, <1>5
  <2>5. \A j \in 1 .. k :
          child[j].tok = "begin" =>
            j = 1 /\ child[k].tok = "end" /\ M # <<child[1].name>>
    BY <1>9, <1>10, <1>14
  <2>6. \A j \in 1 .. k : child[j].tok = "end" => j = k /\ M # <<>>
    BY <1>10, <1>14
  <2>7. k = Len(child)
    BY <1>7
  <2> QED BY <1>11, <1>15, <2>1, <2>2, <2>3, <2>4, <2>5, <2>6, <2>7 DEF Welcome, n
<1>17. Formed(t, Paths(t), more)
  <2>1. Formed(s, Paths(s), b.strings)
    BY DEF Sane
  <2>2. 0 \in 0 .. 1 /\ p + 0 < Len(s) /\ (0 = 1 => s[p + 1].tok = "prop")
        /\ Standing(s, Paths(s), p + 0) = Standing(s, Paths(s), p) /\ p \in 1 .. Len(s)
    BY <1>1, <1>5
  <2>3. Fits(child, Standing(s, Paths(s), p), M) /\ Welcome(s, Paths(s), p, 0, child, M, more)
    BY <1>5, <1>13, <1>16
  <2>4. child \in Seq(Tokens) /\ M \in Seq(STRING)
    BY <1>7, <1>10
  <2> QED BY <1>1, <1>2, <2>1, <2>2, <2>3, <2>4, StaysFormed, Zenon
<1>18. t \in Seq(Tokens)
  <2>1. 0 \in 0 .. 1 /\ p + 0 <= Len(s) /\ p \in 1 .. Len(s)
    BY <1>1, <1>5
  <2>2. child \in Seq(Tokens)
    BY <1>7
  <2> QED BY <1>1, <2>1, <2>2, SplicedIs
<1> HIDE DEF t
<1>19. new \in Blobs /\ new.struct = t /\ new.strings = more
  BY <1>2, <1>18 DEF Blobs
<1> HIDE DEF new
<1>20. Sane(new)
  BY <1>17, <1>19 DEF Sane
<1> QED BY <1>4, <1>20 DEF new, child, more, mid

-----------------------------------------------------------------------------
(***************************************************************************)
(* The writers: a well-formed tree stays one, unless it is refused.        *)
(***************************************************************************)
Kept(t) == t = Refused \/ Sane(t)

\* What the node has not got yet is put in, each name once.
LEMMA FreshIs ==
  ASSUME NEW props \in Additions, Once(props), NEW has
  PROVE  LET fresh == Picked(props, {i \in DOMAIN props : props[i][1] \notin has})
         IN fresh \in Additions /\ Once(fresh) /\ \A n \in Names(fresh) : n \notin has
<1> DEFINE kept == {i \in DOMAIN props : props[i][1] \notin has}
           fresh == Picked(props, kept)
           V == STRING \X Seq(Int)
<1>1. props \in Seq(V) /\ DOMAIN props = 1 .. Len(props)
  BY DEF Additions
<1>0. kept \in SUBSET (DOMAIN props)
  OBVIOUS
<1>2. fresh \in Seq(V) /\ \E from \in [1 .. Len(fresh) -> DOMAIN props] :
                            PickedFrom(from, fresh, props, kept)
  <2> HIDE DEF V, kept
  <2> QED BY <1>0, <1>1, PickedIs, Zenon
<1> HIDE DEF fresh
<1>3. PICK from \in [1 .. Len(fresh) -> DOMAIN props] : PickedFrom(from, fresh, props, kept)
  BY <1>2
<1>4. Len(fresh) \in Nat /\ DOMAIN fresh = 1 .. Len(fresh)
  BY <1>2
<1>5. \A k \in 1 .. Len(fresh) : from[k] \in kept /\ fresh[k] = props[from[k]]
  BY <1>3 DEF PickedFrom
<1>6. \A j, k \in 1 .. Len(fresh) : j < k => from[j] < from[k]
  BY <1>3 DEF PickedFrom
<1>7. Once(fresh)
  <2> SUFFICES ASSUME NEW i \in 1 .. Len(fresh), NEW j \in 1 .. Len(fresh),
                      fresh[i][1] = fresh[j][1]
               PROVE  i = j
    BY DEF Once
  <2>1. from[i] \in 1 .. Len(props) /\ from[j] \in 1 .. Len(props)
    BY <1>1, <1>3
  <2>2. from[i] = from[j]
    BY <1>5, <2>1 DEF Once
  <2>3. Len(props) \in Nat
    BY <1>1
  <2>4. ~(i < j) /\ ~(j < i)
    BY <1>6, <2>1, <2>2, <2>3
  <2> QED BY <1>4, <2>4
<1>8. \A n \in Names(fresh) : n \notin has
  BY <1>4, <1>5 DEF Names
<1>9. fresh \in Additions
  BY <1>2 DEF Additions
<1> QED BY <1>7, <1>8, <1>9 DEF fresh

\* fdt_add_props.
LEMMA AddPropsIs ==
  ASSUME NEW b, Sane(b), NEW node, NEW props \in Additions, Once(props)
  PROVE  Kept(AddProps(b, node, props))
<1> DEFINE first == FirstNode(b, node)
           existing == NodeProps(b, node)
           fresh == Picked(props, {i \in DOMAIN props : props[i][1] \notin DOMAIN existing})
<1> SUFFICES ASSUME first # 0, fresh # <<>> PROVE Sane(Insert(b, first, fresh))
  BY DEF AddProps, Kept, Has
<1>1. b \in Blobs /\ Formed(b.struct, Paths(b.struct), b.strings)
  BY DEF Sane
<1>2. first \in NodesAt(b)
  BY <1>1, FirstIs
<1>3. \A p \in PropsAt(b) :
        Paths(b.struct)[p] = Paths(b.struct)[first] => NameAt(b, p) \in DOMAIN existing
  BY <1>1, NodePropsAre
<1> HIDE DEF existing, first
<1>4. fresh \in Additions /\ Once(fresh) /\ \A n \in Names(fresh) : n \notin DOMAIN existing
  BY FreshIs
<1> HIDE DEF fresh
<1>5. \A q \in PropsAt(b) :
        Paths(b.struct)[q] = Paths(b.struct)[first] => NameAt(b, q) \notin Names(fresh)
  BY <1>3, <1>4
<1> QED BY <1>2, <1>4, <1>5, InsertIs

\* fdt_nop_prop.
LEMMA NopPropIs ==
  ASSUME NEW b, Sane(b), NEW node, NEW prop
  PROVE  Kept(NopProp(b, node, prop))
<1> DEFINE p == FindProp(b, node, prop)
<1> SUFFICES ASSUME p # 0
             PROVE  Sane(WithTokens(b, SubSeq(b.struct, 1, p - 1)
                              \o [i \in 1 .. Words(b.struct[p]) |-> Nop]
                              \o SubSeq(b.struct, p + 1, Len(b.struct))))
  BY DEF NopProp, Kept
<1>1. b \in Blobs
  BY DEF Sane
<1>2. p \in 1 .. Len(b.struct) /\ b.struct[p].tok = "prop"
  BY <1>1, FindIs
<1> HIDE DEF p
<1> QED BY <1>2, NopIs

\* A longer value: the old one out, the new one in.
LEMMA ReplaceIs ==
  ASSUME NEW b, Sane(b), NEW node, NEW prop \in STRING, NEW v \in Seq(Int)
  PROVE  Kept(Replace(b, node, prop, v))
<1> DEFINE out == NopProp(b, node, prop)
           props == <<<<prop, v>>>>
<1>1. Kept(out)
  BY NopPropIs
<1>2. props \in Additions /\ Once(props)
  <2>1. <<prop, v>> \in STRING \X Seq(Int)
    OBVIOUS
  <2> DEFINE x == <<prop, v>>
  <2> HIDE DEF x
  <2>2. <<x>> \in Seq(STRING \X Seq(Int)) /\ Len(<<x>>) = 1
    BY <2>1 DEF x
  <2> QED BY <2>2 DEF Additions, Once, x
<1> HIDE DEF out, props
<1>3. out # Refused => Kept(AddProps(out, node, props))
  BY <1>1, <1>2, AddPropsIs DEF Kept
<1> QED BY <1>1, <1>3 DEF Replace, Kept, out, props

\* fdt_add_subnode.
LEMMA AddSubnodeIs ==
  ASSUME NEW b, Sane(b), NEW parent, NEW name \in STRING,
         NEW props \in Additions, Once(props)
  PROVE  Kept(AddSubnode(b, parent, name, props))
<1> DEFINE at == FirstNode(b, <<parent>>)
           more == Intern(b.strings, NamesOf(props))
           child == <<Begin(name)>> \o PropTokens(more, props) \o <<EndNode>>
           new == [struct |-> Splice(b.struct, ClosedAt(b, at) - 1, child),
                   strings |-> more]
<1> SUFFICES ASSUME FirstNode(b, <<name>>) = 0, at # 0 PROVE Sane(new)
  <2> HIDE DEF new
  <2>1. AddSubnode(b, parent, name, props) \in {b, Refused, new}
    BY DEF AddSubnode, new
  <2>2. FirstNode(b, <<name>>) # 0 => AddSubnode(b, parent, name, props) = b
    BY DEF AddSubnode
  <2>3. FirstNode(b, <<name>>) = 0 /\ at = 0 => AddSubnode(b, parent, name, props) = Refused
    BY DEF AddSubnode
  <2> QED BY <2>1, <2>2, <2>3 DEF Kept
<1>1. b \in Blobs
  BY DEF Sane
<1>2. at \in NodesAt(b)
  BY <1>1, FirstIs
<1> HIDE DEF at
<1>3. ClosedAt(b, at) \in 1 .. Len(b.struct) /\ ClosedAt(b, at) > 1
      /\ b.struct[ClosedAt(b, at)].tok = "end"
  BY <1>2, ClosedIs
<1> QED BY <1>3, SubnodeIs

-----------------------------------------------------------------------------
\* A reader of a tree finds the properties that are in it.
LEMMA FactsAre ==
  ASSUME NEW b
  PROVE  DOMAIN Facts(b) = {<<Paths(b.struct)[p], NameAt(b, p)>> : p \in PropsAt(b)}
<1> DEFINE key == [p \in PropsAt(b) |-> <<Paths(b.struct)[p], NameAt(b, p)>>]
<1>1. {FactsOf(b, x) : x \in {[p \in PropsAt(b) |-> <<path[p], NameAt(b, p)>>] :
                               path \in {Paths(b.struct)}}} = {FactsOf(b, key)}
  OBVIOUS
<1>2. Facts(b) = FactsOf(b, key)
  <2> HIDE DEF key
  <2> QED BY <1>1 DEF Facts
<1> QED BY <1>2 DEF FactsOf

\* A name and the cells of a value are an addition.
LEMMA AdditionIs ==
  /\ \A n \in STRING, v \in Int : <<n, <<v>>>> \in STRING \X Seq(Int)
  /\ \A n \in STRING : <<n, <<>>>> \in STRING \X Seq(Int)
<1>1. \A n \in STRING, w \in Seq(Int) : <<n, w>> \in STRING \X Seq(Int)
  OBVIOUS
<1>2. \A v \in Int : <<v>> \in Seq(Int)
  OBVIOUS
<1>3. <<>> \in Seq(Int)
  OBVIOUS
<1> QED BY <1>1, <1>2, <1>3, Zenon

\* What mkpreloader.py adds, each property once.
LEMMA PinctrlPropsAre ==
  /\ PINCTRL_PROPS \in Additions /\ PINCTRL_PROPS # <<>> /\ Len(PINCTRL_PROPS) = 9
  /\ PINCTRL_PROPS[1][1] = "compatible" /\ Once(PINCTRL_PROPS)
<1>1. PINCTRL_PROPS \in Additions /\ PINCTRL_PROPS # <<>> /\ Len(PINCTRL_PROPS) = 9
      /\ PINCTRL_PROPS[1][1] = "compatible"
  <2>1. /\ <<"compatible", <<70>>>> \in STRING \X Seq(Int)
        /\ <<"grf", <<GRF_PHANDLE>>>> \in STRING \X Seq(Int)
        /\ <<"pmu", <<PMUGRF_PHANDLE>>>> \in STRING \X Seq(Int)
        /\ <<"#address-cells", <<2>>>> \in STRING \X Seq(Int)
        /\ <<"#size-cells", <<2>>>> \in STRING \X Seq(Int)
        /\ <<"ranges", <<>>>> \in STRING \X Seq(Int)
        /\ <<"dm-spl", <<>>>> \in STRING \X Seq(Int)
        /\ <<"status", <<101>>>> \in STRING \X Seq(Int)
        /\ <<"phandle", <<PINCTRL_PHANDLE>>>> \in STRING \X Seq(Int)
    <3>3. GRF_PHANDLE \in Int /\ PMUGRF_PHANDLE \in Int /\ PINCTRL_PHANDLE \in Int
          /\ 70 \in Int /\ 2 \in Int /\ 101 \in Int
      BY DEF GRF_PHANDLE, PMUGRF_PHANDLE, PINCTRL_PHANDLE
    <3>4. \A n \in {"compatible", "grf", "pmu", "#address-cells", "#size-cells", "ranges",
                     "dm-spl", "status", "phandle"} : n \in STRING
      BY NamesAssumption
    <3> QED BY <3>3, <3>4, AdditionIs, ZenonT(60)
  <2>2. \A V : \A a, b1, c, d, e, f, g, h, i \in V :
          /\ <<a, b1, c, d, e, f, g, h, i>> \in Seq(V)
          /\ Len(<<a, b1, c, d, e, f, g, h, i>>) = 9
    OBVIOUS
  <2>3. PINCTRL_PROPS[1] = <<"compatible", <<70>>>>
    BY DEF PINCTRL_PROPS
  <2>4. PINCTRL_PROPS \in Seq(STRING \X Seq(Int)) /\ Len(PINCTRL_PROPS) = 9
    BY <2>1, <2>2, Zenon DEF PINCTRL_PROPS
  <2>5. PINCTRL_PROPS \in Additions
    BY <2>4 DEF Additions
  <2>6. PINCTRL_PROPS # <<>>
    <3>1. \A w : Len(w) = 9 => w # <<>>
      OBVIOUS
    <3> QED BY <2>4, <3>1, Zenon
  <2>7. PINCTRL_PROPS[1][1] = "compatible"
    BY <2>3
  <2> QED BY <2>4, <2>5, <2>6, <2>7, Zenon
<1>2. Once(PINCTRL_PROPS)
  BY DEF PINCTRL_PROPS, Once
<1> QED BY <1>1, <1>2

\* It goes to the head of /pinctrl.
LEMMA PinctrlNode ==
  ASSUME NEW b, Sane(b), AddPinctrl(b) # Refused
  PROVE  \E p \in NodesAt(b) : /\ Paths(b.struct)[p] = PINCTRL
                             /\ AddPinctrl(b) = Insert(b, p, PINCTRL_PROPS)
<1> DEFINE named == {p \in NodesAt(b) : Paths(b.struct)[p] = PINCTRL}
           at == Min(named)
<1>1. AddPinctrl(b) = Insert(b, at, PINCTRL_PROPS) /\ named # {}
  BY DEF AddPinctrl
<1>2. named \subseteq Nat
  <2>1. b \in Blobs
    BY DEF Sane
  <2>2. NodesAt(b) = {p \in 1 .. Len(b.struct) : b.struct[p].tok = "begin"}
    BY <2>1, BlobIs
  <2> QED BY <2>2
<1>3. at \in NodesAt(b) /\ Paths(b.struct)[at] = PINCTRL
  <2>1. Min(named) \in named
    <3> HIDE DEF named
    <3> QED BY <1>1, <1>2, Least
  <2> QED BY <2>1
<1> HIDE DEF at
<1> QED BY <1>1, <1>3

\* mkpreloader's edit: an empty /pinctrl gets its properties.
LEMMA AddPinctrlIs ==
  ASSUME NEW b, Sane(b), \A k \in DOMAIN Facts(b) : k[1] # PINCTRL, AddPinctrl(b) # Refused
  PROVE  Sane(AddPinctrl(b)) /\ <<PINCTRL, "compatible">> \in DOMAIN Facts(AddPinctrl(b))
<1>3. PICK at \in NodesAt(b) : Paths(b.struct)[at] = PINCTRL
                             /\ AddPinctrl(b) = Insert(b, at, PINCTRL_PROPS)
  BY PinctrlNode
<1> DEFINE new == Insert(b, at, PINCTRL_PROPS)
<1>6. \A q \in PropsAt(b) : Paths(b.struct)[q] # PINCTRL
  <2> TAKE q \in PropsAt(b)
  <2>1. <<Paths(b.struct)[q], NameAt(b, q)>> \in DOMAIN Facts(b)
    BY FactsAre, Zenon
  <2>2. <<Paths(b.struct)[q], NameAt(b, q)>>[1] = Paths(b.struct)[q]
    OBVIOUS
  <2> QED BY <2>1, <2>2
<1>7. Sane(new)
      /\ 1 \in 1 .. Len(PINCTRL_PROPS)
      /\ at + 1 \in PropsAt(new) /\ Paths(new.struct)[at + 1] = PINCTRL
      /\ NameAt(new, at + 1) = "compatible"
  <2> HIDE DEF new
  <2>1. 1 \in 1 .. Len(PINCTRL_PROPS)
    BY PinctrlPropsAre
  <2> QED BY <1>3, <1>6, <2>1, PinctrlPropsAre, InsertIs DEF new
<1> HIDE DEF new
<1>8. <<PINCTRL, "compatible">> \in DOMAIN Facts(new)
  BY <1>7, FactsAre
<1> QED BY <1>3, <1>7, <1>8 DEF new

-----------------------------------------------------------------------------
(***************************************************************************)
(* The edits: each keeps a tree well-formed or refuses it.                 *)
(***************************************************************************)
\* A well-formed tree has a length.
LEMMA SaneSize ==
  ASSUME NEW b, Sane(b)
  PROVE  Size(b) \in Nat
<1>1. \A t \in Tokens : Words(t) \in Nat
  <2> TAKE t \in Tokens
  <2>1. CASE t.tok = "prop"
    <3>1. Len(t.val) \in Nat
      BY <2>1, TokensAre
    <3> QED BY <2>1, <3>1 DEF Words
  <2>2. CASE t.tok = "begin"
    BY <2>2 DEF Words
  <2>3. CASE t.tok # "prop" /\ t.tok # "begin"
    BY <2>3 DEF Words
  <2> QED BY <2>1, <2>2, <2>3
<1>2. /\ b.struct \in Seq(Tokens) /\ b.strings \in Seq(STRING)
  BY SaneIs
<1>3. Len(b.struct) \in Nat /\ Len(b.strings) \in Nat /\ DOMAIN b.struct = 1 .. Len(b.struct)
      /\ \A i \in 1 .. Len(b.struct) : b.struct[i] \in Tokens
  BY <1>2
<1>4. \A i \in 1 .. Len(b.struct) : Words(b.struct[i]) \in Nat
  BY <1>1, <1>3
<1> QED BY <1>3, <1>4, SizeIs

\* A property's value is a sequence of cells, read either way.
LEMMA ValuesAre ==
  ASSUME NEW b, Sane(b), NEW node, FirstNode(b, node) # 0
  PROVE  \A n \in DOMAIN NodeProps(b, node) : NodeProps(b, node)[n] \in Seq(Int)
BY NodePropsAre DEF Sane

\* A token of a command line is anything but padding.
Word == Int \ {Blank}

\* A value without its padding.
LEMMA ArgsOfIs ==
  ASSUME NEW v \in Seq(Int)
  PROVE  ArgsOf(v) \in Seq(Word)
<1> DEFINE kept == {i \in DOMAIN v : v[i] # Blank}
           line == Picked(v, kept)
<1>1. line \in Seq(Int) /\ \E from \in [1 .. Len(line) -> DOMAIN v] :
                              PickedFrom(from, line, v, kept)
  <2>1. kept \in SUBSET (DOMAIN v)
    OBVIOUS
  <2> HIDE DEF kept
  <2> QED BY <2>1, PickedIs
<1>2. PICK from \in [1 .. Len(line) -> DOMAIN v] : PickedFrom(from, line, v, kept)
  BY <1>1
<1> HIDE DEF line
<1>3. \A i \in 1 .. Len(line) : line[i] \in Word
  <2> TAKE i \in 1 .. Len(line)
  <2>1. from[i] \in kept /\ line[i] = v[from[i]]
    BY <1>2 DEF PickedFrom
  <2>2. line[i] \in Int
    BY <1>1
  <2> QED BY <2>1, <2>2 DEF Word
<1>4. Len(line) \in Nat /\ line = [i \in 1 .. Len(line) |-> line[i]]
  BY <1>1
<1>5. line \in Seq(Word)
  <2>1. line \in [1 .. Len(line) -> Word]
    BY <1>3, <1>4, Zenon
  <2> QED BY <1>4, <2>1
<1> QED BY <1>5 DEF ArgsOf, line

\* rewrite_root makes a command line of a command line.
LEMMA RewriteRootIs ==
  ASSUME NEW args \in Seq(Word)
  PROVE  RewriteRoot(args, Want) \in Seq(Word)
<1> DEFINE kept == Picked(args, {i \in DOMAIN args : args[i] \notin Want.drop})
           set(t) == IF IsRoot(t) THEN RootTok(Want.root)
                     ELSE IF IsType(t) THEN TypeTok(Want.type) ELSE t
           line == [i \in DOMAIN kept |-> set(kept[i])]
           rooted == IF \E i \in DOMAIN line : IsRoot(line[i])
                     THEN line ELSE Append(line, RootTok(Want.root))
<1>1. kept \in Seq(Word)
  <2> DEFINE places == {i \in DOMAIN args : args[i] \notin Want.drop}
  <2>1. places \in SUBSET (DOMAIN args)
    OBVIOUS
  <2> HIDE DEF places
  <2>2. Picked(args, places) \in Seq(Word)
    BY <2>1, PickedIs, Zenon
  <2> QED BY <2>2 DEF places
<1>2. RootTok(Want.root) \in Word /\ TypeTok(Want.type) \in Word
  <2>1. Want.root \in 0 .. 9 /\ Want.type \in 0 .. 9
    BY WantAssumption
  <2>2. \A i \in 0 .. 9 : 200 + i \in Word /\ 210 + i \in Word
    BY DEF Word, Blank
  <2> QED BY <2>1, <2>2 DEF RootTok, TypeTok
<1>3. Want.append \in Seq(Word)
  BY WantAssumption DEF Word
<1> HIDE DEF kept
<1>4. \A i \in 1 .. Len(kept) : set(kept[i]) \in Word
  BY <1>1, <1>2
<1> HIDE DEF set
<1>5. line \in Seq(Word)
  <2>1. Len(kept) \in Nat /\ DOMAIN kept = 1 .. Len(kept)
    BY <1>1
  <2>2. line \in [1 .. Len(kept) -> Word]
    BY <1>4, <2>1, Zenon
  <2> HIDE DEF line
  <2> QED BY <2>1, <2>2
<1> HIDE DEF line
<1>6. rooted \in Seq(Word)
  BY <1>2, <1>5
<1> HIDE DEF rooted
<1>7. rooted \o Want.append \in Seq(Word)
  BY <1>3, <1>6
<1> QED BY <1>7 DEF RewriteRoot, rooted, line, set, kept

\* set_bootargs, with the line the tools give it.
LEMMA SetBootargsIs ==
  ASSUME NEW b, Sane(b), FindProp(b, <<"chosen">>, "bootargs") # 0
  PROVE  Kept(SetBootargs(b, RewriteRoot(Bootargs(b), Want)))
<1> DEFINE p == FindProp(b, <<"chosen">>, "bootargs")
           args == RewriteRoot(Bootargs(b), Want)
           room == Len(b.struct[p].val)
           v == IF Len(args) <= room THEN PadTo(args, room) ELSE args
           new == SetValue(b, p, v)
<1>1. p \in 1 .. Len(b.struct) /\ b.struct[p].tok = "prop" /\ b.struct[p].val \in Seq(Int)
  BY FindIs DEF Sane
<1>2. args \in Seq(Int)
  <2>1. Bootargs(b) \in Seq(Word)
    <3> HIDE DEF p
    <3> QED BY <1>1, ArgsOfIs DEF Bootargs, p
  <2>2. \A w \in Seq(Word) : w \in Seq(Int)
    BY DEF Word
  <2> QED BY <2>1, <2>2, RewriteRootIs
<1>3. v \in Seq(Int)
  <2>1. room \in Nat
    BY <1>1
  <2> HIDE DEF room, args
  <2>2. ASSUME Len(args) <= room PROVE PadTo(args, room) \in Seq(Int)
    <3>1. room - Len(args) \in Nat
      BY <1>2, <2>1, <2>2
    <3>2. [i \in 1 .. room - Len(args) |-> Blank] \in Seq(Int)
      BY <3>1 DEF Blank
    <3> QED BY <1>2, <3>2 DEF PadTo
  <2> QED BY <1>2, <2>2
<1> HIDE DEF p, v
<1>4. Sane(new)
  BY <1>1, <1>3, SetValueIs
<1>5. SetBootargs(b, args) \in {Refused, new}
  BY DEF SetBootargs, p, v
<1> QED BY <1>4, <1>5 DEF Kept

\* What set_sd_uhs adds.
UhsProps == [i \in DOMAIN UHS_FLAGS |-> <<UHS_FLAGS[i], <<>>>>]
            \o <<<<"desired-num-phases", <<SD_TUNING_PHASES>>>>>>

\* Each of the three once.
LEMMA UhsPropsAre ==
  /\ UhsProps \in Additions /\ Once(UhsProps)
  /\ \A i \in 1 .. Len(UhsProps) :
       UhsProps[i] \in {<<"sd-uhs-sdr50", <<>>>>, <<"sd-uhs-sdr104", <<>>>>,
                       <<"desired-num-phases", <<SD_TUNING_PHASES>>>>}
<1> DEFINE props == UhsProps
           V == STRING \X Seq(Int)
<1>1. /\ <<"sd-uhs-sdr50", <<>>>> \in V /\ <<"sd-uhs-sdr104", <<>>>> \in V
      /\ <<"desired-num-phases", <<SD_TUNING_PHASES>>>> \in V
  BY NamesAssumption, AdditionIs DEF SD_TUNING_PHASES
<1> DEFINE flags == [i \in DOMAIN UHS_FLAGS |-> <<UHS_FLAGS[i], <<>>>>]
           phases == <<"desired-num-phases", <<SD_TUNING_PHASES>>>>
<1>2. flags \in Seq(V) /\ Len(flags) = 2
      /\ flags[1] = <<"sd-uhs-sdr50", <<>>>> /\ flags[2] = <<"sd-uhs-sdr104", <<>>>>
  <2>1. DOMAIN UHS_FLAGS = 1 .. 2 /\ UHS_FLAGS[1] = "sd-uhs-sdr50"
        /\ UHS_FLAGS[2] = "sd-uhs-sdr104"
    BY DEF UHS_FLAGS
  <2>2. DOMAIN flags = 1 .. 2 /\ flags[1] = <<"sd-uhs-sdr50", <<>>>>
        /\ flags[2] = <<"sd-uhs-sdr104", <<>>>> /\ flags = [i \in 1 .. 2 |-> flags[i]]
    BY <2>1
  <2> HIDE DEF flags, V
  <2>3. \A i \in 1 .. 2 : flags[i] \in V
    BY <1>1, <2>2
  <2>4. flags \in [1 .. 2 -> V]
    BY <2>2, <2>3
  <2> QED BY <2>2, <2>4
<1>3. /\ props \in Additions /\ Once(props)
      /\ \A i \in 1 .. Len(props) :
           props[i] \in {<<"sd-uhs-sdr50", <<>>>>, <<"sd-uhs-sdr104", <<>>>>, phases}
  <2>1. phases \in V /\ phases[1] = "desired-num-phases"
    BY <1>1
  <2> HIDE DEF flags, phases, V
  <2>2. flags \o <<phases>> \in Seq(V) /\ Len(flags \o <<phases>>) = 3
        /\ \A i \in 1 .. 3 : (flags \o <<phases>>)[i] = IF i = 3 THEN phases ELSE flags[i]
    <3>1. <<phases>> \in Seq(V) /\ Len(<<phases>>) = 1 /\ <<phases>>[1] = phases
      BY <2>1
    <3> DEFINE one == <<phases>>
    <3> HIDE DEF one
    <3>2. flags \o one \in Seq(V)
      BY <1>2, <3>1 DEF one
    <3>3. Len(flags \o one) = 3
      <4>1. Len(flags \o one) = Len(flags) + Len(one)
        BY <1>2, <3>1, ConcatProperties DEF one
      <4> QED BY <1>2, <3>1, <4>1 DEF one
    <3>4. \A i \in 1 .. 3 : (flags \o one)[i] = IF i = 3 THEN one[1] ELSE flags[i]
      <4>1. flags \in Seq(V) /\ one \in Seq(V) /\ Len(flags) = 2 /\ Len(one) = 1
        BY <1>2, <3>1 DEF one
      <4>2. \A i \in 1 .. Len(flags) + Len(one) :
              (flags \o one)[i] = IF i <= Len(flags) THEN flags[i] ELSE one[i - Len(flags)]
        BY <4>1, ConcatProperties
      <4>3. \A i \in 1 .. 3 :
              (flags \o one)[i] = IF i <= 2 THEN flags[i] ELSE one[i - 2]
        <5>1. Len(flags) = 2 /\ Len(one) = 1
          BY <4>1
        <5>2. \A i \in 1 .. 2 + 1 :
                (flags \o one)[i] = IF i <= 2 THEN flags[i] ELSE one[i - 2]
          BY <4>2, <5>1, Zenon
        <5>3. 2 + 1 = 3
          OBVIOUS
        <5> QED BY <5>2, <5>3, Zenon
      <4>4. \A i \in 1 .. 3 : (i <= 2 <=> i # 3) /\ (i = 3 => i - 2 = 1)
        OBVIOUS
      <4> QED BY <4>3, <4>4, Zenon
    <3> QED BY <3>1, <3>2, <3>3, <3>4 DEF one
  <2>3. props = flags \o <<phases>>
    BY DEF flags, phases, UhsProps
  <2> HIDE DEF props
  <2>4. props[1][1] = "sd-uhs-sdr50" /\ props[2][1] = "sd-uhs-sdr104"
        /\ props[3][1] = "desired-num-phases"
    BY <1>2, <2>1, <2>2, <2>3
  <2>5. Once(props)
    <3>1. Len(props) = 3
      BY <2>2, <2>3
    <3>2. \A i \in 1 .. 3 : i = 1 \/ i = 2 \/ i = 3
      OBVIOUS
    <3> QED BY <2>4, <3>1, <3>2 DEF Once
  <2>6. \A i \in 1 .. Len(props) :
          props[i] \in {<<"sd-uhs-sdr50", <<>>>>, <<"sd-uhs-sdr104", <<>>>>, phases}
    <3>1. \A i \in 1 .. 3 : i = 1 \/ i = 2 \/ i = 3
      OBVIOUS
    <3> QED BY <1>2, <2>2, <2>3, <3>1
  <2> QED BY <2>2, <2>3, <2>5, <2>6 DEF Additions, V
<1> QED BY <1>3 DEF phases

\* set_sd_uhs.
LEMMA SetSdUhsIs ==
  ASSUME NEW b, Sane(b)
  PROVE  Kept(SetSdUhs(b))
<1>1. Kept(AddProps(b, <<SD_SLOT0_NODE>>, UhsProps))
  BY UhsPropsAre, AddPropsIs
<1> QED BY <1>1 DEF SetSdUhs, Kept, UhsProps

\* detach_sd_slot1_vqmmc.
LEMMA DetachSlot1Is ==
  ASSUME NEW b, Sane(b)
  PROVE  Kept(DetachSlot1(b))
BY NopPropIs DEF DetachSlot1, Kept

\* disable_wifi_ohci.
LEMMA DisableWifiOhciIs ==
  ASSUME NEW b, Sane(b)
  PROVE  Kept(DisableWifiOhci(b))
<1>1. Disabled \in Seq(Int) /\ "status" \in STRING
  BY NamesAssumption DEF Disabled
<1>2. Kept(Replace(b, <<WIFI_OHCI_NODE>>, "status", Disabled))
  BY <1>1, ReplaceIs
<1> QED BY <1>2 DEF DisableWifiOhci, Kept

\* drop_dmc_touchboost: the pairs that are left are a value.
LEMMA WithoutBoostIs ==
  ASSUME NEW v \in Seq(Int)
  PROVE  WithoutBoost(v) \in Seq(Int)
<1> DEFINE kept == {i \in DOMAIN Pairs(v) : Pairs(v)[i][1] # SYS_STATUS_BOOST}
           V == Seq(Int)
<1>1. Pairs(v) \in Seq(V)
  <2>1. Len(v) \div 2 \in Nat /\ 2 * (Len(v) \div 2) <= Len(v)
    BY Z3
  <2>2. \A i \in 1 .. Len(v) \div 2 : 2 * i - 1 \in 1 .. Len(v) /\ 2 * i \in 1 .. Len(v)
    BY <2>1
  <2>3. \A i \in 1 .. Len(v) \div 2 : <<v[2 * i - 1], v[2 * i]>> \in V
    BY <2>2
  <2> DEFINE m == Len(v) \div 2
             pair(i) == <<v[2 * i - 1], v[2 * i]>>
  <2>4. Pairs(v) = [i \in 1 .. m |-> pair(i)]
    BY DEF Pairs
  <2>5. m \in Nat /\ \A i \in 1 .. m : pair(i) \in V
    BY <2>1, <2>3
  <2> HIDE DEF V, m, pair
  <2> QED BY <2>4, <2>5
<1>2. Picked(Pairs(v), kept) \in Seq(V)
  <2>1. kept \in SUBSET (DOMAIN Pairs(v))
    OBVIOUS
  <2> HIDE DEF kept, V
  <2> QED BY <1>1, <2>1, PickedIs
<1> QED BY <1>2, FlattenIs DEF WithoutBoost

\* drop_dmc_touchboost.
LEMMA DropTouchboostIs ==
  ASSUME NEW b, Sane(b)
  PROVE  Kept(DropTouchboost(b))
<1> DEFINE props == NodeProps(b, <<"dmc">>)
           new == WithoutBoost(props["system-status-level"])
<1> SUFFICES ASSUME FirstNode(b, <<"dmc">>) # 0, Has(props, "system-status-level")
             PROVE  Kept(Replace(b, <<"dmc">>, "system-status-level", new))
  BY DEF DropTouchboost, Kept
<1>1. props["system-status-level"] \in Seq(Int)
  BY ValuesAre DEF Has
<1>2. new \in Seq(Int)
  BY <1>1, WithoutBoostIs
<1> HIDE DEF new
<1>3. "system-status-level" \in STRING
  BY NamesAssumption
<1> QED BY <1>2, <1>3, ReplaceIs

\* What add_optee_reservation adds.
OpteeProps == <<<<"reg", OPTEE_REG>>, <<"no-map", <<>>>>>>

\* Both of them once.
LEMMA OpteePropsAre ==
  /\ OpteeProps \in Additions /\ Once(OpteeProps)
  /\ \A i \in 1 .. Len(OpteeProps) :
       OpteeProps[i] \in {<<"reg", OPTEE_REG>>, <<"no-map", <<>>>>}
<1> DEFINE V == STRING \X Seq(Int)
           x == <<"reg", OPTEE_REG>>
           y == <<"no-map", <<>>>>
           props == <<x, y>>
<1>1. x \in V /\ y \in V /\ x[1] # y[1]
  <2>1. "reg" \in STRING /\ "no-map" \in STRING
    BY NamesAssumption
  <2>2. OPTEE_REG \in Seq(Int)
    BY DEF OPTEE_REG
  <2>3. \A w \in Seq(Int) : <<"reg", w>> \in V
    BY <2>1
  <2> QED BY <2>1, <2>2, <2>3, AdditionIs
<1>2. OpteeProps = props
  BY DEF OpteeProps
<1> HIDE DEF x, y, V
<1>3. props \in Seq(V) /\ Len(props) = 2 /\ props[1] = x /\ props[2] = y
  BY <1>1
<1> HIDE DEF props
<1>4. \A i \in 1 .. 2 : i = 1 \/ i = 2
  OBVIOUS
<1>5. Once(props) /\ \A i \in 1 .. Len(props) : props[i] \in {x, y}
  BY <1>1, <1>3, <1>4 DEF Once
<1> QED BY <1>2, <1>3, <1>5 DEF Additions, V, x, y

\* add_optee_reservation.
LEMMA ReserveOpteeIs ==
  ASSUME NEW b, Sane(b)
  PROVE  Kept(ReserveOptee(b))
<1>1. OPTEE_NODE \in STRING
  BY NamesAssumption
<1>2. Kept(AddSubnode(b, "reserved-memory", OPTEE_NODE, OpteeProps))
  BY <1>1, OpteePropsAre, AddSubnodeIs
<1> QED BY <1>2 DEF ReserveOptee, Kept, OpteeProps

\* What set_vop2_plane_masks adds, for one display.
LEMMA PlanePropsAre ==
  ASSUME NEW mask \in Int, NEW primary \in Int
  PROVE  /\ PlaneProps(mask, primary) \in Additions /\ Once(PlaneProps(mask, primary))
         /\ \A i \in 1 .. Len(PlaneProps(mask, primary)) :
              PlaneProps(mask, primary)[i]
                \in {<<"plane-mask", <<mask>>>>, <<"primary-plane", <<primary>>>>}
<1> DEFINE V == STRING \X Seq(Int)
           x == <<"plane-mask", <<mask>>>>
           y == <<"primary-plane", <<primary>>>>
           props == <<x, y>>
<1>1. x \in V /\ y \in V /\ x[1] # y[1]
  BY NamesAssumption, AdditionIs
<1>2. PlaneProps(mask, primary) = props
  BY DEF PlaneProps
<1> HIDE DEF x, y, V
<1>3. props \in Seq(V) /\ Len(props) = 2 /\ props[1] = x /\ props[2] = y
  BY <1>1
<1> HIDE DEF props
<1>4. \A i \in 1 .. 2 : i = 1 \/ i = 2
  OBVIOUS
<1>5. Once(props) /\ \A i \in 1 .. Len(props) : props[i] \in {x, y}
  BY <1>1, <1>3, <1>4 DEF Once
<1> QED BY <1>2, <1>3, <1>5 DEF Additions, V, x, y

\* set_vop2_plane_masks, one display and both.
LEMMA AssignPlanesIs ==
  ASSUME NEW b, Kept(b), NEW encoder, NEW mask \in Int, NEW primary \in Int, NEW taken
  PROVE  Kept(AssignPlanes(b, encoder, mask, primary, taken))
<1> DEFINE props == PlaneProps(mask, primary)
           node == PortNode(CHOOSE q \in VopPorts(b, encoder) : TRUE)
<1>1. props \in Additions /\ Once(props)
  BY PlanePropsAre
<1> HIDE DEF props
<1>2. b # Refused => Kept(AddProps(b, node, props))
  BY <1>1, AddPropsIs DEF Kept
<1>3. b = Refused => AssignPlanes(b, encoder, mask, primary, taken) = Refused
  BY DEF AssignPlanes
<1>4. AssignPlanes(b, encoder, mask, primary, taken) \in {Refused, AddProps(b, node, props)}
  BY DEF AssignPlanes, props
<1> QED BY <1>2, <1>3, <1>4 DEF Kept

\* A mask of windows is a number.
LEMMA MaskIs ==
  ASSUME NEW windows
  PROVE  Mask(windows) \in Int
<1>1. \A i \in 0 .. 5 : (IF i \in windows THEN 2 ^ i ELSE 0) \in Int
  OBVIOUS
<1> QED BY <1>1 DEF Mask

\* set_vop2_plane_masks, both displays.
LEMMA SetPlaneMasksIs ==
  ASSUME NEW b, Sane(b)
  PROVE  Kept(SetPlaneMasks(b))
<1> DEFINE dsi == AssignPlanes(b, DSI, Mask(PANEL_WINDOWS), PANEL_PRIMARY, {})
<1>1. Kept(dsi)
  BY MaskIs, AssignPlanesIs DEF Kept, PANEL_PRIMARY
<1> HIDE DEF dsi
<1>2. Kept(AssignPlanes(dsi, HDMI, Mask(HDMI_WINDOWS), HDMI_PRIMARY, VopPorts(b, DSI)))
  BY <1>1, MaskIs, AssignPlanesIs DEF HDMI_PRIMARY
<1> QED BY <1>2 DEF SetPlaneMasks, Kept, dsi

\* A value put over another of its width moves no property.
LEMMA PutPanelIs ==
  ASSUME NEW b, Sane(b), NEW prop, FindProp(b, PANEL_NODE, prop) # 0, NEW v \in Seq(Int)
  PROVE  /\ Sane(PutPanel(b, prop, v))
         /\ \A other : FindProp(PutPanel(b, prop, v), PANEL_NODE, other)
                         = FindProp(b, PANEL_NODE, other)
<1> DEFINE p == FindProp(b, PANEL_NODE, prop)
           new == SetValue(b, p, v)
<1>1. p \in 1 .. Len(b.struct) /\ b.struct[p].tok = "prop"
  BY FindIs DEF Sane
<1>2. PutPanel(b, prop, v) = new
  BY DEF PutPanel
<1> HIDE DEF p
<1>3. /\ Sane(new) /\ Len(new.struct) = Len(b.struct) /\ new.strings = b.strings
      /\ Paths(new.struct) = Paths(b.struct)
      /\ \A q \in 1 .. Len(b.struct) :
           /\ new.struct[q].tok = b.struct[q].tok
           /\ b.struct[q].tok = "prop" => new.struct[q].at = b.struct[q].at
  BY <1>1, SetValueIs
<1> HIDE DEF new
<1>4. PropsAt(new) = {q \in 1 .. Len(new.struct) : new.struct[q].tok = "prop"}
      /\ PropsAt(b) = {q \in 1 .. Len(b.struct) : b.struct[q].tok = "prop"}
  BY <1>3, BlobIs DEF Sane
<1>5. PropsAt(new) = PropsAt(b)
  BY <1>3, <1>4
<1>6. \A q \in PropsAt(b) : NameAt(new, q) = NameAt(b, q)
  BY <1>3, <1>4 DEF NameAt
<1>7. ASSUME NEW other PROVE FindProp(new, PANEL_NODE, other) = FindProp(b, PANEL_NODE, other)
  <2> DEFINE found(t) == {q \in PropsAt(t) : NameAt(t, q) = other
                                              /\ Is(Paths(t.struct)[q], PANEL_NODE)}
  <2>1. found(new) = found(b)
    BY <1>3, <1>5, <1>6
  <2>2. \A t : FindProp(t, PANEL_NODE, other) = IF found(t) = {} THEN 0 ELSE Min(found(t))
    BY DEF FindProp
  <2> HIDE DEF found
  <2> QED BY <2>1, <2>2
<1> QED BY <1>2, <1>3, <1>7

\* set_panel_delays.
LEMMA SetPanelDelaysIs ==
  ASSUME NEW b, Sane(b)
  PROVE  Kept(SetPanelDelays(b))
<1> DEFINE at(prop) == FindProp(b, PANEL_NODE, prop)
           put(t, i) == PutPanel(t, PANEL_DELAYS[i][1], <<PANEL_DELAYS[i][3]>>)
           opening == b.struct[at("panel-init-sequence")].val
           v == <<PANEL_SLEEP_OUT[2]>> \o Tail(opening)
           new == PutPanel(put(put(put(b, 1), 2), 3), "panel-init-sequence", v)
<1> SUFFICES ASSUME \A i \in DOMAIN PANEL_DELAYS : at(PANEL_DELAYS[i][1]) # 0,
                    at("panel-init-sequence") # 0, opening # <<>>
             PROVE  Sane(new)
  BY DEF SetPanelDelays, Kept
<1>1. DOMAIN PANEL_DELAYS = 1 .. 3 /\ \A i \in 1 .. 3 : <<PANEL_DELAYS[i][3]>> \in Seq(Int)
  BY DEF PANEL_DELAYS
<1>2. v \in Seq(Int)
  <2>1. opening \in Seq(Int)
    BY FindIs DEF Sane
  <2> HIDE DEF opening
  <2>2. Tail(opening) \in Seq(Int) /\ PANEL_SLEEP_OUT[2] \in Int
    BY <2>1 DEF PANEL_SLEEP_OUT
  <2> QED BY <2>2
<1> DEFINE Like(t) == Sane(t) /\ \A other : FindProp(t, PANEL_NODE, other) = at(other)
<1> HIDE DEF v
<1>3. ASSUME NEW t, Like(t), NEW i \in 1 .. 3 PROVE Like(put(t, i))
  <2>1. FindProp(t, PANEL_NODE, PANEL_DELAYS[i][1]) # 0
    BY <1>1, <1>3
  <2>2. <<PANEL_DELAYS[i][3]>> \in Seq(Int) /\ Sane(t)
    BY <1>1, <1>3
  <2>3. /\ Sane(put(t, i))
        /\ \A other : FindProp(put(t, i), PANEL_NODE, other) = FindProp(t, PANEL_NODE, other)
    BY <2>1, <2>2, PutPanelIs, Zenon
  <2> HIDE DEF put
  <2> QED BY <1>3, <2>3
<1>4. Like(b)
  OBVIOUS
<1> HIDE DEF Like, put
<1>5. Like(put(put(put(b, 1), 2), 3))
  BY <1>3, <1>4
<1>6. Sane(put(put(put(b, 1), 2), 3))
      /\ FindProp(put(put(put(b, 1), 2), 3), PANEL_NODE, "panel-init-sequence") # 0
  BY <1>5 DEF Like
<1> QED BY <1>2, <1>6, PutPanelIs

\* Every edit, on a tree that has what it starts from.
LEMMA EditedIs ==
  ASSUME NEW b, Sane(b),
         NEW e \in {"bootargs", "uhs", "slot1", "ohci", "boost", "optee", "planes", "panel"},
         e = "bootargs" => FindProp(b, <<"chosen">>, "bootargs") # 0
  PROVE  Kept(Edited(e, b))
<1>1. CASE e = "bootargs"
  BY <1>1, SetBootargsIs DEF Edited
<1>2. CASE e = "uhs"
  BY <1>2, SetSdUhsIs DEF Edited
<1>3. CASE e = "slot1"
  BY <1>3, DetachSlot1Is DEF Edited
<1>4. CASE e = "ohci"
  BY <1>4, DisableWifiOhciIs DEF Edited
<1>5. CASE e = "boost"
  BY <1>5, DropTouchboostIs DEF Edited
<1>6. CASE e = "optee"
  BY <1>6, ReserveOpteeIs DEF Edited
<1>7. CASE e = "planes"
  BY <1>7, SetPlaneMasksIs DEF Edited
<1>8. CASE e = "panel"
  BY <1>8, SetPanelDelaysIs DEF Edited
<1> QED BY <1>1, <1>2, <1>3, <1>4, <1>5, <1>6, <1>7, <1>8

-----------------------------------------------------------------------------
(***************************************************************************)
(* U-Boot's FIT, whose tree is made of nodes.                              *)
(***************************************************************************)
\* The tokens nodes are made of: names and values of these sets.
Items(names, cells) ==
  [tok : {"begin"}, name : names] \cup [tok : {"end"}]
  \cup [tok : {"prop"}, at : names, val : Seq(cells)]

\* Each kind of item is one of its own.
LEMMA ItemsAre ==
  ASSUME NEW names, NEW cells
  PROVE  /\ \A n \in names : Begin(n) \in Items(names, cells)
         /\ \A n \in names, v \in Seq(cells) : Prop(n, v) \in Items(names, cells)
         /\ EndNode \in Items(names, cells)
         /\ \A t \in Items(names, cells) :
              /\ t.tok \in {"begin", "end", "prop"}
              /\ t.tok = "prop" => t.val \in Seq(cells)
<1>1. \A n \in names : Begin(n) \in Items(names, cells)
  BY DEF Items, Begin
<1>2. \A n \in names, v \in Seq(cells) : Prop(n, v) \in Items(names, cells)
  BY DEF Items, Prop
<1>3. EndNode \in Items(names, cells)
  BY DEF Items, EndNode
<1>4. ASSUME NEW t \in Items(names, cells)
      PROVE  t.tok \in {"begin", "end", "prop"} /\ (t.tok = "prop" => t.val \in Seq(cells))
  <2>1. CASE t \in [tok : {"begin"}, name : names]
    BY <2>1
  <2>2. CASE t \in [tok : {"end"}]
    BY <2>2
  <2>3. CASE t \in [tok : {"prop"}, at : names, val : Seq(cells)]
    BY <2>3
  <2> QED BY <2>1, <2>2, <2>3 DEF Items
<1> QED BY <1>1, <1>2, <1>3, <1>4

\* A node is its own tokens and those of its children.
LEMMA NodeIs ==
  ASSUME NEW names, NEW cells, NEW name \in names, NEW props \in Seq(Items(names, cells)),
         NEW children \in Seq(Seq(Items(names, cells)))
  PROVE  Node(name, props, children) \in Seq(Items(names, cells))
<1> DEFINE V == Items(names, cells)
<1>1. Begin(name) \in V /\ EndNode \in V
  BY ItemsAre
<1> HIDE DEF V
<1>2. <<Begin(name)>> \in Seq(V) /\ <<EndNode>> \in Seq(V)
  BY <1>1
<1>3. props \in Seq(V) /\ children \in Seq(Seq(V))
  BY DEF V
<1>4. FlattenSeq(children) \in Seq(V)
  BY <1>3, FlattenIs
<1>5. \A a, b, c, d \in Seq(V) : a \o b \o c \o d \in Seq(V)
  OBVIOUS
<1>6. Node(name, props, children) \in Seq(V)
  BY <1>2, <1>3, <1>4, <1>5, Zenon DEF Node
<1> QED BY <1>6 DEF V

\* build_fdt makes a tree that has a length.
LEMMA SerialiseIs ==
  ASSUME NEW names, NEW cells, NEW items \in Seq(Items(names, cells))
  PROVE  Size(Serialise(items)) \in Nat
<1> DEFINE prop(i) == items[i].tok = "prop"
           first == {i \in DOMAIN items :
                       prop(i) /\ \A j \in 1 .. i - 1 : prop(j) => items[j].at # items[i].at}
           named == Picked(items, first)
           strings == [i \in DOMAIN named |-> named[i].at]
           token(t) == IF t.tok = "prop" THEN Prop(OffsetIn(strings, t.at), t.val) ELSE t
           b == [struct |-> [i \in DOMAIN items |-> token(items[i])], strings |-> strings]
           V == Items(names, cells)
<1>1. Serialise(items) = b
  BY DEF Serialise
<1>2. named \in Seq(V)
  <2>1. first \in SUBSET (DOMAIN items)
    OBVIOUS
  <2> HIDE DEF first
  <2>2. items \in Seq(V)
    OBVIOUS
  <2> HIDE DEF V
  <2> QED BY <2>1, <2>2, PickedIs
<1>3. Len(named) \in Nat /\ DOMAIN named = 1 .. Len(named)
  <2> HIDE DEF named, V
  <2> QED BY <1>2
<1> HIDE DEF named
<1>4. Len(strings) \in Nat
  <2>1. DOMAIN strings = 1 .. Len(named)
    BY <1>3
  <2> HIDE DEF strings
  <2> QED BY <1>3, <2>1
<1> HIDE DEF strings
<1>5. Len(items) \in Nat /\ DOMAIN items = 1 .. Len(items)
      /\ \A i \in 1 .. Len(items) : items[i] \in V
  OBVIOUS
<1>6. ASSUME NEW t \in V PROVE Words(token(t)) \in Nat
  <2>1. t.tok \in {"begin", "end", "prop"} /\ (t.tok = "prop" => t.val \in Seq(cells))
    BY ItemsAre
  <2>2. CASE t.tok = "prop"
    <3>1. token(t) = [tok |-> "prop", at |-> OffsetIn(strings, t.at), val |-> t.val]
      BY <2>2 DEF Prop
    <3>2. token(t).tok = "prop" /\ token(t).val = t.val
      BY <3>1
    <3>3. Words(token(t)) = 3 + Len(t.val)
      BY <3>2 DEF Words
    <3>4. Len(t.val) \in Nat
      BY <2>1, <2>2
    <3> QED BY <3>3, <3>4
  <2>3. CASE t.tok # "prop"
    <3>1. token(t) = t
      BY <2>3
    <3> QED BY <2>3, <3>1 DEF Words
  <2> QED BY <2>2, <2>3
<1> HIDE DEF token
<1>7. DOMAIN b.struct = 1 .. Len(items) /\ b.strings = strings
      /\ \A i \in 1 .. Len(items) : b.struct[i] = token(items[i])
  BY <1>5
<1> HIDE DEF b, V
<1>8. Len(b.struct) = Len(items)
  BY <1>5, <1>7
<1>9. \A i \in 1 .. Len(b.struct) : Words(b.struct[i]) \in Nat
  BY <1>5, <1>6, <1>7, <1>8
<1>10. Size(b) \in Nat
  BY <1>4, <1>5, <1>7, <1>8, <1>9, SizeIs
<1> QED BY <1>1, <1>10

Payloads == [name : STRING, len : Nat, data : STRING, type : STRING, load : STRING]

\* Whatever positions it names, the FIT's tree has a length.
LEMMA FitTreeIs ==
  ASSUME NEW vendor \in Vendors, NEW images \in Seq(Payloads),
         NEW positions \in [1 .. Len(images) -> Nat], NEW total \in Nat
  PROVE  Size(FitTree(vendor, images, positions, total)) \in Nat
<1> DEFINE names == STRING \cup {"/", "images", "configurations", "conf", "hash", "value",
                                 "totalsize", "data-size", "data-position", "type", "load",
                                 "default", "firmware", "loadables", "fdt"}
           cells == Nat \cup STRING \cup {"conf"}
           V == Items(names, cells)
<1>1. \A n \in names, c \in cells : Prop(n, <<c>>) \in V
  <2>1. \A c \in cells : <<c>> \in Seq(cells)
    OBVIOUS
  <2> QED BY <2>1, ItemsAre, Zenon
<1>2. \A n \in names, c \in Seq(cells) : Prop(n, c) \in V
  BY ItemsAre, Zenon
<1>3. \A n \in names, p \in Seq(V), c \in Seq(Seq(V)) : Node(n, p, c) \in Seq(V)
  BY NodeIs, Zenon
<1>4. /\ \A n \in STRING : n \in names /\ n \in cells
      /\ \A i \in Nat : i \in cells
      /\ "conf" \in cells
      /\ \A n \in {"/", "images", "configurations", "conf", "hash", "value",
                   "totalsize", "data-size", "data-position", "type", "load",
                   "default", "firmware", "loadables", "fdt"} : n \in names
  OBVIOUS
<1>5. vendor.firmware \in STRING /\ vendor.fdt \in STRING /\ vendor.loadables \in Seq(STRING)
  BY DEF Vendors
<1>6. vendor.loadables \in Seq(cells)
  BY <1>5
<1> HIDE DEF V, names, cells
<1>7. ASSUME NEW i \in 1 .. Len(images) PROVE ImageNode(images[i], positions[i]) \in Seq(V)
  <2> DEFINE img == images[i]
             carry == [j \in DOMAIN CARRY_PROPS |-> Prop(CARRY_PROPS[j], <<img[CARRY_PROPS[j]]>>)]
             lens == <<Prop("data-size", <<img.len>>), Prop("data-position", <<positions[i]>>)>>
  <2>1. img \in Payloads
    OBVIOUS
  <2>2. img.name \in STRING /\ img.len \in Nat /\ img.data \in STRING
        /\ img["type"] \in STRING /\ img["load"] \in STRING
    BY <2>1 DEF Payloads
  <2> HIDE DEF img
  <2>3. positions[i] \in Nat
    OBVIOUS
  <2>4. lens \in Seq(V)
    <3>1. Prop("data-size", <<img.len>>) \in V /\ Prop("data-position", <<positions[i]>>) \in V
      BY <1>1, <1>4, <2>2, <2>3
    <3> QED BY <3>1
  <2>5. carry \in Seq(V)
    <3>1. DOMAIN CARRY_PROPS = 1 .. 2 /\ CARRY_PROPS[1] = "type" /\ CARRY_PROPS[2] = "load"
      BY DEF CARRY_PROPS
    <3>2. Prop("type", <<img["type"]>>) \in V /\ Prop("load", <<img["load"]>>) \in V
      BY <1>1, <1>4, <2>2
    <3>3. \A j \in 1 .. 2 : Prop(CARRY_PROPS[j], <<img[CARRY_PROPS[j]]>>) \in V
      BY <3>1, <3>2
    <3>4. carry \in [1 .. 2 -> V]
      BY <3>1, <3>3
    <3> HIDE DEF carry
    <3>5. 2 \in Nat
      OBVIOUS
    <3>6. \A n \in Nat : \A f \in [1 .. n -> V] : f \in Seq(V)
      OBVIOUS
    <3> QED BY <3>4, <3>5, <3>6, Zenon
  <2>6. <<Node("hash", <<Prop("value", <<img.data>>)>>, <<>>)>> \in Seq(Seq(V))
    <3>1. <<Prop("value", <<img.data>>)>> \in Seq(V) /\ <<>> \in Seq(Seq(V))
      <4>1. Prop("value", <<img.data>>) \in V
        BY <1>1, <1>4, <2>2
      <4> QED BY <4>1
    <3>2. Node("hash", <<Prop("value", <<img.data>>)>>, <<>>) \in Seq(V)
      BY <1>3, <1>4, <3>1
    <3> QED BY <3>2
  <2> HIDE DEF lens, carry
  <2>7. lens \o carry \in Seq(V)
    BY <2>4, <2>5
  <2>8. img.name \in names
    BY <1>4, <2>2
  <2>9. Node(img.name, lens \o carry, <<Node("hash", <<Prop("value", <<img.data>>)>>, <<>>)>>)
          \in Seq(V)
    BY <1>3, <2>6, <2>7, <2>8
  <2> QED BY <2>9 DEF ImageNode, lens, carry, img
<1> DEFINE nodes == [i \in DOMAIN images |-> ImageNode(images[i], positions[i])]
           fdt == IF vendor.fdt = "" THEN <<>> ELSE <<Prop("fdt", <<vendor.fdt>>)>>
           conf == Node("conf", <<Prop("firmware", <<vendor.firmware>>),
                                  Prop("loadables", vendor.loadables)>> \o fdt, <<>>)
           all == Node("/", <<Prop("totalsize", <<total>>)>>,
                       <<Node("images", <<>>, nodes),
                         Node("configurations", <<Prop("default", <<"conf">>)>>, <<conf>>)>>)
<1>8. nodes \in Seq(Seq(V))
  <2>1. Len(images) \in Nat /\ DOMAIN images = 1 .. Len(images)
    OBVIOUS
  <2>2. nodes \in [1 .. Len(images) -> Seq(V)]
    BY <1>7, <2>1, Zenon
  <2> HIDE DEF nodes
  <2> QED BY <2>1, <2>2
<1>9. conf \in Seq(V)
  <2>1. Prop("firmware", <<vendor.firmware>>) \in V /\ Prop("loadables", vendor.loadables) \in V
        /\ Prop("fdt", <<vendor.fdt>>) \in V
    BY <1>1, <1>2, <1>4, <1>5, <1>6
  <2>2. fdt \in Seq(V)
    <3>1. \A v \in V : <<v>> \in Seq(V)
      OBVIOUS
    <3>2. <<>> \in Seq(V)
      OBVIOUS
    <3> QED BY <2>1, <3>1, <3>2, Zenon
  <2> HIDE DEF fdt
  <2>3. <<Prop("firmware", <<vendor.firmware>>), Prop("loadables", vendor.loadables)>>
          \in Seq(V) /\ <<>> \in Seq(Seq(V))
    BY <2>1
  <2>4. <<Prop("firmware", <<vendor.firmware>>), Prop("loadables", vendor.loadables)>> \o fdt
          \in Seq(V)
    BY <2>2, <2>3
  <2> QED BY <1>3, <1>4, <2>3, <2>4
<1> HIDE DEF nodes, conf
<1>10. Node("images", <<>>, nodes) \in Seq(V)
  <2>1. <<>> \in Seq(V)
    OBVIOUS
  <2> QED BY <1>3, <1>4, <1>8, <2>1
<1>11. Node("configurations", <<Prop("default", <<"conf">>)>>, <<conf>>) \in Seq(V)
  <2>1. Prop("default", <<"conf">>) \in V
    BY <1>1, <1>4
  <2>2. <<Prop("default", <<"conf">>)>> \in Seq(V) /\ <<conf>> \in Seq(Seq(V))
    BY <1>9, <2>1
  <2> QED BY <1>3, <1>4, <2>2
<1>12. all \in Seq(V)
  <2>1. Prop("totalsize", <<total>>) \in V
    BY <1>1, <1>4
  <2>2. <<Prop("totalsize", <<total>>)>> \in Seq(V)
    BY <2>1
  <2>3. <<Node("images", <<>>, nodes),
          Node("configurations", <<Prop("default", <<"conf">>)>>, <<conf>>)>> \in Seq(Seq(V))
    BY <1>10, <1>11
  <2> QED BY <1>3, <1>4, <2>2, <2>3
<1>13. FitTree(vendor, images, positions, total) = Serialise(all)
  BY DEF FitTree, nodes, conf
<1> HIDE DEF all
<1> QED BY <1>12, <1>13, SerialiseIs DEF V

-----------------------------------------------------------------------------
\* The extents of U-Boot's FIT: behind its tree and in order.
LEMMA UbootFitIs ==
  ASSUME NEW vendor \in Vendors, NEW uboot \in Uboots, ~UbootFitRefused(vendor, uboot)
  PROVE  LET put == UbootFit(vendor, uboot).written
         IN Apart([i \in DOMAIN put |-> <<put[i].at, put[i].at + put[i].len>>],
                  Size(UbootFit(vendor, uboot).tree))
<1> DEFINE images == WithUboot(vendor, uboot)
           lens == [i \in DOMAIN images |-> images[i].len]
           offs == Offsets(lens, FIT_DATA_START, SECTOR)
           total == TotalLen(lens, FIT_DATA_START, SECTOR)
           put == [i \in DOMAIN images |->
                     [at |-> offs[i], len |-> images[i].len, data |-> images[i].data]]
           probe == Probe(vendor, images)
           size == Size(FitTree(vendor, images, offs, total))
<1>1. images \in Seq(Payloads)
  <2>1. vendor.images \in Seq(Payloads)
    BY DEF Vendors, Payloads
  <2>2. uboot.data \in STRING /\ uboot.len \in Nat /\ uboot.load \in STRING
    BY DEF Uboots
  <2>3. \A p \in Payloads :
          [p EXCEPT !.data = uboot.data, !.len = uboot.len, !.load = uboot.load] \in Payloads
    BY <2>2 DEF Payloads
  <2>4. Len(vendor.images) \in Nat /\ DOMAIN vendor.images = 1 .. Len(vendor.images)
        /\ \A i \in 1 .. Len(vendor.images) : vendor.images[i] \in Payloads
    BY <2>1
  <2>5. images \in [1 .. Len(vendor.images) -> Payloads]
    BY <2>3, <2>4 DEF WithUboot
  <2> HIDE DEF images
  <2> QED BY <2>4, <2>5
<1> HIDE DEF images
<1>2. Len(images) \in Nat /\ DOMAIN images = 1 .. Len(images)
      /\ \A i \in 1 .. Len(images) : images[i].len \in Nat
  <2>1. Len(images) \in Nat /\ DOMAIN images = 1 .. Len(images)
        /\ \A i \in 1 .. Len(images) : images[i] \in Payloads
    BY <1>1
  <2>2. \A p \in Payloads : p.len \in Nat
    BY DEF Payloads
  <2> QED BY <2>1, <2>2
<1>3. lens \in Seq(Nat) /\ Len(lens) = Len(images)
      /\ \A i \in 1 .. Len(images) : lens[i] = images[i].len
  <2>1. lens \in [1 .. Len(images) -> Nat] /\ \A i \in 1 .. Len(images) : lens[i] = images[i].len
    BY <1>2
  <2> HIDE DEF lens
  <2> QED BY <1>2, <2>1
<1> HIDE DEF lens
<1>4. FIT_DATA_START \in Nat /\ SECTOR \in {SECTOR, PAGE}
  BY DEF FIT_DATA_START
<1>5. /\ DOMAIN offs = 1 .. Len(lens)
      /\ \A i \in 1 .. Len(lens) :
           /\ offs[i] \in Nat /\ offs[i] % SECTOR = 0 /\ offs[i] >= FIT_DATA_START
           /\ offs[i] + lens[i] <= total
      /\ \A i, j \in 1 .. Len(lens) : i < j => offs[i] + lens[i] <= offs[j]
      /\ total \in Nat
  BY <1>3, <1>4, OffsetsAre
<1>6. Size(probe) \in Nat
  <2> DEFINE none == [i \in DOMAIN images |-> 0]
  <2>1. none \in [1 .. Len(images) -> Nat]
    BY <1>2
  <2>2. probe = FitTree(vendor, images, none, 0)
    BY DEF Probe
  <2> HIDE DEF none
  <2> QED BY <1>1, <2>1, <2>2, FitTreeIs
<1>7. UbootFit(vendor, uboot) =
        [tree |-> FitTree(vendor, images, offs, total), total |-> total, written |-> put]
  BY DEF UbootFit, images, lens
<1> HIDE DEF offs, total
<1>8. UbootFit(vendor, uboot).written = put
      /\ Size(UbootFit(vendor, uboot).tree) = size
  BY <1>7
<1>9. ~(Size(probe) > FIT_DATA_START) /\ size = Size(probe)
  BY <1>8 DEF UbootFitRefused, images
<1> HIDE DEF size, probe
<1>10. size \in Nat /\ size <= FIT_DATA_START
  BY <1>4, <1>6, <1>9
<1>11. DOMAIN put = 1 .. Len(images)
       /\ \A i \in 1 .. Len(images) : put[i].at = offs[i] /\ put[i].len = lens[i]
  BY <1>2, <1>3
<1> HIDE DEF put
<1>12. \A i \in 1 .. Len(images) : offs[i] >= size
  BY <1>3, <1>4, <1>5, <1>10
<1>13. Apart([i \in DOMAIN put |-> <<put[i].at, put[i].at + put[i].len>>], size)
  BY <1>3, <1>5, <1>11, <1>12 DEF Apart
<1> QED BY <1>8, <1>13

-----------------------------------------------------------------------------
(***************************************************************************)
(* What the tools are called with.                                         *)
(***************************************************************************)
\* The trees a tool is given are the well-formed ones.
LEMMA GoodIs ==
  ASSUME NEW t
  PROVE  t \in Good <=> Sane(t)
BY FormedIs DEF Good, Sane

JobLike(j) ==
  \/ /\ j.tool \in {"setargs", "mkfit"}
     /\ j.compress \in Compressions /\ j.kernel \in Kernels /\ j.parts \in Seq(KernelParts)
     /\ j.tool = "setargs" => j.logo \in Nat
  \/ /\ j.tool = "mkpreloader" /\ j.parts = <<j.parts[1], j.parts[2]>>
     /\ \A i \in 1 .. 2 : SplPart(j.parts[i])
  \/ j.tool = "mkfit-uboot" /\ j.vendor \in Vendors /\ j.uboot \in Uboots

\* A job has the fields of what the tool was called with.
LEMMA NamedIs ==
  ASSUME NEW n, NEW j, Callable(j)
  PROVE  JobLike(Named(n, j))
<1> DEFINE N == Named(n, j)
<1>1. \A f \in DOMAIN j : f # "name" => N[f] = j[f]
  BY DEF Named
<1> HIDE DEF N
<1>2. CASE j \in [tool : {"setargs"}, uhs : BOOLEAN, compress : Compressions, logo : Nat,
                  kernel : Kernels, parts : Seq(KernelParts)]
  <2>1. j.tool = "setargs" /\ j.compress \in Compressions /\ j.logo \in Nat
        /\ j.kernel \in Kernels /\ j.parts \in Seq(KernelParts)
        /\ {"tool", "compress", "logo", "kernel", "parts"} \subseteq DOMAIN j
    BY <1>2
  <2>2. N.tool = j.tool /\ N.compress = j.compress /\ N.logo = j.logo
        /\ N.kernel = j.kernel /\ N.parts = j.parts
    BY <1>1, <2>1
  <2>3. JobLike(N)
    BY <2>1, <2>2 DEF JobLike
  <2> QED BY <2>3 DEF N
<1>3. CASE j \in [tool : {"mkfit"}, uhs : BOOLEAN, compress : Compressions, imageMiB : Nat,
                  slot : Nat, kernel : Kernels, parts : Seq(KernelParts)]
  <2>1. j.tool = "mkfit" /\ j.compress \in Compressions
        /\ j.kernel \in Kernels /\ j.parts \in Seq(KernelParts)
        /\ {"tool", "compress", "kernel", "parts"} \subseteq DOMAIN j
    BY <1>3
  <2>2. N.tool = j.tool /\ N.compress = j.compress
        /\ N.kernel = j.kernel /\ N.parts = j.parts
    BY <1>1, <2>1
  <2>3. JobLike(N)
    BY <2>1, <2>2 DEF JobLike
  <2> QED BY <2>3 DEF N
<1>4. CASE /\ DOMAIN j = {"tool", "parts"} /\ j.tool = "mkpreloader"
           /\ j.parts = <<j.parts[1], j.parts[2]>>
           /\ \A i \in 1 .. 2 : SplPart(j.parts[i])
  <2>1. N.tool = j.tool /\ N.parts = j.parts
    BY <1>1, <1>4
  <2>2. JobLike(N)
    BY <1>4, <2>1 DEF JobLike
  <2> QED BY <2>2 DEF N
<1>5. CASE j \in [tool : {"mkfit-uboot"}, vendor : Vendors, uboot : Uboots, parts : {<<>>}]
  <2>1. j.tool = "mkfit-uboot" /\ j.vendor \in Vendors /\ j.uboot \in Uboots
        /\ {"tool", "vendor", "uboot"} \subseteq DOMAIN j
    BY <1>5
  <2>2. N.tool = j.tool /\ N.vendor = j.vendor /\ N.uboot = j.uboot
    BY <1>1, <2>1
  <2>3. JobLike(N)
    BY <2>1, <2>2 DEF JobLike
  <2> QED BY <2>3 DEF N
<1> QED BY <1>2, <1>3, <1>4, <1>5 DEF Callable

\* A part of a kernel's image is a tree or not, by its name.
LEMMA KernelPartIs ==
  ASSUME NEW part \in KernelParts
  PROVE  /\ part.name # "spl"
         /\ IsTree(part) <=> part \in [name : TREE_NAMES \ {"spl"}, tree : Good, len : Nat]
         /\ ~IsTree(part) <=> part \in [name : STRING \ TREE_NAMES, len : Nat]
<1>1. CASE part \in [name : TREE_NAMES \ {"spl"}, tree : Good, len : Nat]
  BY <1>1 DEF IsTree
<1>2. CASE part \in [name : STRING \ TREE_NAMES, len : Nat]
  BY <1>2 DEF IsTree, TREE_NAMES
<1> QED BY <1>1, <1>2 DEF KernelParts

\* mkfit's input is the one kind of tree it takes.
LEMMA KernelPartsOf ==
  ASSUME NEW j, j.tool \in {"setargs", "mkfit"}, j.parts \in Seq(KernelParts)
  PROVE  /\ PartsOf(j) \in Seq(KernelParts)
         /\ j.tool = "mkfit" => \A i \in 1 .. Len(PartsOf(j)) : IsTree(PartsOf(j)[i])
<1>1. CASE j.tool = "setargs"
  BY <1>1 DEF PartsOf
<1>2. CASE j.tool = "mkfit"
  <2> DEFINE kept == {i \in DOMAIN j.parts : j.parts[i].name = "rk-kernel.dtb"}
             parts == Picked(j.parts, kept)
  <2>1. parts \in Seq(KernelParts)
        /\ \E from \in [1 .. Len(parts) -> DOMAIN j.parts] :
             PickedFrom(from, parts, j.parts, kept)
    <3>1. kept \in SUBSET (DOMAIN j.parts)
      OBVIOUS
    <3> HIDE DEF kept
    <3> QED BY <3>1, PickedIs, Zenon
  <2> HIDE DEF parts
  <2>2. PICK from \in [1 .. Len(parts) -> DOMAIN j.parts] :
          PickedFrom(from, parts, j.parts, kept)
    BY <2>1
  <2>3. \A i \in 1 .. Len(parts) : parts[i].name = "rk-kernel.dtb"
    BY <2>2 DEF PickedFrom
  <2>4. PartsOf(j) = parts
    BY <1>2 DEF PartsOf, parts
  <2> QED BY <2>1, <2>3, <2>4 DEF IsTree, TREE_NAMES
<1> QED BY <1>1, <1>2

EditNames == {"bootargs", "uhs", "slot1", "ohci", "boost", "optee", "planes", "panel"}

\* The edits a kernel's tree gets.
LEMMA KernelEditsOf ==
  ASSUME NEW j, j.tool \in {"setargs", "mkfit"}
  PROVE  EditsOf(j) \in Seq(EditNames)
<1>1. \A a, b, c \in EditNames : <<a>> \in Seq(EditNames) /\ <<a, b, c>> \in Seq(EditNames)
  OBVIOUS
<1>2. \A x, y \in Seq(EditNames) : x \o y \in Seq(EditNames)
  OBVIOUS
<1>3. <<>> \in Seq(EditNames)
  OBVIOUS
<1>4. "bootargs" \in EditNames /\ "uhs" \in EditNames /\ "slot1" \in EditNames
      /\ "ohci" \in EditNames /\ "boost" \in EditNames /\ "optee" \in EditNames
      /\ "planes" \in EditNames /\ "panel" \in EditNames
  BY DEF EditNames
<1>5. \A u : KernelEdits(u) \in Seq(EditNames)
  <2> TAKE u
  <2>1. (IF u THEN <<"uhs">> ELSE <<>>) \in Seq(EditNames)
    BY <1>1, <1>3, <1>4, Zenon
  <2>2. <<"bootargs">> \in Seq(EditNames) /\ <<"slot1", "ohci", "boost">> \in Seq(EditNames)
    BY <1>1, <1>4, Zenon
  <2> QED BY <1>2, <2>1, <2>2, Zenon DEF KernelEdits
<1>6. MainlineEdits \in Seq(EditNames)
  BY <1>1, <1>4, Zenon DEF MainlineEdits
<1>7. CASE j.tool = "setargs"
  <2>1. EditsOf(j) = KernelEdits(j.uhs)
    BY <1>7 DEF EditsOf
  <2> QED BY <1>5, <2>1, Zenon
<1>8. CASE j.tool = "mkfit"
  <2>1. EditsOf(j) = KernelEdits(j.uhs) \o MainlineEdits
    BY <1>8 DEF EditsOf
  <2> QED BY <1>2, <1>5, <1>6, <2>1, Zenon
<1> QED BY <1>7, <1>8

-----------------------------------------------------------------------------
\* A preloader's part as its tool leaves it.
After(part) == [part EXCEPT !.tree = AddPinctrl(part.tree), !.copy = PatchCopy(@)]

SameLength(was, now) ==
  /\ now.body.slack >= 0
  /\ Size(now.body.tree) + now.body.slack = Size(was.body.tree) + was.body.slack
  /\ now.hash1 = HashOf1(now.body) /\ now.hash2 = HashOf2(now.body)

\* patch keeps a copy's length and puts its hashes right, or refuses it.
LEMMA PatchCopyIs ==
  ASSUME NEW part, SplPart(part), Touchable(part)
  PROVE  /\ Sane(part.tree) /\ AddPinctrl(part.tree) # Refused
         /\ PatchCopy(part.copy).body.tree = AddPinctrl(part.tree)
         /\ SameLength(part.copy, PatchCopy(part.copy))
         /\ SplPart(After(part))
<1> DEFINE c == part.copy
           new == AddPinctrl(c.body.tree)
           patched == [c.body EXCEPT !.tree = new,
                                     !.slack = @ - (Size(new) - Size(c.body.tree))]
           refusal == [c EXCEPT !.body.tree = Refused]
           now == [c EXCEPT !.body = patched, !.hash2 = HashOf2(patched)]
           bad == \/ c.hash1 # HashOf1(c.body) \/ c.hash2 # HashOf2(c.body)
                  \/ <<PINCTRL, "compatible">> \in DOMAIN Facts(c.body.tree)
                  \/ c.body.tail # "zero"
                  \/ new = Refused
           Bodies(t) == [ddr : STRING, spl : STRING, tree : {t}, slack : Nat, tail : STRING]
<1>1. /\ DOMAIN part = {"name", "tree", "copy"} /\ part.name = "spl" /\ part.tree \in Good
      /\ DOMAIN c = {"body", "hash1", "hash2"} /\ c.body \in Bodies(part.tree)
      /\ \/ <<PINCTRL, "compatible">> \in DOMAIN Facts(part.tree)
         \/ \A k \in DOMAIN Facts(part.tree) : k[1] # PINCTRL
  BY DEF SplPart
<1>2. c.body.tree = part.tree /\ c.body.slack \in Nat /\ Sane(part.tree)
      /\ DOMAIN c.body = {"ddr", "spl", "tree", "slack", "tail"}
  BY <1>1, GoodIs
<1>3. refusal.body.tree = Refused
  BY <1>1, <1>2
<1>4. PatchCopy(c) = IF bad THEN refusal ELSE IF RoomFor(c, new) THEN now ELSE refusal
  BY DEF PatchCopy
<1>5. ~bad /\ RoomFor(c, new) /\ PatchCopy(c) = now
  <2> HIDE DEF refusal, now, bad
  <2>1. PatchCopy(c).body.tree # Refused
    BY <1>1 DEF Touchable
  <2> QED BY <1>3, <1>4, <2>1
<1>6. new = AddPinctrl(part.tree) /\ new # Refused
  BY <1>2, <1>5
<1>7. \A k \in DOMAIN Facts(part.tree) : k[1] # PINCTRL
  BY <1>1, <1>2, <1>5
<1>8. Sane(new) /\ <<PINCTRL, "compatible">> \in DOMAIN Facts(new)
  BY <1>2, <1>6, <1>7, AddPinctrlIs
<1> HIDE DEF new
<1>9. Size(new) \in Nat /\ Size(c.body.tree) \in Nat
  BY <1>2, <1>8, SaneSize
<1>10. Size(new) - Size(c.body.tree) <= c.body.slack
  BY <1>5 DEF RoomFor
<1> DEFINE slack == c.body.slack - (Size(new) - Size(c.body.tree))
<1>11. slack \in Nat /\ Size(new) + slack = Size(c.body.tree) + c.body.slack
  BY <1>2, <1>9, <1>10
<1>12. /\ patched \in Bodies(new) /\ patched.tree = new /\ patched.slack = slack
       /\ patched.ddr = c.body.ddr
  <2> DEFINE put(x, t, s) == [x EXCEPT !.tree = t, !.slack = s]
  <2>1. ASSUME NEW u, NEW x \in Bodies(u), NEW t, NEW s \in Nat
        PROVE  /\ put(x, t, s) \in Bodies(t) /\ put(x, t, s).tree = t
               /\ put(x, t, s).slack = s /\ put(x, t, s).ddr = x.ddr
    OBVIOUS
  <2>2. patched = put(c.body, new, slack)
    OBVIOUS
  <2>3. c.body \in Bodies(part.tree) /\ slack \in Nat
    BY <1>1, <1>11
  <2> HIDE DEF slack, patched, Bodies, put, c
  <2>4. /\ put(c.body, new, slack) \in Bodies(new) /\ put(c.body, new, slack).tree = new
        /\ put(c.body, new, slack).slack = slack
        /\ put(c.body, new, slack).ddr = c.body.ddr
    BY <2>1, <2>3
  <2> QED BY <2>2, <2>4
<1> HIDE DEF patched, slack
<1>13. /\ now.body = patched /\ now.hash1 = c.hash1 /\ now.hash2 = HashOf2(patched)
       /\ DOMAIN now = {"body", "hash1", "hash2"}
  BY <1>1
<1>14. now.hash1 = HashOf1(now.body)
  <2>1. c.hash1 = HashOf1(c.body)
    BY <1>5
  <2> HIDE DEF now
  <2> QED BY <1>12, <1>13, <2>1 DEF HashOf1
<1> HIDE DEF now, c
<1>15. SameLength(c, now)
  <2>1. slack >= 0
    BY <1>11
  <2> QED BY <1>11, <1>12, <1>13, <1>14, <2>1 DEF SameLength
<1>16. After(part) = [name |-> "spl", tree |-> new, copy |-> now]
  <2>1. After(part) = [part EXCEPT !.tree = new, !.copy = now]
    BY <1>5, <1>6 DEF After, c
  <2> QED BY <1>1, <2>1
<1>17. SplPart(After(part))
  <2>1. new \in Good
    BY <1>8, GoodIs
  <2> QED BY <1>8, <1>12, <1>13, <1>16, <2>1 DEF SplPart
<1> QED BY <1>2, <1>5, <1>6, <1>12, <1>13, <1>15, <1>17 DEF c

-----------------------------------------------------------------------------
(***************************************************************************)
(* What lies at the output path.                                           *)
(***************************************************************************)
SizedParts(d) ==
  /\ d \in Seq(KernelParts)
  /\ \A i \in 1 .. Len(d) : "tree" \in DOMAIN d[i] => d[i].len = Size(d[i].tree)

FileLike(f) ==
  \/ f.tool = "none" /\ f.parts = <<>>
  \/ /\ f.tool = "setargs" /\ SizedParts(f.parts)
     /\ \E k \in Kernels : f.img = Android(k, [len |-> 0], Resource(f.parts))
  \/ f.tool = "mkfit" /\ f.parts \in Seq(KernelParts)
  \/ /\ f.tool = "mkpreloader" /\ f.parts = <<f.parts[1], f.parts[2]>>
     /\ \A i \in 1 .. 2 : SplPart(f.parts[i])
  \/ /\ f.tool = "mkfit-uboot" /\ f.parts = <<>>
     /\ \E v \in Vendors, u \in Uboots : ~UbootFitRefused(v, u) /\ f.fit = UbootFit(v, u)

\* Whatever is packed of a kernel is a kernel.
LEMMA PackedIs ==
  ASSUME job.compress \in Compressions, job.kernel \in Kernels
  PROVE  PackedKernel \in Kernels
<1>1. job.kernel.len \in Nat /\ (job.kernel.len + 1) \div 2 \in Nat
  <2>1. job.kernel.len \in Nat
    BY DEF Kernels
  <2>2. \A n \in Nat : (n + 1) \div 2 \in Nat
    BY Z3
  <2> QED BY <2>1, <2>2
<1>2. ASSUME NEW k \in Kernels, NEW f \in {"gzip", "zstd"}, NEW l \in Nat
      PROVE  [k EXCEPT !.form = f, !.len = l] \in Kernels
  BY DEF Kernels
<1>3. PackedKernel = job.kernel
      \/ /\ job.compress \in {"gzip", "zstd"}
         /\ PackedKernel = [job.kernel EXCEPT !.form = job.compress,
                                              !.len = (job.kernel.len + 1) \div 2]
  BY DEF PackedKernel, Compressions
<1>4. \A f \in {"gzip", "zstd"}, l \in Nat :
        [job.kernel EXCEPT !.form = f, !.len = l] \in Kernels
  BY <1>2, Zenon
<1>5. CASE PackedKernel = job.kernel
  BY <1>5, Zenon
<1>6. CASE /\ job.compress \in {"gzip", "zstd"}
           /\ PackedKernel = [job.kernel EXCEPT !.form = job.compress,
                                                !.len = (job.kernel.len + 1) \div 2]
  BY <1>1, <1>4, <1>6, Zenon
<1> QED BY <1>3, <1>5, <1>6, Zenon

\* A file a tool wrote is an input for a tool.
LEMMA ReusedIs ==
  ASSUME FileLike(file), NEW j \in Reused
  PROVE  Callable(j)
<1>1. CASE file.tool = "setargs"
  <2>1. PICK k \in Kernels : file.img = Android(k, [len |-> 0], Resource(file.parts))
    BY <1>1 DEF FileLike
  <2>2. file.img.kernel \in Kernels /\ file.parts \in Seq(KernelParts)
    BY <1>1, <2>1 DEF Android, FileLike, SizedParts
  <2>3. "gzip" \in Compressions /\ "zstd" \in Compressions
    BY DEF Compressions
  <2> DEFINE set(a, c, p, l) == [tool |-> "setargs", uhs |-> a, compress |-> c, logo |-> 0,
                                 parts |-> p, kernel |-> l]
             mk(a, c, p, l) == [tool |-> "mkfit", uhs |-> a, compress |-> c, imageMiB |-> 40,
                                slot |-> 2000, parts |-> p, kernel |-> l]
             s(u) == set(u, "gzip", file.parts, file.img.kernel)
             m(u) == mk(u, "zstd", file.parts, file.img.kernel)
  <2>4. PICK u \in BOOLEAN : j = s(u) \/ j = m(u)
    <3>1. Reused = {s(u) : u \in BOOLEAN} \cup {m(u) : u \in BOOLEAN}
      BY <1>1, Zenon DEF Reused
    <3> HIDE DEF s, m, set, mk
    <3> QED BY <3>1, Zenon
  <2> DEFINE S == [tool : {"setargs"}, uhs : BOOLEAN, compress : Compressions, logo : Nat,
                   kernel : Kernels, parts : Seq(KernelParts)]
             M == [tool : {"mkfit"}, uhs : BOOLEAN, compress : Compressions,
                   imageMiB : Nat, slot : Nat, kernel : Kernels, parts : Seq(KernelParts)]
  <2>5. \A a \in BOOLEAN, c \in Compressions, p \in Seq(KernelParts), l \in Kernels :
          set(a, c, p, l) \in S /\ mk(a, c, p, l) \in M
    OBVIOUS
  <2> HIDE DEF S, M, set, mk
  <2>6. s(u) \in S /\ m(u) \in M
    BY <2>2, <2>3, <2>5, Zenon
  <2> HIDE DEF s, m
  <2>7. j \in S \/ j \in M
    BY <2>4, <2>6
  <2> QED BY <2>7, Zenon DEF Callable, S, M
<1>2. CASE file.tool = "mkpreloader"
  <2>1. j = [tool |-> "mkpreloader", parts |-> file.parts]
    BY <1>2 DEF Reused
  <2>2. j.tool = "mkpreloader" /\ j.parts = file.parts /\ DOMAIN j = {"tool", "parts"}
    BY <2>1
  <2>3. file.parts = <<file.parts[1], file.parts[2]>>
        /\ \A i \in 1 .. 2 : SplPart(file.parts[i])
    BY <1>2 DEF FileLike
  <2>4. j.parts = <<j.parts[1], j.parts[2]>> /\ \A i \in 1 .. 2 : SplPart(j.parts[i])
    BY <2>2, <2>3
  <2> QED BY <2>2, <2>4, Zenon DEF Callable
<1>3. CASE file.tool \notin {"setargs", "mkpreloader"}
  <2>1. Reused = {}
    BY <1>3 DEF Reused
  <2> QED BY <2>1
<1> QED BY <1>1, <1>2, <1>3

\* The extents of an Android image and of the resource image in it.
LEMMA AndroidIs ==
  ASSUME NEW k \in Kernels, NEW parts, SizedParts(parts)
  PROVE  LET img == Android(k, [len |-> 0], Resource(parts))
             lens == <<img.kernel.len, img.ramdisk.len, img.second.len>>
             entries == img.second.entries
             offs == img.second.offs
         IN /\ Apart([i \in 1 .. 3 |-> <<img.offs[i], img.offs[i] + lens[i]>>], PAGE)
            /\ \A i \in 1 .. 3 : img.offs[i] % PAGE = 0
            /\ Apart([i \in DOMAIN entries |-> <<offs[i], offs[i] + entries[i].len>>],
                     SECTOR * (1 + Len(entries)))
            /\ \A i \in DOMAIN entries :
                 /\ offs[i] % SECTOR = 0
                 /\ offs[i] + entries[i].len <= img.second.len
                 /\ "tree" \in DOMAIN entries[i] => entries[i].len = Size(entries[i].tree)
<1> DEFINE res == Resource(parts)
           img == Android(k, [len |-> 0], res)
           sizes == [i \in DOMAIN parts |-> parts[i].len]
           start == SECTOR * (1 + Len(parts))
           lens == <<k.len, 0, res.len>>
           offs == Offsets(sizes, start, SECTOR)
           places == Offsets(lens, PAGE, PAGE)
<1>1. Len(parts) \in Nat /\ DOMAIN parts = 1 .. Len(parts)
      /\ \A i \in 1 .. Len(parts) : parts[i].len \in Nat
  <2>1. parts \in Seq(KernelParts)
    BY DEF SizedParts
  <2>2. \A p \in KernelParts : p.len \in Nat
    BY DEF KernelParts
  <2>3. Len(parts) \in Nat /\ DOMAIN parts = 1 .. Len(parts)
        /\ \A i \in 1 .. Len(parts) : parts[i] \in KernelParts
    BY <2>1
  <2> QED BY <2>2, <2>3
<1>2. sizes \in Seq(Nat) /\ Len(sizes) = Len(parts)
      /\ \A i \in 1 .. Len(parts) : sizes[i] = parts[i].len
  <2>1. sizes \in [1 .. Len(parts) -> Nat] /\ \A i \in 1 .. Len(parts) : sizes[i] = parts[i].len
    BY <1>1
  <2> HIDE DEF sizes
  <2> QED BY <1>1, <2>1
<1>3. start \in Nat
  BY <1>1 DEF SECTOR
<1>4. res = [entries |-> parts, offs |-> offs, len |-> TotalLen(sizes, start, SECTOR)]
  BY DEF Resource
<1> HIDE DEF sizes, start
<1>5. /\ DOMAIN offs = 1 .. Len(sizes)
      /\ \A i \in 1 .. Len(sizes) :
           /\ offs[i] \in Nat /\ offs[i] % SECTOR = 0 /\ offs[i] >= start
           /\ offs[i] + sizes[i] <= TotalLen(sizes, start, SECTOR)
      /\ \A i, j \in 1 .. Len(sizes) : i < j => offs[i] + sizes[i] <= offs[j]
      /\ TotalLen(sizes, start, SECTOR) \in Nat
  BY <1>2, <1>3, OffsetsAre
<1>6. res.entries = parts /\ res.offs = offs /\ res.len = TotalLen(sizes, start, SECTOR)
  BY <1>4
<1> HIDE DEF res, offs
<1>7. lens \in Seq(Nat) /\ Len(lens) = 3
      /\ lens[1] = k.len /\ lens[2] = 0 /\ lens[3] = res.len
  <2>1. k.len \in Nat /\ res.len \in Nat
    BY <1>5, <1>6 DEF Kernels
  <2> QED BY <2>1
<1>8. img.kernel = k /\ img.ramdisk.len = 0 /\ img.second = res /\ img.offs = places
  BY DEF Android
<1> HIDE DEF lens
<1>9. /\ DOMAIN places = 1 .. Len(lens)
      /\ \A i \in 1 .. Len(lens) :
           /\ places[i] \in Nat /\ places[i] % PAGE = 0 /\ places[i] >= PAGE
           /\ places[i] + lens[i] <= TotalLen(lens, PAGE, PAGE)
      /\ \A i, j \in 1 .. Len(lens) : i < j => places[i] + lens[i] <= places[j]
      /\ TotalLen(lens, PAGE, PAGE) \in Nat
  <2>1. PAGE \in Nat /\ PAGE \in {SECTOR, PAGE}
    BY DEF PAGE
  <2> QED BY <1>7, <2>1, OffsetsAre
<1> HIDE DEF img, places
<1>10. <<img.kernel.len, img.ramdisk.len, img.second.len>> = lens
  BY <1>8 DEF lens
<1>11. Apart([i \in 1 .. 3 |-> <<img.offs[i], img.offs[i] + lens[i]>>], PAGE)
       /\ \A i \in 1 .. 3 : img.offs[i] % PAGE = 0
  BY <1>7, <1>8, <1>9 DEF Apart
<1>12. Apart([i \in DOMAIN parts |-> <<offs[i], offs[i] + parts[i].len>>], start)
  BY <1>1, <1>2, <1>5 DEF Apart
<1>13. \A i \in DOMAIN parts :
         /\ offs[i] % SECTOR = 0 /\ offs[i] + parts[i].len <= res.len
         /\ "tree" \in DOMAIN parts[i] => parts[i].len = Size(parts[i].tree)
  BY <1>1, <1>2, <1>5, <1>6 DEF SizedParts
<1>14. img.second.entries = parts /\ img.second.offs = offs /\ img.second.len = res.len
  BY <1>6, <1>8
<1> QED BY <1>10, <1>11, <1>12, <1>13, <1>14 DEF img, start, res

\* Every tree in a file is well-formed.
LEMMA FileTreesAre ==
  ASSUME NEW f, FileLike(f), NEW i \in DOMAIN f.parts, "tree" \in DOMAIN f.parts[i]
  PROVE  WellFormed(f.parts[i].tree)
<1>1. CASE f.parts \in Seq(KernelParts)
  <2>1. f.parts[i] \in KernelParts
    BY <1>1
  <2>2. \A p \in KernelParts : "tree" \in DOMAIN p => p.tree \in Good
    BY DEF KernelParts
  <2> QED BY <2>1, <2>2 DEF Good
<1>2. CASE f.parts = <<f.parts[1], f.parts[2]>> /\ \A j \in 1 .. 2 : SplPart(f.parts[j])
  <2>1. i \in 1 .. 2
    BY <1>2
  <2> QED BY <1>2, <2>1 DEF SplPart, Good
<1>3. CASE f.parts = <<>>
  <2>1. <<>> \in Seq(KernelParts)
    OBVIOUS
  <2> QED BY <1>1, <1>3, <2>1
<1> QED BY <1>1, <1>2, <1>3 DEF FileLike, SizedParts

-----------------------------------------------------------------------------
(***************************************************************************)
(* The tools, step by step.                                                *)
(***************************************************************************)
ForKernel == job.tool \in {"setargs", "mkfit"}

\* The parts a preloader's tool has dealt with.
PatchedParts(d, parts) ==
  /\ d \in Seq({After(parts[1]), After(parts[2])})
  /\ \A i \in 1 .. Len(d) : i \in 1 .. 2 /\ d[i] = After(parts[i]) /\ Touchable(parts[i])

SoFar ==
  pc \in {"parts", "edit", "write"} =>
    /\ ForKernel => SizedParts(done)
    /\ job.tool = "mkpreloader" => PatchedParts(done, job.parts)
    /\ job.tool = "mkfit-uboot" => pc = "write"

Editing ==
  pc = "edit" =>
    /\ Len(done) < Len(PartsOf(job)) /\ IsTree(Part) /\ Sane(tree)
    /\ ForKernel => todo \in Seq(EditNames)
    /\ job.tool = "mkpreloader" =>
         /\ Touchable(Part)
         /\ \/ todo = <<"pinctrl">> /\ tree = Part.tree
            \/ todo = <<>> /\ tree = AddPinctrl(Part.tree)

\* A preloader is written whole, and nothing reads it back.
Written ==
  job.tool = "mkpreloader" =>
    /\ pc = "write" => Len(done) = 2
    /\ pc # "check"
    /\ pc = "done" => /\ PatchedParts(done, job.parts) /\ Len(done) = 2
                      /\ file.parts = done

IInv ==
  /\ pc # "idle" => JobLike(job)
  /\ Kept(tree) /\ FileLike(file)
  /\ SoFar /\ Editing /\ Written

\* What a job has for each tool.
LEMMA JobTools ==
  ASSUME NEW j, JobLike(j)
  PROVE  /\ j.tool \in {"setargs", "mkfit"} =>
              /\ j.compress \in Compressions /\ j.kernel \in Kernels
              /\ j.parts \in Seq(KernelParts)
              /\ j.tool = "setargs" => j.logo \in Nat
         /\ j.tool = "mkpreloader" =>
              j.parts = <<j.parts[1], j.parts[2]>> /\ \A i \in 1 .. 2 : SplPart(j.parts[i])
         /\ j.tool = "mkfit-uboot" => j.vendor \in Vendors /\ j.uboot \in Uboots
         /\ j.tool \in {"setargs", "mkfit", "mkpreloader", "mkfit-uboot"}
BY DEF JobLike

\* The part a tool is at.
LEMMA PartIs ==
  ASSUME JobLike(job), SoFar, pc \in {"parts", "edit"}, Len(done) < Len(PartsOf(job))
  PROVE  /\ ForKernel => Part \in KernelParts
         /\ job.tool = "mkfit" => IsTree(Part)
         /\ job.tool = "mkpreloader" =>
              /\ Len(done) + 1 \in 1 .. 2 /\ Part = job.parts[Len(done) + 1] /\ SplPart(Part)
         /\ job.tool # "mkfit-uboot"
<1>1. job.tool # "mkfit-uboot"
  BY DEF SoFar
<1>2. CASE ForKernel
  <2>1. PartsOf(job) \in Seq(KernelParts)
        /\ (job.tool = "mkfit" => \A i \in 1 .. Len(PartsOf(job)) : IsTree(PartsOf(job)[i]))
    BY <1>2, JobTools, KernelPartsOf DEF ForKernel
  <2>2. Len(done) \in Nat
    BY <1>2 DEF SoFar, SizedParts
  <2>3. Len(done) + 1 \in 1 .. Len(PartsOf(job))
    BY <2>1, <2>2
  <2> QED BY <1>1, <1>2, <2>1, <2>3 DEF Part, ForKernel
<1>3. CASE job.tool = "mkpreloader"
  <2>1. job.parts = <<job.parts[1], job.parts[2]>> /\ \A i \in 1 .. 2 : SplPart(job.parts[i])
    BY <1>3, JobTools
  <2>2. PartsOf(job) = job.parts
    BY <1>3 DEF PartsOf
  <2>3. Len(job.parts) = 2
    <3>1. \A a, b : Len(<<a, b>>) = 2
      OBVIOUS
    <3> QED BY <2>1, <3>1, Zenon
  <2>4. Len(done) \in Nat
    BY <1>3 DEF SoFar, PatchedParts
  <2>5. Len(done) + 1 \in 1 .. 2
    BY <2>2, <2>3, <2>4
  <2> QED BY <1>3, <2>1, <2>2, <2>5 DEF Part, ForKernel
<1> QED BY <1>1, <1>2, <1>3, JobTools DEF ForKernel

\* A tree that a part holds is well-formed.
LEMMA PartTreeIs ==
  ASSUME JobLike(job), SoFar, pc \in {"parts", "edit"}, Len(done) < Len(PartsOf(job)),
         IsTree(Part)
  PROVE  Sane(Part.tree)
<1>1. CASE ForKernel
  <2>1. Part \in KernelParts
    BY <1>1, PartIs
  <2>2. Part \in [name : TREE_NAMES \ {"spl"}, tree : Good, len : Nat]
    BY <2>1, KernelPartIs
  <2>3. Part.tree \in Good
    BY <2>2
  <2> QED BY <2>3, GoodIs
<1>2. CASE job.tool = "mkpreloader"
  <2>1. SplPart(Part)
    BY <1>2, PartIs
  <2> QED BY <2>1, GoodIs DEF SplPart
<1>3. job.tool # "mkfit-uboot"
  BY PartIs
<1> QED BY <1>1, <1>2, <1>3, JobTools DEF ForKernel

\* Before any tool has run there is no job, no tree and no file.
LEMMA InitInv == Init => IInv
<1> SUFFICES ASSUME Init PROVE IInv
  OBVIOUS
<1>1. pc = "idle" /\ tree = Refused /\ file = NoFile /\ job = NoJob
  BY DEF Init
<1>2. FileLike(file)
  BY <1>1 DEF FileLike, NoFile
<1>3. SoFar /\ Editing /\ Written
  BY <1>1 DEF SoFar, Editing, Written, NoJob
<1> QED BY <1>1, <1>2, <1>3 DEF IInv, Kept

\* A tool that starts has dealt with no part of its input.
LEMMA RunStep ==
  ASSUME IInv, NEW j, JobLike(j), Run(j)
  PROVE  IInv'
<1>1. job' = j /\ done' = <<>> /\ tree' = tree /\ todo' = todo /\ file' = file
      /\ pc' = IF j.tool = "mkfit-uboot" THEN "write" ELSE "parts"
  BY DEF Run
<1>2. SizedParts(<<>>) /\ \A parts : PatchedParts(<<>>, parts)
  BY DEF SizedParts, PatchedParts
<1>3. SoFar'
  BY <1>1, <1>2 DEF SoFar
<1>4. Editing' /\ Written'
  BY <1>1 DEF Editing, Written
<1>5. (Kept(tree) /\ FileLike(file))'
  BY <1>1 DEF IInv
<1>6. (pc # "idle" => JobLike(job))'
  BY <1>1
<1> QED BY <1>3, <1>4, <1>5, <1>6 DEF IInv

\* A tool that raises drops its tree and leaves the file.
LEMMA RefuseStep ==
  ASSUME IInv, pc # "idle", Refuse
  PROVE  IInv'
<1>1. pc' = "refused" /\ tree' = Refused /\ job' = job /\ file' = file
  BY DEF Refuse
<1>2. (SoFar /\ Editing /\ Written)'
  BY <1>1 DEF SoFar, Editing, Written
<1>3. Kept(tree)'
  BY <1>1 DEF Kept
<1>4. FileLike(file)' /\ JobLike(job)'
  BY <1>1 DEF IInv
<1> QED BY <1>2, <1>3, <1>4 DEF IInv

\* The next tree of the input is taken up, well-formed as it came.
LEMMA OpenPartStep ==
  ASSUME IInv, OpenPart
  PROVE  IInv'
<1>1. pc = "parts" /\ Len(done) < Len(PartsOf(job)) /\ IsTree(Part)
  BY DEF OpenPart
<1>2. JobLike(job) /\ SoFar
  BY <1>1 DEF IInv
<1>3. CASE ~Touchable(Part)
  BY <1>1, <1>3, RefuseStep DEF OpenPart
<1>4. CASE Touchable(Part)
  <2>1. tree' = Part.tree /\ todo' = EditsOf(job) /\ pc' = "edit"
        /\ job' = job /\ done' = done /\ file' = file
    BY <1>4 DEF OpenPart
  <2>2. Sane(Part.tree)
    BY <1>1, <1>2, PartTreeIs
  <2>3. ForKernel => EditsOf(job) \in Seq(EditNames)
    BY KernelEditsOf DEF ForKernel
  <2>4. job.tool = "mkpreloader" => EditsOf(job) = <<"pinctrl">>
    BY DEF EditsOf
  <2>5. Part' = Part /\ ForKernel' = ForKernel
    BY <2>1 DEF Part, ForKernel
  <2>6. job.tool # "mkfit-uboot"
    BY <1>1, <1>2, PartIs
  <2>7. SoFar'
    BY <1>1, <1>2, <2>1, <2>5, <2>6 DEF SoFar
  <2>8. Editing'
    BY <1>1, <1>4, <2>1, <2>2, <2>3, <2>4, <2>5 DEF Editing
  <2>9. Written'
    BY <2>1 DEF Written
  <2> QED BY <1>2, <2>1, <2>2, <2>7, <2>8, <2>9 DEF IInv, Kept
<1> QED BY <1>3, <1>4

\* A part that is no tree goes through with its length or the new logo's.
LEMMA CopyPartStep ==
  ASSUME IInv, CopyPart
  PROVE  IInv'
<1> DEFINE new == IF job.logo # 0 /\ IsLogo(Part) THEN [Part EXCEPT !.len = job.logo] ELSE Part
<1>1. /\ pc = "parts" /\ Len(done) < Len(PartsOf(job)) /\ ~IsTree(Part)
      /\ done' = Append(done, new)
      /\ job' = job /\ pc' = pc /\ tree' = tree /\ todo' = todo /\ file' = file
  BY DEF CopyPart
<1>2. JobLike(job) /\ SoFar
  BY <1>1 DEF IInv
<1>3. job.tool = "setargs" /\ job.logo \in Nat /\ Part \in KernelParts
  <2>1. job.tool # "mkpreloader"
    <3>1. SplPart(Part) => IsTree(Part)
      BY DEF SplPart, IsTree, TREE_NAMES
    <3> QED BY <1>1, <1>2, <3>1, PartIs
  <2>2. job.tool # "mkfit" /\ job.tool # "mkfit-uboot"
    BY <1>1, <1>2, PartIs
  <2>3. job.tool = "setargs"
    BY <1>2, <2>1, <2>2, JobTools
  <2> QED BY <1>1, <1>2, <2>3, PartIs, JobTools DEF ForKernel
<1>4. new \in KernelParts /\ "tree" \notin DOMAIN new
  <2>1. Part \in [name : STRING \ TREE_NAMES, len : Nat]
    BY <1>1, <1>3, KernelPartIs
  <2>2. new \in [name : STRING \ TREE_NAMES, len : Nat]
    BY <1>3, <2>1
  <2>3. "tree" \notin DOMAIN new
    BY <2>2
  <2> HIDE DEF new
  <2> QED BY <2>2, <2>3 DEF KernelParts
<1> HIDE DEF new
<1>5. SizedParts(done)
  BY <1>1, <1>2, <1>3 DEF SoFar, ForKernel
<1>6. SizedParts(done')
  BY <1>1, <1>4, <1>5 DEF SizedParts
<1>7. SoFar'
  BY <1>1, <1>3, <1>6 DEF SoFar
<1>8. Editing' /\ Written'
  BY <1>1, <1>3 DEF Editing, Written
<1> QED BY <1>1, <1>2, <1>7, <1>8 DEF IInv

\* An edit gives a well-formed tree or raises.
LEMMA EditTreeStep ==
  ASSUME IInv, EditTree
  PROVE  IInv'
<1> DEFINE new == IF Head(todo) = "bootargs" /\ FindProp(tree, <<"chosen">>, "bootargs") = 0
                  THEN Refused ELSE Edited(Head(todo), tree)
<1>1. pc = "edit" /\ todo # <<>> /\ JobLike(job) /\ SoFar /\ Editing
  BY DEF EditTree, IInv
<1>2. /\ Len(done) < Len(PartsOf(job)) /\ IsTree(Part) /\ Sane(tree)
      /\ ForKernel => todo \in Seq(EditNames)
      /\ job.tool = "mkpreloader" =>
           /\ Touchable(Part)
           /\ \/ todo = <<"pinctrl">> /\ tree = Part.tree
              \/ todo = <<>> /\ tree = AddPinctrl(Part.tree)
  BY <1>1 DEF Editing
<1>3. CASE new = Refused
  BY <1>1, <1>3, RefuseStep DEF EditTree
<1>4. CASE new # Refused
  <2>1. tree' = new /\ todo' = Tail(todo) /\ job' = job /\ pc' = pc /\ done' = done
        /\ file' = file
    BY <1>4 DEF EditTree
  <2>2. ForKernel => Sane(new) /\ Tail(todo) \in Seq(EditNames)
    <3> SUFFICES ASSUME ForKernel PROVE Sane(new) /\ Tail(todo) \in Seq(EditNames)
      OBVIOUS
    <3>1. todo \in Seq(EditNames)
      BY <1>2
    <3>2. Head(todo) \in EditNames /\ Tail(todo) \in Seq(EditNames)
      BY <1>1, <3>1
    <3>3. new = Edited(Head(todo), tree)
          /\ (Head(todo) = "bootargs" => FindProp(tree, <<"chosen">>, "bootargs") # 0)
      BY <1>4
    <3>4. Kept(Edited(Head(todo), tree))
      BY <1>2, <3>2, <3>3, EditedIs DEF EditNames
    <3> QED BY <1>4, <3>2, <3>3, <3>4 DEF Kept
  <2>3. job.tool = "mkpreloader" =>
          Sane(new) /\ Tail(todo) = <<>> /\ new = AddPinctrl(Part.tree)
    <3> SUFFICES ASSUME job.tool = "mkpreloader"
                 PROVE  Sane(new) /\ Tail(todo) = <<>> /\ new = AddPinctrl(Part.tree)
      OBVIOUS
    <3>1. todo = <<"pinctrl">> /\ tree = Part.tree /\ Touchable(Part)
      BY <1>1, <1>2
    <3>2. Head(todo) = "pinctrl" /\ Tail(todo) = <<>>
      BY <3>1
    <3>3. Edited("pinctrl", tree) = AddPinctrl(tree)
      BY DEF Edited
    <3>4. new = AddPinctrl(Part.tree)
      BY <3>1, <3>2, <3>3
    <3>5. SplPart(Part)
      BY <1>1, <1>2, PartIs
    <3>6. SplPart(After(Part)) /\ After(Part).tree = AddPinctrl(Part.tree)
      <4>1. SplPart(After(Part))
        BY <3>1, <3>5, PatchCopyIs
      <4>2. After(Part).tree = AddPinctrl(Part.tree)
        BY <3>5 DEF After, SplPart
      <4> QED BY <4>1, <4>2
    <3>7. Sane(AddPinctrl(Part.tree))
      BY <3>6, GoodIs DEF SplPart
    <3> QED BY <3>2, <3>4, <3>7
  <2>4. Sane(new)
    <3>1. job.tool # "mkfit-uboot"
      BY <1>1, <1>2, PartIs
    <3> HIDE DEF new
    <3> QED BY <1>1, <2>2, <2>3, <3>1, JobTools DEF ForKernel
  <2> HIDE DEF new
  <2>5. Part' = Part /\ ForKernel' = ForKernel
    BY <2>1 DEF Part, ForKernel
  <2>6. Editing'
    BY <1>1, <1>2, <2>1, <2>2, <2>3, <2>4, <2>5 DEF Editing
  <2>7. SoFar'
    BY <1>1, <2>1, <2>5 DEF SoFar
  <2>8. Written'
    BY <1>1, <2>1 DEF Written
  <2>9. (JobLike(job) /\ FileLike(file) /\ Kept(tree))'
    BY <1>1, <2>1, <2>4 DEF IInv, Kept
  <2> QED BY <2>6, <2>7, <2>8, <2>9 DEF IInv
<1> QED BY <1>3, <1>4

\* An edited tree becomes a part again, as long as it is now.
LEMMA ClosePartStep ==
  ASSUME IInv, ClosePart
  PROVE  IInv'
<1> DEFINE new == IF Part.name = "spl"
                  THEN [Part EXCEPT !.tree = tree, !.copy = PatchCopy(@)]
                  ELSE [Part EXCEPT !.tree = tree, !.len = Size(tree)]
<1>1. /\ pc = "edit" /\ todo = <<>> /\ JobLike(job) /\ SoFar /\ Editing
      /\ done' = Append(done, new) /\ tree' = Refused /\ pc' = "parts"
      /\ job' = job /\ todo' = todo /\ file' = file
  BY DEF ClosePart, IInv
<1>2. /\ Len(done) < Len(PartsOf(job)) /\ IsTree(Part) /\ Sane(tree)
      /\ job.tool = "mkpreloader" => Touchable(Part) /\ tree = AddPinctrl(Part.tree)
  BY <1>1 DEF Editing
<1>3. ForKernel => SizedParts(done')
  <2> SUFFICES ASSUME ForKernel PROVE SizedParts(done')
    OBVIOUS
  <2>1. Part \in [name : TREE_NAMES \ {"spl"}, tree : Good, len : Nat] /\ Part.name # "spl"
    BY <1>1, <1>2, PartIs, KernelPartIs
  <2>2. new = [Part EXCEPT !.tree = tree, !.len = Size(tree)]
    BY <2>1
  <2>3. tree \in Good /\ Size(tree) \in Nat
    BY <1>2, GoodIs, SaneSize
  <2> HIDE DEF new
  <2> DEFINE put(p, t, l) == [p EXCEPT !.tree = t, !.len = l]
  <2>4. \A p \in [name : TREE_NAMES \ {"spl"}, tree : Good, len : Nat], t \in Good, l \in Nat :
          /\ put(p, t, l) \in [name : TREE_NAMES \ {"spl"}, tree : Good, len : Nat]
          /\ put(p, t, l).tree = t /\ put(p, t, l).len = l
    OBVIOUS
  <2>5. new = put(Part, tree, Size(tree))
    BY <2>2
  <2> HIDE DEF put
  <2>6. new \in [name : TREE_NAMES \ {"spl"}, tree : Good, len : Nat] /\ new.tree = tree
        /\ new.len = Size(tree)
    BY <2>1, <2>3, <2>4, <2>5
  <2>7. new \in KernelParts /\ new.len = Size(new.tree)
    BY <2>6 DEF KernelParts
  <2>8. SizedParts(done)
    BY <1>1 DEF SoFar
  <2> QED BY <1>1, <2>7, <2>8 DEF SizedParts
<1>4. job.tool = "mkpreloader" => PatchedParts(done', job.parts)
  <2> SUFFICES ASSUME job.tool = "mkpreloader" PROVE PatchedParts(done', job.parts)
    OBVIOUS
  <2>1. Len(done) + 1 \in 1 .. 2 /\ Part = job.parts[Len(done) + 1] /\ SplPart(Part)
    BY <1>1, <1>2, PartIs
  <2>2. new = After(Part) /\ Touchable(Part)
    BY <1>2, <2>1 DEF SplPart, After
  <2> HIDE DEF new
  <2> DEFINE V == {After(job.parts[1]), After(job.parts[2])}
  <2>3. PatchedParts(done, job.parts)
    BY <1>1 DEF SoFar
  <2>4. done \in Seq(V) /\ new \in V
    <3>1. Len(done) + 1 = 1 \/ Len(done) + 1 = 2
      BY <2>1
    <3> QED BY <2>1, <2>2, <2>3, <3>1 DEF PatchedParts
  <2>5. \A i \in 1 .. Len(done) :
          i \in 1 .. 2 /\ done[i] = After(job.parts[i]) /\ Touchable(job.parts[i])
    BY <2>3 DEF PatchedParts
  <2> HIDE DEF V
  <2>6. done' \in Seq(V) /\ Len(done') = Len(done) + 1 /\ Len(done) \in Nat
        /\ done'[Len(done) + 1] = new /\ \A i \in 1 .. Len(done) : done'[i] = done[i]
    BY <1>1, <2>4
  <2>7. ASSUME NEW i \in 1 .. Len(done')
        PROVE  i \in 1 .. 2 /\ done'[i] = After(job.parts[i]) /\ Touchable(job.parts[i])
    <3>1. i \in 1 .. Len(done) \/ i = Len(done) + 1
      BY <2>6
    <3> QED BY <2>1, <2>2, <2>5, <2>6, <3>1
  <2> QED BY <2>6, <2>7 DEF PatchedParts, V
<1>5. job.tool # "mkfit-uboot"
  BY <1>1, <1>2, PartIs
<1> HIDE DEF new
<1>6. SoFar'
  BY <1>1, <1>3, <1>4, <1>5 DEF SoFar, ForKernel
<1>7. Editing' /\ Written'
  BY <1>1 DEF Editing, Written
<1> QED BY <1>1, <1>6, <1>7 DEF IInv, Kept

\* When all parts are dealt with, a preloader has both its copies.
LEMMA AllPartsStep ==
  ASSUME IInv, AllParts
  PROVE  IInv'
<1>1. /\ pc = "parts" /\ Len(done) = Len(PartsOf(job)) /\ JobLike(job) /\ SoFar
      /\ pc' = "write" /\ job' = job /\ tree' = tree /\ todo' = todo /\ done' = done
      /\ file' = file
  BY DEF AllParts, IInv
<1>2. job.tool = "mkpreloader" => Len(done) = 2
  <2> SUFFICES ASSUME job.tool = "mkpreloader" PROVE Len(done) = 2
    OBVIOUS
  <2>1. job.parts = <<job.parts[1], job.parts[2]>>
    BY <1>1, JobTools
  <2>2. Len(job.parts) = 2
    BY <2>1
  <2> QED BY <1>1, <2>2 DEF PartsOf
<1>3. SoFar'
  BY <1>1 DEF SoFar, ForKernel
<1>4. Editing' /\ Written'
  BY <1>1, <1>2 DEF Editing, Written
<1> QED BY <1>1, <1>3, <1>4 DEF IInv

\* What is composed of the parts is a file of its tool.
LEMMA WriteFileStep ==
  ASSUME IInv, WriteFile
  PROVE  IInv'
<1>1. pc = "write" /\ JobLike(job) /\ SoFar /\ Written
  BY DEF WriteFile, IInv
<1>2. CASE Unwritable
  BY <1>1, <1>2, RefuseStep DEF WriteFile
<1>3. CASE ~Unwritable
  <2>1. /\ file' = FileOf /\ pc' = IF job.tool = "mkpreloader" THEN "done" ELSE "check"
        /\ job' = job /\ tree' = tree /\ todo' = todo /\ done' = done
    BY <1>3 DEF WriteFile
  <2>2. FileLike(FileOf)
    <3>1. CASE job.tool = "setargs"
      <4>1. FileOf = [tool |-> job.tool, parts |-> done,
                      img |-> Android(PackedKernel, [len |-> 0], Resource(done))]
        BY <3>1 DEF FileOf
      <4>2. PackedKernel \in Kernels
        BY <1>1, <3>1, JobTools, PackedIs
      <4>3. SizedParts(done)
        BY <1>1, <3>1 DEF SoFar, ForKernel
      <4>4. FileOf.tool = "setargs" /\ FileOf.parts = done
            /\ FileOf.img = Android(PackedKernel, [len |-> 0], Resource(done))
        BY <3>1, <4>1
      <4> QED BY <4>2, <4>3, <4>4 DEF FileLike
    <3>2. CASE job.tool = "mkfit"
      <4>1. FileOf = [tool |-> job.tool, parts |-> done, kernel |-> PackedKernel]
        BY <3>2 DEF FileOf
      <4>2. done \in Seq(KernelParts)
        BY <1>1, <3>2 DEF SoFar, ForKernel, SizedParts
      <4>3. FileOf.tool = "mkfit" /\ FileOf.parts = done
        BY <3>2, <4>1
      <4> QED BY <4>2, <4>3 DEF FileLike
    <3>3. CASE job.tool = "mkpreloader"
      <4>1. FileOf = [tool |-> job.tool, parts |-> done]
        BY <3>3 DEF FileOf
      <4>2. FileOf.tool = "mkpreloader" /\ FileOf.parts = done
        BY <3>3, <4>1
      <4>3. PatchedParts(done, job.parts) /\ Len(done) = 2
        BY <1>1, <3>3 DEF SoFar, Written
      <4>4. done = <<done[1], done[2]>>
        <5> DEFINE V == {After(job.parts[1]), After(job.parts[2])}
        <5>1. done \in Seq(V) /\ Len(done) = 2
          BY <4>3 DEF PatchedParts
        <5> HIDE DEF V
        <5> QED BY <5>1
      <4>5. ASSUME NEW i \in 1 .. 2 PROVE SplPart(done[i])
        <5>1. done[i] = After(job.parts[i]) /\ Touchable(job.parts[i])
          BY <4>3 DEF PatchedParts
        <5>2. SplPart(job.parts[i])
          BY <1>1, <3>3, JobTools
        <5> QED BY <5>1, <5>2, PatchCopyIs
      <4> QED BY <4>2, <4>4, <4>5 DEF FileLike
    <3>4. CASE job.tool = "mkfit-uboot"
      <4>1. FileOf = [tool |-> job.tool, parts |-> <<>>,
                      fit |-> UbootFit(job.vendor, job.uboot)]
        BY <3>4 DEF FileOf
      <4>2. ~UbootFitRefused(job.vendor, job.uboot)
        BY <1>3, <3>4 DEF Unwritable
      <4>3. job.vendor \in Vendors /\ job.uboot \in Uboots
        BY <1>1, <3>4, JobTools
      <4>4. FileOf.tool = "mkfit-uboot" /\ FileOf.parts = <<>>
            /\ FileOf.fit = UbootFit(job.vendor, job.uboot)
        BY <3>4, <4>1
      <4> QED BY <4>2, <4>3, <4>4 DEF FileLike
    <3> QED BY <1>1, <3>1, <3>2, <3>3, <3>4, JobTools
  <2>3. (SoFar /\ Editing)'
    BY <2>1 DEF SoFar, Editing
  <2>4. Written'
    <3> SUFFICES ASSUME job.tool = "mkpreloader"
                 PROVE  PatchedParts(done, job.parts) /\ Len(done) = 2 /\ FileOf.parts = done
      BY <2>1 DEF Written
    <3>1. FileOf = [tool |-> job.tool, parts |-> done]
      BY DEF FileOf
    <3>2. FileOf.parts = done
      BY <3>1
    <3> QED BY <1>1, <3>2 DEF SoFar, Written
  <2> QED BY <1>1, <2>1, <2>2, <2>3, <2>4 DEF IInv
<1> QED BY <1>2, <1>3

\* Reading the file back changes nothing.
LEMMA ReadBackStep ==
  ASSUME IInv, ReadBack
  PROVE  IInv'
<1>1. /\ pc = "check" /\ pc' \in {"done", "failed"} /\ JobLike(job) /\ Written
      /\ job' = job /\ tree' = tree /\ todo' = todo /\ done' = done /\ file' = file
  BY DEF ReadBack, IInv
<1>2. job.tool # "mkpreloader"
  BY <1>1 DEF Written
<1>3. (SoFar /\ Editing /\ Written)'
  BY <1>1, <1>2 DEF SoFar, Editing, Written
<1> QED BY <1>1, <1>3 DEF IInv

\* No step of any tool breaks the invariant.
LEMMA NextInv == IInv /\ [Next]_vars => IInv'
<1> SUFFICES ASSUME IInv, [Next]_vars PROVE IInv'
  OBVIOUS
<1>1. CASE Start
  <2>1. PICK n \in DOMAIN Jobs : Run(Named(n, Jobs[n]))
    BY <1>1 DEF Start
  <2>2. JobLike(Named(n, Jobs[n]))
    BY JobsAssumption, NamedIs
  <2> QED BY <2>1, <2>2, RunStep
<1>2. CASE StartAgain
  <2>1. PICK j \in Reused : Run(Named(Again, j))
    BY <1>2 DEF StartAgain
  <2>2. JobLike(Named(Again, j))
    BY ReusedIs, NamedIs DEF IInv
  <2> QED BY <2>1, <2>2, RunStep
<1>3. CASE OpenPart
  BY <1>3, OpenPartStep
<1>4. CASE CopyPart
  BY <1>4, CopyPartStep
<1>5. CASE EditTree
  BY <1>5, EditTreeStep
<1>6. CASE ClosePart
  BY <1>6, ClosePartStep
<1>7. CASE AllParts
  BY <1>7, AllPartsStep
<1>8. CASE WriteFile
  BY <1>8, WriteFileStep
<1>9. CASE ReadBack
  BY <1>9, ReadBackStep
<1>10. CASE UNCHANGED vars
  <2>1. job' = job /\ pc' = pc /\ tree' = tree /\ todo' = todo /\ done' = done /\ file' = file
    BY <1>10 DEF vars
  <2>2. Part' = Part
    BY <2>1 DEF Part
  <2> QED BY <2>1, <2>2 DEF IInv, SoFar, Editing, Written, ForKernel
<1> QED BY <1>1, <1>2, <1>3, <1>4, <1>5, <1>6, <1>7, <1>8, <1>9, <1>10 DEF Next

\* The tools keep the invariant.
THEOREM Invariant == Spec => []IInv
BY InitInv, NextInv, PTL DEF Spec

-----------------------------------------------------------------------------
\* No tree a tool holds or has written is ever malformed.
THEOREM WellFormedAlways == Spec => []TreesWellFormed
<1>1. IInv => TreesWellFormed
  <2> SUFFICES ASSUME IInv PROVE TreesWellFormed
    OBVIOUS
  <2>1. tree # Refused => WellFormed(tree)
    BY GoodIs DEF IInv, Kept, Good
  <2>2. \A i \in DOMAIN file.parts :
          "tree" \in DOMAIN file.parts[i] => WellFormed(file.parts[i].tree)
    BY FileTreesAre DEF IInv
  <2> QED BY <2>1, <2>2 DEF TreesWellFormed
<1> QED BY <1>1, Invariant, PTL

\* Each payload of a finished file has room.
THEOREM LaidOutAlways == Spec => []LaidOut
<1>1. IInv => LaidOut
  <2> SUFFICES ASSUME IInv PROVE LaidOut
    OBVIOUS
  <2>1. FileLike(file)
    BY DEF IInv
  <2>2. CASE file.tool = "setargs"
    <3>1. PICK k \in Kernels : file.img = Android(k, [len |-> 0], Resource(file.parts))
      BY <2>1, <2>2 DEF FileLike
    <3>2. SizedParts(file.parts)
      BY <2>1, <2>2 DEF FileLike
    <3> DEFINE good(img) ==
                 LET lens == <<img.kernel.len, img.ramdisk.len, img.second.len>>
                     entries == img.second.entries
                     offs == img.second.offs
                 IN /\ Apart([i \in 1 .. 3 |-> <<img.offs[i], img.offs[i] + lens[i]>>], PAGE)
                    /\ \A i \in 1 .. 3 : img.offs[i] % PAGE = 0
                    /\ Apart([i \in DOMAIN entries |->
                                <<offs[i], offs[i] + entries[i].len>>],
                             SECTOR * (1 + Len(entries)))
                    /\ \A i \in DOMAIN entries :
                         /\ offs[i] % SECTOR = 0
                         /\ offs[i] + entries[i].len <= img.second.len
                         /\ "tree" \in DOMAIN entries[i]
                              => entries[i].len = Size(entries[i].tree)
    <3>3. good(Android(k, [len |-> 0], Resource(file.parts)))
      BY <3>2, AndroidIs
    <3>4. good(file.img)
      <4> HIDE DEF good
      <4> QED BY <3>1, <3>3
    <3> QED BY <2>2, <3>4 DEF LaidOut
  <2>3. CASE file.tool = "mkfit-uboot"
    <3>1. PICK v \in Vendors, u \in Uboots :
            ~UbootFitRefused(v, u) /\ file.fit = UbootFit(v, u)
      BY <2>1, <2>3 DEF FileLike
    <3> DEFINE good(fit) ==
                 LET put == fit.written
                 IN Apart([i \in DOMAIN put |-> <<put[i].at, put[i].at + put[i].len>>],
                          Size(fit.tree))
    <3>2. good(UbootFit(v, u))
      BY <3>1, UbootFitIs
    <3>3. good(file.fit)
      <4> HIDE DEF good
      <4> QED BY <3>1, <3>2
    <3> QED BY <2>3, <3>3 DEF LaidOut
  <2>4. CASE file.tool \notin {"setargs", "mkfit-uboot"}
    BY <2>4 DEF LaidOut
  <2> QED BY <2>2, <2>3, <2>4
<1> QED BY <1>1, Invariant, PTL

\* A preloader that is written is as long as it was, with its hashes right.
THEOREM PreloaderFitsAlways == Spec => []PreloaderFits
<1>1. IInv => PreloaderFits
  <2> SUFFICES ASSUME IInv, pc = "done", job.tool = "mkpreloader",
                      NEW i \in DOMAIN file.parts
               PROVE  SameLength(job.parts[i].copy, file.parts[i].copy)
    BY DEF PreloaderFits, SameLength
  <2>1. JobLike(job) /\ PatchedParts(done, job.parts) /\ Len(done) = 2 /\ file.parts = done
    BY DEF IInv, Written
  <2>2. i \in 1 .. 2
    <3>1. DOMAIN done = 1 .. Len(done)
      BY <2>1 DEF PatchedParts
    <3> QED BY <2>1, <3>1
  <2>3. done[i] = After(job.parts[i]) /\ Touchable(job.parts[i])
    BY <2>1, <2>2 DEF PatchedParts
  <2>4. SplPart(job.parts[i])
    BY <2>1, <2>2, JobTools
  <2>5. After(job.parts[i]).copy = PatchCopy(job.parts[i].copy)
    BY <2>4 DEF After, SplPart
  <2>6. SameLength(job.parts[i].copy, PatchCopy(job.parts[i].copy))
    BY <2>3, <2>4, PatchCopyIs
  <2> QED BY <2>1, <2>3, <2>5, <2>6
<1> QED BY <1>1, Invariant, PTL

-----------------------------------------------------------------------------
(***************************************************************************)
(* What an edit does to the entries of a tree.                             *)
(***************************************************************************)
\* A property of a tree: the path of its node, its name and its value.
Entry(b, p) == <<Paths(b.struct)[p], NameAt(b, p), b.struct[p].val>>

\* The entries are those of the properties.
LEMMA EntriesAre ==
  ASSUME NEW b
  PROVE  Entries(b) = {Entry(b, p) : p \in PropsAt(b)}
<1> DEFINE of(path) == {<<path[p], NameAt(b, p), b.struct[p].val>> : p \in PropsAt(b)}
<1>1. Entries(b) = UNION {of(path) : path \in {Paths(b.struct)}}
  BY DEF Entries
<1>2. of(Paths(b.struct)) = {Entry(b, p) : p \in PropsAt(b)}
  BY DEF Entry
<1> HIDE DEF of
<1> QED BY <1>1, <1>2

\* A well-formed tree holds a name once in a node.
LEMMA EntryOnce ==
  ASSUME NEW b, Sane(b), NEW p \in PropsAt(b), NEW q \in PropsAt(b),
         Paths(b.struct)[p] = Paths(b.struct)[q], NameAt(b, p) = NameAt(b, q)
  PROVE  p = q
<1>1. p \in 1 .. Len(b.struct) /\ q \in 1 .. Len(b.struct)
      /\ b.struct[p].tok = "prop" /\ b.struct[q].tok = "prop"
  BY BlobIs DEF Sane
<1> QED BY <1>1 DEF Sane, Formed, Distinct, NameAt

\* Places behind a cut, before and after it.
LEMMA Shifted ==
  ASSUME NEW n \in Nat, NEW k \in Nat, NEW d \in 0 .. 1, NEW p \in 1 .. n, p + d <= n
  PROVE  /\ \A q \in 1 .. n : p + d < q => q \in p + d + 1 .. n /\ q - d + k \in 1 .. n - d + k
         /\ \A r \in 1 .. n - d + k :
              p + k < r => /\ r + d - k \in p + d + 1 .. n /\ r + d - k \in 1 .. n
                           /\ (r + d - k) - d + k = r
OBVIOUS

\* Its names resolve.
LEMMA ResolvedIn ==
  ASSUME NEW b, Sane(b)
  PROVE  \A q \in PropsAt(b) : b.struct[q].at \in 1 .. Len(b.strings)
<1>1. Distinct(b.struct, Paths(b.struct), b.strings)
  BY DEF Sane, Formed
<1>2. PropsAt(b) = {q \in 1 .. Len(b.struct) : b.struct[q].tok = "prop"}
  BY SaneIs, BlobIs
<1>3. DOMAIN b.strings = 1 .. Len(b.strings)
  BY SaneIs
<1> QED BY <1>1, <1>2, <1>3 DEF Distinct

\* The entries of the tokens that are put in, all of them in the node M.
Brought(ins, M, strings) ==
  {<<M, strings[ins[j].at], ins[j].val>> : j \in {i \in 1 .. Len(ins) : ins[i].tok = "prop"}}

\* The entries of the tokens that stay.
Staying(b, p, d) == {Entry(b, q) : q \in {u \in PropsAt(b) : u <= p \/ p + d < u}}

IsBrought(b, new, p, d, ins, M) ==
  Entries(new) = Staying(b, p, d) \cup Brought(ins, M, new.strings)

\* No entry but those of the tokens that are taken out and put in changes.
LEMMA SplicedEntries ==
  ASSUME NEW b, Sane(b), NEW new \in Blobs, NEW ins \in Seq(Tokens), NEW d \in 0 .. 1,
         NEW p \in 1 .. Len(b.struct), p + d <= Len(b.struct),
         NEW M \in Seq(STRING), Fits(ins, Standing(b.struct, Paths(b.struct), p), M),
         Standing(b.struct, Paths(b.struct), p + d) = Standing(b.struct, Paths(b.struct), p),
         new.struct = Spliced(b.struct, p, d, ins), Len(b.strings) <= Len(new.strings),
         \A i \in 1 .. Len(b.strings) : new.strings[i] = b.strings[i]
  PROVE  IsBrought(b, new, p, d, ins, M)
<1> DEFINE s == b.struct
           t == new.struct
           n == Len(s)
           k == Len(ins)
           kept == {u \in PropsAt(b) : u <= p \/ p + d < u}
<1>1. /\ b \in Blobs /\ s \in Seq(Tokens) /\ n \in Nat /\ k \in Nat
      /\ b.strings \in Seq(STRING) /\ new.strings \in Seq(STRING)
      /\ PropsAt(b) = {q \in 1 .. n : s[q].tok = "prop"}
      /\ PropsAt(new) = {q \in 1 .. Len(t) : t[q].tok = "prop"}
  BY SaneIs, BlobIs
<1>2. /\ Len(t) = n - d + k
      /\ \A q \in 1 .. p : t[q] = s[q]
      /\ \A j \in 1 .. k : t[p + j] = ins[j]
      /\ \A q \in p + d + 1 .. n : t[q - d + k] = s[q]
  <2>1. IsSpliced(Spliced(s, p, d, ins), s, p, d, ins)
    BY <1>1, SplicedIs, Zenon
  <2> QED BY <2>1 DEF IsSpliced
<1>3. /\ \A q \in 1 .. p : Paths(t)[q] = Paths(s)[q]
      /\ \A j \in 1 .. k : Paths(t)[p + j] = M
      /\ \A q \in p + d + 1 .. n : Paths(t)[q - d + k] = Paths(s)[q]
  <2>1. StillIn(Paths(Spliced(s, p, d, ins)), Paths(s), n, p, d, k, M)
    BY <1>1, SplicedPaths, Zenon
  <2> QED BY <2>1 DEF StillIn
<1>4. \A q \in PropsAt(b) : s[q].at \in 1 .. Len(b.strings)
  BY ResolvedIn
<1>5. ASSUME NEW q \in PropsAt(b), NEW r, r \in 1 .. Len(t), t[r] = s[q],
             Paths(t)[r] = Paths(s)[q]
      PROVE  r \in PropsAt(new) /\ Entry(new, r) = Entry(b, q)
  <2>1. NameAt(new, r) = NameAt(b, q)
    BY <1>4, <1>5 DEF NameAt
  <2> QED BY <1>1, <1>5, <2>1 DEF Entry
<1>6. ASSUME NEW q \in kept PROVE Entry(b, q) \in {Entry(new, r) : r \in PropsAt(new)}
  <2>1. q \in 1 .. n /\ d \in Nat /\ p \in 1 .. n
    BY <1>1
  <2>2. CASE q <= p
    <3>1. q \in 1 .. p /\ q \in 1 .. Len(t)
      <4>1. n \in Nat /\ k \in Nat /\ Len(t) = n - d + k /\ p + d <= n /\ d \in 0 .. 1
        BY <1>1, <1>2
      <4> HIDE DEF n, k, t
      <4> QED BY <2>1, <2>2, <4>1
    <3>2. t[q] = s[q] /\ Paths(t)[q] = Paths(s)[q]
      BY <1>2, <1>3, <3>1
    <3> QED BY <1>5, <3>1, <3>2
  <2>3. CASE p + d < q
    <3>1. q \in p + d + 1 .. n /\ q - d + k \in 1 .. Len(t)
      <4>1. q - d + k \in 1 .. n - d + k /\ q \in p + d + 1 .. n
        BY <1>1, <2>1, <2>3, Shifted, Zenon
      <4> QED BY <1>2, <4>1, Zenon
    <3>2. t[q - d + k] = s[q] /\ Paths(t)[q - d + k] = Paths(s)[q]
      BY <1>2, <1>3, <3>1
    <3> QED BY <1>5, <3>1, <3>2
  <2> QED BY <2>2, <2>3
<1>7. ASSUME NEW j \in 1 .. k, ins[j].tok = "prop"
      PROVE  /\ p + j \in PropsAt(new)
             /\ Entry(new, p + j) = <<M, new.strings[ins[j].at], ins[j].val>>
  <2>1. p + j \in 1 .. Len(t)
    BY <1>1, <1>2
  <2> QED BY <1>1, <1>2, <1>3, <1>7, <2>1 DEF Entry, NameAt
<1>8. ASSUME NEW r \in PropsAt(new)
      PROVE  Entry(new, r) \in {Entry(b, q) : q \in kept} \cup Brought(ins, M, new.strings)
  <2>1. r \in 1 .. n - d + k /\ t[r].tok = "prop"
    BY <1>1, <1>2
  <2>2. CASE r <= p
    <3>1. r \in 1 .. p /\ r \in 1 .. n
      BY <1>1, <2>1, <2>2
    <3>2. t[r] = s[r] /\ Paths(t)[r] = Paths(s)[r] /\ r \in kept /\ r \in 1 .. Len(t)
      BY <1>1, <1>2, <1>3, <2>1, <3>1
    <3> QED BY <1>5, <3>2
  <2>3. CASE p < r /\ r <= p + k
    <3>1. r - p \in 1 .. k /\ p + (r - p) = r
      BY <1>1, <2>1, <2>3
    <3>2. t[r] = ins[r - p]
      BY <1>2, <3>1
    <3>3. Entry(new, r) = <<M, new.strings[ins[r - p].at], ins[r - p].val>>
      BY <1>7, <2>1, <3>1, <3>2
    <3> QED BY <2>1, <3>1, <3>2, <3>3 DEF Brought
  <2>4. CASE p + k < r
    <3>1. r + d - k \in p + d + 1 .. n /\ (r + d - k) - d + k = r /\ r + d - k \in 1 .. n
      BY <1>1, <2>1, <2>4, Shifted, Zenon
    <3>2. t[r] = s[r + d - k] /\ Paths(t)[r] = Paths(s)[r + d - k] /\ r \in 1 .. Len(t)
      BY <1>2, <1>3, <2>1, <3>1
    <3>3. r + d - k \in kept
      BY <1>1, <2>1, <3>1, <3>2
    <3> QED BY <1>5, <3>2, <3>3
  <2> QED BY <1>1, <2>1, <2>2, <2>3, <2>4
<1>9. Brought(ins, M, new.strings) \subseteq {Entry(new, r) : r \in PropsAt(new)}
  <2> SUFFICES ASSUME NEW j \in 1 .. k, ins[j].tok = "prop"
               PROVE  <<M, new.strings[ins[j].at], ins[j].val>>
                        \in {Entry(new, r) : r \in PropsAt(new)}
    BY DEF Brought
  <2> QED BY <1>7
<1>10. Entries(new) = {Entry(new, r) : r \in PropsAt(new)}
  BY EntriesAre
<1> HIDE DEF kept
<1> QED BY <1>6, <1>8, <1>9, <1>10 DEF IsBrought, Staying, kept

\* A property's token has the value it is for.
LEMMA TokenValues ==
  ASSUME NEW strings, NEW props \in Additions
  PROVE  \A i \in 1 .. Len(props) : PropTokens(strings, props)[i].val = props[i][2]
<1>1. DOMAIN props = 1 .. Len(props)
  BY DEF Additions
<1> QED BY <1>1 DEF PropTokens, Prop

\* The entries of some properties in one node.
At(P, props) == {<<P, props[i][1], props[i][2]>> : i \in 1 .. Len(props)}

\* Properties put in at the head of a node are what is new.
LEMMA InsertEntries ==
  ASSUME NEW b, Sane(b), NEW p \in NodesAt(b), NEW props \in Additions, props # <<>>,
         Sane(Insert(b, p, props))
  PROVE  Entries(Insert(b, p, props)) = Entries(b) \cup At(Paths(b.struct)[p], props)
<1> DEFINE s == b.struct
           path == Paths(s)
           n == Len(s)
           M == path[p]
           more == Intern(b.strings, NamesOf(props))
           ins == PropTokens(more, props)
           k == Len(props)
           new == Insert(b, p, props)
<1>1. /\ b \in Blobs /\ s \in Seq(Tokens) /\ n \in Nat /\ b.strings \in Seq(STRING)
      /\ p \in 1 .. n /\ s[p].tok = "begin" /\ M \in Seq(STRING)
      /\ PropsAt(b) = {q \in 1 .. n : s[q].tok = "prop"}
  BY SaneIs, BlobIs
<1>2. /\ more \in Seq(STRING) /\ Len(b.strings) <= Len(more)
      /\ \A i \in 1 .. Len(b.strings) : more[i] = b.strings[i]
      /\ ins \in Seq(Tokens) /\ Len(ins) = k
      /\ \A i \in 1 .. k : ins[i].tok = "prop" /\ more[ins[i].at] = props[i][1]
  <2>1. Interned(more, ins, b.strings, props)
    BY <1>1, PropTokensAre, Zenon
  <2> HIDE DEF more, ins
  <2> QED BY <2>1 DEF Interned
<1>3. \A i \in 1 .. k : ins[i].val = props[i][2]
  BY TokenValues
<1>4. k \in Nat /\ k >= 1 /\ DOMAIN props = 1 .. k
  BY DEF Additions
<1>5. new.struct = Spliced(s, p, 0, ins) /\ new.strings = more /\ new \in Blobs
  <2>1. p + 0 + 1 = p + 1
    BY <1>1
  <2> QED BY <2>1 DEF Insert, Splice, Spliced, Sane
<1>6. Standing(s, path, p) = M
  BY <1>1, StandingIs
<1> HIDE DEF ins, more, k, new
<1>7. Fits(ins, M, M)
  <2>1. \A j \in 1 .. Len(ins) : ins[j].tok = "prop"
    BY <1>2
  <2>2. 1 \in 1 .. Len(ins) /\ Len(ins) \in 1 .. Len(ins) /\ Len(ins) >= 1
    BY <1>2, <1>4
  <2>3. \A j \in 2 .. Len(ins) : j \in 1 .. Len(ins) /\ j - 1 \in 1 .. Len(ins)
    BY <2>2
  <2>4. M \o <<>> = M
    BY <1>1
  <2> HIDE DEF M
  <2>5. M = M \o Own(ins[1])
    BY <2>1, <2>2, <2>4 DEF Own
  <2>6. Beyond(ins[Len(ins)], M) = M
    BY <2>1, <2>2 DEF Beyond
  <2> QED BY <2>1, <2>2, <2>3, <2>5, <2>6 DEF Fits
<1> HIDE DEF M
<1>8. IsBrought(b, new, p, 0, ins, M)
  <2>1. 0 \in 0 .. 1 /\ p + 0 <= Len(s)
        /\ Standing(s, Paths(s), p + 0) = Standing(s, Paths(s), p)
        /\ p \in 1 .. Len(b.struct)
    BY <1>1
  <2>2. Fits(ins, Standing(s, Paths(s), p), M) /\ M \in Seq(STRING)
    BY <1>1, <1>6, <1>7 DEF M
  <2>3. Len(b.strings) <= Len(new.strings)
        /\ \A i \in 1 .. Len(b.strings) : new.strings[i] = b.strings[i]
    BY <1>2, <1>5
  <2> QED BY <1>2, <1>5, <2>1, <2>2, <2>3, SplicedEntries, Zenon
<1>9. Staying(b, p, 0) = Entries(b)
  <2>1. {u \in PropsAt(b) : u <= p \/ p + 0 < u} = PropsAt(b)
    BY <1>1
  <2> QED BY <2>1, EntriesAre DEF Staying
<1>10. Brought(ins, M, more) = At(M, props)
  <2>1. {i \in 1 .. Len(ins) : ins[i].tok = "prop"} = 1 .. k
    BY <1>2
  <2>2. \A i \in 1 .. k : <<M, more[ins[i].at], ins[i].val>> = <<M, props[i][1], props[i][2]>>
    BY <1>2, <1>3
  <2>3. Brought(ins, M, more) = {<<M, more[ins[i].at], ins[i].val>> : i \in 1 .. k}
    BY <2>1 DEF Brought
  <2>4. At(M, props) = {<<M, props[i][1], props[i][2]>> : i \in 1 .. k}
    BY DEF At, k
  <2> QED BY <2>2, <2>3, <2>4
<1> QED BY <1>5, <1>8, <1>9, <1>10 DEF IsBrought, new, M

\* Tokens that mean nothing, put over the property at p.
Nops(b, p) == [i \in 1 .. Words(b.struct[p]) |-> Nop]
Nopped(b, p) ==
  WithTokens(b, SubSeq(b.struct, 1, p - 1) \o Nops(b, p)
                \o SubSeq(b.struct, p + 1, Len(b.struct)))

NopsFit(b, p) ==
  /\ p - 1 \in 1 .. Len(b.struct) /\ (p - 1) + 1 = p /\ p < Len(b.struct)
  /\ Nops(b, p) \in Seq(Tokens)
  /\ \A i \in 1 .. Len(Nops(b, p)) : Nops(b, p)[i].tok = "nop"
  /\ Paths(b.struct)[p] \in Seq(STRING)
  /\ Standing(b.struct, Paths(b.struct), p - 1) = Paths(b.struct)[p]
  /\ Standing(b.struct, Paths(b.struct), p) = Paths(b.struct)[p]
  /\ Fits(Nops(b, p), Paths(b.struct)[p], Paths(b.struct)[p])
  /\ Nopped(b, p).struct = Spliced(b.struct, p - 1, 1, Nops(b, p))
  /\ Nopped(b, p).strings = b.strings

\* They stand in the node the property stood in.
LEMMA NopsAre ==
  ASSUME NEW b, Sane(b), NEW p \in 1 .. Len(b.struct), b.struct[p].tok = "prop"
  PROVE  NopsFit(b, p)
<1> DEFINE s == b.struct
           path == Paths(s)
           n == Len(s)
           M == path[p]
           k == Words(s[p])
           ins == Nops(b, p)
           t == SubSeq(s, 1, p - 1) \o ins \o SubSeq(s, p + 1, n)
           c == p - 1
<1>1. /\ b \in Blobs /\ s \in Seq(Tokens) /\ n \in Nat /\ b.strings \in Seq(STRING)
      /\ p < n /\ c \in 1 .. n /\ M \in Seq(STRING) /\ s[p] \in Tokens
  BY SaneIs, BlobIs, AheadOf
<1>2. k \in Nat /\ k >= 1
  <2>1. s[p].val \in Seq(Int)
    BY <1>1, TokensAre
  <2>2. k = 3 + Len(s[p].val)
    BY DEF Words
  <2>3. Len(s[p].val) \in Nat
    BY <2>1
  <2> HIDE DEF k
  <2> QED BY <2>2, <2>3
<1>0. ins = [i \in 1 .. k |-> Nop]
  BY DEF Nops
<1> HIDE DEF k, ins
<1>3. ins \in Seq(Tokens) /\ Len(ins) = k /\ \A i \in 1 .. k : ins[i].tok = "nop"
  <2>1. Nop \in Tokens /\ Nop.tok = "nop"
    BY TokensAre DEF Nop
  <2> QED BY <1>0, <1>2, <2>1
<1>4. t = Spliced(s, c, 1, ins)
  <2>1. c + 1 + 1 = p + 1
    BY <1>1
  <2> QED BY <2>1 DEF Spliced
<1>5. Standing(s, path, c) = M /\ Standing(s, path, p) = M /\ c + 1 = p
  <2>1. Standing(s, path, c) = M
    BY AheadOf
  <2>2. Standing(s, path, p) = M
    BY <1>1, StandingIs
  <2> QED BY <1>1, <2>1, <2>2
<1>7. Nopped(b, p).struct = t /\ Nopped(b, p).strings = b.strings
  <2>1. \A r \in Blobs : \A x : /\ [r EXCEPT !.struct = x].struct = x
                              /\ [r EXCEPT !.struct = x].strings = r.strings
    BY DEF Blobs
  <2>2. Nopped(b, p) = [b EXCEPT !.struct = t]
    BY DEF Nopped, WithTokens, t, ins
  <2> HIDE DEF t
  <2> QED BY <1>1, <2>1, <2>2
<1> HIDE DEF t
<1>6. Fits(ins, M, M)
  <2>1. 1 \in 1 .. k /\ Len(ins) \in 1 .. k /\ Len(ins) >= 1
    BY <1>2, <1>3
  <2>2. \A j \in 2 .. Len(ins) : j \in 1 .. k /\ j - 1 \in 1 .. k
    BY <1>2, <1>3
  <2>3. M \o <<>> = M
    BY <1>1
  <2> HIDE DEF M
  <2>4. M = M \o Own(ins[1])
    BY <1>3, <2>1, <2>3 DEF Own
  <2>5. Beyond(ins[Len(ins)], M) = M
    BY <1>3, <2>1 DEF Beyond
  <2> QED BY <1>3, <2>1, <2>2, <2>4, <2>5 DEF Fits
<1> QED BY <1>1, <1>3, <1>4, <1>5, <1>6, <1>7 DEF NopsFit, ins

\* A property overwritten by tokens that mean nothing is what is gone.
LEMMA NopEntries ==
  ASSUME NEW b, Sane(b), NEW p \in 1 .. Len(b.struct), b.struct[p].tok = "prop",
         Sane(Nopped(b, p))
  PROVE  Entries(Nopped(b, p)) = Entries(b) \ {Entry(b, p)}
<1> DEFINE s == b.struct
           M == Paths(s)[p]
           ins == Nops(b, p)
           c == p - 1
           new == Nopped(b, p)
<1>1. /\ b \in Blobs /\ s \in Seq(Tokens) /\ Len(s) \in Nat /\ b.strings \in Seq(STRING)
      /\ PropsAt(b) = {q \in 1 .. Len(s) : s[q].tok = "prop"}
  BY SaneIs, BlobIs
<1>2. /\ c \in 1 .. Len(s) /\ c + 1 = p /\ p < Len(s)
      /\ ins \in Seq(Tokens) /\ (\A i \in 1 .. Len(ins) : ins[i].tok = "nop")
      /\ M \in Seq(STRING) /\ Standing(s, Paths(s), c) = M /\ Standing(s, Paths(s), p) = M
      /\ Fits(ins, M, M) /\ new.struct = Spliced(s, c, 1, ins) /\ new.strings = b.strings
  BY NopsAre DEF NopsFit
<1> HIDE DEF new, ins, c
<1>8. IsBrought(b, new, c, 1, ins, M)
  <2>1. 1 \in 0 .. 1 /\ c + 1 <= Len(s)
        /\ Standing(s, Paths(s), c + 1) = Standing(s, Paths(s), c)
    BY <1>1, <1>2
  <2>2. Fits(ins, Standing(s, Paths(s), c), M)
    BY <1>2
  <2>3. Len(b.strings) <= Len(new.strings)
        /\ \A i \in 1 .. Len(b.strings) : new.strings[i] = b.strings[i]
    <3>1. \A w \in Seq(STRING) : Len(w) <= Len(w) /\ \A i \in 1 .. Len(w) : w[i] = w[i]
      OBVIOUS
    <3> QED BY <1>1, <1>2, <3>1, Zenon
  <2>4. new \in Blobs
    BY DEF Sane, new
  <2> HIDE DEF M
  <2> QED BY <1>2, <2>1, <2>2, <2>3, <2>4, SplicedEntries, Zenon
<1>9. Brought(ins, M, new.strings) = {}
  <2>1. \A i \in 1 .. Len(ins) : ins[i].tok # "prop"
    BY <1>2
  <2> QED BY <2>1 DEF Brought
<1>10. {u \in PropsAt(b) : u <= c \/ c + 1 < u} = PropsAt(b) \ {p}
  BY <1>1, <1>2
<1>11. p \in PropsAt(b) /\ Entries(b) = {Entry(b, q) : q \in PropsAt(b)}
  BY <1>1, EntriesAre
<1>12. \A q \in PropsAt(b) : Entry(b, q) = Entry(b, p) => q = p
  BY <1>11, EntryOnce DEF Entry
<1>13. {Entry(b, q) : q \in PropsAt(b) \ {p}} = {Entry(b, q) : q \in PropsAt(b)} \ {Entry(b, p)}
  BY <1>11, <1>12
<1> QED BY <1>8, <1>9, <1>10, <1>11, <1>13 DEF IsBrought, Staying, new

\* x makes room for y, and nothing else changes.
Replaced(b, new, x, y) ==
  /\ x \in Entries(b)
  /\ Entries(b) \ {x} \subseteq Entries(new)
  /\ Entries(new) \subseteq (Entries(b) \ {x}) \cup {y}

\* A value put in place is its property's, and no other's.
LEMMA SetValueEntries ==
  ASSUME NEW b, Sane(b), NEW p \in 1 .. Len(b.struct), b.struct[p].tok = "prop",
         NEW v \in Seq(Int)
  PROVE  /\ Replaced(b, SetValue(b, p, v), Entry(b, p),
                     <<Paths(b.struct)[p], NameAt(b, p), v>>)
         /\ \A q \in 1 .. Len(b.struct) : q # p => SetValue(b, p, v).struct[q] = b.struct[q]
<1> DEFINE new == SetValue(b, p, v)
           n == Len(b.struct)
<1>1. /\ Sane(new) /\ Len(new.struct) = n /\ new.strings = b.strings
      /\ Paths(new.struct) = Paths(b.struct)
      /\ \A q \in 1 .. n :
           /\ new.struct[q].tok = b.struct[q].tok
           /\ b.struct[q].tok = "prop" => new.struct[q].at = b.struct[q].at
      /\ new.struct[p].val = v
  BY SetValueIs
<1>2. \A q \in 1 .. n : q # p => new.struct[q] = b.struct[q]
  <2>1. b \in Blobs /\ b.struct \in Seq(Tokens)
    BY SaneIs
  <2>2. new = [b EXCEPT !.struct = [b.struct EXCEPT ![p].val = v]]
    BY DEF SetValue, WithTokens
  <2>3. \A r \in Blobs : \A x : [r EXCEPT !.struct = x].struct = x
    BY DEF Blobs
  <2>4. new.struct = [b.struct EXCEPT ![p].val = v]
    BY <2>1, <2>2, <2>3
  <2> QED BY <2>1, <2>4
<1> HIDE DEF new
<1>3. PropsAt(new) = {q \in 1 .. n : new.struct[q].tok = "prop"}
      /\ PropsAt(b) = {q \in 1 .. n : b.struct[q].tok = "prop"}
  BY <1>1, BlobIs DEF Sane
<1>4. PropsAt(new) = PropsAt(b) /\ p \in PropsAt(b)
  BY <1>1, <1>3
<1>5. \A q \in PropsAt(b) : q # p => Entry(new, q) = Entry(b, q)
  BY <1>1, <1>2, <1>3 DEF Entry, NameAt
<1>6. Entry(new, p) = <<Paths(b.struct)[p], NameAt(b, p), v>>
  BY <1>1 DEF Entry, NameAt
<1>7. \A q \in PropsAt(b) : Entry(b, q) = Entry(b, p) => q = p
  BY <1>4, EntryOnce DEF Entry
<1>8. Entries(new) = {Entry(new, q) : q \in PropsAt(b)}
      /\ Entries(b) = {Entry(b, q) : q \in PropsAt(b)}
  BY <1>4, EntriesAre
<1>9. Replaced(b, new, Entry(b, p), Entry(new, p))
  BY <1>4, <1>5, <1>7, <1>8 DEF Replaced
<1> QED BY <1>2, <1>6, <1>9 DEF new

\* The first node so named bears the name, and none ahead of it does.
LEMMA FirstNamed ==
  ASSUME NEW b, Sane(b), NEW node, FirstNode(b, node) # 0
  PROVE  /\ FirstNode(b, node) \in NodesAt(b)
         /\ Is(Paths(b.struct)[FirstNode(b, node)], node)
         /\ \A p \in NodesAt(b) : Is(Paths(b.struct)[p], node) => FirstNode(b, node) <= p
<1> DEFINE named == {p \in NodesAt(b) : Is(Paths(b.struct)[p], node)}
<1>1. FirstNode(b, node) = IF named = {} THEN 0 ELSE Min(named)
  BY DEF FirstNode, FirstOn
<1>2. named \in SUBSET Nat
  <2>1. NodesAt(b) \subseteq Nat
    BY BlobIs DEF Sane
  <2> QED BY <2>1
<1>3. FirstNode(b, node) \in named /\ \A p \in named : FirstNode(b, node) <= p
  <2> HIDE DEF named
  <2> QED BY <1>1, <1>2, Least
<1> QED BY <1>3

\* A property that is found bears the name, in a node so named.
LEMMA FindNamed ==
  ASSUME NEW b, Sane(b), NEW node, NEW prop, FindProp(b, node, prop) # 0
  PROVE  /\ FindProp(b, node, prop) \in PropsAt(b)
         /\ NameAt(b, FindProp(b, node, prop)) = prop
         /\ Is(Paths(b.struct)[FindProp(b, node, prop)], node)
<1> DEFINE named == {p \in PropsAt(b) : NameAt(b, p) = prop /\ Is(Paths(b.struct)[p], node)}
<1>1. FindProp(b, node, prop) = IF named = {} THEN 0 ELSE Min(named)
  BY DEF FindProp
<1>2. named \in SUBSET Nat
  <2>1. PropsAt(b) \subseteq Nat
    BY BlobIs DEF Sane
  <2> QED BY <2>1
<1>3. FindProp(b, node, prop) \in named
  <2> HIDE DEF named
  <2> QED BY <1>1, <1>2, Least
<1> QED BY <1>3

\* fdt_node_props finds nothing but properties of the node, with their values.
LEMMA NodePropsFrom ==
  ASSUME NEW b, Sane(b), NEW node, FirstNode(b, node) # 0,
         NEW n \in DOMAIN NodeProps(b, node)
  PROVE  \E p \in PropsAt(b) : /\ Paths(b.struct)[p] = Paths(b.struct)[FirstNode(b, node)]
                               /\ NameAt(b, p) = n
                               /\ b.struct[p].val = NodeProps(b, node)[n]
<1> DEFINE s == b.struct
           path == Paths(s)
           first == FirstNode(b, node)
           left == {q \in NodesAt(b) \cup PropsAt(b) : q > first /\ ~IsPrefix(path[first], path[q])}
           own == {p \in PropsAt(b) :
                     /\ p > first /\ path[p] = path[first]
                     /\ \A q \in left : p < q}
           named == {p \in own : NameAt(b, p) = n}
<1>1. n \in {NameAt(b, p) : p \in own} /\ NodeProps(b, node)[n] = s[Max(named)].val
  <2> DEFINE of(x) == s[Max({p \in own : NameAt(b, p) = x})].val
             names == {NameAt(b, p) : p \in own}
  <2>1. NodeProps(b, node) = [x \in names |-> of(x)]
    BY DEF NodeProps, FirstNode
  <2>2. of(n) = s[Max(named)].val
    OBVIOUS
  <2> HIDE DEF of, named
  <2>3. n \in names /\ NodeProps(b, node)[n] = of(n)
    <3> HIDE DEF names
    <3> QED BY <2>1
  <2> QED BY <2>2, <2>3
<1>2. Len(s) \in Nat /\ named \in SUBSET (1 .. Len(s)) /\ named # {}
  <2>1. PropsAt(b) \subseteq 1 .. Len(s) /\ Len(s) \in Nat
    BY BlobIs DEF Sane
  <2>2. own \subseteq PropsAt(b)
    OBVIOUS
  <2> HIDE DEF own
  <2> QED BY <1>1, <2>1, <2>2
<1>3. Max(named) \in named
  <2> HIDE DEF named
  <2> QED BY <1>2, Greatest
<1>4. Max(named) \in PropsAt(b) /\ path[Max(named)] = path[first] /\ NameAt(b, Max(named)) = n
  <2> DEFINE m == Max(named)
  <2>1. m \in named
    BY <1>3
  <2> HIDE DEF m, left
  <2> QED BY <2>1 DEF m
<1> HIDE DEF named
<1> QED BY <1>1, <1>4

\* A node that is left is closed by an end of its own.
LEMMA Exited ==
  ASSUME NEW s \in Seq(Tokens), NEW x \in Seq(STRING),
         NEW p \in 1 .. Len(s), Starts(x, Paths(s)[p]),
         NEW c \in p .. Len(s), ~Starts(x, Standing(s, Paths(s), c))
  PROVE  \E r \in p .. c : s[r].tok = "end" /\ Paths(s)[r] = x
<1> DEFINE n == Len(s)
           path == Paths(s)
           S == {r \in p .. c : ~Starts(x, Standing(s, path, r))}
           r == Min(S)
<1>1. n \in Nat /\ S \in SUBSET Nat /\ c \in S /\ \A q \in 1 .. n : path[q] \in Seq(STRING)
  <2>1. n \in Nat /\ S \in SUBSET Nat /\ c \in S
    OBVIOUS
  <2>2. path \in Seq(Seq(STRING)) /\ DOMAIN path = 1 .. n
    BY PathsAre DEF Follows
  <2> DEFINE V == Seq(STRING)
  <2> HIDE DEF V, path, n
  <2>3. \A y \in Seq(V) : \A q \in DOMAIN y : y[q] \in V
    OBVIOUS
  <2> QED BY <2>1, <2>2, <2>3 DEF V
<1>2. r \in S /\ \A q \in S : r <= q
  <2> HIDE DEF S
  <2> QED BY <1>1, Least
<1>3. r \in p .. c /\ r \in 1 .. n /\ ~Starts(x, Standing(s, path, r))
  BY <1>1, <1>2
<1> HIDE DEF path, r
<1>4. Starts(x, path[r])
  <2>1. CASE r = p
    BY <2>1 DEF path
  <2>2. CASE r # p
    <3>1. r - 1 \in p .. c /\ r - 1 \in 0 .. n /\ ~(r <= r - 1)
      BY <1>1, <1>3, <2>2
    <3>2. Starts(x, Standing(s, path, r - 1))
      BY <1>2, <3>1
    <3>3. path[r] = Standing(s, path, r - 1) \o Own(s[r])
      BY <1>3, StandingIs DEF path
    <3>4. Standing(s, path, r - 1) \in Seq(STRING) /\ Own(s[r]) \in Seq(STRING)
      <4>1. s[r] \in Tokens
        BY <1>3
      <4> QED BY <3>1, <4>1, StandingIs, OwnIs DEF path
    <3>5. \A y, z \in Seq(STRING) : Starts(x, y) => Starts(x, y \o z)
      BY DEF Starts
    <3> QED BY <3>2, <3>3, <3>4, <3>5
  <2> QED BY <2>1, <2>2
<1>5. Standing(s, path, r) = IF s[r].tok = "end" THEN Front(path[r]) ELSE path[r]
  BY <1>3 DEF Standing, Beyond
<1>6. s[r].tok = "end" /\ ~Starts(x, Front(path[r]))
  BY <1>3, <1>4, <1>5
<1>7. path[r] = x
  <2>1. \A y \in Seq(STRING) : Starts(x, y) /\ ~Starts(x, Front(y)) => y = x
    <3> TAKE y \in Seq(STRING)
    <3> HAVE Starts(x, y) /\ ~Starts(x, Front(y))
    <3>1. Len(x) \in Nat /\ Len(y) \in Nat /\ Len(x) <= Len(y)
      BY DEF Starts
    <3>2. CASE y = <<>>
      BY <3>1, <3>2
    <3>3. CASE y # <<>> /\ Len(x) < Len(y)
      <4>1. Len(Front(y)) = Len(y) - 1 /\ \A i \in 1 .. Len(y) - 1 : Front(y)[i] = y[i]
        BY <3>3, FrontIs
      <4> QED BY <3>1, <3>3, <4>1 DEF Starts
    <3>4. CASE Len(x) = Len(y)
      BY <3>4, StartsAre
    <3> QED BY <3>1, <3>2, <3>3, <3>4
  <2> QED BY <1>1, <1>3, <1>4, <1>6, <2>1
<1> QED BY <1>3, <1>6, <1>7 DEF path

\* The end at which a node is closed is in that node.
LEMMA ClosedAtNode ==
  ASSUME NEW b, Sane(b), NEW p \in NodesAt(b)
  PROVE  Paths(b.struct)[ClosedAt(b, p)] = Paths(b.struct)[p]
<1> DEFINE s == b.struct
           path == Paths(s)
           n == Len(s)
           S == {q \in p .. n : s[q].tok = "end" /\ Len(path[q]) = Len(path[p])}
           c == ClosedAt(b, p)
           x == path[p]
<1>1. n \in Nat /\ p \in 1 .. n /\ s[p].tok = "begin" /\ s \in Seq(Tokens)
      /\ \A q \in 1 .. n : path[q] \in Seq(STRING)
  BY SaneIs, BlobIs
<1>2. c \in S /\ \A q \in S : c <= q
  <2>1. c = Min(S)
    BY DEF ClosedAt
  <2>2. S # {}
    <3>1. p \in 1 .. n /\ s[p].tok = "begin"
      BY <1>1
    <3> QED BY <3>1 DEF Sane, Formed, Closed
  <2>3. S \in SUBSET Nat
    BY <1>1
  <2> HIDE DEF S, c
  <2> QED BY <2>1, <2>2, <2>3, Least
<1> HIDE DEF c
<1>3. c \in p .. n /\ s[c].tok = "end" /\ Len(path[c]) = Len(x) /\ c # p
  BY <1>1, <1>2
<1>4. c \in 1 .. n /\ c - 1 \in p .. n /\ c - 1 \in p .. n
  BY <1>1, <1>3
<1>5. path[c] = Standing(s, path, c - 1)
  BY <1>1, <1>3, <1>4, StandingIs
<1>6. SUFFICES ASSUME path[c] # x PROVE FALSE
  BY DEF c
<1>7. ~Starts(x, path[c])
  BY <1>1, <1>3, <1>4, <1>6, StartsAre
<1>8. PICK r \in p .. c - 1 : s[r].tok = "end" /\ path[r] = x
  <2>1. Starts(x, path[p]) /\ x \in Seq(STRING)
    BY <1>1, StartsAre
  <2>2. ~Starts(x, Standing(s, path, c - 1))
    BY <1>5, <1>7
  <2> HIDE DEF x
  <2> QED BY <1>1, <1>4, <2>1, <2>2, Exited
<1>9. r \in S /\ ~(c <= r)
  BY <1>1, <1>3, <1>8
<1> QED BY <1>2, <1>9

\* w is y with one component more.
Longer(w, y, v) ==
  /\ Len(w) = Len(y) + 1
  /\ \A i \in 1 .. Len(y) : w[i] = y[i]
  /\ w[Len(y) + 1] = v

\* Appending makes a path one longer.
LEMMA LongerIs ==
  ASSUME NEW V, NEW y \in Seq(V), NEW v \in V
  PROVE  y \o <<v>> \in Seq(V) /\ Longer(y \o <<v>>, y, v)
<1>1. y \o <<v>> \in Seq(V) /\ Len(y \o <<v>>) = Len(y) + 1
  OBVIOUS
<1>2. \A i \in 1 .. Len(y) : (y \o <<v>>)[i] = y[i]
  OBVIOUS
<1>3. (y \o <<v>>)[Len(y) + 1] = v
  OBVIOUS
<1> QED BY <1>1, <1>2, <1>3 DEF Longer

\* What is under a node so named bears both names.
LEMMA IsBelow ==
  ASSUME NEW P \in Seq(STRING), NEW parent, NEW name \in STRING, Is(P, <<parent>>)
  PROVE  Is(P \o <<name>>, <<parent, name>>)
<1> DEFINE M == P \o <<name>>
           m == Len(P)
<1>1. m \in Nat /\ m - 1 >= 0 /\ SubSeq(P, (m - 1) + 1, m) = <<parent>>
  BY DEF Is
<1>2. m >= 1 /\ (m - 1) + 1 = m
  BY <1>1
<1>3. P[m] = parent
  <2>1. SubSeq(P, m, m) = [i \in 1 .. (1 + m) - m |-> P[(i + m) - 1]]
    BY <1>1, <1>2
  <2>2. 1 \in 1 .. (1 + m) - m /\ (1 + m) - 1 = m
    BY <1>1
  <2>3. SubSeq(P, m, m)[1] = P[m]
    BY <2>1, <2>2
  <2>4. SubSeq(P, m, m) = <<parent>>
    BY <1>1, <1>2
  <2> HIDE DEF m
  <2> QED BY <2>3, <2>4
<1>4. M \in Seq(STRING) /\ Len(M) = m + 1 /\ (\A i \in 1 .. m : M[i] = P[i]) /\ M[m + 1] = name
  <2>1. M \in Seq(STRING) /\ Len(M) = Len(P) + 1 /\ (\A i \in 1 .. Len(P) : M[i] = P[i])
        /\ M[Len(P) + 1] = name
    <3>1. M \in Seq(STRING) /\ Longer(M, P, name)
      BY LongerIs, Zenon
    <3> HIDE DEF M
    <3> QED BY <3>1 DEF Longer
  <2> QED BY <2>1
<1> HIDE DEF M
<1>5. SubSeq(M, m, m + 1) = <<M[m], M[m + 1]>>
  <2>1. SubSeq(M, m, m + 1) = [i \in 1 .. 2 |-> M[(i + m) - 1]]
    <3>1. SubSeq(M, m, m + 1) = [i \in 1 .. (1 + (m + 1)) - m |-> M[(i + m) - 1]]
      BY <1>1, <1>2, <1>4
    <3>2. (1 + (m + 1)) - m = 2
      BY <1>1
    <3> QED BY <3>1, <3>2
  <2>2. (1 + m) - 1 = m /\ (2 + m) - 1 = m + 1
    BY <1>1
  <2> DEFINE f == [i \in 1 .. 2 |-> M[(i + m) - 1]]
  <2>3. f[1] = M[m] /\ f[2] = M[m + 1] /\ DOMAIN f = 1 .. 2 /\ f = [i \in 1 .. 2 |-> f[i]]
    BY <2>2
  <2> HIDE DEF f
  <2>4. f = <<M[m], M[m + 1]>>
    BY <2>3
  <2> QED BY <2>1, <2>4 DEF f
<1>6. Len(M) - 2 >= 0 /\ (Len(M) - 2) + 1 = m
  BY <1>1, <1>2, <1>4
<1>7. Len(<<parent, name>>) = 2
  OBVIOUS
<1>8. SubSeq(M, (Len(M) - 2) + 1, Len(M)) = <<parent, name>>
  <2>1. M[m] = parent /\ M[m + 1] = name
    BY <1>2, <1>3, <1>4
  <2> QED BY <1>4, <1>5, <1>6, <2>1
<1> QED BY <1>6, <1>7, <1>8 DEF Is, M

\* A new node's properties are what is new.
LEMMA SubnodeEntries ==
  ASSUME NEW b, Sane(b), NEW c \in 1 .. Len(b.struct), c > 1, b.struct[c].tok = "end",
         NEW name \in STRING, NEW props \in Additions,
         NEW new, Sane(new),
         new = LET more == Intern(b.strings, NamesOf(props))
                   child == <<Begin(name)>> \o PropTokens(more, props) \o <<EndNode>>
               IN [struct |-> Splice(b.struct, c - 1, child), strings |-> more]
  PROVE  Entries(new) = Entries(b) \cup At(Paths(b.struct)[c] \o <<name>>, props)
<1> DEFINE s == b.struct
           path == Paths(s)
           n == Len(s)
           P == path[c]
           M == P \o <<name>>
           more == Intern(b.strings, NamesOf(props))
           mid == PropTokens(more, props)
           child == <<Begin(name)>> \o mid \o <<EndNode>>
           l == Len(props)
           k == l + 2
           p == c - 1
           t == Spliced(s, p, 0, child)
<1>1. /\ b \in Blobs /\ s \in Seq(Tokens) /\ n \in Nat /\ b.strings \in Seq(STRING)
      /\ P \in Seq(STRING) /\ PropsAt(b) = {q \in 1 .. n : s[q].tok = "prop"}
  BY SaneIs, BlobIs
<1>2. /\ more \in Seq(STRING) /\ Len(b.strings) <= Len(more)
      /\ \A i \in 1 .. Len(b.strings) : more[i] = b.strings[i]
      /\ mid \in Seq(Tokens) /\ Len(mid) = l
      /\ \A i \in 1 .. l : mid[i].tok = "prop" /\ more[mid[i].at] = props[i][1]
  <2>1. Interned(more, mid, b.strings, props)
    BY <1>1, PropTokensAre, Zenon
  <2> HIDE DEF more, mid
  <2> QED BY <2>1 DEF Interned
<1>3. l \in Nat /\ k \in Nat /\ \A i \in 1 .. l : mid[i].val = props[i][2]
  <2>1. \A i \in 1 .. Len(props) : PropTokens(more, props)[i].val = props[i][2]
    <3> HIDE DEF more
    <3> QED BY TokenValues
  <2>2. l \in Nat
    BY DEF Additions
  <2> QED BY <2>1, <2>2
<1>4. new.struct = t /\ new.strings = more
  <2>1. (c - 1) + 0 + 1 = (c - 1) + 1
    BY <1>1
  <2> DEFINE u == Splice(s, c - 1, child)
  <2>2. u = t
    BY <2>1 DEF Splice, Spliced
  <2>3. new = [struct |-> u, strings |-> more]
    OBVIOUS
  <2> HIDE DEF u, t, more
  <2> QED BY <2>2, <2>3
<1>5. p \in 1 .. n /\ p < n /\ Standing(s, path, p) = P
  <2>1. p \in 1 .. n /\ p < n
    BY <1>1
  <2>2. Standing(s, path, p) = P
    BY AheadOf
  <2> QED BY <2>1, <2>2
<1> HIDE DEF more, mid, l
<1>7. /\ child \in Seq(Tokens) /\ Len(child) = k
      /\ child[1] = Begin(name) /\ child[k] = EndNode
      /\ \A j \in 2 .. k - 1 : child[j] = mid[j - 1]
  <2> DEFINE a == <<Begin(name)>> \o mid
  <2>1. Begin(name) \in Tokens /\ EndNode \in Tokens
    BY TokensAre
  <2>2. a \in Seq(Tokens) /\ Len(a) = l + 1 /\ a[1] = Begin(name)
        /\ \A j \in 2 .. l + 1 : a[j] = mid[j - 1]
    BY <1>2, <1>3, <2>1
  <2> HIDE DEF a
  <2>3. child = a \o <<EndNode>>
    BY DEF a
  <2> DEFINE w == a \o <<EndNode>>
  <2>4. w \in Seq(Tokens) /\ Len(w) = l + 2 /\ w[l + 2] = EndNode
    BY <1>3, <2>1, <2>2
  <2>5. \A j \in 1 .. l + 1 : w[j] = a[j]
    BY <1>3, <2>1, <2>2
  <2> HIDE DEF w
  <2>6. child = w
    BY <2>3 DEF w
  <2> HIDE DEF child
  <2>7. 1 \in 1 .. l + 1 /\ \A j \in 2 .. k - 1 : j \in 2 .. l + 1 /\ j \in 1 .. l + 1
    BY <1>3
  <2> QED BY <2>2, <2>4, <2>5, <2>6, <2>7
<1> HIDE DEF child, k
<1>8. k = l + 2
  BY DEF k
<1>9. /\ child[1].tok = "begin" /\ child[1].name = name /\ child[k].tok = "end"
      /\ \A j \in 2 .. k - 1 : child[j].tok = "prop" /\ j - 1 \in 1 .. l
                               /\ more[child[j].at] = props[j - 1][1]
                               /\ child[j].val = props[j - 1][2]
  <2>1. child[1].tok = "begin" /\ child[1].name = name /\ child[k].tok = "end"
    BY <1>7 DEF Begin, EndNode
  <2>2. ASSUME NEW j \in 2 .. k - 1
        PROVE  child[j].tok = "prop" /\ j - 1 \in 1 .. l /\ more[child[j].at] = props[j - 1][1]
               /\ child[j].val = props[j - 1][2]
    <3>1. j - 1 \in 1 .. l
      BY <1>3, <1>8
    <3> QED BY <1>2, <1>3, <1>7, <3>1
  <2> QED BY <2>1, <2>2
<1>10. M \in Seq(STRING) /\ Front(M) = P
  <2>1. \A y \in Seq(STRING), v \in STRING : y \o <<v>> \in Seq(STRING) /\ Front(y \o <<v>>) = y
    <3> TAKE y \in Seq(STRING), v \in STRING
    <3> DEFINE w == y \o <<v>>
    <3>1. w \in Seq(STRING) /\ Len(w) = Len(y) + 1 /\ Len(y) \in Nat
          /\ \A i \in 1 .. Len(y) : w[i] = y[i]
      OBVIOUS
    <3> HIDE DEF w
    <3>2. Front(w) \in Seq(STRING) /\ Len(Front(w)) = Len(y)
          /\ \A i \in 1 .. Len(y) : Front(w)[i] = w[i]
      <4>1. w # <<>> /\ Len(w) - 1 = Len(y)
        BY <3>1
      <4>2. Front(w) \in Seq(STRING) /\ Len(Front(w)) = Len(w) - 1
            /\ \A i \in 1 .. Len(w) - 1 : Front(w)[i] = w[i]
        BY <3>1, <4>1, FrontIs
      <4> QED BY <4>1, <4>2
    <3>3. \A i \in 1 .. Len(Front(w)) : Front(w)[i] = y[i]
      BY <3>1, <3>2
    <3>4. Front(w) = y
      BY <3>2, <3>3, SeqEqual
    <3> QED BY <3>1, <3>4 DEF w
  <2> HIDE DEF P
  <2> QED BY <1>1, <2>1
<1> HIDE DEF p
<1>13. Fits(child, P, M)
  <2> HIDE DEF P
  <2>1. M = P \o Own(child[1])
    BY <1>9 DEF Own
  <2>2. Beyond(child[k], M) = P
    BY <1>9, <1>10 DEF Beyond
  <2> HIDE DEF M
  <2>3. ASSUME NEW j \in 2 .. k PROVE child[j - 1].tok # "end" /\ child[j].tok # "begin"
    <3>1. (j - 1 = 1 \/ j - 1 \in 2 .. k - 1) /\ (j = k \/ j \in 2 .. k - 1)
      BY <1>3, <1>8
    <3> QED BY <1>9, <3>1
  <2>4. Len(child) = k /\ k >= 1
    BY <1>3, <1>7, <1>8
  <2> QED BY <2>1, <2>2, <2>3, <2>4 DEF Fits
<1> HIDE DEF M, t
<1>14. IsBrought(b, new, p, 0, child, M)
  <2>1. 0 \in 0 .. 1 /\ p + 0 <= Len(s)
        /\ Standing(s, Paths(s), p + 0) = Standing(s, Paths(s), p) /\ p \in 1 .. Len(s)
    BY <1>1, <1>5
  <2>2. Fits(child, Standing(s, Paths(s), p), M) /\ M \in Seq(STRING)
    BY <1>5, <1>10, <1>13
  <2>3. Len(b.strings) <= Len(new.strings)
        /\ \A i \in 1 .. Len(b.strings) : new.strings[i] = b.strings[i]
    BY <1>2, <1>4
  <2>4. new \in Blobs /\ new.struct = Spliced(b.struct, p, 0, child)
        /\ child \in Seq(Tokens)
    BY <1>4, <1>7 DEF Sane, t
  <2> QED BY <2>1, <2>2, <2>3, <2>4, SplicedEntries, Zenon
<1>15. Staying(b, p, 0) = Entries(b)
  <2>1. {u \in PropsAt(b) : u <= p \/ p + 0 < u} = PropsAt(b)
    BY <1>1, <1>5
  <2> QED BY <2>1, EntriesAre DEF Staying
<1>16. Brought(child, M, more) = At(M, props)
  <2>1. {i \in 1 .. Len(child) : child[i].tok = "prop"} = 2 .. k - 1
    <3>1. \A j \in 1 .. k : j = 1 \/ j = k \/ j \in 2 .. k - 1
      BY <1>3, <1>8
    <3>2. \A j \in 2 .. k - 1 : j \in 1 .. k
      BY <1>3, <1>8
    <3> QED BY <1>7, <1>9, <3>1, <3>2
  <2>2. \A j \in 2 .. k - 1 :
          j - 1 \in 1 .. l /\ <<M, more[child[j].at], child[j].val>>
                                = <<M, props[j - 1][1], props[j - 1][2]>>
    BY <1>9
  <2>3. \A i \in 1 .. l : i + 1 \in 2 .. k - 1 /\ (i + 1) - 1 = i
    BY <1>3, <1>8
  <2>4. Brought(child, M, more) = {<<M, more[child[j].at], child[j].val>> : j \in 2 .. k - 1}
    BY <2>1 DEF Brought
  <2>5. At(M, props) = {<<M, props[i][1], props[i][2]>> : i \in 1 .. l}
    BY DEF At, l
  <2>6. Brought(child, M, more) \subseteq At(M, props)
    BY <2>2, <2>4, <2>5
  <2>7. ASSUME NEW i \in 1 .. l
        PROVE  <<M, props[i][1], props[i][2]>> \in Brought(child, M, more)
    <3>1. i + 1 \in 2 .. k - 1 /\ (i + 1) - 1 = i
      BY <2>3
    <3>2. <<M, more[child[i + 1].at], child[i + 1].val>> = <<M, props[i][1], props[i][2]>>
      BY <2>2, <3>1
    <3> QED BY <2>4, <3>1, <3>2
  <2> QED BY <2>5, <2>6, <2>7
<1> QED BY <1>4, <1>14, <1>15, <1>16 DEF IsBrought, M

\* new has the entries of b, and of props in the node P perhaps.
Added(b, new, P, props) ==
  Entries(b) \subseteq Entries(new) /\ Entries(new) \subseteq Entries(b) \cup At(P, props)

\* fdt_add_props takes nothing away and adds to the first node so named alone.
LEMMA AddPropsEntries ==
  ASSUME NEW b, Sane(b), NEW node, NEW props \in Additions, Once(props),
         AddProps(b, node, props) # Refused
  PROVE  /\ FirstNode(b, node) # 0
         /\ Is(Paths(b.struct)[FirstNode(b, node)], node)
         /\ Added(b, AddProps(b, node, props), Paths(b.struct)[FirstNode(b, node)], props)
<1> DEFINE first == FirstNode(b, node)
           P == Paths(b.struct)[first]
           existing == NodeProps(b, node)
           kept == {i \in DOMAIN props : ~Has(existing, props[i][1])}
           fresh == Picked(props, kept)
           new == AddProps(b, node, props)
<1>1. first # 0
  BY DEF AddProps
<1>2. first \in NodesAt(b) /\ Is(P, node)
  BY <1>1, FirstNamed
<1>3. new = b \/ (fresh # <<>> /\ new = Insert(b, first, fresh))
  BY <1>1 DEF AddProps
<1>4. fresh \in Additions /\ \A i \in 1 .. Len(fresh) : \E j \in 1 .. Len(props) : fresh[i] = props[j]
  <2> DEFINE V == STRING \X Seq(Int)
  <2>1. props \in Seq(V) /\ kept \in SUBSET (DOMAIN props) /\ DOMAIN props = 1 .. Len(props)
    BY DEF Additions
  <2> HIDE DEF V, kept
  <2>2. fresh \in Seq(V) /\ \E from \in [1 .. Len(fresh) -> DOMAIN props] :
                              PickedFrom(from, fresh, props, kept)
    BY <2>1, PickedIs, Zenon
  <2> HIDE DEF fresh
  <2>3. PICK from \in [1 .. Len(fresh) -> DOMAIN props] : PickedFrom(from, fresh, props, kept)
    BY <2>2
  <2>4. \A i \in 1 .. Len(fresh) : from[i] \in 1 .. Len(props) /\ fresh[i] = props[from[i]]
    BY <2>1, <2>3 DEF PickedFrom
  <2> QED BY <2>2, <2>4 DEF Additions, V
<1>5. At(P, fresh) \subseteq At(P, props)
  <2> HIDE DEF fresh, P
  <2> SUFFICES ASSUME NEW i \in 1 .. Len(fresh)
               PROVE  <<P, fresh[i][1], fresh[i][2]>> \in At(P, props)
    BY DEF At
  <2> QED BY <1>4 DEF At
<1>6. Kept(new)
  BY AddPropsIs
<1> HIDE DEF new, fresh, existing, kept, first, P
<1>7. Added(b, new, P, props)
  <2>1. CASE new = b
    BY <2>1 DEF Added
  <2>2. CASE fresh # <<>> /\ new = Insert(b, first, fresh)
    <3>1. Sane(Insert(b, first, fresh))
      BY <1>6, <2>2 DEF Kept, new
    <3>2. Entries(new) = Entries(b) \cup At(P, fresh)
      BY <1>2, <1>4, <2>2, <3>1, InsertEntries DEF P
    <3> QED BY <1>5, <3>2 DEF Added
  <2> QED BY <1>3, <2>1, <2>2
<1> QED BY <1>1, <1>2, <1>7 DEF new, first, P

SameFirst(b, new, node) ==
  /\ FirstNode(new, node) # 0
  /\ Paths(new.struct)[FirstNode(new, node)] = Paths(b.struct)[FirstNode(b, node)]

\* Where no begin comes or goes, the first node so named is the one it was.
LEMMA SplicedFirst ==
  ASSUME NEW b, Sane(b), NEW new, Sane(new), NEW ins \in Seq(Tokens), NEW d \in 0 .. 1,
         NEW p \in 1 .. Len(b.struct), p + d <= Len(b.struct),
         NEW M \in Seq(STRING), Fits(ins, Standing(b.struct, Paths(b.struct), p), M),
         Standing(b.struct, Paths(b.struct), p + d) = Standing(b.struct, Paths(b.struct), p),
         new.struct = Spliced(b.struct, p, d, ins),
         \A j \in 1 .. Len(ins) : ins[j].tok # "begin",
         d = 1 => b.struct[p + 1].tok # "begin",
         NEW node, FirstNode(b, node) # 0
  PROVE  SameFirst(b, new, node)
<1> DEFINE s == b.struct
           t == new.struct
           n == Len(s)
           k == Len(ins)
           at(q) == Moved(p, d, k, q)
           first == FirstNode(b, node)
           then == FirstNode(new, node)
<1>1. /\ b \in Blobs /\ s \in Seq(Tokens) /\ n \in Nat /\ k \in Nat
      /\ NodesAt(b) = {q \in 1 .. n : s[q].tok = "begin"}
      /\ NodesAt(new) = {q \in 1 .. Len(t) : t[q].tok = "begin"}
  <2>1. b \in Blobs /\ new \in Blobs
    BY DEF Sane
  <2> QED BY <2>1, BlobIs
<1>2. /\ Len(t) = n - d + k
      /\ \A q \in 1 .. p : t[q] = s[q]
      /\ \A j \in 1 .. k : t[p + j] = ins[j]
      /\ \A q \in p + d + 1 .. n : t[q - d + k] = s[q]
  <2>1. IsSpliced(Spliced(s, p, d, ins), s, p, d, ins)
    BY <1>1, SplicedIs, Zenon
  <2> QED BY <2>1 DEF IsSpliced
<1>3. /\ \A q \in 1 .. p : Paths(t)[q] = Paths(s)[q]
      /\ \A q \in p + d + 1 .. n : Paths(t)[q - d + k] = Paths(s)[q]
  <2>1. StillIn(Paths(Spliced(s, p, d, ins)), Paths(s), n, p, d, k, M)
    BY <1>1, SplicedPaths, Zenon
  <2> QED BY <2>1 DEF StillIn
<1>4. p \in 1 .. n /\ d \in 0 .. 1 /\ p + d <= n
  BY <1>1
<1> HIDE DEF n, k
<1>5. ASSUME NEW q \in NodesAt(b)
      PROVE  at(q) \in NodesAt(new) /\ Paths(t)[at(q)] = Paths(s)[q]
  <2>1. q \in 1 .. n /\ s[q].tok = "begin"
    BY <1>1
  <2>2. CASE q <= p
    <3>1. at(q) = q /\ q \in 1 .. p /\ q \in 1 .. Len(t)
      BY <1>1, <1>2, <1>4, <2>1, <2>2 DEF Moved
    <3> QED BY <1>1, <1>2, <1>3, <2>1, <3>1
  <2>3. CASE p < q
    <3>1. q \in p + d + 1 .. n
      <4>1. d = 1 => q # p + 1
        BY <2>1
      <4> QED BY <1>1, <1>4, <2>1, <2>3, <4>1
    <3>2. at(q) = q - d + k /\ q - d + k \in 1 .. Len(t)
      BY <1>1, <1>2, <1>4, <2>1, <2>3, <3>1 DEF Moved
    <3> QED BY <1>1, <1>2, <1>3, <2>1, <3>1, <3>2
  <2> QED BY <1>1, <1>4, <2>1, <2>2, <2>3
<1>6. ASSUME NEW r \in NodesAt(new) PROVE \E q \in NodesAt(b) : at(q) = r
  <2>1. r \in 1 .. n - d + k /\ t[r].tok = "begin"
    BY <1>1, <1>2
  <2>2. CASE r <= p
    <3>1. r \in 1 .. p /\ r \in 1 .. n /\ at(r) = r
      BY <1>1, <1>4, <2>1, <2>2 DEF Moved
    <3>2. t[r] = s[r]
      BY <1>2, <3>1
    <3>3. r \in NodesAt(b)
      BY <1>1, <2>1, <3>1, <3>2
    <3> QED BY <3>1, <3>3, Zenon
  <2>3. CASE p < r /\ r <= p + k
    <3>1. r - p \in 1 .. k /\ p + (r - p) = r
      BY <1>1, <1>4, <2>1, <2>3
    <3>2. t[r] = ins[r - p]
      BY <1>2, <3>1
    <3>3. ins[r - p].tok # "begin"
      BY <3>1 DEF k
    <3> QED BY <2>1, <3>2, <3>3
  <2>4. CASE p + k < r
    <3>1. r + d - k \in p + d + 1 .. n /\ (r + d - k) - d + k = r /\ r + d - k \in 1 .. n
      <4>1. /\ n \in Nat /\ k \in Nat /\ d \in 0 .. 1 /\ p \in 1 .. n /\ p + d <= n
            /\ r \in 1 .. n - d + k /\ p + k < r
        BY <1>1, <1>4, <2>1, <2>4
      <4> QED BY <4>1, Shifted
    <3>2. at(r + d - k) = r
      BY <1>1, <1>4, <3>1 DEF Moved
    <3>3. t[r] = s[r + d - k]
      BY <1>2, <3>1
    <3> QED BY <1>1, <2>1, <3>1, <3>2, <3>3
  <2> QED BY <1>1, <1>4, <2>1, <2>2, <2>3, <2>4
<1>7. \A q, u \in 1 .. n : q < u /\ u \in NodesAt(b) => at(q) < at(u)
  <2> SUFFICES ASSUME NEW q \in 1 .. n, NEW u \in 1 .. n, q < u, u \in NodesAt(b)
               PROVE  at(q) < at(u)
    OBVIOUS
  <2>1. d = 1 => u # p + 1
    BY <1>1
  <2> QED BY <1>1, <1>4, <2>1 DEF Moved
<1> HIDE DEF at, first, then
<1>8. first \in NodesAt(b) /\ Is(Paths(s)[first], node)
      /\ \A q \in NodesAt(b) : Is(Paths(s)[q], node) => first <= q
  BY FirstNamed DEF first
<1>9. at(first) \in NodesAt(new) /\ Is(Paths(t)[at(first)], node)
  BY <1>5, <1>8
<1>10. then # 0
  <2>1. new \in Blobs
    BY DEF Sane
  <2> QED BY <1>9, <2>1, FirstIs DEF then
<1>11. then \in NodesAt(new) /\ Is(Paths(t)[then], node) /\ then <= at(first)
  BY <1>9, <1>10, FirstNamed DEF then
<1>12. PICK q \in NodesAt(b) : at(q) = then
  BY <1>6, <1>11
<1>13. Is(Paths(s)[q], node) /\ first <= q
  BY <1>5, <1>8, <1>11, <1>12
<1>14. q = first
  <2>1. q \in 1 .. n /\ first \in 1 .. n /\ then \in 1 .. Len(t) /\ at(first) \in 1 .. Len(t)
    BY <1>1, <1>8, <1>9, <1>11
  <2>2. ~(at(first) < at(q))
    BY <1>2, <1>4, <1>1, <1>11, <1>12, <2>1
  <2> QED BY <1>1, <1>7, <1>13, <2>1, <2>2
<1> QED BY <1>5, <1>10, <1>12, <1>14 DEF SameFirst, first, then

\* The first node so named stays when a property is overwritten.
LEMMA NopFirst ==
  ASSUME NEW b, Sane(b), NEW p \in 1 .. Len(b.struct), b.struct[p].tok = "prop",
         Sane(Nopped(b, p)), NEW node, FirstNode(b, node) # 0
  PROVE  /\ FirstNode(Nopped(b, p), node) # 0
         /\ Paths(Nopped(b, p).struct)[FirstNode(Nopped(b, p), node)]
              = Paths(b.struct)[FirstNode(b, node)]
<1> DEFINE s == b.struct
           M == Paths(s)[p]
           ins == Nops(b, p)
           c == p - 1
           new == Nopped(b, p)
<1>1. /\ c \in 1 .. Len(s) /\ c + 1 = p /\ p < Len(s)
      /\ ins \in Seq(Tokens) /\ (\A i \in 1 .. Len(ins) : ins[i].tok = "nop")
      /\ M \in Seq(STRING) /\ Standing(s, Paths(s), c) = M /\ Standing(s, Paths(s), p) = M
      /\ Fits(ins, M, M) /\ new.struct = Spliced(s, c, 1, ins)
  BY NopsAre DEF NopsFit
<1> HIDE DEF ins, c, M
<1>2. ASSUME NEW d \in 0 .. 1, d = 1
      PROVE  /\ c + d <= Len(s) /\ Standing(s, Paths(s), c + d) = Standing(s, Paths(s), c)
             /\ Fits(ins, Standing(s, Paths(s), c), M)
             /\ new.struct = Spliced(s, c, d, ins)
             /\ d = 1 => s[c + 1].tok # "begin"
  <2>1. Len(s) \in Nat
    BY SaneIs
  <2> QED BY <1>1, <1>2, <2>1
<1>3. \A j \in 1 .. Len(ins) : ins[j].tok # "begin"
  BY <1>1
<1>4. Sane(new)
  OBVIOUS
<1> HIDE DEF new
<1>5. ASSUME NEW d \in 0 .. 1, d = 1 PROVE SameFirst(b, new, node)
  BY <1>1, <1>2, <1>3, <1>4, <1>5, SplicedFirst, Zenon
<1>6. 1 \in 0 .. 1
  OBVIOUS
<1> QED BY <1>5, <1>6 DEF new, SameFirst

IsNopped(b, node, prop, p) ==
  /\ p \in PropsAt(b) /\ p \in 1 .. Len(b.struct) /\ b.struct[p].tok = "prop"
  /\ NameAt(b, p) = prop /\ Is(Paths(b.struct)[p], node)
  /\ NopProp(b, node, prop) = Nopped(b, p) /\ Sane(Nopped(b, p))
  /\ Entry(b, p) \in Entries(b)
  /\ Entries(NopProp(b, node, prop)) = Entries(b) \ {Entry(b, p)}
  /\ ~Has(NodeProps(NopProp(b, node, prop), node), prop)

\* fdt_nop_prop takes away what it found, and nothing else.
LEMMA NopPropEntries ==
  ASSUME NEW b, Sane(b), NEW node, NEW prop, NopProp(b, node, prop) # Refused
  PROVE  IsNopped(b, node, prop, FindProp(b, node, prop))
<1> DEFINE p == FindProp(b, node, prop)
           new == NopProp(b, node, prop)
<1>1. p # 0
  BY DEF NopProp
<1>2. new = Nopped(b, p) /\ ~Has(NodeProps(Nopped(b, p), node), prop)
  BY DEF NopProp, Nopped, Nops
<1>3. p \in PropsAt(b) /\ NameAt(b, p) = prop /\ Is(Paths(b.struct)[p], node)
  BY <1>1, FindNamed
<1>4. p \in 1 .. Len(b.struct) /\ b.struct[p].tok = "prop"
  <2>1. b \in Blobs
    BY SaneIs
  <2> QED BY <1>3, <2>1, BlobIs
<1>5. Sane(Nopped(b, p))
  BY <1>4, NopIs DEF Nopped, Nops
<1>6. Entries(Nopped(b, p)) = Entries(b) \ {Entry(b, p)}
  <2> HIDE DEF p
  <2> QED BY <1>4, <1>5, NopEntries
<1>7. Entry(b, p) \in Entries(b)
  BY <1>3, EntriesAre
<1> HIDE DEF p, new
<1> QED BY <1>2, <1>3, <1>4, <1>5, <1>6, <1>7 DEF IsNopped, p, new

\* A property put in by itself.
LEMMA OneAddition ==
  ASSUME NEW prop \in STRING, NEW v \in Seq(Int)
  PROVE  /\ <<<<prop, v>>>> \in Additions /\ Once(<<<<prop, v>>>>)
         /\ \A P : At(P, <<<<prop, v>>>>) = {<<P, prop, v>>}
<1> DEFINE x == <<prop, v>>
           props == <<x>>
<1>1. x \in STRING \X Seq(Int) /\ x[1] = prop /\ x[2] = v
  OBVIOUS
<1> HIDE DEF x
<1>2. props \in Seq(STRING \X Seq(Int)) /\ Len(props) = 1 /\ props[1] = x
  BY <1>1
<1> HIDE DEF props
<1>3. 1 .. Len(props) = {1}
  BY <1>2
<1>4. Once(props) /\ props \in Additions
  BY <1>2, <1>3 DEF Once, Additions
<1>5. \A P : At(P, props) = {<<P, prop, v>>}
  BY <1>1, <1>2, <1>3 DEF At
<1> QED BY <1>4, <1>5 DEF x, props

\* Only the property of a node that a value was read from can be replaced.
LEMMA ReplaceEntries ==
  ASSUME NEW b, Sane(b), NEW node, NEW prop \in STRING, NEW v \in Seq(Int),
         FirstNode(b, node) # 0, prop \in DOMAIN NodeProps(b, node),
         Replace(b, node, prop, v) # Refused
  PROVE  LET P == Paths(b.struct)[FirstNode(b, node)]
         IN /\ Is(P, node)
            /\ Replaced(b, Replace(b, node, prop, v),
                        <<P, prop, NodeProps(b, node)[prop]>>, <<P, prop, v>>)
<1> DEFINE P == Paths(b.struct)[FirstNode(b, node)]
           w == NodeProps(b, node)[prop]
           out == NopProp(b, node, prop)
           new == AddProps(out, node, <<<<prop, v>>>>)
           p == FindProp(b, node, prop)
           Q == Paths(out.struct)[FirstNode(out, node)]
<1>1. out # Refused /\ Replace(b, node, prop, v) = new /\ new # Refused
  BY DEF Replace
<1>2. IsNopped(b, node, prop, p)
  BY <1>1, NopPropEntries
<1>3. Is(P, node)
  BY FirstNamed
<1>4. Sane(out) /\ FirstNode(out, node) # 0 /\ Q = P
  BY <1>2, NopFirst DEF IsNopped
<1>5. PICK u \in PropsAt(b) : Paths(b.struct)[u] = P /\ NameAt(b, u) = prop /\ b.struct[u].val = w
  BY NodePropsFrom
<1> HIDE DEF out, new, P, Q, p, w
<1>6. Entry(b, u) = <<P, prop, w>> /\ Entry(b, u) \in Entries(b)
  BY <1>5, EntriesAre DEF Entry
<1>7. Entry(b, u) = Entry(b, p)
  <2> SUFFICES ASSUME Entry(b, u) # Entry(b, p) PROVE FALSE
    OBVIOUS
  <2>1. Entry(b, u) \in Entries(out)
    BY <1>2, <1>6 DEF IsNopped, out
  <2>2. PICK r \in PropsAt(out) : Entry(out, r) = Entry(b, u)
    BY <2>1, EntriesAre
  <2>3. Paths(out.struct)[r] = P /\ NameAt(out, r) = prop
    BY <1>6, <2>2 DEF Entry
  <2>4. prop \in DOMAIN NodeProps(out, node)
    <3>1. out \in Blobs /\ Formed(out.struct, Paths(out.struct), out.strings)
      BY <1>4 DEF Sane
    <3> QED BY <1>4, <2>2, <2>3, <3>1, NodePropsAre DEF Q
  <2> QED BY <1>2, <2>4 DEF IsNopped, Has, out
<1>8. Entries(out) = Entries(b) \ {<<P, prop, w>>}
  BY <1>2, <1>6, <1>7 DEF IsNopped, out
<1>9. <<<<prop, v>>>> \in Additions /\ Once(<<<<prop, v>>>>)
  BY OneAddition
<1>10. Added(out, new, P, <<<<prop, v>>>>)
  BY <1>1, <1>4, <1>9, AddPropsEntries DEF new, Q
<1>11. At(P, <<<<prop, v>>>>) = {<<P, prop, v>>}
  BY OneAddition
<1>12. Replaced(b, new, <<P, prop, w>>, <<P, prop, v>>)
  BY <1>6, <1>8, <1>10, <1>11 DEF Added, Replaced
<1> QED BY <1>1, <1>3, <1>12 DEF P, w

\* The entries of a new node, under one that is named parent.
Below(b, new, parent, name, props) ==
  \E P \in Seq(STRING) :
    Is(P, <<parent>>) /\ Entries(new) = Entries(b) \cup At(P \o <<name>>, props)

\* fdt_add_subnode adds a node with its properties, under the node it is told.
LEMMA AddSubnodeEntries ==
  ASSUME NEW b, Sane(b), NEW parent, NEW name \in STRING,
         NEW props \in Additions, Once(props),
         AddSubnode(b, parent, name, props) # Refused
  PROVE  \/ AddSubnode(b, parent, name, props) = b
         \/ Below(b, AddSubnode(b, parent, name, props), parent, name, props)
<1> DEFINE at == FirstNode(b, <<parent>>)
           c == ClosedAt(b, at)
           more == Intern(b.strings, NamesOf(props))
           child == <<Begin(name)>> \o PropTokens(more, props) \o <<EndNode>>
           new == [struct |-> Splice(b.struct, c - 1, child), strings |-> more]
           P == Paths(b.struct)[at]
<1> SUFFICES ASSUME FirstNode(b, <<name>>) = 0, at # 0,
                    AddSubnode(b, parent, name, props) = new
             PROVE  Below(b, new, parent, name, props)
  <2> HIDE DEF new
  <2>1. AddSubnode(b, parent, name, props) \in {b, Refused, new}
    BY DEF AddSubnode, new
  <2>2. FirstNode(b, <<name>>) # 0 => AddSubnode(b, parent, name, props) = b
    BY DEF AddSubnode
  <2>3. FirstNode(b, <<name>>) = 0 /\ at = 0 => AddSubnode(b, parent, name, props) = Refused
    BY DEF AddSubnode
  <2> QED BY <2>1, <2>2, <2>3
<1>1. at \in NodesAt(b) /\ Is(P, <<parent>>)
  BY FirstNamed
<1>2. c \in 1 .. Len(b.struct) /\ c > 1 /\ b.struct[c].tok = "end"
  BY <1>1, ClosedIs
<1>3. Paths(b.struct)[c] = P
  BY <1>1, ClosedAtNode
<1>4. P \in Seq(STRING)
  <2>1. b \in Blobs
    BY DEF Sane
  <2> QED BY <1>1, <2>1, BlobIs
<1> HIDE DEF c
<1>5. Sane(new)
  BY <1>2, SubnodeIs
<1>6. Entries(new) = Entries(b) \cup At(Paths(b.struct)[c] \o <<name>>, props)
  BY <1>2, <1>5, SubnodeEntries
<1> HIDE DEF new, P
<1> QED BY <1>1, <1>3, <1>4, <1>6 DEF Below

-----------------------------------------------------------------------------
\* What EditsStayInPlace says of one edit.
InPlace(e, b, new) ==
  LET gone == Entries(b) \ Entries(new)
      come == Entries(new) \ Entries(b)
  IN /\ \A x \in gone : For(e, x[1]) /\ Takes(e, x[2])
     /\ \A x \in come : For(e, x[1]) /\ Puts(e, x[2], x[3], gone)
     /\ e \notin {"planes", "panel"} =>
          \A x, y \in gone \cup come : x[1] = y[1]

\* An edit that changes nothing, one that only takes out, one that only puts
\* in, and one that does both.
LEMMA SameInPlace ==
  ASSUME NEW e, NEW b
  PROVE  InPlace(e, b, b)
BY DEF InPlace

LEMMA GoneInPlace ==
  ASSUME NEW e, NEW b, NEW new, NEW x, Entries(new) = Entries(b) \ {x},
         For(e, x[1]), Takes(e, x[2])
  PROVE  InPlace(e, b, new)
BY DEF InPlace

LEMMA AddedInPlace ==
  ASSUME NEW e, NEW b, NEW new, NEW P, NEW props, Added(b, new, P, props),
         For(e, P), \A i \in 1 .. Len(props) : Puts(e, props[i][1], props[i][2], {})
  PROVE  InPlace(e, b, new)
<1> DEFINE come == Entries(new) \ Entries(b)
<1>1. Entries(b) \ Entries(new) = {}
  BY DEF Added
<1>2. ASSUME NEW x \in come
      PROVE  x[1] = P /\ Puts(e, x[2], x[3], {})
  <2>1. PICK i \in 1 .. Len(props) : x = <<P, props[i][1], props[i][2]>>
    BY DEF Added, At
  <2>2. x[1] = P /\ x[2] = props[i][1] /\ x[3] = props[i][2]
    BY <2>1
  <2> QED BY <2>2
<1> HIDE DEF come
<1> QED BY <1>1, <1>2 DEF InPlace, come

LEMMA ReplacedInPlace ==
  ASSUME NEW e, NEW b, NEW new, NEW P, NEW n, NEW w, NEW v,
         Replaced(b, new, <<P, n, w>>, <<P, n, v>>),
         For(e, P), Takes(e, n), Puts(e, n, v, {<<P, n, w>>})
  PROVE  InPlace(e, b, new)
<1> DEFINE x == <<P, n, w>>
           y == <<P, n, v>>
           gone == Entries(b) \ Entries(new)
           come == Entries(new) \ Entries(b)
<1>1. x[1] = P /\ x[2] = n /\ y[1] = P /\ y[2] = n /\ y[3] = v
  OBVIOUS
<1>2. x \in Entries(b) /\ Entries(b) \ {x} \subseteq Entries(new)
      /\ Entries(new) \subseteq (Entries(b) \ {x}) \cup {y}
  BY DEF Replaced
<1> HIDE DEF x, y
<1>3. gone \subseteq {x} /\ come \subseteq {y} /\ (come # {} => gone = {x})
  BY <1>2
<1>4. Puts(e, n, v, {x})
  BY DEF x
<1> HIDE DEF gone, come
<1>5. \A z \in gone : For(e, z[1]) /\ Takes(e, z[2])
  BY <1>1, <1>3
<1>6. \A z \in come : For(e, z[1]) /\ Puts(e, z[2], z[3], gone)
  BY <1>1, <1>3, <1>4
<1>7. \A z, u \in gone \cup come : z[1] = u[1]
  BY <1>1, <1>3
<1> QED BY <1>5, <1>6, <1>7 DEF InPlace, gone, come

\* set_sd_uhs.
LEMMA UhsInPlace ==
  ASSUME NEW b, Sane(b), SetSdUhs(b) # Refused
  PROVE  InPlace("uhs", b, SetSdUhs(b))
<1> DEFINE node == <<SD_SLOT0_NODE>>
           P == Paths(b.struct)[FirstNode(b, node)]
           new == AddProps(b, node, UhsProps)
<1>1. SetSdUhs(b) = new
  BY DEF SetSdUhs, UhsProps
<1>2. Is(P, node) /\ Added(b, new, P, UhsProps)
  BY <1>1, UhsPropsAre, AddPropsEntries
<1>3. For("uhs", P)
  BY <1>2 DEF For
<1>4. \A i \in 1 .. Len(UhsProps) : Puts("uhs", UhsProps[i][1], UhsProps[i][2], {})
  <2> TAKE i \in 1 .. Len(UhsProps)
  <2>1. UhsProps[i] \in {<<"sd-uhs-sdr50", <<>>>>, <<"sd-uhs-sdr104", <<>>>>,
                         <<"desired-num-phases", <<SD_TUNING_PHASES>>>>}
    BY UhsPropsAre
  <2> QED BY <2>1 DEF Puts
<1> HIDE DEF new, P
<1> QED BY <1>1, <1>2, <1>3, <1>4, AddedInPlace

\* detach_sd_slot1_vqmmc.
LEMMA Slot1InPlace ==
  ASSUME NEW b, Sane(b), DetachSlot1(b) # Refused
  PROVE  InPlace("slot1", b, DetachSlot1(b))
<1> DEFINE node == <<SD_SLOT1_NODE>>
           new == NopProp(b, node, "vqmmc-supply")
           p == FindProp(b, node, "vqmmc-supply")
<1>1. DetachSlot1(b) = new
  BY DEF DetachSlot1
<1>2. IsNopped(b, node, "vqmmc-supply", p)
  BY <1>1, NopPropEntries
<1>3. Entries(new) = Entries(b) \ {Entry(b, p)} /\ Is(Entry(b, p)[1], node)
      /\ Entry(b, p)[2] = "vqmmc-supply"
  BY <1>2 DEF IsNopped, Entry
<1>4. For("slot1", Entry(b, p)[1]) /\ Takes("slot1", Entry(b, p)[2])
  BY <1>3 DEF For, Takes
<1> HIDE DEF new, p
<1> QED BY <1>1, <1>3, <1>4, GoneInPlace

\* disable_wifi_ohci.
LEMMA OhciInPlace ==
  ASSUME NEW b, Sane(b), DisableWifiOhci(b) # Refused
  PROVE  InPlace("ohci", b, DisableWifiOhci(b))
<1> DEFINE node == <<WIFI_OHCI_NODE>>
           P == Paths(b.struct)[FirstNode(b, node)]
           w == NodeProps(b, node)["status"]
           new == Replace(b, node, "status", Disabled)
<1>1. DisableWifiOhci(b) = new /\ FirstNode(b, node) # 0 /\ "status" \in DOMAIN NodeProps(b, node)
  BY DEF DisableWifiOhci, Has
<1>2. Disabled \in Seq(Int) /\ "status" \in STRING
  BY NamesAssumption DEF Disabled
<1>3. Is(P, node) /\ Replaced(b, new, <<P, "status", w>>, <<P, "status", Disabled>>)
  BY <1>1, <1>2, ReplaceEntries
<1>4. For("ohci", P) /\ Takes("ohci", "status")
      /\ Puts("ohci", "status", Disabled, {<<P, "status", w>>})
  BY <1>3 DEF For, Takes, Puts
<1> HIDE DEF new, P, w
<1> QED BY <1>1, <1>3, <1>4, ReplacedInPlace

\* drop_dmc_touchboost.
LEMMA BoostInPlace ==
  ASSUME NEW b, Sane(b), DropTouchboost(b) # Refused
  PROVE  InPlace("boost", b, DropTouchboost(b))
<1> DEFINE node == <<"dmc">>
           name == "system-status-level"
           P == Paths(b.struct)[FirstNode(b, node)]
           w == NodeProps(b, node)[name]
           v == WithoutBoost(w)
           new == Replace(b, node, name, v)
<1>1. DropTouchboost(b) = new /\ FirstNode(b, node) # 0 /\ name \in DOMAIN NodeProps(b, node)
  BY DEF DropTouchboost, Has
<1>2. v \in Seq(Int) /\ name \in STRING
  <2>1. w \in Seq(Int)
    BY <1>1, ValuesAre
  <2> HIDE DEF w
  <2> QED BY <2>1, WithoutBoostIs, NamesAssumption
<1>3. Is(P, node) /\ Replaced(b, new, <<P, name, w>>, <<P, name, v>>)
  <2> HIDE DEF v
  <2> QED BY <1>1, <1>2, ReplaceEntries
<1>4. For("boost", P) /\ Takes("boost", name)
  BY <1>3 DEF For, Takes
<1>5. Puts("boost", name, v, {<<P, name, w>>})
  <2> DEFINE g == <<P, name, w>>
  <2>1. g[3] = w
    OBVIOUS
  <2> HIDE DEF g, w, P
  <2>2. Puts("boost", name, v, {g})
    BY <2>1 DEF Puts
  <2> QED BY <2>2 DEF g
<1> HIDE DEF new, P, w, v
<1> QED BY <1>1, <1>3, <1>4, <1>5, ReplacedInPlace

\* add_optee_reservation.
LEMMA OpteeInPlace ==
  ASSUME NEW b, Sane(b), ReserveOptee(b) # Refused
  PROVE  InPlace("optee", b, ReserveOptee(b))
<1> DEFINE parent == "reserved-memory"
           new == AddSubnode(b, parent, OPTEE_NODE, OpteeProps)
<1>1. ReserveOptee(b) = new
  BY DEF ReserveOptee, OpteeProps
<1>2. OPTEE_NODE \in STRING
  BY NamesAssumption
<1>3. new = b \/ Below(b, new, parent, OPTEE_NODE, OpteeProps)
  BY <1>1, <1>2, OpteePropsAre, AddSubnodeEntries
<1> HIDE DEF new
<1>4. CASE new = b
  BY <1>1, <1>4, SameInPlace
<1>5. CASE Below(b, new, parent, OPTEE_NODE, OpteeProps)
  <2>1. PICK P \in Seq(STRING) :
          /\ Is(P, <<parent>>)
          /\ Entries(new) = Entries(b) \cup At(P \o <<OPTEE_NODE>>, OpteeProps)
    BY <1>5 DEF Below
  <2>2. Is(P \o <<OPTEE_NODE>>, <<parent, OPTEE_NODE>>)
    <3> HIDE DEF parent
    <3> QED BY <1>2, <2>1, IsBelow, Zenon
  <2>3. For("optee", P \o <<OPTEE_NODE>>)
    BY <2>2 DEF For
  <2>4. Added(b, new, P \o <<OPTEE_NODE>>, OpteeProps)
    BY <2>1 DEF Added
  <2>5. \A i \in 1 .. Len(OpteeProps) : Puts("optee", OpteeProps[i][1], OpteeProps[i][2], {})
    <3> TAKE i \in 1 .. Len(OpteeProps)
    <3>1. OpteeProps[i] \in {<<"reg", OPTEE_REG>>, <<"no-map", <<>>>>}
      BY OpteePropsAre
    <3> QED BY <3>1 DEF Puts
  <2> DEFINE M == P \o <<OPTEE_NODE>>
  <2> HIDE DEF M
  <2>6. For("optee", M) /\ Added(b, new, M, OpteeProps)
    BY <2>3, <2>4 DEF M
  <2> QED BY <1>1, <2>5, <2>6, AddedInPlace
<1> QED BY <1>3, <1>4, <1>5

\* A path that ends in a node of three names holds the last of them.
LEMMA LastHeld ==
  ASSUME NEW P \in Seq(STRING), NEW x, NEW y, NEW z, Is(P, <<x, y, z>>)
  PROVE  z \in Elems(P)
<1> DEFINE m == Len(P)
<1>1. m \in Nat /\ m - 3 >= 0 /\ SubSeq(P, (m - 3) + 1, m) = <<x, y, z>>
  BY DEF Is
<1>2. (m - 3) + 1 = m - 2 /\ m \in 1 .. m /\ 3 \in 1 .. (1 + m) - (m - 2) /\ (3 + (m - 2)) - 1 = m
  BY <1>1
<1>3. SubSeq(P, m - 2, m) = [i \in 1 .. (1 + m) - (m - 2) |-> P[(i + (m - 2)) - 1]]
  BY <1>1
<1>4. SubSeq(P, m - 2, m)[3] = P[m]
  BY <1>2, <1>3
<1>5. P[m] = z
  <2> DEFINE w == SubSeq(P, m - 2, m)
  <2>1. w = <<x, y, z>>
    BY <1>1, <1>2
  <2>2. w[3] = P[m]
    BY <1>4
  <2> HIDE DEF w, m
  <2>3. w[3] = z
    BY <2>1
  <2> QED BY <2>2, <2>3
<1>6. m \in DOMAIN P
  BY <1>2
<1> QED BY <1>5, <1>6 DEF Elems

\* set_vop2_plane_masks, one display.
LEMMA AssignInPlace ==
  ASSUME NEW b, Kept(b), NEW encoder, NEW mask \in Int, NEW primary \in Int, NEW taken,
         AssignPlanes(b, encoder, mask, primary, taken) # Refused
  PROVE  /\ b # Refused
         /\ \E P : /\ For("planes", P)
                   /\ Added(b, AssignPlanes(b, encoder, mask, primary, taken), P,
                            PlaneProps(mask, primary))
<1> DEFINE port == CHOOSE q \in VopPorts(b, encoder) : TRUE
           node == PortNode(port)
           props == PlaneProps(mask, primary)
           new == AddProps(b, node, props)
           P == Paths(b.struct)[FirstNode(b, node)]
<1>1. b # Refused /\ AssignPlanes(b, encoder, mask, primary, taken) = new
  BY DEF AssignPlanes
<1>2. props \in Additions /\ Once(props) /\ Sane(b)
  BY <1>1, PlanePropsAre DEF Kept
<1> HIDE DEF props
<1>3. FirstNode(b, node) # 0 /\ Is(P, node) /\ Added(b, new, P, props)
  BY <1>1, <1>2, AddPropsEntries
<1>4. P \in Seq(STRING)
  <2>1. b \in Blobs
    BY <1>2 DEF Sane
  <2>2. FirstNode(b, node) \in NodesAt(b)
    BY <1>2, <1>3, FirstNamed
  <2> QED BY <2>1, <2>2, BlobIs
<1>5. For("planes", P)
  <2> HIDE DEF port, P
  <2>1. Is(P, <<VOP2_NODE, "ports", port>>)
    BY <1>3 DEF PortNode
  <2>2. port \in Elems(P)
    BY <1>4, <2>1, LastHeld
  <2> QED BY <2>1, <2>2 DEF For
<1> HIDE DEF new, P
<1> QED BY <1>1, <1>3, <1>5 DEF props

\* set_vop2_plane_masks, both displays.
LEMMA PlanesInPlace ==
  ASSUME NEW b, Sane(b), SetPlaneMasks(b) # Refused
  PROVE  InPlace("planes", b, SetPlaneMasks(b))
<1> DEFINE mid == AssignPlanes(b, DSI, Mask(PANEL_WINDOWS), PANEL_PRIMARY, {})
           new == AssignPlanes(mid, HDMI, Mask(HDMI_WINDOWS), HDMI_PRIMARY, VopPorts(b, DSI))
           props1 == PlaneProps(Mask(PANEL_WINDOWS), PANEL_PRIMARY)
           props2 == PlaneProps(Mask(HDMI_WINDOWS), HDMI_PRIMARY)
<1>1. SetPlaneMasks(b) = new
  BY DEF SetPlaneMasks
<1>2. /\ Mask(PANEL_WINDOWS) \in Int /\ Mask(HDMI_WINDOWS) \in Int
      /\ PANEL_PRIMARY \in Int /\ HDMI_PRIMARY \in Int
  BY MaskIs DEF PANEL_PRIMARY, HDMI_PRIMARY
<1>3. Kept(b) /\ Kept(mid)
  BY <1>2, AssignPlanesIs DEF Kept
<1>4. mid # Refused /\ \E P : For("planes", P) /\ Added(mid, new, P, props2)
  <2> HIDE DEF mid
  <2> QED BY <1>1, <1>2, <1>3, AssignInPlace
<1>5. \E P : For("planes", P) /\ Added(b, mid, P, props1)
  BY <1>2, <1>3, <1>4, AssignInPlace
<1>6. ASSUME NEW i \in 1 .. Len(props1) PROVE Puts("planes", props1[i][1], props1[i][2], {})
  <2>1. props1[i] \in {<<"plane-mask", <<Mask(PANEL_WINDOWS)>>>>,
                       <<"primary-plane", <<PANEL_PRIMARY>>>>}
    BY <1>2, PlanePropsAre
  <2> QED BY <2>1 DEF Puts
<1>7. ASSUME NEW i \in 1 .. Len(props2) PROVE Puts("planes", props2[i][1], props2[i][2], {})
  <2>1. props2[i] \in {<<"plane-mask", <<Mask(HDMI_WINDOWS)>>>>,
                       <<"primary-plane", <<HDMI_PRIMARY>>>>}
    BY <1>2, PlanePropsAre
  <2> QED BY <2>1 DEF Puts
<1> HIDE DEF mid, new, props1, props2
<1>8. PICK P : For("planes", P) /\ Added(b, mid, P, props1)
  BY <1>5
<1>9. PICK Q : For("planes", Q) /\ Added(mid, new, Q, props2)
  BY <1>4
<1> DEFINE come == Entries(new) \ Entries(b)
<1>10. Entries(b) \ Entries(new) = {} /\ come \subseteq At(P, props1) \cup At(Q, props2)
  BY <1>8, <1>9 DEF Added
<1>11. ASSUME NEW x \in At(P, props1)
       PROVE  For("planes", x[1]) /\ Puts("planes", x[2], x[3], {})
  <2>1. PICK i \in 1 .. Len(props1) : x = <<P, props1[i][1], props1[i][2]>>
    BY <1>11 DEF At
  <2>2. x[1] = P /\ x[2] = props1[i][1] /\ x[3] = props1[i][2]
    BY <2>1
  <2> QED BY <1>6, <1>8, <2>2
<1>12. ASSUME NEW x \in At(Q, props2)
       PROVE  For("planes", x[1]) /\ Puts("planes", x[2], x[3], {})
  <2>1. PICK i \in 1 .. Len(props2) : x = <<Q, props2[i][1], props2[i][2]>>
    BY <1>12 DEF At
  <2>2. x[1] = Q /\ x[2] = props2[i][1] /\ x[3] = props2[i][2]
    BY <2>1
  <2> QED BY <1>7, <1>9, <2>2
<1>13. \A x \in come : For("planes", x[1]) /\ Puts("planes", x[2], x[3], {})
  <2> HIDE DEF come
  <2> QED BY <1>10, <1>11, <1>12
<1>14. InPlace("planes", b, new)
  BY <1>10, <1>13 DEF InPlace
<1> QED BY <1>1, <1>14

\* mkpreloader.py's edit.
LEMMA PinctrlInPlace ==
  ASSUME NEW b, Sane(b), AddPinctrl(b) # Refused, Sane(AddPinctrl(b))
  PROVE  InPlace("pinctrl", b, AddPinctrl(b))
<1>1. PICK p \in NodesAt(b) : Paths(b.struct)[p] = PINCTRL
                             /\ AddPinctrl(b) = Insert(b, p, PINCTRL_PROPS)
  BY PinctrlNode
<1>2. Entries(AddPinctrl(b)) = Entries(b) \cup At(PINCTRL, PINCTRL_PROPS)
  BY <1>1, PinctrlPropsAre, InsertEntries
<1>3. Added(b, AddPinctrl(b), PINCTRL, PINCTRL_PROPS)
  BY <1>2 DEF Added
<1>4. For("pinctrl", PINCTRL)
  BY DEF For
<1>5. \A i \in 1 .. Len(PINCTRL_PROPS) :
        Puts("pinctrl", PINCTRL_PROPS[i][1], PINCTRL_PROPS[i][2], {})
  <2> TAKE i \in 1 .. Len(PINCTRL_PROPS)
  <2>1. PINCTRL_PROPS[i] \in STRING \X Seq(Int) /\ i \in DOMAIN PINCTRL_PROPS
    <3> DEFINE V == STRING \X Seq(Int)
    <3>1. \A W : \A w \in Seq(W) : \A k \in 1 .. Len(w) : w[k] \in W /\ k \in DOMAIN w
      OBVIOUS
    <3>2. PINCTRL_PROPS \in Seq(V)
      BY PinctrlPropsAre DEF Additions
    <3> HIDE DEF V
    <3>3. PINCTRL_PROPS[i] \in V /\ i \in DOMAIN PINCTRL_PROPS
      BY <3>1, <3>2, Zenon
    <3> QED BY <3>3 DEF V
  <2>2. <<PINCTRL_PROPS[i][1], PINCTRL_PROPS[i][2]>> = PINCTRL_PROPS[i]
    BY <2>1
  <2>3. <<PINCTRL_PROPS[i][1], PINCTRL_PROPS[i][2]>> \in Elems(PINCTRL_PROPS)
    BY <2>1, <2>2 DEF Elems
  <2> QED BY <2>3 DEF Puts
<1> QED BY <1>3, <1>4, <1>5, AddedInPlace

\* The first n elements are the ones they are.
LEMMA PickedFirst ==
  ASSUME NEW n \in Nat, NEW s
  PROVE  Picked(s, 1 .. n) = [i \in 1 .. n |-> s[i]]
<1> DEFINE nth(i) == CHOOSE p \in 1 .. n : Cardinality({q \in 1 .. n : q <= p}) = i
<1>1. ASSUME NEW p \in 1 .. n PROVE Cardinality({q \in 1 .. n : q <= p}) = p
  <2>1. {q \in 1 .. n : q <= p} = 1 .. p
    OBVIOUS
  <2>2. p \in Nat
    OBVIOUS
  <2>3. Cardinality(1 .. p) = p
    <3>1. Cardinality(1 .. p) = IF 1 > p THEN 0 ELSE p - 1 + 1
      BY <2>2, FS_Interval
    <3> QED BY <2>2, <3>1
  <2> QED BY <2>1, <2>3
<1>2. ASSUME NEW i \in 1 .. n PROVE nth(i) = i
  <2>1. \A p \in 1 .. n : Cardinality({q \in 1 .. n : q <= p}) = i <=> p = i
    BY <1>1
  <2> QED BY <2>1
<1>3. Cardinality(1 .. n) = n
  <2>1. Cardinality(1 .. n) = IF 1 > n THEN 0 ELSE n - 1 + 1
    BY FS_Interval
  <2> QED BY <2>1
<1>4. Picked(s, 1 .. n) = [i \in 1 .. Cardinality(1 .. n) |-> s[nth(i)]]
  BY DEF Picked
<1> HIDE DEF nth
<1> QED BY <1>2, <1>3, <1>4

\* The padding of a command line is all that is taken off it.
LEMMA PaddedArgs ==
  ASSUME NEW args \in Seq(Word), NEW blanks \in Seq({Blank})
  PROVE  ArgsOf(args \o blanks) = args
<1> DEFINE v == args \o blanks
           n == Len(args)
           m == Len(blanks)
<1>1. n \in Nat /\ m \in Nat /\ DOMAIN v = 1 .. n + m
      /\ (\A i \in 1 .. n : v[i] = args[i]) /\ (\A i \in 1 .. m : v[n + i] = blanks[i])
  <2>1. \A x, y \in Seq(Int) :
          /\ DOMAIN (x \o y) = 1 .. Len(x) + Len(y)
          /\ \A i \in 1 .. Len(x) : (x \o y)[i] = x[i]
          /\ \A i \in 1 .. Len(y) : (x \o y)[Len(x) + i] = y[i]
    OBVIOUS
  <2>2. args \in Seq(Int) /\ blanks \in Seq(Int)
    BY DEF Word, Blank
  <2>3. n \in Nat /\ m \in Nat
    OBVIOUS
  <2>4. /\ DOMAIN (args \o blanks) = 1 .. Len(args) + Len(blanks)
        /\ \A i \in 1 .. Len(args) : (args \o blanks)[i] = args[i]
        /\ \A i \in 1 .. Len(blanks) : (args \o blanks)[Len(args) + i] = blanks[i]
    BY <2>1, <2>2, Zenon
  <2> QED BY <2>3, <2>4
<1>2. (\A i \in 1 .. n : args[i] # Blank) /\ (\A i \in 1 .. m : blanks[i] = Blank)
  <2>1. \A V : \A w \in Seq(V) : \A i \in 1 .. Len(w) : w[i] \in V
    OBVIOUS
  <2>2. (\A i \in 1 .. n : args[i] \in Word) /\ (\A i \in 1 .. m : blanks[i] \in {Blank})
    BY <2>1, Zenon
  <2> QED BY <2>2 DEF Word
<1> HIDE DEF v
<1>3. {i \in DOMAIN v : v[i] # Blank} = 1 .. n
  <2>1. \A i \in 1 .. n + m : i \in 1 .. n \/ (i - n \in 1 .. m /\ n + (i - n) = i)
    BY <1>1
  <2>2. \A i \in 1 .. n : i \in 1 .. n + m
    BY <1>1
  <2>3. \A i \in 1 .. n + m : v[i] # Blank <=> i \in 1 .. n
    <3> TAKE i \in 1 .. n + m
    <3>1. CASE i \in 1 .. n
      BY <1>1, <1>2, <3>1
    <3>2. CASE i \notin 1 .. n
      <4>1. i - n \in 1 .. m /\ n + (i - n) = i
        BY <2>1, <3>2
      <4>2. v[n + (i - n)] = blanks[i - n]
        BY <1>1, <4>1
      <4> QED BY <1>2, <3>2, <4>1, <4>2
    <3> QED BY <3>1, <3>2
  <2> QED BY <1>1, <2>2, <2>3
<1>4. Picked(v, 1 .. n) = [i \in 1 .. n |-> v[i]]
  BY <1>1, PickedFirst
<1>5. [i \in 1 .. n |-> v[i]] = args
  <2>1. args = [i \in 1 .. n |-> args[i]]
    OBVIOUS
  <2> QED BY <1>1, <2>1
<1> QED BY <1>3, <1>4, <1>5 DEF ArgsOf, v

\* set_bootargs, with the line the tools give it.
LEMMA BootargsInPlace ==
  ASSUME NEW b, Sane(b), FindProp(b, <<"chosen">>, "bootargs") # 0,
         SetBootargs(b, RewriteRoot(Bootargs(b), Want)) # Refused
  PROVE  InPlace("bootargs", b, SetBootargs(b, RewriteRoot(Bootargs(b), Want)))
<1> DEFINE name == "bootargs"
           p == FindProp(b, <<"chosen">>, name)
           val == b.struct[p].val
           args == RewriteRoot(Bootargs(b), Want)
           room == Len(val)
           v == IF Len(args) <= room THEN PadTo(args, room) ELSE args
           new == SetValue(b, p, v)
           P == Paths(b.struct)[p]
<1>1. p \in 1 .. Len(b.struct) /\ b.struct[p].tok = "prop" /\ val \in Seq(Int)
  BY FindIs DEF Sane
<1>2. NameAt(b, p) = name /\ Is(P, <<"chosen">>)
  BY FindNamed
<1>3. args \in Seq(Word) /\ args = RewriteRoot(ArgsOf(val), Want)
  <2>1. ArgsOf(val) \in Seq(Word)
    <3> HIDE DEF val
    <3> QED BY <1>1, ArgsOfIs
  <2>2. Bootargs(b) = ArgsOf(val)
    BY DEF Bootargs
  <2> QED BY <2>1, <2>2, RewriteRootIs
<1>4. SetBootargs(b, args) = new
  BY DEF SetBootargs
<1> HIDE DEF val, args, p
<1>5. v \in Seq(Int) /\ ArgsOf(v) = args
  <2>1. room \in Nat /\ Len(args) \in Nat
    BY <1>1, <1>3
  <2>2. ASSUME Len(args) <= room
        PROVE  PadTo(args, room) \in Seq(Int) /\ ArgsOf(PadTo(args, room)) = args
    <3> DEFINE k == room - Len(args)
               blanks == [i \in 1 .. k |-> Blank]
    <3>1. k \in Nat
      BY <2>1, <2>2
    <3> HIDE DEF k
    <3>2. blanks \in Seq({Blank})
      BY <3>1
    <3>3. PadTo(args, room) = args \o blanks
      BY DEF PadTo, k
    <3> HIDE DEF blanks
    <3>4. args \in Seq(Int) /\ blanks \in Seq(Int)
      BY <1>3, <3>2 DEF Word, Blank
    <3>5. args \o blanks \in Seq(Int)
      BY <3>4
    <3>6. ArgsOf(args \o blanks) = args
      BY <1>3, <3>2, PaddedArgs
    <3> QED BY <3>3, <3>5, <3>6
  <2>3. args \in Seq(Int) /\ ArgsOf(args) = args
    <3>1. <<>> \in Seq({Blank}) /\ args \in Seq(Int)
      BY <1>3 DEF Word
    <3>2. args \o <<>> = args
      BY <3>1
    <3>3. ArgsOf(args \o <<>>) = args
      BY <1>3, <3>1, PaddedArgs, Zenon
    <3> QED BY <3>1, <3>2, <3>3
  <2> QED BY <2>2, <2>3
<1> HIDE DEF v
<1>6. Replaced(b, new, Entry(b, p), <<P, name, v>>) /\ Entry(b, p) = <<P, name, val>>
  BY <1>1, <1>2, <1>5, SetValueEntries DEF Entry, val
<1>7. For("bootargs", P) /\ Takes("bootargs", name)
  BY <1>2 DEF For, Takes
<1>8. Puts("bootargs", name, v, {<<P, name, val>>})
  <2> DEFINE g == <<P, name, val>>
  <2>1. g[3] = val
    OBVIOUS
  <2> HIDE DEF g, P
  <2>2. Puts("bootargs", name, v, {g})
    BY <1>3, <1>5, <2>1 DEF Puts
  <2> QED BY <2>2 DEF g
<1> HIDE DEF new, P
<1> QED BY <1>4, <1>6, <1>7, <1>8, ReplacedInPlace DEF args

DelayNames == {"reset-delay-ms", "init-delay-ms", "enable-delay-ms"}

\* The panel's delays, as the edit knows them.
LEMMA DelaysAre ==
  /\ DOMAIN PANEL_DELAYS = 1 .. 3
  /\ \A i \in 1 .. 3 :
       /\ PANEL_DELAYS[i][1] \in DelayNames
       /\ <<PANEL_DELAYS[i][3]>> \in Seq(Int)
       /\ <<PANEL_DELAYS[i][1], <<PANEL_DELAYS[i][3]>>>>
            \in {<<d[1], <<d[3]>>>> : d \in Elems(PANEL_DELAYS)}
<1>1. DOMAIN PANEL_DELAYS = 1 .. 3
  BY DEF PANEL_DELAYS
<1>2. \A i \in 1 .. 3 : PANEL_DELAYS[i][1] \in DelayNames /\ <<PANEL_DELAYS[i][3]>> \in Seq(Int)
  BY DEF PANEL_DELAYS, DelayNames
<1>3. \A i \in 1 .. 3 : PANEL_DELAYS[i] \in Elems(PANEL_DELAYS)
  BY <1>1 DEF Elems
<1> QED BY <1>1, <1>2, <1>3

\* What is so of a tree some of whose delays have been put in place: its
\* opening, the value of panel-init-sequence, is what it was.
Delayed(b, t) ==
  LET p == FindProp(b, PANEL_NODE, "panel-init-sequence")
  IN /\ Sane(t) /\ Len(t.struct) = Len(b.struct)
     /\ \A other : FindProp(t, PANEL_NODE, other) = FindProp(b, PANEL_NODE, other)
     /\ t.struct[p].val = b.struct[p].val
     /\ \A x \in Entries(b) \ Entries(t) : For("panel", x[1]) /\ Takes("panel", x[2])
     /\ \A x \in Entries(t) \ Entries(b) :
          /\ For("panel", x[1]) /\ x[2] \in DelayNames
          /\ <<x[2], x[3]>> \in {<<d[1], <<d[3]>>>> : d \in Elems(PANEL_DELAYS)}

\* A value put in place of one the panel's node has.
LEMMA PutEntries ==
  ASSUME NEW t, Sane(t), NEW prop, FindProp(t, PANEL_NODE, prop) # 0, NEW v \in Seq(Int)
  PROVE  LET p == FindProp(t, PANEL_NODE, prop)
             P == Paths(t.struct)[p]
             new == PutPanel(t, prop, v)
         IN /\ For("panel", P) /\ Sane(new) /\ Len(new.struct) = Len(t.struct)
            /\ \A other : FindProp(new, PANEL_NODE, other) = FindProp(t, PANEL_NODE, other)
            /\ Replaced(t, new, <<P, prop, t.struct[p].val>>, <<P, prop, v>>)
            /\ \A other : /\ other # prop
                          /\ FindProp(t, PANEL_NODE, other) # 0
                          => new.struct[FindProp(t, PANEL_NODE, other)]
                               = t.struct[FindProp(t, PANEL_NODE, other)]
<1> DEFINE at(name) == FindProp(t, PANEL_NODE, name)
           p == at(prop)
           P == Paths(t.struct)[p]
           new == PutPanel(t, prop, v)
<1>1. \A name : at(name) # 0 =>
        at(name) \in 1 .. Len(t.struct) /\ t.struct[at(name)].tok = "prop"
        /\ NameAt(t, at(name)) = name
  BY FindIs, FindNamed DEF Sane
<1>2. Is(P, PANEL_NODE)
  BY FindNamed
<1>3. new = SetValue(t, p, v)
  BY DEF PutPanel
<1>4. Sane(new) /\ \A other : FindProp(new, PANEL_NODE, other) = FindProp(t, PANEL_NODE, other)
  BY PutPanelIs, Zenon
<1> HIDE DEF at
<1>5. p \in 1 .. Len(t.struct) /\ t.struct[p].tok = "prop" /\ NameAt(t, p) = prop
  BY <1>1 DEF at
<1>6. Len(new.struct) = Len(t.struct)
  BY <1>3, <1>5, SetValueIs
<1>7. /\ Replaced(t, new, Entry(t, p), <<P, NameAt(t, p), v>>)
      /\ \A q \in 1 .. Len(t.struct) : q # p => new.struct[q] = t.struct[q]
  <2> HIDE DEF p, new
  <2> QED BY <1>3, <1>5, SetValueEntries DEF P
<1>8. Replaced(t, new, <<P, prop, t.struct[p].val>>, <<P, prop, v>>)
  BY <1>5, <1>7 DEF Entry
<1>9. \A other : other # prop /\ at(other) # 0 => new.struct[at(other)] = t.struct[at(other)]
  <2> TAKE other
  <2> HAVE other # prop /\ at(other) # 0
  <2>1. at(other) \in 1 .. Len(t.struct) /\ NameAt(t, at(other)) = other
    BY <1>1
  <2>2. at(other) # p
    BY <1>5, <2>1
  <2> QED BY <1>7, <2>1, <2>2
<1>10. For("panel", P)
  BY <1>2 DEF For
<1> HIDE DEF new, P, p
<1> QED BY <1>4, <1>6, <1>8, <1>9, <1>10 DEF new, P, p, at

\* One delay.
LEMMA DelayStep ==
  ASSUME NEW b, NEW t, Delayed(b, t), NEW i \in 1 .. 3,
         FindProp(b, PANEL_NODE, PANEL_DELAYS[i][1]) # 0,
         FindProp(b, PANEL_NODE, "panel-init-sequence") # 0
  PROVE  Delayed(b, PutPanel(t, PANEL_DELAYS[i][1], <<PANEL_DELAYS[i][3]>>))
<1> DEFINE name == PANEL_DELAYS[i][1]
           v == <<PANEL_DELAYS[i][3]>>
           new == PutPanel(t, name, v)
           p == FindProp(b, PANEL_NODE, name)
           last == FindProp(b, PANEL_NODE, "panel-init-sequence")
           P == Paths(t.struct)[p]
           x == <<P, name, t.struct[p].val>>
           y == <<P, name, v>>
           put == {<<d[1], <<d[3]>>>> : d \in Elems(PANEL_DELAYS)}
<1>1. /\ Sane(t) /\ Len(t.struct) = Len(b.struct)
      /\ \A other : FindProp(t, PANEL_NODE, other) = FindProp(b, PANEL_NODE, other)
      /\ t.struct[last].val = b.struct[last].val
      /\ \A z \in Entries(b) \ Entries(t) : For("panel", z[1]) /\ Takes("panel", z[2])
      /\ \A z \in Entries(t) \ Entries(b) :
           For("panel", z[1]) /\ z[2] \in DelayNames /\ <<z[2], z[3]>> \in put
  BY DEF Delayed
<1>2. name \in DelayNames /\ v \in Seq(Int) /\ <<name, v>> \in put
  BY DelaysAre
<1>3. name # "panel-init-sequence" /\ Takes("panel", name)
  BY <1>2 DEF DelayNames, Takes
<1>4. FindProp(t, PANEL_NODE, name) = p /\ p # 0
      /\ FindProp(t, PANEL_NODE, "panel-init-sequence") = last /\ last # 0
  BY <1>1
<1> HIDE DEF name, v, put
<1>5. /\ For("panel", P) /\ Sane(new) /\ Len(new.struct) = Len(t.struct)
      /\ \A other : FindProp(new, PANEL_NODE, other) = FindProp(t, PANEL_NODE, other)
      /\ Replaced(t, new, x, y)
      /\ new.struct[last] = t.struct[last]
  <2> HIDE DEF p, last, new
  <2>1. FindProp(t, PANEL_NODE, name) # 0
    BY <1>4
  <2> QED BY <1>1, <1>2, <1>3, <1>4, <2>1, PutEntries DEF new
<1>6. x[1] = P /\ x[2] = name /\ y[1] = P /\ y[2] = name /\ y[3] = v
  OBVIOUS
<1> HIDE DEF x, y, P, p, new
<1>7. /\ x \in Entries(t) /\ Entries(t) \ {x} \subseteq Entries(new)
      /\ Entries(new) \subseteq (Entries(t) \ {x}) \cup {y}
  BY <1>5 DEF Replaced
<1>8. \A z \in Entries(b) \ Entries(new) : For("panel", z[1]) /\ Takes("panel", z[2])
  <2> TAKE z \in Entries(b) \ Entries(new)
  <2>1. z \in Entries(b) \ Entries(t) \/ z = x
    BY <1>7
  <2> QED BY <1>1, <1>3, <1>5, <1>6, <2>1
<1>9. \A z \in Entries(new) \ Entries(b) :
        For("panel", z[1]) /\ z[2] \in DelayNames /\ <<z[2], z[3]>> \in put
  <2> TAKE z \in Entries(new) \ Entries(b)
  <2>1. z \in Entries(t) \ Entries(b) \/ z = y
    BY <1>7
  <2> QED BY <1>1, <1>2, <1>5, <1>6, <2>1
<1>10. /\ Len(new.struct) = Len(b.struct) /\ new.struct[last].val = b.struct[last].val
       /\ \A other : FindProp(new, PANEL_NODE, other) = FindProp(b, PANEL_NODE, other)
  BY <1>1, <1>5
<1>11. Delayed(b, new)
  BY <1>5, <1>8, <1>9, <1>10 DEF Delayed, put
<1> QED BY <1>11 DEF new, name, v

\* set_panel_delays.
LEMMA PanelInPlace ==
  ASSUME NEW b, Sane(b), SetPanelDelays(b) # Refused
  PROVE  InPlace("panel", b, SetPanelDelays(b))
<1> DEFINE at(prop) == FindProp(b, PANEL_NODE, prop)
           put(t, i) == PutPanel(t, PANEL_DELAYS[i][1], <<PANEL_DELAYS[i][3]>>)
           name == "panel-init-sequence"
           p == at(name)
           opening == b.struct[p].val
           v == <<PANEL_SLEEP_OUT[2]>> \o Tail(opening)
           t == put(put(put(b, 1), 2), 3)
           new == PutPanel(t, name, v)
           P == Paths(t.struct)[p]
           x == <<P, name, opening>>
           y == <<P, name, v>>
<1>1. /\ SetPanelDelays(b) = new /\ p # 0 /\ opening # <<>>
      /\ \A i \in DOMAIN PANEL_DELAYS : at(PANEL_DELAYS[i][1]) # 0
  BY DEF SetPanelDelays
<1>2. v \in Seq(Int)
  <2>1. opening \in Seq(Int)
    BY <1>1, FindIs DEF Sane
  <2> HIDE DEF opening
  <2>2. Tail(opening) \in Seq(Int) /\ PANEL_SLEEP_OUT[2] \in Int
    BY <1>1, <2>1 DEF PANEL_SLEEP_OUT
  <2> QED BY <2>2
<1> HIDE DEF v
<1>3. Delayed(b, b)
  <2>1. Entries(b) \ Entries(b) = {}
    OBVIOUS
  <2> QED BY <2>1 DEF Delayed
<1>4. Delayed(b, t)
  <2>1. \A i \in 1 .. 3 : at(PANEL_DELAYS[i][1]) # 0
    BY <1>1, DelaysAre
  <2>3. ASSUME NEW u, Delayed(b, u), NEW i \in 1 .. 3 PROVE Delayed(b, put(u, i))
    BY <1>1, <2>1, <2>3, DelayStep
  <2> HIDE DEF put
  <2>4. Delayed(b, put(b, 1))
    BY <1>3, <2>3
  <2>5. Delayed(b, put(put(b, 1), 2))
    BY <2>3, <2>4
  <2> QED BY <2>3, <2>5
<1> HIDE DEF t, put
<1>5. /\ Sane(t) /\ FindProp(t, PANEL_NODE, name) = p /\ t.struct[p].val = opening
      /\ \A z \in Entries(b) \ Entries(t) : For("panel", z[1]) /\ Takes("panel", z[2])
      /\ \A z \in Entries(t) \ Entries(b) :
           /\ For("panel", z[1]) /\ z[2] \in DelayNames
           /\ <<z[2], z[3]>> \in {<<d[1], <<d[3]>>>> : d \in Elems(PANEL_DELAYS)}
  BY <1>4 DEF Delayed
<1>6. For("panel", P) /\ Replaced(t, new, x, y)
  <2> HIDE DEF p, opening, new
  <2>1. FindProp(t, PANEL_NODE, name) # 0
    BY <1>1, <1>5
  <2> QED BY <1>2, <1>5, <2>1, PutEntries DEF new
<1>7. x[1] = P /\ x[2] = name /\ x[3] = opening /\ y[1] = P /\ y[2] = name /\ y[3] = v
  OBVIOUS
<1> HIDE DEF x, y, P, p, new
<1>8. /\ x \in Entries(t) /\ Entries(t) \ {x} \subseteq Entries(new)
      /\ Entries(new) \subseteq (Entries(t) \ {x}) \cup {y}
  BY <1>6 DEF Replaced
<1>9. x \in Entries(b)
  <2>1. name \notin DelayNames
    BY DEF DelayNames
  <2> QED BY <1>5, <1>7, <1>8, <2>1
<1> DEFINE gone == Entries(b) \ Entries(new)
           come == Entries(new) \ Entries(b)
<1>10. \A z \in gone : For("panel", z[1]) /\ Takes("panel", z[2])
  <2> TAKE z \in gone
  <2>1. z \in Entries(b) \ Entries(t) \/ z = x
    BY <1>8
  <2>2. Takes("panel", name)
    BY DEF Takes
  <2> QED BY <1>5, <1>6, <1>7, <2>1, <2>2
<1>11. \A z \in come : For("panel", z[1]) /\ Puts("panel", z[2], z[3], gone)
  <2> TAKE z \in come
  <2>1. z \in Entries(t) \ Entries(b) \/ z = y
    BY <1>8
  <2>2. CASE z \in Entries(t) \ Entries(b)
    <3>1. For("panel", z[1])
          /\ <<z[2], z[3]>> \in {<<d[1], <<d[3]>>>> : d \in Elems(PANEL_DELAYS)}
      BY <1>5, <2>2
    <3> HIDE DEF gone
    <3> QED BY <3>1 DEF Puts
  <2>3. CASE z = y
    <3>1. y \notin Entries(b)
      BY <2>3
    <3>2. x \in gone
      BY <1>8, <1>9, <3>1
    <3> HIDE DEF gone, opening
    <3>3. \E g \in gone : g[2] = name /\ v = <<PANEL_SLEEP_OUT[2]>> \o Tail(g[3])
      BY <1>7, <3>2 DEF v
    <3>4. Puts("panel", name, v, gone)
      BY <3>3 DEF Puts
    <3> QED BY <1>6, <1>7, <2>3, <3>4
  <2> QED BY <2>1, <2>2, <2>3
<1>12. InPlace("panel", b, new)
  BY <1>10, <1>11 DEF InPlace
<1> QED BY <1>1, <1>12 DEF new

\* Every edit of a kernel's tree, on one that has what it starts from.
LEMMA EditedInPlace ==
  ASSUME NEW b, Sane(b), NEW e \in EditNames,
         e = "bootargs" => FindProp(b, <<"chosen">>, "bootargs") # 0,
         Edited(e, b) # Refused
  PROVE  InPlace(e, b, Edited(e, b))
<1>1. CASE e = "bootargs"
  BY <1>1, BootargsInPlace DEF Edited
<1>2. CASE e = "uhs"
  BY <1>2, UhsInPlace DEF Edited
<1>3. CASE e = "slot1"
  BY <1>3, Slot1InPlace DEF Edited
<1>4. CASE e = "ohci"
  BY <1>4, OhciInPlace DEF Edited
<1>5. CASE e = "boost"
  BY <1>5, BoostInPlace DEF Edited
<1>6. CASE e = "optee"
  BY <1>6, OpteeInPlace DEF Edited
<1>7. CASE e = "planes"
  BY <1>7, PlanesInPlace DEF Edited
<1>8. CASE e = "panel"
  BY <1>8, PanelInPlace DEF Edited
<1> QED BY <1>1, <1>2, <1>3, <1>4, <1>5, <1>6, <1>7, <1>8 DEF EditNames

\* No edit is left over outside the editing of a part.
NothingLeft == pc # "edit" => todo = <<>>

LEMMA NothingLeftInv ==
  /\ Init => NothingLeft
  /\ NothingLeft /\ [Next]_vars => NothingLeft'
<1>1. Init => NothingLeft
  BY DEF Init, NothingLeft
<1>2. ASSUME NothingLeft, [Next]_vars PROVE NothingLeft'
  <2>1. CASE Start
    BY <1>2, <2>1 DEF NothingLeft, Start, Run
  <2>2. CASE StartAgain
    BY <1>2, <2>2 DEF NothingLeft, StartAgain, Run
  <2>3. CASE OpenPart
    BY <1>2, <2>3 DEF NothingLeft, OpenPart, Refuse
  <2>4. CASE CopyPart
    BY <1>2, <2>4 DEF NothingLeft, CopyPart
  <2>5. CASE EditTree
    BY <1>2, <2>5 DEF NothingLeft, EditTree, Refuse
  <2>6. CASE ClosePart
    BY <1>2, <2>6 DEF NothingLeft, ClosePart
  <2>7. CASE AllParts
    BY <1>2, <2>7 DEF NothingLeft, AllParts
  <2>8. CASE WriteFile
    BY <1>2, <2>8 DEF NothingLeft, WriteFile, Refuse
  <2>9. CASE ReadBack
    BY <1>2, <2>9 DEF NothingLeft, ReadBack
  <2>10. CASE UNCHANGED vars
    BY <1>2, <2>10 DEF NothingLeft, vars
  <2> QED BY <1>2, <2>1, <2>2, <2>3, <2>4, <2>5, <2>6, <2>7, <2>8, <2>9, <2>10 DEF Next
<1> QED BY <1>1, <1>2

\* The step that edits.
LEMMA EditTreeInPlace ==
  ASSUME IInv, EditTree, tree' # Refused
  PROVE  InPlace(Head(todo), tree, tree')
<1> DEFINE new == IF Head(todo) = "bootargs" /\ FindProp(tree, <<"chosen">>, "bootargs") = 0
                  THEN Refused ELSE Edited(Head(todo), tree)
<1>1. pc = "edit" /\ todo # <<>> /\ JobLike(job) /\ SoFar /\ Editing
  BY DEF EditTree, IInv
<1>2. tree' = new
  BY DEF EditTree, Refuse
<1>3. /\ Len(done) < Len(PartsOf(job)) /\ IsTree(Part) /\ Sane(tree)
      /\ ForKernel => todo \in Seq(EditNames)
      /\ job.tool = "mkpreloader" =>
           /\ Touchable(Part)
           /\ \/ todo = <<"pinctrl">> /\ tree = Part.tree
              \/ todo = <<>> /\ tree = AddPinctrl(Part.tree)
  BY <1>1 DEF Editing
<1>4. CASE ForKernel
  <2>1. Head(todo) \in EditNames
    BY <1>1, <1>3, <1>4
  <2>2. tree' = Edited(Head(todo), tree)
        /\ (Head(todo) = "bootargs" => FindProp(tree, <<"chosen">>, "bootargs") # 0)
    BY <1>2
  <2> QED BY <1>3, <2>1, <2>2, EditedInPlace
<1>5. CASE job.tool = "mkpreloader"
  <2>1. todo = <<"pinctrl">> /\ tree = Part.tree /\ Touchable(Part)
    BY <1>1, <1>3, <1>5
  <2>2. Head(todo) = "pinctrl"
    BY <2>1
  <2>3. tree' = AddPinctrl(tree)
    BY <1>2, <2>2 DEF Edited
  <2>4. Sane(AddPinctrl(tree))
    <3>1. SplPart(Part)
      BY <1>1, <1>3, <1>5, PartIs
    <3>2. SplPart(After(Part))
      BY <2>1, <3>1, PatchCopyIs
    <3>3. After(Part).tree = AddPinctrl(Part.tree)
      BY <3>1 DEF After, SplPart
    <3> QED BY <2>1, <3>2, <3>3, GoodIs DEF SplPart
  <2>5. InPlace("pinctrl", tree, AddPinctrl(tree))
    BY <1>3, <2>3, <2>4, PinctrlInPlace
  <2> QED BY <2>2, <2>3, <2>5
<1>6. job.tool # "mkfit-uboot"
  BY <1>1, <1>3, PartIs
<1> QED BY <1>1, <1>4, <1>5, <1>6, JobTools DEF ForKernel

\* An edit changes what it is for, in the node it is for, and nothing else.
THEOREM EditsStayAlways == Spec => EditsStayInPlace
<1>1. ASSUME IInv, NothingLeft, [Next]_vars, todo # <<>>, tree' # Refused
      PROVE  InPlace(Head(todo), tree, tree')
  <2>1. pc = "edit"
    BY <1>1 DEF NothingLeft
  <2>2. tree' = tree => InPlace(Head(todo), tree, tree')
    BY SameInPlace
  <2>3. CASE EditTree
    BY <1>1, <2>3, EditTreeInPlace
  <2>4. CASE UNCHANGED vars
    BY <2>2, <2>4 DEF vars
  <2>5. ~Start /\ ~StartAgain /\ ~OpenPart /\ ~CopyPart /\ ~AllParts /\ ~WriteFile /\ ~ReadBack
    BY <2>1 DEF Start, StartAgain, OpenPart, CopyPart, AllParts, WriteFile, ReadBack
  <2>6. ~ClosePart
    BY <1>1 DEF ClosePart
  <2> QED BY <1>1, <2>3, <2>4, <2>5, <2>6 DEF Next
<1> DEFINE A == todo # <<>> /\ tree' # Refused =>
                  \E was \in {Entries(tree)}, is \in {Entries(tree')} :
                    LET gone == was \ is
                        come == is \ was
                        e == Head(todo)
                    IN /\ \A x \in gone : For(e, x[1]) /\ Takes(e, x[2])
                       /\ \A x \in come : For(e, x[1]) /\ Puts(e, x[2], x[3], gone)
                       /\ e \notin {"planes", "panel"} =>
                            \A x, y \in gone \cup come : x[1] = y[1]
<1>2. InPlace(Head(todo), tree, tree') => A
  BY DEF InPlace
<1>3. IInv /\ NothingLeft /\ [Next]_vars => [A]_vars
  BY <1>1, <1>2
<1>4. EditsStayInPlace <=> [][A]_vars
  BY DEF EditsStayInPlace
<1> HIDE DEF A
<1> QED BY <1>3, <1>4, Invariant, NothingLeftInv, PTL DEF Spec
=============================================================================
