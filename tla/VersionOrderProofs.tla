-------------------------- MODULE VersionOrderProofs --------------------------
(***************************************************************************)
(* Proofs about VersionOrder, for versions of any number of fields.        *)
(*                                                                         *)
(* With what is past the end of a part taken for a field of its own, fields *)
(* are totally preordered in either part, and dotted_cmp is the             *)
(* lexicographic order over them: version_newer is then a strict order.  In *)
(* a pre-release the first field that differs is semver's, and in a core of *)
(* up to three fields the numbers are.                                      *)
(***************************************************************************)
EXTENDS VersionOrder, SequenceTheorems, NaturalsInduction, WellFoundedInduction, TLAPS

Padded == Field \cup {EmptyField}
Places == Nat \ {0}
Parts == {"core", "pre"}

\* Where both parts are used up the loop does not get.
FieldCmp(f, g, part) ==
  IF f = EmptyField /\ g = EmptyField THEN 0 ELSE CompareField(f, g, part)

\* The fields of a and b at place i.
At(a, b, part, i) == FieldCmp(FieldAt(a, i), FieldAt(b, i), part)

-----------------------------------------------------------------------------
LEMMA FieldIs ==
  ASSUME NEW f \in Field
  PROVE  /\ f.kind \in {"number", "text"} /\ f.val \in Nat /\ f # EmptyField
         /\ f = [kind |-> f.kind, val |-> f.val]
BY DEF Field, EmptyField

LEMMA PaddedIs ==
  ASSUME NEW f \in Padded
  PROVE  /\ f.kind \in {"number", "text", "empty"} /\ f.val \in Nat
         /\ f.kind = "empty" <=> f = EmptyField
         /\ \A g \in Padded : f.kind = g.kind /\ f.val = g.val => f = g
<1>1. EmptyField.kind = "empty" /\ EmptyField.val = 0
  BY DEF EmptyField
<1>2. ASSUME NEW g \in Padded
      PROVE  g.kind \in {"number", "text", "empty"} /\ g.val \in Nat
             /\ (g.kind = "empty" <=> g = EmptyField)
  <2>1. CASE g \in Field
    BY <2>1, FieldIs
  <2>2. CASE g = EmptyField
    BY <1>1, <2>2
  <2> QED BY <2>1, <2>2 DEF Padded
<1>3. ASSUME NEW g \in Padded, f.kind = g.kind, f.val = g.val PROVE f = g
  <2>1. CASE f = EmptyField
    BY <1>2, <1>3, <2>1
  <2>2. CASE f \in Field /\ g \in Field
    BY <1>3, <2>2, FieldIs
  <2> QED BY <1>2, <1>3, <2>1, <2>2 DEF Padded
<1> QED BY <1>2, <1>3

LEMMA ComparesNumbers ==
  ASSUME NEW m \in Nat, NEW n \in Nat
  PROVE  /\ Compare(m, n) \in {0, 1, 2}
         /\ Compare(m, n) = 1 <=> m > n
         /\ Compare(m, n) = 2 <=> m < n
         /\ Compare(m, n) = 0 <=> m = n
BY DEF Compare

\* Fields are totally preordered in either part.
LEMMA FieldOrder ==
  ASSUME NEW f \in Padded, NEW g \in Padded, NEW h \in Padded, NEW part \in Parts
  PROVE  /\ FieldCmp(f, g, part) \in {0, 1, 2}
         /\ FieldCmp(f, f, part) = 0
         /\ FieldCmp(f, g, part) = 1 <=> FieldCmp(g, f, part) = 2
         /\ FieldCmp(f, g, part) = 0 =>
              /\ FieldCmp(g, f, part) = 0
              /\ FieldCmp(f, h, part) = FieldCmp(g, h, part)
              /\ FieldCmp(h, f, part) = FieldCmp(h, g, part)
         /\ FieldCmp(f, g, part) = 1 /\ FieldCmp(g, h, part) = 1 => FieldCmp(f, h, part) = 1
<1> USE DEF FieldCmp
<1>1. CASE part = "core"
  <2> DEFINE v(x) == CoreValue(x)
  <2>1. \A x \in Padded : v(x) \in Nat
    BY PaddedIs DEF CoreValue
  <2>2. v(EmptyField) = 0
    BY DEF CoreValue, EmptyField
  <2>3. \A x, y \in Padded : CompareField(x, y, part) = Compare(v(x), v(y))
    BY <1>1 DEF CompareField, CoreField
  <2> HIDE DEF v
  <2>4. \A x, y \in Padded :
          /\ FieldCmp(x, y, part) \in {0, 1, 2}
          /\ FieldCmp(x, y, part) = 1 <=> v(x) > v(y)
          /\ FieldCmp(x, y, part) = 2 <=> v(x) < v(y)
          /\ FieldCmp(x, y, part) = 0 <=> v(x) = v(y)
    BY <2>1, <2>2, <2>3, ComparesNumbers
  <2> HIDE DEF FieldCmp
  <2> QED BY <2>1, <2>4
<1>2. CASE part = "pre"
  \* A part that is used up, then the numbers, then the texts.
  <2> DEFINE rank(x) == CASE x.kind = "empty" -> 0 [] x.kind = "number" -> 1 [] OTHER -> 2
             less(x, y) == rank(x) < rank(y) \/ (rank(x) = rank(y) /\ x.val < y.val)
  <2>1. ASSUME NEW x \in Padded
        PROVE  /\ x.kind = "empty" => rank(x) = 0
               /\ x.kind = "number" => rank(x) = 1
               /\ x.kind = "text" => rank(x) = 2
    OBVIOUS
  <2> HIDE DEF rank
  <2>2. ASSUME NEW x \in Padded, NEW y \in Padded
        PROVE  /\ FieldCmp(x, y, part) \in {0, 1, 2}
               /\ FieldCmp(x, y, part) = 1 <=> less(y, x)
               /\ FieldCmp(x, y, part) = 2 <=> less(x, y)
               /\ FieldCmp(x, y, part) = 0 <=> x = y
    <3>1. /\ x.kind \in {"number", "text", "empty"} /\ x.val \in Nat
          /\ y.kind \in {"number", "text", "empty"} /\ y.val \in Nat
          /\ x.kind = "empty" <=> x = EmptyField
          /\ y.kind = "empty" <=> y = EmptyField
          /\ x.kind = y.kind /\ x.val = y.val => x = y
      BY PaddedIs
    <3>2. /\ Compare(x.val, y.val) \in {0, 1, 2}
          /\ Compare(x.val, y.val) = 1 <=> x.val > y.val
          /\ Compare(x.val, y.val) = 2 <=> x.val < y.val
          /\ Compare(x.val, y.val) = 0 <=> x.val = y.val
      BY <3>1, ComparesNumbers
    <3>3. FieldCmp(x, y, part) = IF x = EmptyField /\ y = EmptyField THEN 0 ELSE PreField(x, y)
      BY <1>2 DEF CompareField
    <3>4. CASE x.kind = "empty" /\ y.kind = "empty"
      <4>1. FieldCmp(x, y, part) = 0 /\ x = y /\ x.val = 0 /\ y.val = 0
        BY <3>1, <3>3, <3>4 DEF EmptyField
      <4> QED BY <2>1, <3>4, <4>1
    <3>5. CASE x.kind = "empty" /\ y.kind # "empty"
      <4>1. FieldCmp(x, y, part) = 2 /\ x # y
        BY <3>1, <3>3, <3>5 DEF PreField
      <4> QED BY <2>1, <3>1, <3>5, <4>1
    <3>6. CASE x.kind # "empty" /\ y.kind = "empty"
      <4>1. FieldCmp(x, y, part) = 1 /\ x # y
        BY <3>1, <3>3, <3>6 DEF PreField
      <4> QED BY <2>1, <3>1, <3>6, <4>1
    <3>7. CASE x.kind # "empty" /\ y.kind = x.kind
      <4>1. FieldCmp(x, y, part) = Compare(x.val, y.val)
        BY <3>1, <3>3, <3>7 DEF PreField
      <4>2. rank(x) = rank(y) /\ rank(x) \in Nat
        BY <2>1, <3>1, <3>7
      <4> QED BY <3>1, <3>2, <3>7, <4>1, <4>2
    <3>8. CASE x.kind = "number" /\ y.kind = "text"
      <4>1. FieldCmp(x, y, part) = 2 /\ x # y
        BY <3>1, <3>3, <3>8 DEF PreField
      <4> QED BY <2>1, <3>1, <3>8, <4>1
    <3>9. CASE x.kind = "text" /\ y.kind = "number"
      <4>1. FieldCmp(x, y, part) = 1 /\ x # y
        BY <3>1, <3>3, <3>9 DEF PreField
      <4> QED BY <2>1, <3>1, <3>9, <4>1
    <3> QED BY <3>1, <3>4, <3>5, <3>6, <3>7, <3>8, <3>9
  <2>3. \A x \in Padded : rank(x) \in Nat /\ x.val \in Nat
    BY <2>1, PaddedIs
  <2> HIDE DEF FieldCmp
  <2> QED BY <2>2, <2>3
<1> QED BY <1>1, <1>2 DEF Parts

-----------------------------------------------------------------------------
\* The least of some places.
LEMMA Least ==
  ASSUME NEW S \in SUBSET Nat, S # {}
  PROVE  Min(S) \in S /\ \A i \in S : Min(S) <= i
<1> DEFINE R == {t \in Nat \X Nat : t[1] < t[2]}
<1>1. IsWellFoundedOn(R, Nat)
  BY NatLessThanWellFounded DEF OpToRel
<1>2. \A u, v \in Nat : u < v => <<u, v>> \in R
  OBVIOUS
<1> HIDE DEF R
<1>3. PICK t \in S : \A u \in S : <<u, t>> \notin R
  BY <1>1, WFMin
<1>4. \A u \in S : ~(u < t)
  BY <1>2, <1>3
<1>5. \A u \in S : t <= u
  BY <1>4
<1> QED BY <1>3, <1>5 DEF Min

LEMMA PlacesOf ==
  ASSUME NEW a \in Seq(Field)
  PROVE  /\ Len(a) \in Nat /\ DOMAIN a = 1 .. Len(a)
         /\ \A i \in Places : FieldAt(a, i) \in Padded
         /\ \A i \in Places : FieldAt(a, i) # EmptyField <=> i \in DOMAIN a
         /\ \A i \in DOMAIN a : i \in Places /\ a[i] \in Field /\ FieldAt(a, i) = a[i]
<1>1. Len(a) \in Nat /\ DOMAIN a = 1 .. Len(a) /\ \A i \in 1 .. Len(a) : a[i] \in Field
  BY LenProperties, ElementOfSeq
<1> QED BY <1>1, FieldIs DEF FieldAt, Padded, Places

\* dotted_cmp finds the first place at which the parts differ, however long they are.
LEMMA DottedIs ==
  ASSUME NEW a \in Seq(Field), NEW b \in Seq(Field), NEW part \in Parts
  PROVE  /\ DottedCmp(a, b, part) \in {0, 1, 2}
         /\ DottedCmp(a, b, part) = 0 <=> \A i \in Places : At(a, b, part, i) = 0
         /\ \A c \in {1, 2} :
              DottedCmp(a, b, part) = c <=>
                \E i \in Places :
                  /\ At(a, b, part, i) = c
                  /\ \A j \in Places : j < i => At(a, b, part, j) = 0
<1> DEFINE D(i) == At(a, b, part, i)
           deciding == {i \in FieldsOf(a, b) : CompareField(FieldAt(a, i), FieldAt(b, i), part) # 0}
<1>1. \A i \in Places : D(i) \in {0, 1, 2}
  BY PlacesOf, FieldOrder DEF At
<1>2. FieldsOf(a, b) \subseteq Places
  BY PlacesOf DEF FieldsOf
<1>3. \A i \in FieldsOf(a, b) : D(i) = CompareField(FieldAt(a, i), FieldAt(b, i), part)
  BY <1>2, PlacesOf DEF FieldsOf, At, FieldCmp
<1>4. \A i \in Places \ FieldsOf(a, b) : D(i) = 0
  BY PlacesOf DEF FieldsOf, At, FieldCmp
<1>5. deciding = {i \in Places : D(i) # 0}
  BY <1>2, <1>3, <1>4
<1>6. DottedCmp(a, b, part) =
        IF deciding = {} THEN 0
        ELSE CompareField(FieldAt(a, Min(deciding)), FieldAt(b, Min(deciding)), part)
  BY DEF DottedCmp
<1>7. CASE deciding = {}
  BY <1>1, <1>5, <1>6, <1>7
<1>8. CASE deciding # {}
  <2> DEFINE k == Min(deciding)
  <2>1. k \in deciding /\ \A i \in deciding : k <= i
    <3>1. deciding \in SUBSET Nat
      BY <1>5 DEF Places
    <3> HIDE DEF deciding
    <3> QED BY <1>8, <3>1, Least
  <2>2. DottedCmp(a, b, part) = D(k)
    BY <1>3, <1>6, <1>8, <2>1
  <2> HIDE DEF k, D
  <2>3. k \in Places /\ D(k) \in {1, 2} /\ \A j \in Places : j < k => D(j) = 0
    BY <1>1, <1>5, <2>1 DEF Places
  <2>4. ASSUME NEW i \in Places, D(i) # 0, \A j \in Places : j < i => D(j) = 0
        PROVE  i = k
    BY <2>3, <2>4 DEF Places
  <2>5. \A c \in {1, 2} : D(k) = c <=>
          \E i \in Places : D(i) = c /\ \A j \in Places : j < i => D(j) = 0
    BY <2>3, <2>4
  <2> QED BY <2>2, <2>3, <2>5 DEF D
<1> QED BY <1>7, <1>8

\* Parts are totally preordered, those that differ in length included.
LEMMA DottedOrder ==
  ASSUME NEW a \in Seq(Field), NEW b \in Seq(Field), NEW c \in Seq(Field), NEW part \in Parts
  PROVE  /\ DottedCmp(a, b, part) \in {0, 1, 2}
         /\ DottedCmp(a, a, part) = 0
         /\ DottedCmp(a, b, part) = 1 <=> DottedCmp(b, a, part) = 2
         /\ DottedCmp(a, b, part) = 0 =>
              /\ DottedCmp(a, c, part) = DottedCmp(b, c, part)
              /\ DottedCmp(c, a, part) = DottedCmp(c, b, part)
         /\ DottedCmp(a, b, part) = 1 /\ DottedCmp(b, c, part) = 1 => DottedCmp(a, c, part) = 1
<1> DEFINE A(x, y, i) == At(x, y, part, i)
           C(x, y) == DottedCmp(x, y, part)
           S == {a, b, c}
<1>1. ASSUME NEW x \in S, NEW y \in S, NEW z \in S, NEW i \in Places
      PROVE  /\ A(x, y, i) \in {0, 1, 2} /\ A(x, x, i) = 0
             /\ A(x, y, i) = 1 <=> A(y, x, i) = 2
             /\ A(x, y, i) = 0 => /\ A(y, x, i) = 0
                                  /\ A(x, z, i) = A(y, z, i)
                                  /\ A(z, x, i) = A(z, y, i)
             /\ A(x, y, i) = 1 /\ A(y, z, i) = 1 => A(x, z, i) = 1
  <2>1. FieldAt(x, i) \in Padded /\ FieldAt(y, i) \in Padded /\ FieldAt(z, i) \in Padded
    BY PlacesOf
  <2> QED BY <2>1, FieldOrder DEF At
<1>2. ASSUME NEW x \in S, NEW y \in S
      PROVE  /\ C(x, y) \in {0, 1, 2}
             /\ C(x, y) = 0 <=> \A i \in Places : A(x, y, i) = 0
             /\ \A n \in {1, 2} :
                  C(x, y) = n <=>
                    \E i \in Places : /\ A(x, y, i) = n
                                      /\ \A j \in Places : j < i => A(x, y, j) = 0
  BY DottedIs
<1> HIDE DEF A, C
<1>3. \A i, j \in Places : i \in Int /\ (i < j \/ j < i \/ i = j)
  BY DEF Places
<1>4. \A x \in S : C(x, x) = 0
  BY <1>1, <1>2
<1>5. ASSUME NEW x \in S, NEW y \in S
      PROVE  C(x, y) = 1 <=> C(y, x) = 2
  <2>1. \A i \in Places : /\ A(x, y, i) = 1 <=> A(y, x, i) = 2
                          /\ A(x, y, i) = 0 <=> A(y, x, i) = 0
    BY <1>1
  <2>2. /\ C(x, y) = 1 <=> \E i \in Places : /\ A(x, y, i) = 1
                                             /\ \A j \in Places : j < i => A(x, y, j) = 0
        /\ C(y, x) = 2 <=> \E i \in Places : /\ A(y, x, i) = 2
                                             /\ \A j \in Places : j < i => A(y, x, j) = 0
    BY <1>2
  <2> QED BY <2>1, <2>2
<1>6. ASSUME NEW x \in S, NEW y \in S, NEW z \in S, C(x, y) = 0
      PROVE  C(x, z) = C(y, z) /\ C(z, x) = C(z, y)
  <2>1. \A i \in Places : A(x, z, i) = A(y, z, i) /\ A(z, x, i) = A(z, y, i)
    BY <1>1, <1>2, <1>6
  <2>2. /\ C(x, z) \in {0, 1, 2} /\ C(y, z) \in {0, 1, 2}
        /\ C(z, x) \in {0, 1, 2} /\ C(z, y) \in {0, 1, 2}
    BY <1>2
  <2>3. \A n \in {1, 2} : (C(x, z) = n <=> C(y, z) = n) /\ (C(z, x) = n <=> C(z, y) = n)
    BY <1>2, <2>1
  <2> QED BY <2>2, <2>3
<1>7. ASSUME NEW x \in S, NEW y \in S, NEW z \in S, C(x, y) = 1, C(y, z) = 1
      PROVE  C(x, z) = 1
  <2>1. PICK i \in Places : A(x, y, i) = 1 /\ \A j \in Places : j < i => A(x, y, j) = 0
    BY <1>2, <1>7
  <2>2. PICK k \in Places : A(y, z, k) = 1 /\ \A j \in Places : j < k => A(y, z, j) = 0
    BY <1>2, <1>7
  <2>3. \A j \in Places : j < i /\ j < k => A(x, z, j) = 0
    BY <1>1, <2>1, <2>2
  <2>4. CASE i < k
    <3>1. A(x, z, i) = 1
      BY <1>1, <2>1, <2>2, <2>4
    <3>2. \A j \in Places : j < i => j < k
      BY <2>4 DEF Places
    <3> QED BY <1>2, <2>3, <3>1, <3>2
  <2>5. CASE k < i
    <3>1. A(x, z, k) = 1
      BY <1>1, <2>1, <2>2, <2>5
    <3>2. \A j \in Places : j < k => j < i
      BY <2>5 DEF Places
    <3> QED BY <1>2, <2>3, <3>1, <3>2
  <2>6. CASE i = k
    <3>1. A(x, z, i) = 1
      BY <1>1, <2>1, <2>2, <2>6
    <3> QED BY <1>2, <2>3, <2>6, <3>1
  <2> QED BY <1>3, <2>4, <2>5, <2>6
<1>8. \A x \in S, y \in S : C(x, y) \in {0, 1, 2}
  BY <1>2
<1>9. a \in S /\ b \in S /\ c \in S
  OBVIOUS
<1> HIDE DEF S
<1> QED BY <1>4, <1>5, <1>6, <1>7, <1>8, <1>9 DEF C

LEMMA VersionIs ==
  ASSUME NEW v \in Versions
  PROVE  v.core \in Seq(Field) /\ v.pre \in Seq(Field)
BY PartsAssumption DEF Versions

\* version_newer is a strict order, for versions of any number of fields: no chain of
\* updates leads back to where it started, and only versions that rank alike are
\* unordered.
THEOREM NewerOrder ==
  ASSUME NEW v \in Versions, NEW w \in Versions, NEW x \in Versions
  PROVE  /\ ~Newer(v, v)
         /\ Newer(v, w) /\ Newer(w, x) => Newer(v, x)
         /\ Newer(v, w) => Newer(x, w) \/ Newer(v, x)
<1> DEFINE C(r, s) == DottedCmp(r.core, s.core, "core")
           P(r, s) == DottedCmp(r.pre, s.pre, "pre")
<1>1. \A r, s \in Versions :
        Newer(r, s) <=> \/ C(r, s) = 1
                        \/ C(r, s) = 0 /\ s.pre # <<>> /\ (r.pre = <<>> \/ P(r, s) = 1)
  BY DEF Newer
<1>2. /\ "core" \in Parts /\ "pre" \in Parts
      /\ v.core \in Seq(Field) /\ w.core \in Seq(Field) /\ x.core \in Seq(Field)
      /\ v.pre \in Seq(Field) /\ w.pre \in Seq(Field) /\ x.pre \in Seq(Field)
  BY VersionIs DEF Parts
<1>3. /\ C(v, v) = 0
      /\ C(v, w) = 1 /\ C(w, x) = 1 => C(v, x) = 1
      /\ C(v, w) = 0 => C(v, x) = C(w, x)
      /\ P(v, v) = 0
      /\ P(v, w) = 1 /\ P(w, x) = 1 => P(v, x) = 1
  BY <1>2, DottedOrder
<1>4. C(w, x) = 0 => C(v, w) = C(v, x)
  BY <1>2, DottedOrder
<1> HIDE DEF C, P
<1>5. Newer(v, w) => Newer(x, w) \/ Newer(v, x)
  <2>1. /\ C(x, w) \in {0, 1, 2} /\ C(v, x) \in {0, 1, 2}
        /\ C(x, w) = 2 => C(w, x) = 1
        /\ C(v, x) = 2 => C(x, v) = 1
        /\ C(v, w) = 1 /\ C(w, x) = 1 => C(v, x) = 1
        /\ C(x, v) = 1 /\ C(v, w) = 1 => C(x, w) = 1
        /\ C(v, w) = 0 => C(v, x) = C(w, x) /\ C(x, v) = C(x, w)
        /\ C(x, w) = 0 => C(v, x) = C(v, w)
        /\ C(w, x) = 2 <=> C(x, w) = 1
    BY <1>2, DottedOrder DEF C
  <2>2. /\ P(x, w) \in {0, 1, 2} /\ P(v, x) \in {0, 1, 2}
        /\ P(x, w) = 0 => P(v, x) = P(v, w)
        /\ P(x, w) = 2 => P(w, x) = 1
        /\ P(v, w) = 1 /\ P(w, x) = 1 => P(v, x) = 1
    BY <1>2, DottedOrder DEF P
  <2> QED BY <1>1, <2>1, <2>2
<1> QED BY <1>1, <1>3, <1>4, <1>5

-----------------------------------------------------------------------------
\* semver's precedence

\* In a core of up to three fields the first number that differs decides.
LEMMA CoreIs ==
  ASSUME NEW a \in Seq(Field), NEW b \in Seq(Field), Len(a) <= 3, Len(b) <= 3
  PROVE  /\ DottedCmp(a, b, "core") = 1 <=> CorePrecedes(Canonical(b), Canonical(a))
         /\ DottedCmp(a, b, "core") = 0 <=> Canonical(b) = Canonical(a)
<1> DEFINE V(x, i) == CoreValue(FieldAt(x, i))
           C(x) == Canonical(x)
<1>1. ASSUME NEW x \in {a, b}
      PROVE  /\ \A i \in Places : V(x, i) \in Nat /\ (i \notin 1 .. 3 => V(x, i) = 0)
             /\ \A i \in 1 .. 3 : C(x)[i] = V(x, i)
             /\ C(x) = [i \in 1 .. 3 |-> C(x)[i]]
  <2>1. Len(x) \in Nat /\ Len(x) <= 3 /\ \A i \in Places : FieldAt(x, i) \in Padded
    BY PlacesOf
  <2>2. \A i \in Places : V(x, i) \in Nat
    BY <2>1, PaddedIs DEF CoreValue
  <2>3. \A i \in Places : i > Len(x) => V(x, i) = 0
    BY <2>1 DEF FieldAt, CoreValue, EmptyField, Places
  <2>4. \A i \in 1 .. 3 : i <= Len(x) => C(x)[i] = V(x, i)
    BY <2>1 DEF FieldAt, Canonical
  <2>5. \A i \in 1 .. 3 : i > Len(x) => C(x)[i] = 0
    BY <2>1 DEF Canonical
  <2>6. \A i \in 1 .. 3 : i \in Places
    BY DEF Places
  <2>7. \A i \in Places : i \notin 1 .. 3 => i > Len(x)
    BY <2>1 DEF Places
  <2>8. C(x) = [i \in 1 .. 3 |-> C(x)[i]]
    BY DEF Canonical
  <2> HIDE DEF V, C
  <2>9. \A i \in 1 .. 3 : i <= Len(x) \/ i > Len(x)
    BY <2>1
  <2> QED BY <2>2, <2>3, <2>4, <2>5, <2>6, <2>7, <2>8, <2>9
<1>2. ASSUME NEW i \in Places
      PROVE  /\ At(a, b, "core", i) = 1 <=> V(b, i) < V(a, i)
             /\ At(a, b, "core", i) = 0 <=> V(b, i) = V(a, i)
  <2>1. FieldAt(a, i) \in Padded /\ FieldAt(b, i) \in Padded
    BY PlacesOf
  <2>2. CASE FieldAt(a, i) = EmptyField /\ FieldAt(b, i) = EmptyField
    <3>1. At(a, b, "core", i) = 0 /\ V(a, i) = 0 /\ V(b, i) = 0
      BY <2>2 DEF At, FieldCmp, CoreValue, EmptyField
    <3> QED BY <3>1
  <2>3. CASE ~(FieldAt(a, i) = EmptyField /\ FieldAt(b, i) = EmptyField)
    <3>1. At(a, b, "core", i) = Compare(V(a, i), V(b, i))
      BY <2>3 DEF At, FieldCmp, CompareField, CoreField
    <3>2. V(a, i) \in Nat /\ V(b, i) \in Nat
      BY <1>1
    <3> HIDE DEF V
    <3> QED BY <3>1, <3>2, ComparesNumbers
  <2> QED BY <2>2, <2>3
<1>3. /\ DottedCmp(a, b, "core") = 0 <=> \A i \in Places : At(a, b, "core", i) = 0
      /\ DottedCmp(a, b, "core") = 1 <=>
           \E i \in Places : /\ At(a, b, "core", i) = 1
                             /\ \A j \in Places : j < i => At(a, b, "core", j) = 0
  BY DottedIs DEF Parts
<1> HIDE DEF V, C
<1>4. /\ DottedCmp(a, b, "core") = 0 <=> \A i \in Places : V(b, i) = V(a, i)
      /\ DottedCmp(a, b, "core") = 1 <=>
           \E i \in Places : /\ V(b, i) < V(a, i)
                             /\ \A j \in Places : j < i => V(b, j) = V(a, j)
  BY <1>2, <1>3
<1>5. 1 .. 3 \subseteq Places /\ \A i \in Places : i \notin 1 .. 3 => V(a, i) = V(b, i)
  BY <1>1 DEF Places
<1>6. (\A i \in Places : V(b, i) = V(a, i)) <=> C(b) = C(a)
  <2>1. ASSUME C(b) = C(a) PROVE \A i \in Places : V(b, i) = V(a, i)
    BY <1>1, <1>5, <2>1
  <2>2. ASSUME \A i \in Places : V(b, i) = V(a, i) PROVE C(b) = C(a)
    <3>1. \A i \in 1 .. 3 : C(b)[i] = C(a)[i]
      BY <1>1, <1>5, <2>2
    <3>2. [i \in 1 .. 3 |-> C(b)[i]] = [i \in 1 .. 3 |-> C(a)[i]]
      BY <3>1
    <3> QED BY <1>1, <3>2
  <2> QED BY <2>1, <2>2
<1>7. (\E i \in Places : V(b, i) < V(a, i) /\ \A j \in Places : j < i => V(b, j) = V(a, j))
        <=> CorePrecedes(C(b), C(a))
  <2>1. ASSUME NEW i \in Places, V(b, i) < V(a, i),
               \A j \in Places : j < i => V(b, j) = V(a, j)
        PROVE  CorePrecedes(C(b), C(a))
    <3>1. i \in 1 .. 3
      <4>1. V(a, i) \in Nat /\ (i \notin 1 .. 3 => V(a, i) = V(b, i))
        BY <1>1, <1>5
      <4> QED BY <2>1, <4>1
    <3>2. \A j \in 1 .. i - 1 : j \in 1 .. 3 /\ j \in Places /\ j < i
      BY <3>1 DEF Places
    <3> QED BY <1>1, <2>1, <3>1, <3>2 DEF CorePrecedes
  <2>2. ASSUME CorePrecedes(C(b), C(a))
        PROVE  \E i \in Places : V(b, i) < V(a, i) /\ \A j \in Places : j < i => V(b, j) = V(a, j)
    <3>1. PICK i \in 1 .. 3 : C(b)[i] < C(a)[i] /\ \A j \in 1 .. i - 1 : C(b)[j] = C(a)[j]
      BY <2>2 DEF CorePrecedes
    <3>2. \A j \in Places : j < i => j \in 1 .. i - 1 /\ j \in 1 .. 3
      BY DEF Places
    <3> QED BY <1>1, <1>5, <3>1, <3>2
  <2> QED BY <2>1, <2>2
<1> QED BY <1>4, <1>6, <1>7 DEF C

LEMMA PrefixIs ==
  ASSUME NEW s \in Seq(Field), NEW n \in Nat, n <= Len(s)
  PROVE  /\ SubSeq(s, 1, n) \in Seq(Field) /\ Len(SubSeq(s, 1, n)) = n
         /\ \A i \in 1 .. n : SubSeq(s, 1, n)[i] = s[i]
<1>1. \A i \in 1 .. n : s[i] \in Field
  <2>1. Len(s) \in Nat
    BY LenProperties
  <2> QED BY <2>1, ElementOfSeq
<1>2. /\ SubSeq(s, 1, n) \in Seq(Field)
      /\ Len(SubSeq(s, 1, n)) = IF 1 <= n THEN n - 1 + 1 ELSE 0
      /\ \A i \in 1 .. n - 1 + 1 : SubSeq(s, 1, n)[i] = s[1 + i - 1]
  BY <1>1, SubSeqProperties
<1>3. n - 1 + 1 = n /\ \A i \in 1 .. n : 1 + i - 1 = i
  OBVIOUS
<1> QED BY <1>2, <1>3

LEMMA SamePrefix ==
  ASSUME NEW s \in Seq(Field), NEW t \in Seq(Field), NEW n \in Nat, n <= Len(s), n <= Len(t)
  PROVE  SubSeq(s, 1, n) = SubSeq(t, 1, n) <=> \A i \in 1 .. n : s[i] = t[i]
<1> DEFINE p == SubSeq(s, 1, n)
           q == SubSeq(t, 1, n)
<1>1. /\ p \in Seq(Field) /\ Len(p) = n /\ \A i \in 1 .. n : p[i] = s[i]
      /\ q \in Seq(Field) /\ Len(q) = n /\ \A i \in 1 .. n : q[i] = t[i]
  BY PrefixIs
<1> HIDE DEF p, q
<1>2. ASSUME \A i \in 1 .. n : s[i] = t[i] PROVE p = q
  BY <1>1, <1>2, SeqEqual
<1>3. ASSUME p = q PROVE \A i \in 1 .. n : s[i] = t[i]
  BY <1>1, <1>3
<1> QED BY <1>2, <1>3 DEF p, q

\* What one place of two pre-releases decides.
LEMMA PreAt ==
  ASSUME NEW s \in Seq(Field), NEW t \in Seq(Field), NEW i \in Places
  PROVE  /\ i \notin DOMAIN s => At(s, t, "pre", i) # 1
         /\ i \in DOMAIN s /\ i \notin DOMAIN t => At(s, t, "pre", i) = 1
         /\ i \in DOMAIN s /\ i \in DOMAIN t =>
              At(s, t, "pre", i) = 1 <=> IdPrecedes(t[i], s[i])
         /\ i \in DOMAIN s /\ i \in DOMAIN t => (At(s, t, "pre", i) = 0 <=> s[i] = t[i])
         /\ i \notin DOMAIN s /\ i \notin DOMAIN t => At(s, t, "pre", i) = 0
         /\ i \notin DOMAIN s /\ i \in DOMAIN t => At(s, t, "pre", i) # 0
<1>1. /\ i \in DOMAIN s => s[i] \in Field /\ FieldAt(s, i) = s[i]
      /\ i \notin DOMAIN s => FieldAt(s, i) = EmptyField
      /\ i \in DOMAIN t => t[i] \in Field /\ FieldAt(t, i) = t[i]
      /\ i \notin DOMAIN t => FieldAt(t, i) = EmptyField
  BY PlacesOf
<1>2. EmptyField.kind = "empty"
  BY DEF EmptyField
<1>3. \A f \in Field : f.kind # "empty" /\ f # EmptyField
  BY FieldIs
<1>4. CASE i \notin DOMAIN s /\ i \notin DOMAIN t
  BY <1>1, <1>4 DEF At, FieldCmp
<1>5. CASE i \notin DOMAIN s /\ i \in DOMAIN t
  <2>1. At(s, t, "pre", i) = 2
    BY <1>1, <1>2, <1>3, <1>5 DEF At, FieldCmp, CompareField, PreField
  <2> QED BY <1>5, <2>1
<1>6. CASE i \in DOMAIN s /\ i \notin DOMAIN t
  <2>1. At(s, t, "pre", i) = 1
    BY <1>1, <1>2, <1>3, <1>6 DEF At, FieldCmp, CompareField, PreField
  <2> QED BY <1>6, <2>1
<1>7. CASE i \in DOMAIN s /\ i \in DOMAIN t
  <2> DEFINE f == s[i]
             g == t[i]
  <2>1. /\ f \in Field /\ g \in Field
        /\ At(s, t, "pre", i) = IF f.kind = g.kind THEN Compare(f.val, g.val)
                                ELSE IF f.kind = "number" THEN 2 ELSE 1
    BY <1>1, <1>3, <1>7 DEF At, FieldCmp, CompareField, PreField
  <2> HIDE DEF f, g
  <2>2. /\ f.kind \in {"number", "text"} /\ f.val \in Nat /\ f = [kind |-> f.kind, val |-> f.val]
        /\ g.kind \in {"number", "text"} /\ g.val \in Nat /\ g = [kind |-> g.kind, val |-> g.val]
    BY <2>1, FieldIs
  <2>3. IdPrecedes(g, f) <=> \/ g.kind = "number" /\ f.kind = "text"
                             \/ g.kind = f.kind /\ g.val < f.val
    BY <2>2 DEF IdPrecedes, IdRank
  <2>4. /\ Compare(f.val, g.val) = 1 <=> f.val > g.val
        /\ Compare(f.val, g.val) = 0 <=> f.val = g.val
    BY <2>2, ComparesNumbers
  <2>5. /\ At(s, t, "pre", i) = 1 <=> IdPrecedes(g, f)
        /\ At(s, t, "pre", i) = 0 <=> f = g
    BY <2>1, <2>2, <2>3, <2>4
  <2> QED BY <1>7, <2>5 DEF f, g
<1> QED BY <1>4, <1>5, <1>6, <1>7

\* In a pre-release of any number of fields the first that differs decides, and a
\* proper prefix loses.
LEMMA PreIs ==
  ASSUME NEW s \in Seq(Field), NEW t \in Seq(Field)
  PROVE  DottedCmp(s, t, "pre") = 1 <=> PrePrecedes(t, s)
<1> DEFINE D(i) == At(s, t, "pre", i)
           prefix == Len(t) < Len(s) /\ t = SubSeq(s, 1, Len(t))
           first(i) == /\ i <= Len(s)
                       /\ SubSeq(t, 1, i - 1) = SubSeq(s, 1, i - 1)
                       /\ IdPrecedes(t[i], s[i])
<1>1. /\ Len(s) \in Nat /\ DOMAIN s = 1 .. Len(s)
      /\ Len(t) \in Nat /\ DOMAIN t = 1 .. Len(t)
      /\ \A i \in DOMAIN s : i \in Places
      /\ \A i \in DOMAIN t : i \in Places
  BY PlacesOf
<1>2. DottedCmp(s, t, "pre") = 1 <=> \E i \in Places : D(i) = 1 /\ \A j \in Places : j < i => D(j) = 0
  BY DottedIs DEF Parts
<1>3. PrePrecedes(t, s) <=> prefix \/ \E i \in 1 .. Len(t) : first(i)
  BY DEF PrePrecedes
<1>4. ASSUME NEW i \in Places
      PROVE  /\ i \notin DOMAIN s => D(i) # 1
             /\ i \in DOMAIN s /\ i \notin DOMAIN t => D(i) = 1
             /\ i \in DOMAIN s /\ i \in DOMAIN t => (D(i) = 1 <=> IdPrecedes(t[i], s[i]))
             /\ i \in DOMAIN s /\ i \in DOMAIN t => (D(i) = 0 <=> s[i] = t[i])
  BY PreAt
<1>5. ASSUME NEW n \in Nat, n <= Len(s), n <= Len(t)
      PROVE  SubSeq(t, 1, n) = SubSeq(s, 1, n) <=> \A j \in 1 .. n : D(j) = 0
  <2>1. SubSeq(t, 1, n) = SubSeq(s, 1, n) <=> \A j \in 1 .. n : t[j] = s[j]
    BY <1>5, SamePrefix
  <2>2. \A j \in 1 .. n : j \in Places /\ j \in DOMAIN s /\ j \in DOMAIN t
    BY <1>1, <1>5 DEF Places
  <2> HIDE DEF D
  <2> QED BY <1>4, <2>1, <2>2
<1>6. SubSeq(t, 1, Len(t)) = t
  <2>1. /\ SubSeq(t, 1, Len(t)) \in Seq(Field) /\ Len(SubSeq(t, 1, Len(t))) = Len(t)
        /\ \A i \in 1 .. Len(t) : SubSeq(t, 1, Len(t))[i] = t[i]
    BY <1>1, PrefixIs
  <2> QED BY <2>1, SeqEqual
<1> HIDE DEF D
<1>7. ASSUME prefix
      PROVE  \E i \in Places : D(i) = 1 /\ \A j \in Places : j < i => D(j) = 0
  <2>1. Len(t) + 1 \in Places /\ Len(t) + 1 \in DOMAIN s /\ Len(t) + 1 \notin DOMAIN t
    BY <1>1, <1>7 DEF Places
  <2>2. \A j \in 1 .. Len(t) : D(j) = 0
    BY <1>1, <1>5, <1>6, <1>7
  <2>3. \A j \in Places : j < Len(t) + 1 => j \in 1 .. Len(t)
    BY <1>1 DEF Places
  <2> QED BY <1>4, <2>1, <2>2, <2>3
<1>8. ASSUME NEW i \in 1 .. Len(t), first(i)
      PROVE  \E k \in Places : D(k) = 1 /\ \A j \in Places : j < k => D(j) = 0
  <2>1. i \in Places /\ i \in DOMAIN t /\ i \in DOMAIN s
    BY <1>1, <1>8 DEF Places
  <2>2. i - 1 \in Nat /\ i - 1 <= Len(s) /\ i - 1 <= Len(t)
    BY <1>1, <1>8
  <2>3. \A j \in 1 .. i - 1 : D(j) = 0
    BY <1>5, <1>8, <2>2
  <2>4. \A j \in Places : j < i => j \in 1 .. i - 1
    BY DEF Places
  <2> QED BY <1>4, <1>8, <2>1, <2>3, <2>4
<1>9. ASSUME NEW i \in Places, D(i) = 1, \A j \in Places : j < i => D(j) = 0
      PROVE  prefix \/ \E k \in 1 .. Len(t) : first(k)
  <2>1. i \in DOMAIN s /\ i <= Len(s) /\ i \in Nat /\ i >= 1
    BY <1>1, <1>4, <1>9 DEF Places
  <2>2. CASE i \in DOMAIN t
    <3>1. i - 1 \in Nat /\ i - 1 <= Len(s) /\ i - 1 <= Len(t) /\ i \in 1 .. Len(t)
      BY <1>1, <2>1, <2>2
    <3>2. \A j \in 1 .. i - 1 : j \in Places /\ j < i
      BY <2>1 DEF Places
    <3>3. SubSeq(t, 1, i - 1) = SubSeq(s, 1, i - 1)
      BY <1>5, <1>9, <3>1, <3>2
    <3> QED BY <1>4, <1>9, <2>1, <2>2, <3>1, <3>3
  <2>3. CASE i \notin DOMAIN t
    <3>1. Len(t) < i /\ Len(t) < Len(s)
      BY <1>1, <2>1, <2>3
    <3>2. \A j \in 1 .. Len(t) : j \in Places /\ j < i
      BY <1>1, <3>1 DEF Places
    <3>3. SubSeq(t, 1, Len(t)) = SubSeq(s, 1, Len(t))
      BY <1>1, <1>5, <1>9, <3>1, <3>2
    <3> QED BY <1>6, <3>1, <3>3
  <2> QED BY <2>2, <2>3
<1> HIDE DEF prefix, first
<1> QED BY <1>2, <1>3, <1>7, <1>8, <1>9

\* version_newer is semver's precedence: a card moves from one version to another
\* exactly when semver.org puts the other one after it, for cores of up to three
\* fields and pre-releases of any number of them.
THEOREM NewerIsPrecedence ==
  ASSUME \A c \in Cores : Len(c) <= 3
  PROVE  \A v, w \in Versions : Newer(v, w) <=> SemverPrecedes(w, v)
<1> SUFFICES ASSUME NEW v \in Versions, NEW w \in Versions
             PROVE  Newer(v, w) <=> SemverPrecedes(w, v)
  OBVIOUS
<1>1. /\ v.core \in Seq(Field) /\ w.core \in Seq(Field)
      /\ v.pre \in Seq(Field) /\ w.pre \in Seq(Field)
      /\ Len(v.core) <= 3 /\ Len(w.core) <= 3
  BY VersionIs DEF Versions
<1>2. /\ DottedCmp(v.core, w.core, "core") = 1 <=> CorePrecedes(Canonical(w.core), Canonical(v.core))
      /\ DottedCmp(v.core, w.core, "core") = 0 <=> Canonical(w.core) = Canonical(v.core)
  BY <1>1, CoreIs
<1>3. DottedCmp(v.pre, w.pre, "pre") = 1 <=> PrePrecedes(w.pre, v.pre)
  BY <1>1, PreIs
<1>4. Newer(v, w) <=> \/ DottedCmp(v.core, w.core, "core") = 1
                      \/ /\ DottedCmp(v.core, w.core, "core") = 0
                         /\ w.pre # <<>>
                         /\ v.pre = <<>> \/ DottedCmp(v.pre, w.pre, "pre") = 1
  BY DEF Newer
<1>5. SemverPrecedes(w, v) <=>
        \/ CorePrecedes(Canonical(w.core), Canonical(v.core))
        \/ /\ Canonical(w.core) = Canonical(v.core)
           /\ w.pre # <<>>
           /\ v.pre = <<>> \/ PrePrecedes(w.pre, v.pre)
  BY DEF SemverPrecedes
<1> QED BY <1>2, <1>3, <1>4, <1>5
=============================================================================
