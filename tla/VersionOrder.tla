---------------------------- MODULE VersionOrder ----------------------------
(***************************************************************************)
(* Which versions a card moves to: dotted_cmp and version_newer of         *)
(* baseos-update.  A version string is cut at its first dash into a core   *)
(* and a pre-release, and each of these at its dots into fields.           *)
(* BaseosUpdate asks Newer of what it is offered.                          *)
(***************************************************************************)
EXTENDS Integers, Sequences, FiniteSetsExt

CONSTANTS
  Cores,        \* core parts: non-empty sequences of fields
  PreReleases   \* pre-release parts, <<>> for none

(***************************************************************************)
(* A field is a number or a text; a text's val is its place in the         *)
(* alphabetical order the shell's \> and \< use.  A field past the end of  *)
(* its part is empty.                                                      *)
(***************************************************************************)
Num(n) == [kind |-> "number", val |-> n]
Text(n) == [kind |-> "text", val |-> n]
EmptyField == [kind |-> "empty", val |-> 0]

Versions == [core : Cores, pre : PreReleases]

Field == [kind : {"number", "text"}, val : Nat]
ASSUME PartsAssumption ==
  /\ Cores \subseteq Seq(Field) /\ PreReleases \subseteq Seq(Field)
  /\ <<>> \notin Cores /\ <<>> \in PreReleases

-----------------------------------------------------------------------------
\* 0: neither, 1: m is greater, 2: n is greater.
Compare(m, n) == CASE m > n -> 1 [] m < n -> 2 [] OTHER -> 0

\* In a core whatever is not a number counts as zero.
CoreValue(f) == IF f.kind = "number" THEN f.val ELSE 0
CoreField(f, g) == Compare(CoreValue(f), CoreValue(g))

\* Mutant: texts and numbers are compared by value alone.
PreFieldByValue(f, g) == Compare(f.val, g.val)

\* In a pre-release: none loses to any, a number loses to a text.
PreField(f, g) ==
  IF f.kind = "empty" THEN 2
  ELSE IF g.kind = "empty" THEN 1
  ELSE IF f.kind = g.kind THEN Compare(f.val, g.val)
  ELSE IF f.kind = "number" THEN 2 ELSE 1

FieldAt(s, i) == IF i <= Len(s) THEN s[i] ELSE EmptyField

\* The loop goes on until both parts are used up.
FieldsOf(a, b) == DOMAIN a \cup DOMAIN b

CompareField(f, g, part) ==
  IF part = "pre" THEN PreField(f, g) ELSE CoreField(f, g)

\* dotted_cmp: the first field that decides.
DottedCmp(a, b, part) ==
  LET decides(i) == CompareField(FieldAt(a, i), FieldAt(b, i), part)
      deciding == {i \in FieldsOf(a, b) : decides(i) # 0}
  IN IF deciding = {} THEN 0 ELSE decides(Min(deciding))

\* Mutant: the core decides and a pre-release is as good as its release.
NewerCoreOnly(v, w) == DottedCmp(v.core, w.core, "core") # 2 /\ v # w

\* version_newer: is v strictly newer than w?
Newer(v, w) ==
  LET core == DottedCmp(v.core, w.core, "core")
  IN IF core # 0 THEN core = 1
     ELSE /\ w.pre # <<>>
          /\ v.pre = <<>> \/ DottedCmp(v.pre, w.pre, "pre") = 1

-----------------------------------------------------------------------------
(***************************************************************************)
(* The precedence semver.org defines, stated on the whole list of fields   *)
(* rather than field by field: lists are compared at their first           *)
(* difference, and a proper prefix precedes.                               *)
(***************************************************************************)
IdRank(f) == IF f.kind = "number" THEN <<0, f.val>> ELSE <<1, f.val>>
IdPrecedes(f, g) ==
  \/ IdRank(f)[1] < IdRank(g)[1]
  \/ IdRank(f)[1] = IdRank(g)[1] /\ f.val < g.val

PrePrecedes(s, t) ==
  \/ Len(s) < Len(t) /\ s = SubSeq(t, 1, Len(s))
  \/ \E i \in 1 .. Len(s) :
       /\ i <= Len(t)
       /\ SubSeq(s, 1, i - 1) = SubSeq(t, 1, i - 1)
       /\ IdPrecedes(s[i], t[i])

Canonical(core) ==
  [i \in 1 .. 3 |-> IF i <= Len(core) THEN CoreValue(core[i]) ELSE 0]

CorePrecedes(c, d) ==
  \E i \in 1 .. 3 :
    c[i] < d[i] /\ \A j \in 1 .. i - 1 : c[j] = d[j]

SemverPrecedes(w, v) ==
  LET c == Canonical(w.core)
      d == Canonical(v.core)
  IN \/ CorePrecedes(c, d)
     \/ c = d /\ w.pre # <<>> /\ (v.pre = <<>> \/ PrePrecedes(w.pre, v.pre))
=============================================================================
