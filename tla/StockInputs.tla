----------------------------- MODULE StockInputs -----------------------------
(***************************************************************************)
(* What a build takes out of the vendor's firmware, and how it knows that   *)
(* it still has it: tools/prepare_stock.py harvests the paths of           *)
(* manifest/harvest.list into a tar and checks that its libraries are       *)
(* closed; tools/source_manifest.py checks the three artifacts against      *)
(* source.json and the tar's paths against the list of today.  A path is a  *)
(* sequence of names, a hash is the content it is taken of.                 *)
(***************************************************************************)
EXTENDS Integers, Sequences, SequencesExt, FiniteSets

Absent == [kind |-> "absent"]

\* One line per entry of a firmware's file system and of a tar.
Dir == [kind |-> "dir"]
Link(to) == [kind |-> "link", to |-> to]
File(text) == [kind |-> "file", text |-> text, needs |-> {}, soname |-> "", elf |-> "no"]
Elf(text, soname, needs) == [File(text) EXCEPT !.needs = needs, !.soname = soname,
                                               !.elf = "yes"]
Broken(elf) == [elf EXCEPT !.elf = "unreadable"]

\* read_list: the lines, without their comments, and those with a "!" apart.
ReadList(lines) ==
  [include |-> {line.path : line \in {l \in lines : ~l.bang}},
   exclude |-> {line.path : line \in {l \in lines : l.bang}}]

Under(path, roots) == \E r \in roots : IsPrefix(r, path)

-----------------------------------------------------------------------------
\* os.path.realpath of a listed path, which may be a link to one.
Real(fw, path) ==
  IF path \in DOMAIN fw /\ fw[path].kind = "link" THEN fw[path].to ELSE path

Missing(fw, list) == {p \in list.include : Real(fw, p) \notin DOMAIN fw}

\* harvest: a listed path, resolved, with all below it but what is excluded,
\* under the name it is listed by.
TarOf(fw, list) ==
  LET below(p) == {SubSeq(q, Len(Real(fw, p)) + 1, Len(q)) :
                     q \in {r \in DOMAIN fw : IsPrefix(Real(fw, p), r)}}
      named == {<<p, rest>> : p \in list.include \ Missing(fw, list),
                              rest \in UNION {below(p) : p \in list.include}}
      taken == {n \in named : n[2] \in below(n[1])
                              /\ ~Under(n[1] \o n[2], list.exclude)}
      from(m) == CHOOSE n \in taken : n[1] \o n[2] = m
  IN [m \in {n[1] \o n[2] : n \in taken} |->
        fw[Real(fw, from(m)[1]) \o from(m)[2]]]

\* elf_needed raises on an ELF it cannot take apart; links are passed over.
Readable(tar) == {m \in DOMAIN tar : tar[m].kind = "file" /\ tar[m].elf # "unreadable"}

\* A file provides its name and, when it has one, its soname.
Provided(tar) ==
  ({Last(m) : m \in Readable(tar)} \cup {tar[m].soname : m \in Readable(tar)}) \ {""}

\* verify_closure
Unresolved(tar) == (UNION {tar[m].needs : m \in Readable(tar)}) \ Provided(tar)

-----------------------------------------------------------------------------
\* harvest_drift: what the tar lacks of the list, what it has beyond it.
Lacking(tar, list) == list.include \ DOMAIN tar
\* Mutant: what the list keeps out is not asked after.
ExtraUnlisted(tar, list) == {m \in DOMAIN tar : ~Under(m, list.include)}

Extra(tar, list) ==
  {m \in DOMAIN tar : ~Under(m, list.include) \/ Under(m, list.exclude)}

\* cmd_verify
Hashes(prep) == [uboot |-> prep.uboot, boot |-> prep.boot, harvest |-> prep.harvest]

Verifies(prep, list) ==
  /\ prep.source # Absent
  /\ Absent \notin {prep.uboot, prep.boot, prep.harvest}
  /\ prep.source = Hashes(prep)
  /\ Lacking(prep.harvest.tar, list) = {} /\ Extra(prep.harvest.tar, list) = {}
=============================================================================
