--------------------------- MODULE ImageBuildProofs ---------------------------
(***************************************************************************)
(* Proofs about ImageBuild, for any firmware dumps, editions of the tree   *)
(* and numbers of runs and stops.                                          *)
(***************************************************************************)
EXTENDS ImageBuild, SequenceTheorems, TLAPS

Preparing == {"prepare uboot", "prepare boot", "harvest", "source"}
Fetching == {"fetch", "compare", "bundle", "unpack uboot", "unpack boot", "unpack harvest",
             "stale"}
Packing == {"pack", "publish source", "publish bundle"}
Composing == {"compose uboot", "compose boot", "compose rootfs"}
Imaging == {"image"} \cup Composing
Building == {"uboot", "uboot.json", "build-id", "rootfs", "update"} \cup Imaging

PrepFiles == {"uboot", "boot", "harvest", "source"}
WorkFiles == {"itb", "meta", "buildId", "rootfs", "image", "payload"}

\* What prepare-stock.sh takes of a dump under an edition's list, and the source.json
\* it writes of it once its libraries are closed.
Harvested(d, e) == TarOf(Dumps[d].root, ReadList(e.list))
Closed(d, e) ==
  Missing(Dumps[d].root, ReadList(e.list)) = {} /\ Unresolved(Harvested(d, e)) = {}
Inputs(d, e) ==
  [uboot |-> Dumps[d].uboot, boot |-> Dumps[d].boot, harvest |-> TarFile(Harvested(d, e))]
OfOneDump(hashes) ==
  \E d \in DOMAIN Dumps, e \in Editions : hashes = Inputs(d, e) /\ Closed(d, e)

\* The files of both directories, and where a script may be.
PlaceInv ==
  /\ prep = [f \in PrepFiles |-> prep[f]] /\ work = [f \in WorkFiles |-> work[f]]
  /\ published = [f \in {"source", "bundle"} |-> published[f]]
  /\ tree \in Editions
  /\ pc \in {"idle"} \cup Preparing \cup Fetching \cup Packing \cup Building

\* What build-all.sh still runs after a step.
After(step) ==
  CASE step \in {"uboot", "uboot.json"} -> <<"build-id", "image", "update">>
    [] step \in {"build-id", "rootfs"} -> <<"image", "update">>
    [] step \in Imaging -> <<"update">>
    [] OTHER -> <<>>
PlanInv ==
  /\ plan \in {<<>>, After(pc)}
  /\ pc \in Building => arg \in {"vendor", "mainline"}
  /\ pc \in Building /\ ImageDue /\ ~Standalone => plan = After(pc)

\* A source.json is cut short or of one dump, here and where it is published.
SourceInv ==
  /\ prep.source \in {Absent, Cut} \/ OfOneDump(prep.source)
  /\ published.source = Absent \/ OfOneDump(published.source)
  /\ pc = "publish source" => OfOneDump(prep.source)

\* prepare-stock.sh gets to its source.json with the rest of one dump.
PrepareInv ==
  /\ pc \in Preparing => arg \in DOMAIN Dumps
  /\ pc \in {"prepare boot", "harvest", "source"} => prep.uboot = Firmware.uboot
  /\ pc \in {"harvest", "source"} => prep.boot = Firmware.boot
  /\ pc = "source" =>
       prep.harvest = TarFile(Harvested(arg, tree)) /\ Closed(arg, tree)

InputInv == PlaceInv /\ PlanInv /\ SourceInv /\ PrepareInv

\* What is built of today's inputs.
ItbMade == IsWhole(work.itb) /\ work.itb.vendor = prep.uboot
RootMade == IsWhole(work.rootfs) /\ work.rootfs.whole /\ work.rootfs.vendor = prep.harvest
UbootIn == IsWhole(work.image.uboot) /\ work.image.uboot.vendor = prep.uboot
BootIn == IsWhole(work.image.boot) /\ work.image.boot.vendor = prep.boot
RootIn == /\ IsWhole(work.image.rootfs) /\ work.image.rootfs.whole
          /\ work.image.rootfs.vendor = prep.harvest

\* A build runs on inputs of one dump; each step has what the ones before it made.
StepInv ==
  /\ pc \in Building => OfOneDump(Hashes(prep))
  /\ pc \in Building \ {"uboot"} /\ arg = "mainline" => ItbMade
  /\ pc \in Imaging \cup {"update"} => RootMade
  /\ pc \in Composing =>
       work.image = [f \in DOMAIN EmptyImage |-> work.image[f]] /\ work.image.kind = "image"
  /\ pc \in {"compose boot", "compose rootfs"} => UbootIn
  /\ pc = "compose rootfs" => BootIn
  /\ pc = "update" /\ IsWhole(work.image) => UbootIn /\ BootIn /\ RootIn

\* Once build-all.sh has got to its end all is of today's inputs, until they change.
SettledInv ==
  /\ due \in {Due, {"uboot"}, {}}
  /\ pc \in Preparing \cup Fetching => due = Due
  /\ ~ImageDue => OfOneDump(Hashes(prep)) /\ RootMade
  /\ due = {} => ItbMade
  /\ ~ImageDue /\ pc \notin Composing /\ IsWhole(work.image) => UbootIn /\ BootIn /\ RootIn

BuildInv == InputInv /\ StepInv /\ SettledInv

-----------------------------------------------------------------------------
\* What can be due, and what is left of it by a build.
LEMMA Dues ==
  /\ Due # {} /\ Due # {"uboot"} /\ {"uboot"} # {}
  /\ Due \ {"image"} = {"uboot"} /\ {"uboot"} \ {"image"} = {"uboot"} /\ {} \ {"image"} = {}
  /\ due = Due => ImageDue
  /\ due' = Due => ImageDue'
  /\ due' = due => (ImageDue' <=> ImageDue)
  /\ due \in {{"uboot"}, {}} => ~ImageDue
BY DEF Due, ImageDue

LEMMA KindsDiffer ==
  /\ Absent # Cut
  /\ \A r : r.kind \notin {"absent", "cut"} => IsWhole(r)
  /\ \A a, b, c : [uboot |-> a, boot |-> b, harvest |-> c] \notin {Absent, Cut}
<1>1. Absent.kind = "absent" /\ Cut.kind = "cut"
  BY DEF Absent, Cut
<1>2. DOMAIN Absent = {"kind"} /\ DOMAIN Cut = {"kind"}
  BY DEF Absent, Cut
<1>3. \A a, b, c : "uboot" \in DOMAIN [uboot |-> a, boot |-> b, harvest |-> c]
  OBVIOUS
<1> QED BY <1>1, <1>2, <1>3 DEF IsWhole

\* Writing one of some files leaves the others.
LEMMA Written ==
  ASSUME NEW F, NEW r, r = [f \in F |-> r[f]], NEW k \in F, NEW v, NEW s, s = [r EXCEPT ![k] = v]
  PROVE  /\ s = [f \in F |-> s[f]] /\ s[k] = v
         /\ \A f \in F : f # k => s[f] = r[f]
OBVIOUS

LEMMA PlanIs ==
  \A path \in {"vendor", "mainline"} :
    /\ Head(PlanFor(path)) \in {"uboot", "build-id"}
    /\ Head(PlanFor(path)) = "uboot" => path = "mainline"
    /\ Head(PlanFor(path)) = "build-id" => path = "vendor"
    /\ Tail(PlanFor(path)) = After(Head(PlanFor(path)))
    /\ ToSet(PlanFor(path)) \subseteq {"uboot", "build-id", "image", "update"}
    /\ path = "vendor" => ToSet(PlanFor(path)) = {"build-id", "image", "update"}
<1> DEFINE rest == <<"build-id", "image", "update">>
           all == <<"uboot", "build-id", "image", "update">>
<1>1. PlanFor("vendor") = rest
  <2>1. PlanFor("vendor") = <<>> \o rest
    BY DEF PlanFor
  <2> QED BY <2>1
<1>2. PlanFor("mainline") = all
  <2> DEFINE S == {"uboot", "build-id", "image", "update"}
             one == <<"uboot">>
             s == one \o rest
  <2>1. PlanFor("mainline") = s
    BY DEF PlanFor
  <2>2. one \in Seq(S) /\ rest \in Seq(S)
    OBVIOUS
  <2>3. all \in Seq(S)
    OBVIOUS
  <2>4. /\ Len(one) = 1 /\ Len(rest) = 3 /\ Len(all) = 4
        /\ all[1] = one[1] /\ all[2] = rest[1] /\ all[3] = rest[2] /\ all[4] = rest[3]
    OBVIOUS
  <2> HIDE DEF S, one, rest, all
  <2>5. s \in Seq(S) /\ Len(s) = 4
        /\ \A i \in 1 .. 4 : s[i] = IF i <= 1 THEN one[i] ELSE rest[i - 1]
    <3>1. /\ s \in Seq(S) /\ Len(s) = Len(one) + Len(rest)
          /\ \A i \in 1 .. Len(one) + Len(rest) :
               s[i] = IF i <= Len(one) THEN one[i] ELSE rest[i - Len(one)]
      BY <2>2, ConcatProperties
    <3> HIDE DEF s
    <3> QED BY <2>4, <3>1
  <2>6. s[1] = one[1] /\ s[2] = rest[1] /\ s[3] = rest[2] /\ s[4] = rest[3]
    BY <2>5
  <2>7. \A i \in 1 .. 4 : i = 1 \/ i = 2 \/ i = 3 \/ i = 4
    OBVIOUS
  <2> HIDE DEF s
  <2>8. \A i \in 1 .. 4 : s[i] = all[i]
    BY <2>4, <2>6, <2>7
  <2> QED BY <2>1, <2>3, <2>4, <2>5, <2>8, SeqEqual
<1>3. /\ Head(rest) = "build-id" /\ Tail(rest) = <<"image", "update">>
      /\ Head(all) = "uboot" /\ Tail(all) = rest
  OBVIOUS
<1>4. /\ ToSet(rest) = {"build-id", "image", "update"}
      /\ ToSet(all) \subseteq {"uboot", "build-id", "image", "update"}
  <2>1. DOMAIN rest = 1 .. 3 /\ DOMAIN all = 1 .. 4
    OBVIOUS
  <2>2. 1 .. 3 = {1, 2, 3} /\ 1 .. 4 = {1, 2, 3, 4}
    OBVIOUS
  <2>3. /\ rest[1] = "build-id" /\ rest[2] = "image" /\ rest[3] = "update"
        /\ all[1] = "uboot" /\ all[2] = "build-id" /\ all[3] = "image" /\ all[4] = "update"
    OBVIOUS
  <2> HIDE DEF rest, all
  <2> QED BY <2>1, <2>2, <2>3 DEF ToSet
<1>5. After("build-id") = <<"image", "update">> /\ After("uboot") = rest
  BY DEF After, Imaging, Composing
<1> HIDE DEF rest, all
<1> QED BY <1>1, <1>2, <1>3, <1>4, <1>5

\* What follows a step that ends.
LEMMA AfterIs ==
  /\ After("uboot.json") = <<"build-id", "image", "update">>
  /\ Head(After("uboot.json")) = "build-id" /\ Tail(After("uboot.json")) = After("build-id")
  /\ After("uboot.json") # <<>>
  /\ Head(After("rootfs")) = "image" /\ Tail(After("rootfs")) = After("image")
  /\ After("rootfs") # <<>>
  /\ Head(After("compose rootfs")) = "update" /\ Tail(After("compose rootfs")) = After("update")
  /\ After("compose rootfs") # <<>>
  /\ After("update") = <<>>
  /\ After("uboot") = After("uboot.json") /\ After("build-id") = After("rootfs")
  /\ \A s \in Imaging : After(s) = After("compose rootfs")
  /\ \A s \in {"idle"} \cup Preparing \cup Fetching \cup Packing : After(s) = <<>>
BY DEF After, Imaging, Composing, Preparing, Fetching, Packing

-----------------------------------------------------------------------------
\* A script that gets to its end, under build-all.sh or by itself.
Ends == {"source", "compare", "stale", "publish bundle", "uboot.json", "rootfs",
         "compose rootfs", "update"}

LEMMA FinishIs ==
  ASSUME PlanInv, pc \in Ends, Finish
  PROVE  /\ tree' = tree /\ arg' = arg
         /\ plan' = After(pc')
         /\ \/ pc' = "idle"
            \/ pc = "uboot.json" /\ pc' = "build-id"
            \/ pc = "rootfs" /\ pc' = "image"
            \/ pc = "compose rootfs" /\ pc' = "update"
<1>1. CASE plan = <<>>
  <2>1. pc' = "idle" /\ plan' = <<>> /\ tree' = tree /\ arg' = arg
    BY <1>1 DEF Finish
  <2> QED BY <2>1, AfterIs
<1>2. CASE plan # <<>>
  <2>1. plan = After(pc)
    BY <1>2 DEF PlanInv
  <2>2. pc \in {"uboot.json", "rootfs", "compose rootfs"}
    BY <1>2, <2>1, AfterIs DEF Ends, Preparing, Fetching, Packing
  <2>3. pc' = Head(plan) /\ plan' = Tail(plan) /\ tree' = tree /\ arg' = arg
    BY <1>2 DEF Finish
  <2> QED BY <2>1, <2>2, <2>3, AfterIs
<1> QED BY <1>1, <1>2

LEMMA PrepIs ==
  ASSUME PlaceInv, NEW f \in PrepFiles, NEW v, Prep(f, v)
  PROVE  /\ prep' = [g \in PrepFiles |-> prep'[g]] /\ prep'[f] = v
         /\ \A g \in PrepFiles : g # f => prep'[g] = prep[g]
         /\ UNCHANGED <<published, cache, work, due>>
<1>1. prep' = [prep EXCEPT ![f] = v] /\ UNCHANGED <<published, cache, work, due>>
  BY DEF Prep, Rest
<1> QED BY <1>1, Written DEF PlaceInv

LEMMA WorkIs ==
  ASSUME PlaceInv, NEW f \in WorkFiles, NEW v, Work(f, v)
  PROVE  /\ work' = [g \in WorkFiles |-> work'[g]] /\ work'[f] = v
         /\ \A g \in WorkFiles : g # f => work'[g] = work[g]
         /\ UNCHANGED <<prep, published, cache, due>>
<1>1. work' = [work EXCEPT ![f] = v] /\ UNCHANGED <<prep, published, cache, due>>
  BY DEF Work, Rest
<1> QED BY <1>1, Written DEF PlaceInv

\* Inputs that verify are of one dump.
LEMMA VerifiedInputs ==
  ASSUME SourceInv, NEW list, Verifies(prep, list)
  PROVE  prep.source = Hashes(prep) /\ OfOneDump(Hashes(prep))
<1>1. prep.source = Hashes(prep)
  BY DEF Verifies
<1>2. prep.source \notin {Absent, Cut}
  BY <1>1, KindsDiffer DEF Hashes
<1> QED BY <1>1, <1>2 DEF SourceInv

\* A fresh checkout: nothing prepared, published, built or running.
LEMMA InitInput == Init => InputInv
<1> SUFFICES ASSUME Init PROVE InputInv
  OBVIOUS
<1>1. PlaceInv
  BY DEF Init, PlaceInv, NoPrep, NoWork, PrepFiles, WorkFiles
<1>2. PlanInv
  BY AfterIs DEF Init, PlanInv, Building, Imaging, Composing
<1>3. SourceInv /\ PrepareInv
  BY DEF Init, SourceInv, PrepareInv, Preparing, NoPrep
<1> QED BY <1>1, <1>2, <1>3 DEF InputInv

LEMMA StartInput ==
  ASSUME InputInv, Edit \/ Prepare \/ Fetch \/ Pack \/ BuildAll \/ BuildStep
  PROVE  InputInv'
<1> USE DEF InputInv
<1>1. pc = "idle" /\ UNCHANGED <<prep, published, work>>
  BY DEF Edit, Prepare, Fetch, Pack, BuildAll, BuildStep, Run
<1>2. CASE Edit
  <2>1. tree' \in Editions /\ UNCHANGED <<pc, arg, plan, due>>
    BY <1>2 DEF Edit
  <2> QED BY <1>1, <2>1 DEF PlaceInv, PlanInv, SourceInv, PrepareInv, Preparing, Building,
     Imaging, Composing, OfOneDump
<1>3. ASSUME NEW step, NEW a, NEW rest, Run(step, a, rest),
             \/ step = "prepare uboot" /\ a \in DOMAIN Dumps /\ rest = <<>>
             \/ step \in {"fetch", "pack"} /\ rest = <<>>
             \/ /\ step \in {"uboot", "build-id", "image", "update"}
                /\ a \in {"vendor", "mainline"} /\ rest \in {<<>>, After(step)}
                /\ ImageDue' /\ ~Standalone => rest = After(step)
      PROVE  InputInv'
  <2>1. pc' = step /\ arg' = a /\ plan' = rest /\ tree' = tree
    BY <1>3 DEF Run
  <2>2. PlaceInv'
    BY <1>1, <1>3, <2>1 DEF PlaceInv, Preparing, Fetching, Packing, Building, Imaging
  <2>3. PlanInv'
    BY <1>3, <2>1, AfterIs DEF PlanInv, Preparing, Fetching, Packing, Building, Imaging, Composing
  <2>4. SourceInv'
    BY <1>1, <1>3, <2>1 DEF SourceInv
  <2>5. PrepareInv'
    BY <1>3, <2>1 DEF PrepareInv, Preparing
  <2> QED BY <2>2, <2>3, <2>4, <2>5
<1>4. CASE Prepare \/ Fetch \/ Pack
  BY <1>3, <1>4 DEF Prepare, Fetch, Pack
<1>5. CASE BuildAll
  BY <1>3, <1>5, PlanIs DEF BuildAll
<1>6. CASE BuildStep
  <2>1. PICK path \in {"vendor", "mainline"} :
          /\ Standalone \/ due = {} \/ (path = "vendor" /\ ~ImageDue)
          /\ \E step \in ToSet(PlanFor(path)) : Run(step, path, <<>>)
    BY <1>6 DEF BuildStep
  <2>2. ~(ImageDue' /\ ~Standalone)
    BY <1>6, <2>1, RunsAssumption DEF BuildStep, ImageDue
  <2> QED BY <1>3, <2>1, <2>2, PlanIs
<1> QED BY <1>2, <1>4, <1>5, <1>6

LEMMA PrepareInput ==
  ASSUME InputInv, PrepareUboot \/ PrepareBoot \/ Harvest \/ Source
  PROVE  InputInv'
<1> USE DEF InputInv
<1>1. pc \in Preparing /\ arg \in DOMAIN Dumps /\ published' = published /\ work' = work
      /\ tree' = tree
  BY DEF PrepareUboot, PrepareBoot, Harvest, Source, Preparing, PrepareInv, Prep, Rest, Continue,
     Fail, Finish
<1>2. plan \in {<<>>, After(pc)} /\ After(pc) = <<>>
  BY <1>1, AfterIs DEF PlanInv
<1>3. CASE PrepareUboot
  <2>1. pc' = "prepare boot" /\ plan' = <<>> /\ arg' = arg
    BY <1>2, <1>3 DEF PrepareUboot, Continue
  <2>2. /\ prep' = [g \in PrepFiles |-> prep'[g]] /\ prep'.uboot = Firmware.uboot
        /\ prep'.source = prep.source
    BY <1>3, PrepIs DEF PrepareUboot, PrepFiles
  <2> QED BY <1>1, <2>1, <2>2, AfterIs DEF PlaceInv, PlanInv, SourceInv, PrepareInv, Preparing,
     Firmware, Building, Imaging, Composing
<1>4. CASE PrepareBoot
  <2>1. pc' = "harvest" /\ plan' = <<>> /\ arg' = arg
    BY <1>2, <1>4 DEF PrepareBoot, Continue
  <2>2. /\ prep' = [g \in PrepFiles |-> prep'[g]] /\ prep'.boot = Firmware.boot
        /\ prep'.source = prep.source /\ prep'.uboot = prep.uboot
    BY <1>4, PrepIs DEF PrepareBoot, PrepFiles
  <2>3. prep.uboot = Firmware.uboot
    BY <1>4 DEF PrepareBoot, PrepareInv
  <2> QED BY <1>1, <2>1, <2>2, <2>3, AfterIs DEF PlaceInv, PlanInv, SourceInv, PrepareInv,
     Preparing, Firmware, Building, Imaging, Composing
<1>5. CASE Harvest
  <2>1. /\ prep' = [g \in PrepFiles |-> prep'[g]]
        /\ prep'.harvest = TarFile(Harvested(arg, tree))
        /\ prep'.source = prep.source /\ prep'.uboot = prep.uboot /\ prep'.boot = prep.boot
    BY <1>5, PrepIs DEF Harvest, PrepFiles, Harvested, Firmware
  <2>2. prep.uboot = Firmware.uboot /\ prep.boot = Firmware.boot
    BY <1>5 DEF Harvest, PrepareInv
  <2>3. \/ pc' = "idle" /\ plan' = <<>>
        \/ pc' = "source" /\ plan' = plan /\ arg' = arg /\ Closed(arg, tree)
    BY <1>5 DEF Harvest, Continue, Fail, Closed, Harvested, Firmware
  <2> QED BY <1>1, <1>2, <2>1, <2>2, <2>3, AfterIs DEF PlaceInv, PlanInv, SourceInv, PrepareInv,
     Preparing, Firmware, Building, Imaging, Composing
<1>6. CASE Source
  <2>1. /\ prep' = [g \in PrepFiles |-> prep'[g]] /\ prep'.source = Hashes(prep)
    BY <1>6, PrepIs DEF Source, PrepFiles
  <2>2. OfOneDump(Hashes(prep))
    <3>1. Hashes(prep) = Inputs(arg, tree) /\ Closed(arg, tree)
      BY <1>6 DEF Source, PrepareInv, Hashes, Inputs, Firmware
    <3> QED BY <1>1, <3>1 DEF OfOneDump, PlaceInv
  <2>3. pc' = "idle" /\ plan' = <<>>
    BY <1>6, FinishIs, AfterIs DEF Source, Ends
  <2> QED BY <1>1, <2>1, <2>2, <2>3, AfterIs DEF PlaceInv, PlanInv, SourceInv, PrepareInv,
     Preparing, Building, Imaging, Composing, OfOneDump
<1> QED BY <1>3, <1>4, <1>5, <1>6

LEMMA FetchInput ==
  ASSUME InputInv, FetchSource \/ Compare \/ Download \/ Unpack \/ RemoveStale
  PROVE  InputInv'
<1> USE DEF InputInv
<1>1. pc \in Fetching /\ published' = published /\ tree' = tree
  BY DEF FetchSource, Compare, Download, Unpack, RemoveStale, Fetching, Prep, Rest, Continue,
     Fail, Finish, Untouched
<1>2. plan = <<>>
  BY <1>1, AfterIs DEF PlanInv
<1>3. pc' \in {"idle"} \cup Fetching /\ plan' = <<>>
  BY <1>2 DEF FetchSource, Compare, Download, Unpack, RemoveStale, Continue, Fail, Finish, Fetching
<1>4. /\ prep' = [g \in PrepFiles |-> prep'[g]]
      /\ prep'.source = prep.source \/ OfOneDump(prep'.source)
  <2>1. CASE FetchSource
    <3>1. CASE Untouched
      BY <3>1 DEF Untouched, PlaceInv
    <3>2. CASE Prep("source", published.source) /\ published.source # Absent
      BY <3>2, PrepIs DEF PrepFiles, SourceInv
    <3> QED BY <2>1, <3>1, <3>2 DEF FetchSource
  <2>2. CASE Compare \/ Download \/ RemoveStale
    BY <2>2 DEF Compare, Download, RemoveStale, Untouched, PlaceInv, Rest
  <2>3. CASE Unpack
    BY <2>3, PrepIs DEF Unpack, PrepFiles
  <2> QED BY <2>1, <2>2, <2>3
<1>5. work' = [g \in WorkFiles |-> work'[g]]
  <2>1. CASE RemoveStale
    <3> DEFINE half == [work EXCEPT !["rootfs"] = Absent]
    <3>1. work' = [half EXCEPT !["image"] = Absent]
      BY <2>1 DEF RemoveStale
    <3>2. half = [g \in WorkFiles |-> half[g]]
      BY Written DEF PlaceInv, WorkFiles
    <3> HIDE DEF half
    <3> QED BY <3>1, <3>2, Written DEF WorkFiles
  <2>2. CASE ~RemoveStale
    <3>1. work' = work
      BY <2>2 DEF FetchSource, Compare, Download, Unpack, Prep, Rest, Untouched
    <3> QED BY <3>1 DEF PlaceInv
  <2> QED BY <2>1, <2>2
<1> QED BY <1>1, <1>3, <1>4, <1>5, AfterIs DEF PlaceInv, PlanInv, SourceInv, PrepareInv,
     Preparing, Fetching, Building, Imaging, Composing, OfOneDump

LEMMA PackInput ==
  ASSUME InputInv, PackBundle \/ Publish
  PROVE  InputInv'
<1> USE DEF InputInv
<1>1. /\ pc \in Packing /\ UNCHANGED <<prep, work, tree>>
      /\ pc' \in {"idle"} \cup Packing
  BY FinishIs DEF PackBundle, Publish, Packing, Continue, Fail, Finish, Untouched, Ends
<1>2. plan = <<>>
  BY <1>1, AfterIs DEF PlanInv
<1>3. plan' = <<>>
  BY <1>2 DEF PackBundle, Publish, Continue, Fail, Finish
<1>4. pc' = "publish source" => OfOneDump(prep.source)
  <2>1. CASE PackBundle /\ Verifies(prep, ReadList(tree.list))
    <3>1. prep.source = Hashes(prep) /\ OfOneDump(Hashes(prep))
      BY <2>1, VerifiedInputs
    <3> QED BY <3>1
  <2>2. CASE PackBundle /\ ~Verifies(prep, ReadList(tree.list))
    BY <2>2 DEF PackBundle, Fail
  <2>3. CASE Publish
    BY <1>2, <2>3 DEF Publish, Continue, Finish
  <2> QED BY <2>1, <2>2, <2>3
<1>5. /\ published' = [f \in {"source", "bundle"} |-> published'[f]]
      /\ published'.source = published.source \/ OfOneDump(published'.source)
  <2>1. CASE PackBundle
    BY <2>1 DEF PackBundle, Untouched, PlaceInv
  <2>2. CASE published' = [published EXCEPT !["source"] = prep.source] /\ pc = "publish source"
    BY <2>2, Written DEF PlaceInv, SourceInv
  <2>3. CASE published' = [published EXCEPT !["bundle"] = cache]
    BY <2>3, Written DEF PlaceInv
  <2> QED BY <2>1, <2>2, <2>3 DEF Publish
<1> QED BY <1>1, <1>3, <1>4, <1>5, AfterIs DEF PlaceInv, PlanInv, SourceInv, PrepareInv,
     Preparing, Packing, Building, Imaging, Composing, OfOneDump

BuildActions ==
  \/ BuildUboot \/ UbootJson \/ BuildId \/ Rootfs
  \/ BuildImage \/ ComposeUboot \/ ComposeBoot \/ ComposeRootfs \/ BuildUpdate

\* The end of a build-all.sh.
Lessened ==
  /\ pc = "update" /\ IsWhole(work.image)
  /\ due' = IF arg = "vendor" THEN due \ {"image"} ELSE {}

\* Where a build goes, and what of it is touched.
LEMMA BuildIs ==
  ASSUME InputInv, BuildActions
  PROVE  /\ pc \in Building /\ UNCHANGED <<prep, published, tree, arg>>
         /\ pc' \in {"idle"} \cup Building
         /\ work' = [g \in WorkFiles |-> work'[g]]
         /\ plan' \in {<<>>, After(pc')}
         /\ pc' \in Building /\ plan = After(pc) => plan' = After(pc')
         /\ due' = due \/ Lessened
<1> USE DEF InputInv
<1>1. ASSUME NEW f \in WorkFiles, NEW v, Work(f, v)
      PROVE  /\ UNCHANGED <<prep, published>> /\ due' = due
             /\ work' = [g \in WorkFiles |-> work'[g]]
  BY <1>1, WorkIs
<1>2. ASSUME Untouched
      PROVE  /\ UNCHANGED <<prep, published>> /\ due' = due
             /\ work' = [g \in WorkFiles |-> work'[g]]
  BY <1>2 DEF Untouched, PlaceInv
<1>3. /\ plan \in {<<>>, After(pc)}
      /\ After("idle") = <<>>
  BY AfterIs DEF PlanInv
<1>4. ASSUME Fail
      PROVE  pc' = "idle" /\ plan' = <<>> /\ UNCHANGED <<tree, arg>>
  BY <1>4 DEF Fail
<1>5. ASSUME NEW s, Continue(s), After(s) = After(pc)
      PROVE  pc' = s /\ plan' \in {<<>>, After(s)} /\ (plan = After(pc) => plan' = After(s))
             /\ UNCHANGED <<tree, arg>>
  BY <1>3, <1>5 DEF Continue
<1>6. ASSUME Finish, pc \in Ends
      PROVE  plan' = After(pc') /\ pc' \in {"idle", "build-id", "image", "update"}
             /\ UNCHANGED <<tree, arg>>
  BY <1>6, FinishIs
<1>7. {"uboot", "uboot.json", "build-id", "rootfs", "image", "compose uboot", "compose boot",
       "compose rootfs", "update"} = Building
  BY DEF Building, Imaging, Composing
<1>8. CASE BuildUboot
  BY <1>1, <1>2, <1>3, <1>4, <1>5, <1>7, <1>8, AfterIs DEF BuildUboot, WorkFiles
<1>9. CASE UbootJson
  BY <1>1, <1>3, <1>6, <1>7, <1>9 DEF UbootJson, WorkFiles, Ends
<1>10. CASE BuildId
  BY <1>1, <1>3, <1>4, <1>5, <1>7, <1>10, AfterIs DEF BuildId, WorkFiles
<1>11. CASE Rootfs
  BY <1>1, <1>3, <1>6, <1>7, <1>11 DEF Rootfs, WorkFiles, Ends
<1>12. CASE BuildImage
  BY <1>1, <1>2, <1>3, <1>4, <1>5, <1>7, <1>12, AfterIs DEF BuildImage, WorkFiles, Imaging, Composing
<1>13. CASE ComposeUboot
  BY <1>1, <1>3, <1>5, <1>7, <1>13, AfterIs DEF ComposeUboot, ToImage, WorkFiles, Imaging, Composing
<1>14. CASE ComposeBoot
  BY <1>1, <1>3, <1>5, <1>7, <1>14, AfterIs DEF ComposeBoot, ToImage, WorkFiles, Imaging, Composing
<1>15. CASE ComposeRootfs
  BY <1>1, <1>2, <1>3, <1>4, <1>6, <1>7, <1>15 DEF ComposeRootfs, ToImage, WorkFiles, Ends
<1>16. CASE BuildUpdate
  <2>1. CASE Untouched /\ Fail
    <3>1. pc = "update"
      BY <1>16 DEF BuildUpdate
    <3> QED BY <1>2, <1>3, <1>4, <1>7, <2>1, <3>1
  <2>2. CASE ~(Untouched /\ Fail)
    <3>1. PICK p : /\ work' = [work EXCEPT !["payload"] = p]
                   /\ Lessened /\ UNCHANGED <<prep, published>> /\ Finish
      BY <1>16, <2>2 DEF BuildUpdate, Lessened
    <3>2. work' = [g \in WorkFiles |-> work'[g]]
      BY <3>1, Written DEF PlaceInv, WorkFiles
    <3>3. pc = "update"
      BY <3>1 DEF Lessened
    <3> QED BY <1>3, <1>6, <1>7, <3>1, <3>2, <3>3 DEF Ends
  <2> QED BY <2>1, <2>2
<1> QED BY <1>8, <1>9, <1>10, <1>11, <1>12, <1>13, <1>14, <1>15, <1>16 DEF BuildActions

LEMMA BuildInput ==
  ASSUME InputInv, BuildActions
  PROVE  InputInv'
<1> USE DEF InputInv
<1>1. /\ pc \in Building /\ UNCHANGED <<prep, published, tree, arg>>
      /\ pc' \in {"idle"} \cup Building
      /\ work' = [g \in WorkFiles |-> work'[g]]
      /\ plan' \in {<<>>, After(pc')}
      /\ pc' \in Building /\ plan = After(pc) => plan' = After(pc')
      /\ ImageDue' => ImageDue
  BY BuildIs DEF ImageDue, Lessened
<1>2. PlaceInv'
  BY <1>1 DEF PlaceInv
<1>3. PlanInv'
  BY <1>1 DEF PlanInv
<1>4. SourceInv' /\ PrepareInv'
  BY <1>1 DEF SourceInv, PrepareInv, OfOneDump, Building, Imaging, Composing, Preparing
<1> QED BY <1>2, <1>3, <1>4

LEMMA StopInput ==
  ASSUME InputInv, Stop
  PROVE  InputInv'
<1> USE DEF InputInv
<1>1. pc' = "idle" /\ plan' = <<>> /\ UNCHANGED <<tree, published>>
  BY DEF Stop
<1>2. prep' = prep \/ \E f : prep' = [prep EXCEPT ![f] = Cut]
  BY DEF Stop
<1>3. work' = work \/ \E f, v : work' = [work EXCEPT ![f] = v]
  BY DEF Stop
<1>4. /\ prep' = [g \in PrepFiles |-> prep'[g]]
      /\ prep'.source \in {prep.source, Cut}
  BY <1>2 DEF PlaceInv, PrepFiles
<1>5. work' = [g \in WorkFiles |-> work'[g]]
  BY <1>3 DEF PlaceInv
<1> QED BY <1>1, <1>4, <1>5, AfterIs DEF PlaceInv, PlanInv, SourceInv, PrepareInv, OfOneDump,
     Building, Imaging, Composing, Preparing

\* InputInv is an invariant.
LEMMA InputStep == InputInv /\ [Next]_vars => InputInv'
<1> SUFFICES ASSUME InputInv, [Next]_vars PROVE InputInv'
  OBVIOUS
<1>1. CASE UNCHANGED vars
  BY <1>1, Dues DEF vars, InputInv, PlaceInv, PlanInv, SourceInv, PrepareInv, OfOneDump, Firmware
<1>2. CASE Next
  BY <1>2, StartInput, PrepareInput, FetchInput, PackInput, BuildInput, StopInput
     DEF Next, BuildActions
<1> QED BY <1>1, <1>2

\* The way a source.json comes about, for any dumps, editions and stops.
THEOREM InputInvariant == Spec => []InputInv
BY InitInput, InputStep, PTL DEF Spec

-----------------------------------------------------------------------------
\* The image of one dump

LEMMA InitBuild == Init => BuildInv
<1> SUFFICES ASSUME Init PROVE StepInv /\ SettledInv
  BY InitInput DEF BuildInv
<1>1. pc = "idle" /\ due = Due /\ ImageDue
  BY DEF Init, Due, ImageDue
<1> QED BY <1>1, Dues DEF StepInv, SettledInv, Building, Imaging, Composing, Preparing, Fetching

\* Between scripts: what is due now is due by then, or brings new inputs.
LEMMA StartBuild ==
  ASSUME ~Standalone, BuildInv, Edit \/ Prepare \/ Fetch \/ Pack \/ BuildAll \/ BuildStep
  PROVE  BuildInv'
<1> USE DEF BuildInv
<1>1. InputInv'
  BY StartInput
<1>2. pc = "idle" /\ UNCHANGED <<prep, published, work>>
  BY DEF Edit, Prepare, Fetch, Pack, BuildAll, BuildStep, Run
<1>3. \/ pc' = "idle" /\ due' = due
      \/ pc' \in Preparing \cup Fetching /\ due' = Due
      \/ pc' \in Packing /\ due' = due
      \/ /\ pc' \in Building \ Composing /\ due' = due /\ OfOneDump(Hashes(prep))
         /\ \/ due = {} \/ (arg' = "vendor" /\ ~ImageDue)
            \/ (pc' \in {"uboot", "build-id"} /\ (pc' = "build-id" => arg' = "vendor"))
  <2>1. CASE Edit \/ Prepare \/ Fetch \/ Pack
    <3>1. CASE Edit
      BY <1>2, <3>1 DEF Edit
    <3>2. CASE Prepare \/ Fetch
      BY <3>2 DEF Prepare, Fetch, Run, Preparing, Fetching
    <3>3. CASE Pack
      BY <3>3 DEF Pack, Run, Packing
    <3> QED BY <2>1, <3>1, <3>2, <3>3
  <2>2. CASE BuildAll
    <3>1. PICK path \in {"vendor", "mainline"} :
            Run(Head(PlanFor(path)), path, Tail(PlanFor(path)))
      BY <2>2 DEF BuildAll
    <3>2. pc' = Head(PlanFor(path)) /\ arg' = path /\ due' = due
      BY <2>2, <3>1 DEF Run, BuildAll
    <3>3. OfOneDump(Hashes(prep))
      BY <2>2, VerifiedInputs DEF BuildAll, InputInv
    <3> QED BY <3>2, <3>3, PlanIs DEF Building, Imaging, Composing
  <2>3. CASE BuildStep
    <3>1. PICK path \in {"vendor", "mainline"} :
            /\ due = {} \/ (path = "vendor" /\ ~ImageDue)
            /\ \E step \in ToSet(PlanFor(path)) : Run(step, path, <<>>)
      BY <2>3 DEF BuildStep
    <3>2. /\ pc' \in {"uboot", "build-id", "image", "update"} /\ due' = due
          /\ due = {} \/ (arg' = "vendor" /\ ~ImageDue)
      BY <2>3, <3>1, PlanIs DEF Run, BuildStep
    <3>3. OfOneDump(Hashes(prep))
      BY <3>2, Dues DEF SettledInv
    <3> QED BY <3>2, <3>3 DEF Building, Imaging, Composing
  <2> QED BY <2>1, <2>2, <2>3
<1>4. /\ OfOneDump(Hashes(prep))' <=> OfOneDump(Hashes(prep))
      /\ ItbMade' <=> ItbMade
      /\ RootMade' <=> RootMade
      /\ UbootIn' <=> UbootIn
      /\ BootIn' <=> BootIn
      /\ RootIn' <=> RootIn
  BY <1>2 DEF OfOneDump, Hashes, ItbMade, RootMade, UbootIn, BootIn, RootIn
<1>5. StepInv'
  BY <1>2, <1>3, <1>4, Dues DEF StepInv, SettledInv, Building, Imaging, Composing, Preparing, Fetching,
     Packing
<1>6. SettledInv'
  BY <1>2, <1>3, <1>4, Dues DEF SettledInv, Building, Imaging, Composing, Preparing, Fetching, Packing
<1> QED BY <1>1, <1>5, <1>6

\* Whatever changes the inputs is under due.
LEMMA DueBuild ==
  ASSUME BuildInv,
         \/ PrepareUboot \/ PrepareBoot \/ Harvest \/ Source
         \/ FetchSource \/ Compare \/ Download \/ Unpack \/ RemoveStale
  PROVE  BuildInv'
<1> USE DEF BuildInv
<1>1. InputInv'
  BY PrepareInput, FetchInput
<1>2. pc \in Preparing \cup Fetching /\ due' = due
  BY DEF PrepareUboot, PrepareBoot, Harvest, Source, FetchSource, Compare, Download, Unpack,
     RemoveStale, Preparing, Fetching, Prep, Rest, Untouched
<1>3. due' = Due
  BY <1>2 DEF SettledInv
<1>4. plan = <<>>
  BY <1>2, AfterIs DEF InputInv, PlanInv
<1>5. pc' \in {"idle"} \cup Preparing \cup Fetching
  BY <1>4 DEF PrepareUboot, PrepareBoot, Harvest, Source, FetchSource, Compare, Download, Unpack,
     RemoveStale, Preparing, Fetching, Continue, Finish, Fail
<1>6. StepInv'
  BY <1>5 DEF StepInv, Building, Imaging, Composing, Preparing, Fetching
<1>7. SettledInv'
  BY <1>3, Dues DEF SettledInv
<1> QED BY <1>1, <1>6, <1>7

LEMMA PackBuild ==
  ASSUME BuildInv, PackBundle \/ Publish
  PROVE  BuildInv'
<1> USE DEF BuildInv
<1>1. InputInv'
  BY PackInput
<1>2. pc \in Packing /\ UNCHANGED <<prep, work, due>>
  BY DEF PackBundle, Publish, Packing, Untouched
<1>3. plan = <<>>
  BY <1>2, AfterIs DEF InputInv, PlanInv
<1>4. pc' \in {"idle"} \cup Packing
  BY <1>3 DEF PackBundle, Publish, Packing, Continue, Finish, Fail
<1>5. StepInv'
  BY <1>4 DEF StepInv, Building, Imaging, Composing, Packing
<1>6. SettledInv'
  BY <1>2, <1>4, Dues DEF SettledInv, OfOneDump, Hashes, ItbMade, RootMade, UbootIn, BootIn, RootIn,
     Composing, Preparing, Fetching, Packing
<1> QED BY <1>1, <1>5, <1>6

\* Once stopped all is due.
LEMMA StopBuild ==
  ASSUME BuildInv, Stop
  PROVE  BuildInv'
<1>1. pc' = "idle" /\ due' = Due
  BY DEF Stop
<1>2. StepInv' /\ SettledInv'
  BY <1>1, Dues DEF StepInv, SettledInv, Building, Imaging, Composing
<1> QED BY <1>2, StopInput DEF BuildInv

LEMMA BuildBuild ==
  ASSUME BuildInv, BuildActions
  PROVE  BuildInv'
<1> USE DEF BuildInv
<1> SUFFICES StepInv' /\ SettledInv'
  BY BuildInput
<1>1. /\ PlaceInv /\ PlanInv
      /\ pc \in Building /\ UNCHANGED <<prep, arg>>
      /\ due' = due \/ Lessened
      /\ arg \in {"vendor", "mainline"}
  BY BuildIs DEF InputInv, PlanInv
<1>2. OfOneDump(Hashes(prep)) /\ OfOneDump(Hashes(prep))'
  BY <1>1 DEF StepInv, OfOneDump, Hashes
<1> DEFINE ImageIn == UbootIn /\ BootIn /\ RootIn
\* What of work a step has to have left or made.
<1>3. ASSUME pc' \in {"idle"} \cup (Building \ Composing),
             due' = due,
             ItbMade => ItbMade', RootMade => RootMade',
             pc' \in Building \ {"uboot"} /\ arg = "mainline" => ItbMade',
             pc' \in {"image", "update"} => RootMade',
             IsWhole(work'.image) /\ (pc' = "update" \/ ~ImageDue) => ImageIn'
      PROVE  StepInv' /\ SettledInv'
  <2>1. pc' \notin Composing \cup Preparing \cup Fetching \cup {"compose boot", "compose rootfs"}
    BY <1>3 DEF Building, Imaging, Composing, Preparing, Fetching
  <2>2. StepInv'
    BY <1>1, <1>2, <1>3, <2>1 DEF StepInv, Imaging
  <2>3. SettledInv'
    BY <1>2, <1>3, <2>1, Dues DEF SettledInv
  <2> QED BY <2>2, <2>3
<1>4. ASSUME work' = work, pc' = "idle", due' = due, pc \notin Composing
      PROVE  StepInv' /\ SettledInv'
  <2>1. /\ ItbMade => ItbMade'
        /\ RootMade => RootMade'
        /\ ImageIn => ImageIn'
    BY <1>1, <1>4 DEF ItbMade, RootMade, UbootIn, BootIn, RootIn
  <2>2. IsWhole(work'.image) /\ ~ImageDue => ImageIn'
    BY <1>4, <2>1 DEF SettledInv
  <2> QED BY <1>3, <1>4, <2>1, <2>2 DEF Building, Imaging, Composing
<1>5. ASSUME Untouched, Fail, pc \notin Composing
      PROVE  StepInv' /\ SettledInv'
  BY <1>4, <1>5 DEF Untouched, Fail
<1>6. ASSUME NEW f \in WorkFiles, NEW v, Work(f, v)
      PROVE  /\ work'[f] = v
             /\ \A g \in WorkFiles : g # f => work'[g] = work[g]
             /\ due' = due
             /\ f # "itb" /\ ItbMade => ItbMade'
             /\ f # "rootfs" /\ RootMade => RootMade'
             /\ f # "image" /\ ImageIn => ImageIn'
             /\ f # "image" => work'.image = work.image
  <2>1. /\ work'[f] = v /\ due' = due
        /\ \A g \in WorkFiles : g # f => work'[g] = work[g]
    BY <1>1, <1>6, WorkIs
  <2>2. /\ f # "itb" => work'.itb = work.itb
        /\ f # "rootfs" => work'.rootfs = work.rootfs
        /\ f # "image" => work'.image = work.image
    BY <2>1 DEF WorkFiles
  <2> QED BY <1>1, <2>1, <2>2 DEF ItbMade, RootMade, UbootIn, BootIn, RootIn
<1>7. \A s \in {"uboot.json", "build-id", "rootfs", "image", "update"} :
        s \in Building \ {"uboot"} /\ s \notin Composing
  BY DEF Building, Imaging, Composing
<1>8. CASE BuildUboot
  <2>1. CASE Untouched /\ Fail
    BY <1>5, <1>8, <2>1 DEF BuildUboot, Composing
  <2>2. CASE ~(Untouched /\ Fail)
    <3> DEFINE fit == [kind |-> "fit", vendor |-> prep.uboot, map |-> tree.map]
    <3>1. pc = "uboot" /\ Work("itb", fit) /\ pc' = "uboot.json"
      BY <1>8, <2>2 DEF BuildUboot, Continue
    <3>2. fit.kind = "fit" /\ fit.vendor = prep.uboot
      OBVIOUS
    <3> HIDE DEF fit
    <3>3. /\ work'.itb = fit /\ due' = due
          /\ RootMade => RootMade'
          /\ ImageIn => ImageIn'
          /\ work'.image = work.image
      BY <1>6, <3>1 DEF WorkFiles
    <3>4. ItbMade'
      BY <1>1, <3>2, <3>3, KindsDiffer DEF ItbMade
    <3>5. IsWhole(work'.image) /\ ~ImageDue => ImageIn'
      BY <3>1, <3>3 DEF SettledInv, Composing
    <3> QED BY <1>3, <1>7, <3>1, <3>3, <3>4, <3>5
  <2> QED BY <2>1, <2>2
<1>9. CASE UbootJson
  <2>1. /\ pc = "uboot.json" /\ \E v : Work("meta", v)
        /\ pc' \in {"idle", "build-id"}
    BY <1>1, <1>9, FinishIs DEF UbootJson, Ends
  <2>2. /\ due' = due
        /\ RootMade => RootMade'
        /\ ItbMade => ItbMade'
        /\ ImageIn => ImageIn'
        /\ work'.image = work.image
    BY <1>6, <2>1 DEF WorkFiles
  <2>3. arg = "mainline" => ItbMade
    BY <2>1 DEF StepInv, Building, Imaging, Composing
  <2>4. IsWhole(work'.image) /\ ~ImageDue => ImageIn'
    BY <2>1, <2>2 DEF SettledInv, Composing
  <2> QED BY <1>3, <1>7, <2>1, <2>2, <2>3, <2>4
<1>10. CASE BuildId
  <2>1. /\ pc = "build-id" /\ \E v : Work("buildId", v)
        /\ pc' \in {"idle", "rootfs"}
    BY <1>10 DEF BuildId, Continue, Fail
  <2>2. /\ due' = due
        /\ RootMade => RootMade'
        /\ ItbMade => ItbMade'
        /\ ImageIn => ImageIn'
        /\ work'.image = work.image
    BY <1>6, <2>1 DEF WorkFiles
  <2>3. arg = "mainline" => ItbMade
    BY <2>1 DEF StepInv, Building, Imaging, Composing
  <2>4. IsWhole(work'.image) /\ ~ImageDue => ImageIn'
    BY <2>1, <2>2 DEF SettledInv, Composing
  <2> QED BY <1>3, <1>7, <2>1, <2>2, <2>3, <2>4
<1>11. CASE Rootfs
  <2> DEFINE root == [kind |-> "root", vendor |-> prep.harvest, whole |-> TRUE,
                      version |-> tree.version, build |-> tree.git]
  <2>1. pc = "rootfs" /\ Work("rootfs", root) /\ pc' \in {"idle", "image"}
    BY <1>1, <1>11, FinishIs DEF Rootfs, Ends
  <2>2. root.kind = "root" /\ root.vendor = prep.harvest /\ root.whole = TRUE
    OBVIOUS
  <2> HIDE DEF root
  <2>3. /\ work'.rootfs = root /\ due' = due
        /\ ItbMade => ItbMade'
        /\ ImageIn => ImageIn'
        /\ work'.image = work.image
    BY <1>6, <2>1 DEF WorkFiles
  <2>4. RootMade'
    BY <1>1, <2>2, <2>3, KindsDiffer DEF RootMade
  <2>5. arg = "mainline" => ItbMade
    BY <2>1 DEF StepInv, Building, Imaging, Composing
  <2>6. IsWhole(work'.image) /\ ~ImageDue => ImageIn'
    BY <2>1, <2>3 DEF SettledInv, Composing
  <2> QED BY <1>3, <1>7, <2>1, <2>3, <2>4, <2>5, <2>6
<1>12. CASE BuildImage
  <2>1. CASE Untouched /\ Fail
    BY <1>5, <1>12, <2>1 DEF BuildImage, Composing
  <2>2. CASE ~(Untouched /\ Fail)
    <3>1. pc = "image" /\ Work("image", EmptyImage) /\ pc' = "compose uboot"
      BY <1>12, <2>2 DEF BuildImage, Continue
    <3>2. /\ work'.image = EmptyImage /\ due' = due
          /\ RootMade => RootMade'
          /\ ItbMade => ItbMade'
      BY <1>6, <3>1 DEF WorkFiles
    <3>3. RootMade /\ (arg = "mainline" => ItbMade)
      BY <3>1 DEF StepInv, Building, Imaging, Composing
    <3>4. EmptyImage = [f \in DOMAIN EmptyImage |-> EmptyImage[f]] /\ EmptyImage.kind = "image"
      BY DEF EmptyImage
    <3>5. StepInv'
      BY <1>1, <1>2, <3>1, <3>2, <3>3, <3>4 DEF StepInv, Building, Imaging, Composing
    <3>6. SettledInv'
      BY <1>2, <3>1, <3>2, <3>3 DEF SettledInv, Composing, Preparing, Fetching
    <3> QED BY <3>5, <3>6
  <2> QED BY <2>1, <2>2
\* Putting a region into the image.
<1>13. ASSUME NEW r \in Regions, NEW v, ToImage(r, v), pc \in Composing
       PROVE  /\ work'.image = [f \in DOMAIN EmptyImage |-> work'.image[f]]
              /\ work'.image.kind = "image" /\ work'.image[r] = v
              /\ r # "uboot" /\ UbootIn => UbootIn'
              /\ r # "boot" /\ BootIn => BootIn'
              /\ due' = due
              /\ RootMade => RootMade'
              /\ ItbMade => ItbMade'
              /\ RootMade
              /\ arg = "mainline" => ItbMade
  <2>1. Work("image", [work.image EXCEPT ![r] = v])
    BY <1>13 DEF ToImage
  <2> DEFINE new == [work.image EXCEPT ![r] = v]
  <2>2. /\ work.image = [f \in DOMAIN EmptyImage |-> work.image[f]] /\ work.image.kind = "image"
        /\ RootMade /\ (arg = "mainline" => ItbMade)
    BY <1>13 DEF StepInv, Building, Imaging, Composing
  <2>3. DOMAIN EmptyImage = {"kind", "uboot", "boot", "rootfs"}
    BY DEF EmptyImage
  <2>4. /\ new = [f \in DOMAIN EmptyImage |-> new[f]] /\ new[r] = v
        /\ \A f \in DOMAIN EmptyImage : f # r => new[f] = work.image[f]
    BY <2>2, <2>3, Written DEF Regions
  <2> HIDE DEF new
  <2>5. /\ work'.image = new /\ due' = due
        /\ RootMade => RootMade'
        /\ ItbMade => ItbMade'
    BY <1>6, <2>1 DEF WorkFiles, new
  <2>6. /\ new.kind = "image"
        /\ r # "uboot" => new.uboot = work.image.uboot
        /\ r # "boot" => new.boot = work.image.boot
    BY <2>2, <2>3, <2>4 DEF Regions
  <2> QED BY <1>1, <2>2, <2>4, <2>5, <2>6 DEF UbootIn, BootIn
<1>14. CASE ComposeUboot
  <2> DEFINE stock == [kind |-> "stock", vendor |-> prep.uboot]
             v == IF arg = "mainline" THEN work.itb ELSE stock
  <2>1. pc = "compose uboot" /\ ToImage("uboot", v) /\ pc' = "compose boot"
    BY <1>14 DEF ComposeUboot, Continue
  <2>2. stock.kind = "stock" /\ stock.vendor = prep.uboot
    OBVIOUS
  <2> HIDE DEF stock
  <2>3. IsWhole(stock)
    BY <2>2, KindsDiffer
  <2>4. IsWhole(v) /\ v.vendor = prep.uboot
    BY <2>1, <2>2, <2>3 DEF StepInv, ItbMade, Building, Imaging, Composing
  <2> HIDE DEF v
  <2>5. /\ work'.image = [f \in DOMAIN EmptyImage |-> work'.image[f]]
        /\ work'.image.kind = "image" /\ work'.image.uboot = v
        /\ due' = due /\ RootMade' /\ (arg = "mainline" => ItbMade')
        /\ ItbMade => ItbMade'
    BY <1>13, <2>1 DEF Regions, Composing
  <2>6. UbootIn'
    BY <1>1, <2>4, <2>5 DEF UbootIn
  <2>7. StepInv'
    BY <1>1, <1>2, <2>1, <2>5, <2>6 DEF StepInv, Building, Imaging, Composing
  <2>8. SettledInv'
    BY <1>2, <2>1, <2>5 DEF SettledInv, Composing, Preparing, Fetching
  <2> QED BY <2>7, <2>8
<1>15. CASE ComposeBoot
  <2> DEFINE v == [kind |-> "boot", vendor |-> prep.boot]
  <2>1. pc = "compose boot" /\ ToImage("boot", v) /\ pc' = "compose rootfs"
    BY <1>15 DEF ComposeBoot, Continue
  <2>2. v.kind = "boot" /\ v.vendor = prep.boot
    OBVIOUS
  <2> HIDE DEF v
  <2>3. /\ work'.image = [f \in DOMAIN EmptyImage |-> work'.image[f]]
        /\ work'.image.kind = "image" /\ work'.image.boot = v
        /\ UbootIn => UbootIn'
        /\ due' = due /\ RootMade' /\ (arg = "mainline" => ItbMade')
        /\ ItbMade => ItbMade'
    BY <1>13, <2>1 DEF Regions, Composing
  <2>4. UbootIn
    BY <2>1 DEF StepInv
  <2>5. BootIn'
    BY <1>1, <2>2, <2>3, KindsDiffer DEF BootIn
  <2>6. StepInv'
    BY <1>1, <1>2, <2>1, <2>3, <2>4, <2>5 DEF StepInv, Building, Imaging, Composing
  <2>7. SettledInv'
    BY <1>2, <2>1, <2>3 DEF SettledInv, Composing, Preparing, Fetching
  <2> QED BY <2>6, <2>7
<1>16. CASE ComposeRootfs
  <2>1. pc = "compose rootfs" /\ UbootIn /\ BootIn /\ RootMade
    BY <1>16 DEF ComposeRootfs, StepInv, Imaging, Composing
  <2>2. work.rootfs # Cut
    BY <2>1 DEF RootMade, IsWhole
  <2>3. ToImage("rootfs", work.rootfs) /\ pc' \in {"idle", "update"}
    BY <1>1, <1>16, <2>1, <2>2, FinishIs DEF ComposeRootfs, Ends
  <2>4. /\ work'.image.rootfs = work.rootfs
        /\ UbootIn' /\ BootIn' /\ due' = due /\ RootMade' /\ (arg = "mainline" => ItbMade')
        /\ ItbMade => ItbMade'
    BY <1>13, <2>1, <2>3 DEF Regions, Composing
  <2>5. RootIn'
    BY <1>1, <2>1, <2>4 DEF RootMade, RootIn
  <2> QED BY <1>3, <1>7, <2>3, <2>4, <2>5
<1>17. CASE BuildUpdate
  <2>1. CASE Untouched /\ Fail
    BY <1>5, <1>17, <2>1 DEF BuildUpdate, Composing
  <2>2. CASE ~(Untouched /\ Fail)
    <3>1. PICK p : /\ work' = [work EXCEPT !["payload"] = p]
                   /\ Finish /\ pc = "update" /\ IsWhole(work.image)
      BY <1>17, <2>2 DEF BuildUpdate
    <3>2. pc' = "idle"
      BY <1>1, <3>1, FinishIs DEF Ends
    <3>3. /\ work'.itb = work.itb /\ work'.rootfs = work.rootfs /\ work'.image = work.image
      BY <1>1, <3>1, Written DEF PlaceInv, WorkFiles
    <3>4. RootMade /\ ImageIn /\ (arg = "mainline" => ItbMade)
      BY <3>1 DEF StepInv, Building, Imaging, Composing
    <3>5. /\ RootMade' /\ ImageIn'
          /\ ItbMade => ItbMade'
      BY <1>1, <3>3, <3>4 DEF ItbMade, RootMade, UbootIn, BootIn, RootIn
    <3>6. StepInv'
      BY <3>2 DEF StepInv, Building, Imaging, Composing
    <3>7. /\ due' \in {Due, {"uboot"}, {}}
          /\ due' = {} => ItbMade'
      BY <1>1, <3>4, <3>5, Dues DEF SettledInv, Lessened
    <3>8. SettledInv'
      BY <1>2, <3>2, <3>5, <3>7 DEF SettledInv, Preparing, Fetching
    <3> QED BY <3>6, <3>8
  <2> QED BY <2>1, <2>2
<1> QED BY <1>8, <1>9, <1>10, <1>11, <1>12, <1>14, <1>15, <1>16, <1>17 DEF BuildActions

LEMMA BuildStepKeeps == ~Standalone /\ BuildInv /\ [Next]_vars => BuildInv'
<1> SUFFICES ASSUME ~Standalone, BuildInv, [Next]_vars PROVE BuildInv'
  OBVIOUS
<1>1. CASE UNCHANGED vars
  <2>1. InputInv'
    BY <1>1, InputStep DEF BuildInv
  <2>2. /\ StepInv' <=> StepInv
        /\ SettledInv' <=> SettledInv
    BY <1>1, Dues DEF vars, StepInv, SettledInv, OfOneDump, Hashes, ItbMade, RootMade, UbootIn, BootIn,
       RootIn
  <2> QED BY <2>1, <2>2 DEF BuildInv
<1>2. CASE Next
  BY <1>2, StartBuild, DueBuild, PackBuild, StopBuild, BuildBuild DEF Next, BuildActions
<1> QED BY <1>1, <1>2

\* What a build has made at each of build-all.sh's steps, and that everything is of
\* today's inputs once the build-all.sh an edit calls for has ended: an invariant when
\* no script of it is run on its own.
THEOREM BuildInvariant == ~Standalone => (Spec => []BuildInv)
<1> SUFFICES ASSUME ~Standalone PROVE Spec => []BuildInv
  OBVIOUS
<1>1. BuildInv /\ [Next]_vars => BuildInv'
  BY BuildStepKeeps
<1> QED BY <1>1, InitBuild, PTL DEF Spec

\* An image that can be flashed is whole and of one dump, however often the inputs were
\* replaced and scripts stopped, when each replacement is followed by a build-all.sh
\* that gets to its end.
THEOREM ImagesOfOneDump == ~Standalone => (Spec => []ImageOfOneDump)
<1>1. BuildInv => ImageOfOneDump
  <2> SUFFICES ASSUME BuildInv, pc = "idle", ~ImageDue, IsWhole(work.image)
               PROVE  /\ IsComplete(work.image) /\ work.image.rootfs.whole
                      /\ \E d \in DOMAIN Dumps, e \in Editions :
                           /\ work.image.uboot.vendor = Dumps[d].uboot
                           /\ work.image.boot.vendor = Dumps[d].boot
                           /\ work.image.rootfs.vendor =
                                TarFile(TarOf(Dumps[d].root, ReadList(e.list)))
    BY DEF ImageOfOneDump
  <2>1. UbootIn /\ BootIn /\ RootIn /\ OfOneDump(Hashes(prep))
    BY DEF BuildInv, SettledInv, Composing
  <2>2. PICK d \in DOMAIN Dumps, e \in Editions : Hashes(prep) = Inputs(d, e)
    BY <2>1 DEF OfOneDump
  <2>3. /\ prep.uboot = Dumps[d].uboot /\ prep.boot = Dumps[d].boot
        /\ prep.harvest = TarFile(TarOf(Dumps[d].root, ReadList(e.list)))
    BY <2>2 DEF Hashes, Inputs, Harvested
  <2>4. IsComplete(work.image) /\ work.image.rootfs.whole
    BY <2>1 DEF IsComplete, UbootIn, BootIn, RootIn, Regions
  <2> QED BY <2>1, <2>3, <2>4 DEF UbootIn, BootIn, RootIn
<1> QED BY <1>1, BuildInvariant, PTL

-----------------------------------------------------------------------------
\* The inputs of one dump

\* What the lists and the firmware are taken to be: no path is listed below another or
\* kept out by its own list, and what is harvested can be read as far as it is ELF.
FlatList(list) ==
  \A p \in list.include :
    ~Under(p, list.exclude) /\ \A q \in list.include : IsPrefix(p, q) => p = q
FlatLists == \A e \in Editions : FlatList(ReadList(e.list))
ReadableHarvests ==
  \A d \in DOMAIN Dumps, e \in Editions : \A m \in DOMAIN Harvested(d, e) :
    Harvested(d, e)[m].kind = "file" => Harvested(d, e)[m].elf # "unreadable"

LEMMA PrefixOf ==
  ASSUME NEW S, NEW s \in Seq(S), NEW t \in Seq(S)
  PROVE  IsPrefix(s, t) <=> Len(s) <= Len(t) /\ \A i \in 1 .. Len(s) : s[i] = t[i]
<1>1. Len(s) \in Nat /\ Len(t) \in Nat
  BY LenProperties
<1>2. SubSeq(s, 1, Len(s)) = s
  BY SubSeqFull
<1>3. ASSUME Len(s) <= Len(t)
      PROVE  s = SubSeq(t, 1, Len(s)) <=> \A i \in 1 .. Len(s) : s[i] = t[i]
  <2> DEFINE p == SubSeq(t, 1, Len(s))
  <2>1. \A i \in 1 .. Len(s) : t[i] \in S
    BY <1>1, <1>3, ElementOfSeq
  <2>2. /\ p \in Seq(S) /\ Len(p) = (IF 1 <= Len(s) THEN Len(s) - 1 + 1 ELSE 0)
        /\ \A i \in 1 .. Len(s) - 1 + 1 : p[i] = t[1 + i - 1]
    BY <1>1, <2>1, SubSeqProperties
  <2>3. p \in Seq(S) /\ Len(p) = Len(s) /\ \A i \in 1 .. Len(s) : p[i] = t[i]
    <3> HIDE DEF p
    <3> QED BY <1>1, <2>2
  <2> HIDE DEF p
  <2>4. (\A i \in 1 .. Len(s) : s[i] = t[i]) => s = p
    BY <2>3, SeqEqual
  <2>5. s = p => \A i \in 1 .. Len(s) : s[i] = t[i]
    BY <2>3
  <2> QED BY <2>4, <2>5 DEF p
<1> QED BY <1>2, <1>3 DEF IsPrefix

\* Prefixes of one path are ordered, and what follows one is its own.
LEMMA PrefixOrder ==
  ASSUME NEW S, NEW s \in Seq(S), NEW t \in Seq(S), NEW m \in Seq(S)
  PROVE  /\ IsPrefix(s, s \o t)
         /\ IsPrefix(s, m) /\ IsPrefix(t, m) => IsPrefix(s, t) \/ IsPrefix(t, s)
         /\ IsPrefix(s, t) /\ IsPrefix(t, m) => IsPrefix(s, m)
         /\ IsPrefix(s, t) /\ IsPrefix(t, s) => s = t
         /\ s \o t = s \o m => t = m
<1>1. Len(s) \in Nat /\ Len(t) \in Nat /\ Len(m) \in Nat
  BY LenProperties
<1>2. /\ s \o t \in Seq(S) /\ Len(s \o t) = Len(s) + Len(t)
      /\ \A i \in 1 .. Len(s) + Len(t) : (s \o t)[i] = IF i <= Len(s) THEN s[i] ELSE t[i - Len(s)]
  BY ConcatProperties
<1>3. IsPrefix(s, s \o t)
  <2> DEFINE c == s \o t
  <2> HIDE DEF c
  <2>1. c \in Seq(S) /\ Len(s) <= Len(c) /\ \A i \in 1 .. Len(s) : s[i] = c[i]
    BY <1>1, <1>2 DEF c
  <2>2. IsPrefix(s, c)
    BY <2>1, PrefixOf
  <2> QED BY <2>2 DEF c
<1>4. /\ IsPrefix(s, m) <=> Len(s) <= Len(m) /\ \A i \in 1 .. Len(s) : s[i] = m[i]
      /\ IsPrefix(t, m) <=> Len(t) <= Len(m) /\ \A i \in 1 .. Len(t) : t[i] = m[i]
      /\ IsPrefix(s, t) <=> Len(s) <= Len(t) /\ \A i \in 1 .. Len(s) : s[i] = t[i]
      /\ IsPrefix(t, s) <=> Len(t) <= Len(s) /\ \A i \in 1 .. Len(t) : t[i] = s[i]
  BY PrefixOf
<1>5. IsPrefix(s, m) /\ IsPrefix(t, m) => IsPrefix(s, t) \/ IsPrefix(t, s)
  BY <1>1, <1>4
<1>6. IsPrefix(s, t) /\ IsPrefix(t, m) => IsPrefix(s, m)
  BY <1>1, <1>4
<1>7. IsPrefix(s, t) /\ IsPrefix(t, s) => s = t
  BY <1>1, <1>4, SeqEqual
<1>8. s \o t = s \o m => t = m
  BY ConcatSimplifications
<1> QED BY <1>3, <1>5, <1>6, <1>7, <1>8

\* The entries that harvest takes for a listed path.
Below(fw, p) ==
  {SubSeq(q, Len(Real(fw, p)) + 1, Len(q)) : q \in {r \in DOMAIN fw : IsPrefix(Real(fw, p), r)}}
Takes(fw, list, p, rest) ==
  /\ p \in list.include \ Missing(fw, list)
  /\ rest \in Below(fw, p) /\ ~Under(p \o rest, list.exclude)
Paths(S, fw, list) ==
  DOMAIN fw \subseteq Seq(S) /\ list.include \subseteq Seq(S) /\ list.exclude \subseteq Seq(S)

LEMMA TakesIs ==
  ASSUME NEW S, NEW fw, NEW list, Paths(S, fw, list), NEW p, NEW rest,
         Takes(fw, list, p, rest)
  PROVE  p \in Seq(S) /\ rest \in Seq(S) /\ p \o rest \in Seq(S)
<1>1. p \in Seq(S) /\ Real(fw, p) \in Seq(S)
  BY DEF Takes, Paths, Missing
<1>2. PICK q \in DOMAIN fw : rest = SubSeq(q, Len(Real(fw, p)) + 1, Len(q))
  BY DEF Takes, Below
<1>3. q \in Seq(S) /\ Len(q) \in Nat /\ Len(Real(fw, p)) \in Nat
  BY <1>1, <1>2, LenProperties DEF Paths
<1>4. \A i \in Len(Real(fw, p)) + 1 .. Len(q) : q[i] \in S
  BY <1>3, ElementOfSeq
<1>5. rest \in Seq(S)
  BY <1>2, <1>3, <1>4, SubSeqProperties
<1> QED BY <1>1, <1>5, ConcatProperties

\* A listed path that is there is taken itself.
LEMMA TakesListed ==
  ASSUME NEW S, NEW fw, NEW list, Paths(S, fw, list), FlatList(list),
         NEW p \in list.include, p \notin Missing(fw, list)
  PROVE  Takes(fw, list, p, <<>>) /\ p \o <<>> = p
<1>1. p \in Seq(S) /\ Real(fw, p) \in DOMAIN fw /\ Real(fw, p) \in Seq(S)
  BY DEF Missing, Paths
<1>2. p \o <<>> = p
  BY <1>1, ConcatProperties, ConcatEmptySeq
<1> DEFINE r == Real(fw, p)
<1>3. IsPrefix(r, r) /\ SubSeq(r, Len(r) + 1, Len(r)) = <<>>
  <2>1. Len(r) \in Nat
    BY <1>1, LenProperties
  <2>2. SubSeq(r, Len(r) + 1, Len(r)) = <<>>
    BY <2>1, SubSeqEmpty
  <2>3. IsPrefix(r, r)
    BY <1>1, <2>1, PrefixOf
  <2> QED BY <2>2, <2>3
<1>4. <<>> \in Below(fw, p)
  BY <1>1, <1>3, Zenon DEF Below
<1>5. ~Under(p \o <<>>, list.exclude)
  BY <1>2 DEF FlatList
<1> QED BY <1>2, <1>4, <1>5 DEF Takes

\* The tar of a flat list is what its paths take, each entry of one of them.
LEMMA TarIs ==
  ASSUME NEW S, NEW fw, NEW list, Paths(S, fw, list), FlatList(list)
  PROVE  /\ \A m : m \in DOMAIN TarOf(fw, list) <=>
                     \E p, rest : Takes(fw, list, p, rest) /\ m = p \o rest
         /\ \A p, rest : Takes(fw, list, p, rest) =>
              TarOf(fw, list)[p \o rest] = fw[Real(fw, p) \o rest]
<1> DEFINE below(p) == {SubSeq(q, Len(Real(fw, p)) + 1, Len(q)) :
                          q \in {r \in DOMAIN fw : IsPrefix(Real(fw, p), r)}}
           named == {<<p, rest>> : p \in list.include \ Missing(fw, list),
                                   rest \in UNION {below(p) : p \in list.include}}
           taken == {n \in named : n[2] \in below(n[1])
                                   /\ ~Under(n[1] \o n[2], list.exclude)}
           from(m) == CHOOSE n \in taken : n[1] \o n[2] = m
           T == [m \in {n[1] \o n[2] : n \in taken} |->
                   fw[Real(fw, from(m)[1]) \o from(m)[2]]]
<1>1. TarOf(fw, list) = T
  BY DEF TarOf
<1>2. \A p, rest : <<p, rest>> \in taken <=> Takes(fw, list, p, rest)
  BY DEF Takes, Below
<1>3. \A n \in taken : n = <<n[1], n[2]>> /\ Takes(fw, list, n[1], n[2])
  BY <1>2
<1> HIDE DEF taken
<1>4. \A m : m \in DOMAIN T <=> \E p, rest : Takes(fw, list, p, rest) /\ m = p \o rest
  <2>1. ASSUME NEW p, NEW rest, Takes(fw, list, p, rest) PROVE p \o rest \in DOMAIN T
    <3>1. <<p, rest>> \in taken /\ <<p, rest>>[1] = p /\ <<p, rest>>[2] = rest
      BY <1>2, <2>1
    <3>2. <<p, rest>>[1] \o <<p, rest>>[2] \in {n[1] \o n[2] : n \in taken}
      BY <3>1, Zenon
    <3> QED BY <3>1, <3>2
  <2>2. \A m \in DOMAIN T : \E n \in taken : m = n[1] \o n[2]
    OBVIOUS
  <2> HIDE DEF T
  <2> QED BY <1>3, <2>1, <2>2
<1>5. ASSUME NEW p, NEW rest, Takes(fw, list, p, rest)
      PROVE  T[p \o rest] = fw[Real(fw, p) \o rest]
  <2> DEFINE m == p \o rest
             n == from(m)
  <2>1. <<p, rest>> \in taken /\ <<p, rest>>[1] = p /\ <<p, rest>>[2] = rest
    BY <1>2, <1>5
  <2>2. n \in taken /\ n[1] \o n[2] = m
    BY <2>1
  <2>3. T[m] = fw[Real(fw, n[1]) \o n[2]]
    BY <2>1
  <2> HIDE DEF n
  <2>4. Takes(fw, list, n[1], n[2])
    BY <1>3, <2>2
  <2>5. /\ p \in Seq(S) /\ rest \in Seq(S) /\ m \in Seq(S)
        /\ n[1] \in Seq(S) /\ n[2] \in Seq(S)
    BY <1>5, <2>4, TakesIs
  <2>6. IsPrefix(p, m) /\ IsPrefix(n[1], m)
    <3>1. IsPrefix(p, p \o rest) /\ IsPrefix(n[1], n[1] \o n[2])
      BY <2>5, PrefixOrder
    <3> QED BY <2>2, <3>1
  <2>7. p \in list.include /\ n[1] \in list.include
    BY <1>5, <2>4 DEF Takes
  <2> HIDE DEF m
  <2>8. n[1] = p
    <3>1. IsPrefix(p, n[1]) \/ IsPrefix(n[1], p)
      BY <2>5, <2>6, PrefixOrder
    <3> QED BY <2>7, <3>1 DEF FlatList
  <2>9. n[2] = rest
    <3>1. p \o n[2] = p \o rest
      BY <2>2, <2>8 DEF m
    <3> DEFINE u == n[2]
    <3>2. u \in Seq(S) /\ p \o u = p \o rest
      BY <2>5, <3>1
    <3> HIDE DEF u
    <3>3. u = rest
      BY <2>5, <3>2, PrefixOrder
    <3> QED BY <3>3 DEF u
  <2> QED BY <2>3, <2>8, <2>9 DEF m
<1> HIDE DEF T
<1> QED BY <1>1, <1>4, <1>5

\* A tar that shows no drift from a list was taken under one with the same paths; what
\* it lacks of that list's harvest is what its own kept out.
LEMMA NoDrift ==
  ASSUME NEW S, NEW fw, NEW old, NEW new,
         Paths(S, fw, old), Paths(S, fw, new), FlatList(old), FlatList(new),
         Missing(fw, old) = {},
         Lacking(TarOf(fw, old), new) = {}, Extra(TarOf(fw, old), new) = {}
  PROVE  \A m : /\ m \in DOMAIN TarOf(fw, old) =>
                     m \in DOMAIN TarOf(fw, new) /\ TarOf(fw, old)[m] = TarOf(fw, new)[m]
                /\ m \in DOMAIN TarOf(fw, new) \ DOMAIN TarOf(fw, old) => Under(m, old.exclude)
<1> DEFINE T == TarOf(fw, old)
           N == TarOf(fw, new)
<1>1. /\ \A m : m \in DOMAIN T <=> \E p, rest : Takes(fw, old, p, rest) /\ m = p \o rest
      /\ \A p, rest : Takes(fw, old, p, rest) => T[p \o rest] = fw[Real(fw, p) \o rest]
      /\ \A m : m \in DOMAIN N <=> \E p, rest : Takes(fw, new, p, rest) /\ m = p \o rest
      /\ \A p, rest : Takes(fw, new, p, rest) => N[p \o rest] = fw[Real(fw, p) \o rest]
  BY TarIs
<1>2. /\ \A p \in new.include : p \in DOMAIN T
      /\ \A m \in DOMAIN T : Under(m, new.include) /\ ~Under(m, new.exclude)
  BY DEF Lacking, Extra
<1> HIDE DEF T, N
<1>3. old.include \subseteq Seq(S) /\ new.include \subseteq Seq(S)
  BY DEF Paths
<1>4. \A p \in old.include : p \in DOMAIN T
  <2> TAKE p \in old.include
  <2>1. Takes(fw, old, p, <<>>) /\ p = p \o <<>>
    BY TakesListed
  <2> QED BY <1>1, <2>1
\* A path of the new list lies below one of the old.
<1>5. ASSUME NEW r \in new.include
      PROVE  \E p \in old.include : IsPrefix(p, r)
  <2>1. PICK p, rest : Takes(fw, old, p, rest) /\ r = p \o rest
    BY <1>1, <1>2
  <2>2. p \in Seq(S) /\ rest \in Seq(S) /\ p \in old.include
    BY <2>1, TakesIs DEF Takes
  <2>3. IsPrefix(p, p \o rest)
    BY <2>2, PrefixOrder
  <2> QED BY <2>1, <2>2, <2>3
<1>6. old.include = new.include
  <2>1. ASSUME NEW p \in old.include PROVE p \in new.include
    <3>1. PICK r \in new.include : IsPrefix(r, p)
      BY <1>2, <1>4 DEF Under
    <3>2. PICK q \in old.include : IsPrefix(q, r)
      BY <1>5
    <3>3. IsPrefix(q, p)
      BY <1>3, <3>1, <3>2, PrefixOrder
    <3>4. q = p
      BY <3>3 DEF FlatList
    <3>5. r = p
      BY <1>3, <3>1, <3>2, <3>4, PrefixOrder
    <3> QED BY <3>5
  <2>2. ASSUME NEW r \in new.include PROVE r \in old.include
    <3>1. PICK p \in old.include : IsPrefix(p, r)
      BY <1>5
    <3>2. p \in new.include
      BY <2>1
    <3>3. p = r
      BY <3>1, <3>2 DEF FlatList
    <3> QED BY <3>3
  <2> QED BY <2>1, <2>2
<1>7. Missing(fw, new) = {}
  BY <1>6 DEF Missing
<1>8. ASSUME NEW m \in DOMAIN T PROVE m \in DOMAIN N /\ T[m] = N[m]
  <2>1. PICK p, rest : Takes(fw, old, p, rest) /\ m = p \o rest
    BY <1>1
  <2>2. Takes(fw, new, p, rest)
    BY <1>2, <1>6, <1>7, <2>1 DEF Takes
  <2>3. T[p \o rest] = fw[Real(fw, p) \o rest] /\ N[p \o rest] = fw[Real(fw, p) \o rest]
    BY <1>1, <2>1, <2>2
  <2>4. p \o rest \in DOMAIN N
    BY <1>1, <2>2
  <2> QED BY <2>1, <2>3, <2>4
<1>9. ASSUME NEW m \in DOMAIN N \ DOMAIN T PROVE Under(m, old.exclude)
  <2>1. PICK p, rest : Takes(fw, new, p, rest) /\ m = p \o rest
    BY <1>1
  <2>2. ~Takes(fw, old, p, rest)
    BY <1>1, <2>1
  <2> QED BY <1>6, <2>1, <2>2 DEF Takes
<1> QED BY <1>8, <1>9 DEF T, N

\* What closure's check lets through is closed.
LEMMA ClosedIs ==
  ASSUME NEW tar, Unresolved(tar) = {},
         NEW m \in DOMAIN tar, tar[m].kind = "file", tar[m].elf # "unreadable",
         NEW n \in tar[m].needs
  PROVE  \E k \in DOMAIN tar : tar[k].kind = "file" /\ (Last(k) = n \/ tar[k].soname = n)
<1>1. m \in Readable(tar)
  BY DEF Readable
<1>2. n \in Provided(tar)
  <2> DEFINE wanted == UNION {tar[x].needs : x \in Readable(tar)}
  <2>1. n \in wanted
    BY <1>1
  <2>2. Unresolved(tar) = wanted \ Provided(tar)
    BY Zenon DEF Unresolved
  <2> HIDE DEF wanted
  <2> QED BY <2>1, <2>2
<1>3. PICK k \in Readable(tar) : Last(k) = n \/ tar[k].soname = n
  BY <1>2 DEF Provided
<1> QED BY <1>3 DEF Readable

\* Inputs a build accepts are whole and of one dump, whatever was stopped and edited in
\* between, in any number of dumps, editions, runs and stops.
THEOREM InputsOfOneDump ==
  ASSUME FlatLists, ReadableHarvests
  PROVE  Spec => []PreparedIsWhole
<1>1. InputInv => PreparedIsWhole
  <2> SUFFICES ASSUME InputInv, Verifies(prep, ReadList(tree.list))
               PROVE  PreparedIsWhole
    BY DEF PreparedIsWhole
  <2> DEFINE list == ReadList(tree.list)
             tar == prep.harvest.tar
  <2>1. PICK d \in DOMAIN Dumps, e \in Editions : Hashes(prep) = Inputs(d, e) /\ Closed(d, e)
    BY VerifiedInputs DEF InputInv, OfOneDump
  <2> DEFINE old == ReadList(e.list)
             fw == Dumps[d].root
  <2>2. /\ prep.uboot = Dumps[d].uboot /\ prep.boot = Dumps[d].boot
        /\ prep.harvest = TarFile(TarOf(fw, old))
    BY <2>1 DEF Hashes, Inputs, Harvested
  <2>3. tar = TarOf(fw, old)
    BY <2>2 DEF TarFile
  <2>4. Lacking(tar, list) = {} /\ Extra(tar, list) = {}
    BY DEF Verifies
  <2>5. Missing(fw, old) = {} /\ Unresolved(tar) = {}
    BY <2>1, <2>3 DEF Closed, Harvested
  <2>6. tree \in Editions
    BY DEF InputInv, PlaceInv
  <2>7. Paths(STRING, fw, old) /\ Paths(STRING, fw, list)
    BY <2>6, PathsAssumption DEF Paths, ReadList
  <2>8. FlatList(old) /\ FlatList(list)
    BY <2>6 DEF FlatLists
  <2> HIDE DEF list, tar, old, fw
  <2>9. \A m : /\ m \in DOMAIN tar => m \in DOMAIN TarOf(fw, list) /\ tar[m] = TarOf(fw, list)[m]
               /\ m \in DOMAIN TarOf(fw, list) \ DOMAIN tar => Under(m, old.exclude)
    BY <2>3, <2>4, <2>5, <2>7, <2>8, NoDrift
  <2>10. \A m : Under(m, old.exclude) => Under(m, EverExcluded)
    BY DEF Under, EverExcluded, old
  <2>11. \A m \in DOMAIN tar : tar[m].kind = "file" => tar[m].elf # "unreadable"
    BY <2>3 DEF ReadableHarvests, Harvested, fw, old
  <2>12. \A m \in DOMAIN tar : tar[m].kind = "file" =>
           \A n \in tar[m].needs : \E k \in DOMAIN tar :
             tar[k].kind = "file" /\ (Last(k) = n \/ tar[k].soname = n)
    BY <2>5, <2>11, ClosedIs
  <2>13. TarNow(d) = TarOf(fw, list)
    BY DEF TarNow, fw, list
  <2> QED BY <2>2, <2>9, <2>10, <2>12, <2>13 DEF PreparedIsWhole, tar
<1> QED BY <1>1, InputInvariant, PTL

-----------------------------------------------------------------------------
\* The stamps of a payload

\* What a stamp says.
Items == STRING \ {"version", "build", Newline}
Stampable == {s \in Seq(Items) : Len(s) < CHUNK}

\* Only a root has stamps, and what it says it took of an edition.
RootFields == {"kind", "vendor", "whole", "version", "build"}
RootSays(f) ==
  f.kind = "root" =>
    f = [x \in RootFields |-> f[x]] /\ f.version \in Stampable /\ f.build \in Stampable
ImageSays(image) ==
  IsWhole(image) =>
    /\ image = [f \in DOMAIN EmptyImage |-> image[f]]
    /\ image.uboot.kind # "root" /\ image.boot.kind # "root" /\ RootSays(image.rootfs)
StampInv ==
  /\ work.itb.kind # "root"
  /\ RootSays(work.rootfs)
  /\ IsWhole(work.buildId) => work.buildId.id \in Stampable
  /\ ImageSays(work.image)

-----------------------------------------------------------------------------
\* Where t stands in s, behind its first i items.
StandsAt(t, s, i) == \A k \in 1 .. Len(t) : s[i + k] = t[k]

\* What a part of a sequence holds stands in the sequence, within the part.
LEMMA OccursIs ==
  ASSUME NEW S, NEW s \in Seq(S), NEW t \in Seq(S), NEW a \in Nat, NEW b \in Nat,
         a <= b, b <= Len(s)
  PROVE  Occurs(t, SubSeq(s, a + 1, b)) <=> \E i \in a .. b - Len(t) : StandsAt(t, s, i)
<1> DEFINE part == SubSeq(s, a + 1, b)
<1>1. Len(s) \in Nat /\ Len(t) \in Nat
  BY LenProperties
<1>2. /\ part \in Seq(S) /\ Len(part) = b - a
      /\ \A i \in 1 .. b - a : part[i] = s[a + i]
  <2>1. \A i \in a + 1 .. b : s[i] \in S
    BY <1>1, ElementOfSeq
  <2>2. /\ part \in Seq(S) /\ Len(part) = IF a + 1 <= b THEN b - (a + 1) + 1 ELSE 0
        /\ \A i \in 1 .. b - (a + 1) + 1 : part[i] = s[a + 1 + i - 1]
    BY <2>1, SubSeqProperties
  <2> HIDE DEF part
  <2> QED BY <2>2
<1> HIDE DEF part
<1>3. ASSUME NEW i \in 0 .. Len(part) - Len(t)
      PROVE  SubSeq(part, i + 1, i + Len(t)) = t <=> StandsAt(t, s, a + i)
  <2> DEFINE u == SubSeq(part, i + 1, i + Len(t))
  <2>1. \A k \in i + 1 .. i + Len(t) : part[k] \in S
    BY <1>1, <1>2, ElementOfSeq
  <2>2. /\ u \in Seq(S)
        /\ Len(u) = IF i + 1 <= i + Len(t) THEN i + Len(t) - (i + 1) + 1 ELSE 0
        /\ \A k \in 1 .. i + Len(t) - (i + 1) + 1 : u[k] = part[i + 1 + k - 1]
    BY <1>1, <1>2, <2>1, SubSeqProperties
  <2> HIDE DEF u
  <2>3. /\ u \in Seq(S) /\ Len(u) = Len(t)
        /\ \A k \in 1 .. Len(t) : u[k] = s[a + i + k]
    <3>1. u \in Seq(S) /\ Len(u) = Len(t)
      BY <1>1, <2>2
    <3>2. ASSUME NEW k \in 1 .. Len(t)
          PROVE  u[k] = s[a + i + k]
      <4>1. /\ i + k \in 1 .. b - a /\ i + 1 + k - 1 = i + k /\ a + (i + k) = a + i + k
            /\ k \in 1 .. i + Len(t) - (i + 1) + 1
        BY <1>1, <1>2
      <4>2. u[k] = part[i + 1 + k - 1]
        BY <2>2, <4>1
      <4>3. part[i + k] = s[a + (i + k)]
        BY <1>2, <4>1
      <4> QED BY <4>1, <4>2, <4>3
    <3> QED BY <3>1, <3>2
  <2>4. u = t => StandsAt(t, s, a + i)
    BY <2>3 DEF StandsAt
  <2>5. StandsAt(t, s, a + i) => u = t
    BY <2>3, SeqEqual DEF StandsAt
  <2> QED BY <2>4, <2>5 DEF u
<1>4. ASSUME Occurs(t, part)
      PROVE  \E i \in a .. b - Len(t) : StandsAt(t, s, i)
  <2>1. PICK i \in 0 .. Len(part) - Len(t) : SubSeq(part, i + 1, i + Len(t)) = t
    BY <1>4 DEF Occurs
  <2>2. a + i \in a .. b - Len(t)
    BY <1>1, <1>2
  <2>3. StandsAt(t, s, a + i)
    BY <1>3, <2>1
  <2> QED BY <2>2, <2>3
<1>5. ASSUME NEW j \in a .. b - Len(t), StandsAt(t, s, j)
      PROVE  Occurs(t, part)
  <2> DEFINE i == j - a
  <2>1. i \in 0 .. Len(part) - Len(t) /\ a + i = j
    BY <1>1, <1>2
  <2> HIDE DEF i
  <2>2. SubSeq(part, i + 1, i + Len(t)) = t
    BY <1>3, <1>5, <2>1
  <2> QED BY <2>1, <2>2 DEF Occurs
<1> QED BY <1>4, <1>5 DEF part

\* The greater, and the lesser, of two.
LEMMA MaxMin ==
  ASSUME NEW a \in Int, NEW b \in Int
  PROVE  /\ Max({a, b}) = IF a <= b THEN b ELSE a
         /\ Min({a, b}) = IF a <= b THEN a ELSE b
<1>1. PICK x : x = (IF a <= b THEN b ELSE a)
  OBVIOUS
<1>2. PICK y : y = (IF a <= b THEN a ELSE b)
  OBVIOUS
<1>3. Max({a, b}) \in {a, b} /\ \A z \in {a, b} : Max({a, b}) >= z
  <2>1. \E m \in {a, b} : \A z \in {a, b} : m >= z
    BY <1>1
  <2> QED BY <2>1, Zenon DEF Max
<1>4. Min({a, b}) \in {a, b} /\ \A z \in {a, b} : Min({a, b}) =< z
  <2>1. \E m \in {a, b} : \A z \in {a, b} : m =< z
    BY <1>2
  <2> QED BY <2>1, Zenon DEF Min
<1> QED BY <1>3, <1>4

LEMMA MaxOfThree ==
  ASSUME NEW a \in Int, NEW b \in Int, NEW c \in Int
  PROVE  /\ Max({a, b, c}) \in {a, b, c}
         /\ Max({a, b, c}) >= a /\ Max({a, b, c}) >= b /\ Max({a, b, c}) >= c
<1>1. \E m \in {a, b, c} : \A z \in {a, b, c} : m >= z
  <2>1. CASE a >= b /\ a >= c
    BY <2>1
  <2>2. CASE b >= a /\ b >= c
    BY <2>2
  <2>3. CASE c >= a /\ c >= b
    BY <2>3
  <2> QED BY <2>1, <2>2, <2>3
<1>2. Max({a, b, c}) \in {a, b, c} /\ \A z \in {a, b, c} : Max({a, b, c}) >= z
  BY <1>1, Zenon DEF Max
<1> QED BY <1>2

\* The chunk an item lies in.
LEMMA ChunkOf ==
  ASSUME NEW n \in Nat, NEW N \in Nat, n < N
  PROVE  \E i \in 1 .. N \div CHUNK + 1 : (i - 1) * CHUNK <= n /\ n < i * CHUNK
<1> DEFINE q == n \div CHUNK
<1>1. CHUNK \in Nat /\ CHUNK > 0
  BY ChunkAssumption
<1>2. q \in Nat /\ q * CHUNK <= n /\ n < (q + 1) * CHUNK
  BY <1>1
<1>3. N \div CHUNK \in Nat /\ q <= N \div CHUNK
  BY <1>1
<1> HIDE DEF q
<1>4. q + 1 \in 1 .. N \div CHUNK + 1 /\ q + 1 - 1 = q
  BY <1>2, <1>3
<1> QED BY <1>2, <1>4

\* The scan sees a stamp no longer than a chunk just when it is in the slot, over the end
\* of a chunk or not.
LEMMA SeenIs ==
  ASSUME NEW S, NEW slot \in Seq(S), NEW v \in Seq(S), NEW b \in Seq(S),
         NEW s \in {v, b}, Len(v) \in 1 .. CHUNK, Len(b) \in 1 .. CHUNK
  PROVE  s \in Seen(slot, {v, b}) <=> \E i \in 0 .. Len(slot) - Len(s) : StandsAt(s, slot, i)
<1> DEFINE L == Len(slot)
           W == Window({v, b})
           from(i) == Max({(i - 1) * CHUNK - W, (i - 2) * CHUNK, 0})
           to(i) == Min({i * CHUNK, L})
           chunks == 1 .. L \div CHUNK + 1
<1>1. CHUNK \in Nat /\ CHUNK > 0 /\ L \in Nat /\ Len(s) \in 1 .. CHUNK
  BY ChunkAssumption, LenProperties
<1>2. s \in Seen(slot, {v, b}) <=>
        \E i \in chunks : Occurs(s, SubSeq(slot, from(i) + 1, to(i)))
  BY DEF Seen
<1>3. W \in Nat /\ Len(s) <= W
  <2>1. {Len(x) : x \in {v, b}} = {Len(v), Len(b)}
    OBVIOUS
  <2>2. Max({Len(v), Len(b)}) = IF Len(v) <= Len(b) THEN Len(b) ELSE Len(v)
    <3>1. Len(v) \in Int /\ Len(b) \in Int
      BY <1>1
    <3> QED BY <3>1, MaxMin, Zenon
  <2>3. W = Max({Len(v), Len(b)})
    BY <2>1, Zenon DEF Window
  <2> QED BY <1>1, <2>2, <2>3
<1> HIDE DEF L, W
<1>4. ASSUME NEW i \in chunks
      PROVE  /\ from(i) \in Nat /\ to(i) \in Nat
             /\ from(i) <= to(i) /\ to(i) <= L
             /\ from(i) <= (IF i = 1 THEN 0 ELSE (i - 1) * CHUNK)
             /\ from(i) \in {(i - 1) * CHUNK - W, (i - 2) * CHUNK, 0}
             /\ to(i) = IF i * CHUNK <= L THEN i * CHUNK ELSE L
  <2> DEFINE c == (i - 1) * CHUNK
  <2>1. c \in Nat /\ c <= L /\ i * CHUNK = c + CHUNK /\ (i - 2) * CHUNK = c - CHUNK
        /\ (i = 1 => c = 0)
    <3>1. L \div CHUNK \in Nat /\ (L \div CHUNK) * CHUNK <= L
      BY <1>1
    <3>2. i - 1 \in Nat /\ i - 1 <= L \div CHUNK
      BY <3>1
    <3>3. (i - 1) * CHUNK <= (L \div CHUNK) * CHUNK
      BY <1>1, <3>1, <3>2
    <3> QED BY <1>1, <3>1, <3>2, <3>3
  <2> HIDE DEF c
  <2>2. from(i) = Max({c - W, c - CHUNK, 0}) /\ to(i) = Min({c + CHUNK, L})
    BY <2>1 DEF c
  <2>3. /\ Max({c - W, c - CHUNK, 0}) \in {c - W, c - CHUNK, 0}
        /\ Max({c - W, c - CHUNK, 0}) >= 0
    <3>1. c - W \in Int /\ c - CHUNK \in Int /\ 0 \in Int
      BY <1>1, <1>3, <2>1
    <3> QED BY <3>1, MaxOfThree, Zenon
  <2>4. Min({c + CHUNK, L}) = IF c + CHUNK <= L THEN c + CHUNK ELSE L
    <3>1. c + CHUNK \in Int /\ L \in Int
      BY <1>1, <2>1
    <3> QED BY <3>1, MaxMin, Zenon
  <2> HIDE DEF from, to
  <2> QED BY <1>1, <1>3, <2>1, <2>2, <2>3, <2>4 DEF c
<1> HIDE DEF from, to
<1>5. ASSUME NEW i \in chunks
      PROVE  Occurs(s, SubSeq(slot, from(i) + 1, to(i))) <=>
               \E j \in from(i) .. to(i) - Len(s) : StandsAt(s, slot, j)
  BY <1>4, OccursIs DEF L
<1>6. ASSUME NEW i \in chunks, NEW j \in from(i) .. to(i) - Len(s), StandsAt(s, slot, j)
      PROVE  \E k \in 0 .. L - Len(s) : StandsAt(s, slot, k)
  <2>1. j \in 0 .. L - Len(s)
    BY <1>1, <1>4
  <2> QED BY <1>6, <2>1
\* It is seen in the chunk its last item lies in.
<1>7. ASSUME NEW j \in 0 .. L - Len(s), StandsAt(s, slot, j)
      PROVE  \E i \in chunks : \E k \in from(i) .. to(i) - Len(s) : StandsAt(s, slot, k)
  <2> DEFINE n == j + Len(s) - 1
  <2>1. n \in Nat /\ n < L
    BY <1>1
  <2>2. PICK i \in chunks : (i - 1) * CHUNK <= n /\ n < i * CHUNK
    BY <1>1, <2>1, ChunkOf
  <2>3. /\ (i - 1) * CHUNK \in Int /\ i * CHUNK \in Int
        /\ (i - 2) * CHUNK = (i - 1) * CHUNK - CHUNK
    BY <1>1
  <2>4. from(i) <= j
    <3> DEFINE c == (i - 1) * CHUNK
    <3>1. c \in Int /\ c <= n /\ from(i) \in {c - W, c - CHUNK, 0}
      BY <1>4, <2>2, <2>3
    <3> HIDE DEF c
    <3> QED BY <1>1, <1>3, <3>1
  <2>5. j <= to(i) - Len(s)
    BY <1>1, <1>4, <2>2, <2>3
  <2>6. j \in from(i) .. to(i) - Len(s)
    BY <1>1, <1>4, <2>4, <2>5
  <2> QED BY <1>7, <2>6
<1> QED BY <1>2, <1>5, <1>6, <1>7 DEF L

\* What a slot and its stamps are made of.
Text == Items \cup {"version", "build", Newline}

LEMMA Texts ==
  ASSUME NEW x \in Seq(Items), NEW w \in {"version", "build", Newline}
  PROVE  /\ x \in Seq(Text) /\ <<w>> \in Seq(Text) /\ Len(<<w>>) = 1 /\ <<w>>[1] = w
         /\ Len(x) \in Nat
         /\ \A i \in 1 .. Len(x) : x[i] \in Items
<1>1. Items \subseteq Text /\ w \in Text
  BY DEF Text
<1>2. x \in Seq(Text)
  BY <1>1, SeqMonotonic
<1>3. <<w>> \in Seq(Text) /\ Len(<<w>>) = 1 /\ <<w>>[1] = w
  BY <1>1
<1> QED BY <1>2, <1>3, LenProperties, ElementOfSeq

LEMMA ItemsAre == \A x \in Items : x \notin {"version", "build", Newline}
  BY DEF Items

\* A stamp is its name and what it says.
LEMMA StampIs ==
  ASSUME NEW x \in Seq(Items), NEW w \in {"version", "build"}
  PROVE  /\ <<w>> \o x \in Seq(Text) /\ Len(<<w>> \o x) = Len(x) + 1
         /\ (<<w>> \o x)[1] = w
         /\ \A k \in 1 .. Len(x) : (<<w>> \o x)[k + 1] = x[k]
<1> DEFINE a == <<w>>
           s == a \o x
<1>1. a \in Seq(Text) /\ Len(a) = 1 /\ a[1] = w /\ x \in Seq(Text) /\ Len(x) \in Nat
  BY Texts
<1> HIDE DEF a
<1>2. /\ s \in Seq(Text) /\ Len(s) = Len(a) + Len(x)
      /\ \A i \in 1 .. Len(a) + Len(x) : s[i] = IF i <= Len(a) THEN a[i] ELSE x[i - Len(a)]
  BY <1>1, ConcatProperties
<1> HIDE DEF s
<1>3. s[1] = w
  BY <1>1, <1>2
<1>4. ASSUME NEW k \in 1 .. Len(x) PROVE s[k + 1] = x[k]
  <2>1. k + 1 \in 1 .. Len(a) + Len(x) /\ k + 1 - Len(a) = k /\ ~(k + 1 <= Len(a))
    BY <1>1
  <2> QED BY <1>2, <2>1
<1>5. s \in Seq(Text) /\ Len(s) = Len(x) + 1
  BY <1>1, <1>2
<1> QED BY <1>3, <1>4, <1>5 DEF s, a

\* The slot of anything but a root has line ends only.
LEMMA BareSlot ==
  ASSUME NEW f, NEW shift \in Nat, f.kind # "root"
  PROVE  /\ SlotAt(f, shift) \in Seq(Text) /\ Len(SlotAt(f, shift)) = shift
         /\ \A i \in 1 .. shift : SlotAt(f, shift)[i] = Newline
<1> DEFINE lead == [i \in 1 .. shift |-> Newline]
<1>1. lead \in Seq(Text) /\ Len(lead) = shift /\ \A i \in 1 .. shift : lead[i] = Newline
  <2>1. lead \in [1 .. shift -> Text]
    BY DEF Text
  <2> QED BY <2>1
<1> HIDE DEF lead
<1>2. SlotAt(f, shift) = lead \o <<>>
  BY DEF SlotAt, lead
<1>3. lead \o <<>> = lead
  BY <1>1, ConcatEmptySeq
<1> QED BY <1>1, <1>2, <1>3

\* Where the slot of a root has what: the stamps, each on a line of its own.
LEMMA RootSlot ==
  ASSUME NEW f, NEW shift \in Nat, f.kind = "root",
         f.version \in Seq(Items), f.build \in Seq(Items)
  PROVE  LET v == f.version
             b == f.build
             slot == SlotAt(f, shift)
         IN /\ slot \in Seq(Text) /\ Len(slot) = shift + Len(v) + Len(b) + 4
            /\ \A i \in 1 .. shift : slot[i] = Newline
            /\ \A k \in 1 .. Len(v) + 1 : slot[shift + k] = VersionStamp(v)[k]
            /\ slot[shift + Len(v) + 2] = Newline
            /\ \A k \in 1 .. Len(b) + 1 : slot[shift + Len(v) + 2 + k] = BuildStamp(b)[k]
            /\ slot[shift + Len(v) + Len(b) + 4] = Newline
<1> DEFINE v == f.version
           b == f.build
           lead == [i \in 1 .. shift |-> Newline]
           vs == VersionStamp(v)
           bs == BuildStamp(b)
           end == <<Newline>>
           s1 == vs \o end
           s2 == s1 \o bs
           s3 == s2 \o end
           slot == lead \o s3
<1>1. slot = SlotAt(f, shift)
  BY DEF SlotAt
<1>2. lead \in Seq(Text) /\ Len(lead) = shift /\ \A i \in 1 .. shift : lead[i] = Newline
  <2>1. lead \in [1 .. shift -> Text]
    BY DEF Text
  <2> QED BY <2>1
<1>3. /\ vs \in Seq(Text) /\ Len(vs) = Len(v) + 1 /\ bs \in Seq(Text) /\ Len(bs) = Len(b) + 1
  BY StampIs DEF VersionStamp, BuildStamp
<1>4. end \in Seq(Text) /\ Len(end) = 1 /\ end[1] = Newline
  BY Texts
<1>5. Len(v) \in Nat /\ Len(b) \in Nat
  BY LenProperties
<1> HIDE DEF v, b, lead, vs, bs, end
<1>6. /\ s1 \in Seq(Text) /\ Len(s1) = Len(vs) + Len(end)
      /\ \A i \in 1 .. Len(vs) + Len(end) :
           s1[i] = IF i <= Len(vs) THEN vs[i] ELSE end[i - Len(vs)]
  BY <1>3, <1>4, ConcatProperties
<1> HIDE DEF s1
<1>7. /\ s2 \in Seq(Text) /\ Len(s2) = Len(s1) + Len(bs)
      /\ \A i \in 1 .. Len(s1) + Len(bs) :
           s2[i] = IF i <= Len(s1) THEN s1[i] ELSE bs[i - Len(s1)]
  <2>1. s1 \in Seq(Text) /\ bs \in Seq(Text)
    BY <1>3, <1>6
  <2> QED BY ONLY <2>1, ConcatProperties
<1> HIDE DEF s2
<1>8. /\ s3 \in Seq(Text) /\ Len(s3) = Len(s2) + Len(end)
      /\ \A i \in 1 .. Len(s2) + Len(end) :
           s3[i] = IF i <= Len(s2) THEN s2[i] ELSE end[i - Len(s2)]
  <2>1. s2 \in Seq(Text) /\ end \in Seq(Text)
    BY <1>4, <1>7
  <2> QED BY ONLY <2>1, ConcatProperties
<1> HIDE DEF s3
<1>9. /\ slot \in Seq(Text) /\ Len(slot) = Len(lead) + Len(s3)
      /\ \A i \in 1 .. Len(lead) + Len(s3) :
           slot[i] = IF i <= Len(lead) THEN lead[i] ELSE s3[i - Len(lead)]
  <2>1. lead \in Seq(Text) /\ s3 \in Seq(Text)
    BY <1>2, <1>8
  <2> QED BY ONLY <2>1, ConcatProperties
<1> HIDE DEF slot
<1>10. Len(s1) = Len(v) + 2 /\ Len(s2) = Len(v) + Len(b) + 3 /\ Len(s3) = Len(v) + Len(b) + 4
  BY <1>3, <1>4, <1>5, <1>6, <1>7, <1>8
<1>11. slot \in Seq(Text) /\ Len(slot) = shift + Len(v) + Len(b) + 4
  BY <1>2, <1>5, <1>9, <1>10
<1>12. \A i \in 1 .. shift : slot[i] = Newline
  BY <1>2, <1>5, <1>9, <1>10
<1>13. ASSUME NEW k \in 1 .. Len(v) + Len(b) + 4 PROVE slot[shift + k] = s3[k]
  <2>1. shift + k \in 1 .. Len(lead) + Len(s3) /\ ~(shift + k <= Len(lead))
        /\ shift + k - Len(lead) = k
    BY <1>2, <1>5, <1>10
  <2> QED BY <1>9, <2>1
<1>14. ASSUME NEW k \in 1 .. Len(v) + 2 PROVE s3[k] = s1[k]
  <2>1. k \in 1 .. Len(s2) + Len(end) /\ k <= Len(s2) /\ k \in 1 .. Len(s1) + Len(bs)
        /\ k <= Len(s1)
    BY <1>3, <1>4, <1>5, <1>10
  <2> QED BY <1>7, <1>8, <2>1
<1>15. ASSUME NEW k \in 1 .. Len(b) + 1 PROVE s3[Len(v) + 2 + k] = bs[k]
  <2> DEFINE i == Len(v) + 2 + k
  <2>1. i \in 1 .. Len(s2) + Len(end) /\ i <= Len(s2) /\ i \in 1 .. Len(s1) + Len(bs)
        /\ ~(i <= Len(s1)) /\ i - Len(s1) = k
    BY <1>3, <1>4, <1>5, <1>10
  <2> HIDE DEF i
  <2>2. s3[i] = bs[k]
    BY <1>7, <1>8, <2>1
  <2> QED BY <2>2 DEF i
<1>16. \A k \in 1 .. Len(v) + 1 : slot[shift + k] = vs[k]
  <2> TAKE k \in 1 .. Len(v) + 1
  <2>1. k \in 1 .. Len(v) + Len(b) + 4 /\ k \in 1 .. Len(v) + 2 /\ k \in 1 .. Len(vs) + Len(end)
        /\ k <= Len(vs)
    BY <1>3, <1>4, <1>5
  <2> QED BY <1>6, <1>13, <1>14, <2>1
<1>17. slot[shift + Len(v) + 2] = Newline
  <2> DEFINE k == Len(v) + 2
  <2>1. k \in 1 .. Len(v) + Len(b) + 4 /\ k \in 1 .. Len(v) + 2 /\ k \in 1 .. Len(vs) + Len(end)
        /\ ~(k <= Len(vs)) /\ k - Len(vs) = 1 /\ shift + k = shift + Len(v) + 2
    BY <1>3, <1>4, <1>5
  <2> HIDE DEF k
  <2>2. slot[shift + k] = Newline
    BY <1>4, <1>6, <1>13, <1>14, <2>1
  <2> QED BY <2>1, <2>2
<1>18. \A k \in 1 .. Len(b) + 1 : slot[shift + Len(v) + 2 + k] = bs[k]
  <2> TAKE k \in 1 .. Len(b) + 1
  <2> DEFINE i == Len(v) + 2 + k
  <2>1. i \in 1 .. Len(v) + Len(b) + 4 /\ shift + i = shift + Len(v) + 2 + k
    BY <1>5
  <2>2. s3[i] = bs[k]
    BY <1>15
  <2> HIDE DEF i
  <2>3. slot[shift + i] = bs[k]
    BY <1>13, <2>1, <2>2
  <2> QED BY <2>1, <2>3
<1>19. slot[shift + Len(v) + Len(b) + 4] = Newline
  <2> DEFINE k == Len(v) + Len(b) + 4
  <2>1. k \in 1 .. Len(v) + Len(b) + 4 /\ k \in 1 .. Len(s2) + Len(end) /\ ~(k <= Len(s2))
        /\ k - Len(s2) = 1 /\ shift + k = shift + Len(v) + Len(b) + 4
    BY <1>4, <1>5, <1>10
  <2> HIDE DEF k
  <2>2. slot[shift + k] = Newline
    BY <1>4, <1>8, <1>13, <2>1
  <2> QED BY <2>1, <2>2
<1> QED BY <1>1, <1>11, <1>12, <1>16, <1>17, <1>18, <1>19 DEF v, b, vs, bs

\* A stamp that stands where the line of another begins is the beginning of it.
LEMMA LineIs ==
  ASSUME NEW slot, NEW a \in Nat, NEW w \in {"version", "build"},
         NEW v \in Seq(Items), NEW x \in Seq(Items),
         \A k \in 1 .. Len(v) + 1 : slot[a + k] = (<<w>> \o v)[k],
         slot[a + Len(v) + 2] = Newline,
         StandsAt(<<w>> \o x, slot, a)
  PROVE  IsPrefix(x, v)
<1>1. Len(x) \in Nat /\ Len(v) \in Nat
  BY LenProperties
<1>2. ASSUME NEW k \in 1 .. Len(x) PROVE slot[a + (k + 1)] = x[k]
  <2>1. k + 1 \in 1 .. Len(<<w>> \o x) /\ (<<w>> \o x)[k + 1] = x[k]
    BY <1>1, StampIs
  <2> QED BY <2>1 DEF StandsAt
<1>3. Len(x) <= Len(v)
  <2> SUFFICES ASSUME Len(v) < Len(x) PROVE FALSE
    BY <1>1
  <2> DEFINE k == Len(v) + 1
  <2>1. k \in 1 .. Len(x) /\ a + (k + 1) = a + Len(v) + 2
    BY <1>1
  <2> HIDE DEF k
  <2>2. x[k] = Newline /\ x[k] \in Items
    BY <1>2, <2>1, Texts
  <2> QED BY <2>2, ItemsAre
<1>4. ASSUME NEW k \in 1 .. Len(x) PROVE x[k] = v[k]
  <2>1. k \in 1 .. Len(v) /\ k + 1 \in 1 .. Len(v) + 1
    BY <1>1, <1>3
  <2>2. (<<w>> \o v)[k + 1] = v[k]
    BY <2>1, StampIs
  <2> QED BY <1>2, <2>1, <2>2
<1> QED BY <1>3, <1>4, PrefixOf

\* The two stamps of a root stand in its slot, and no others but their beginnings.
LEMMA StampsInRoot ==
  ASSUME NEW f, NEW x \in Seq(Items), NEW shift \in Nat, f.kind = "root",
         f.version \in Seq(Items), f.build \in Seq(Items)
  PROVE  LET v == f.version
             b == f.build
             slot == SlotAt(f, shift)
         IN /\ \E i \in 0 .. Len(slot) - Len(VersionStamp(v)) :
                 StandsAt(VersionStamp(v), slot, i)
            /\ \E i \in 0 .. Len(slot) - Len(BuildStamp(b)) :
                 StandsAt(BuildStamp(b), slot, i)
            /\ \A i \in 0 .. Len(slot) - Len(VersionStamp(x)) :
                 StandsAt(VersionStamp(x), slot, i) => IsPrefix(x, v)
            /\ \A i \in 0 .. Len(slot) - Len(BuildStamp(x)) :
                 StandsAt(BuildStamp(x), slot, i) => IsPrefix(x, b)
<1> DEFINE v == f.version
           b == f.build
           slot == SlotAt(f, shift)
<1>1. Len(v) \in Nat /\ Len(b) \in Nat /\ Len(x) \in Nat
  BY LenProperties
<1>2. /\ Len(slot) = shift + Len(v) + Len(b) + 4
      /\ \A i \in 1 .. shift : slot[i] = Newline
      /\ \A k \in 1 .. Len(v) + 1 : slot[shift + k] = VersionStamp(v)[k]
      /\ slot[shift + Len(v) + 2] = Newline
      /\ \A k \in 1 .. Len(b) + 1 : slot[shift + Len(v) + 2 + k] = BuildStamp(b)[k]
      /\ slot[shift + Len(v) + Len(b) + 4] = Newline
  BY RootSlot
<1> v \in Seq(Items) /\ b \in Seq(Items)
  OBVIOUS
<1> HIDE DEF slot, v, b
<1>3. PICK mid \in Nat : mid = shift + Len(v) + 2
  BY <1>1
<1>4. slot[mid] = Newline /\ \A k \in 1 .. Len(b) + 1 : slot[mid + k] = BuildStamp(b)[k]
  BY <1>2, <1>3
<1>5. /\ \A y \in {v, x} : Len(VersionStamp(y)) = Len(y) + 1 /\ VersionStamp(y)[1] = "version"
      /\ \A y \in {b, x} : Len(BuildStamp(y)) = Len(y) + 1 /\ BuildStamp(y)[1] = "build"
      /\ \A k \in 1 .. Len(v) : VersionStamp(v)[k + 1] = v[k] /\ v[k] \in Items
      /\ \A k \in 1 .. Len(b) : BuildStamp(b)[k + 1] = b[k] /\ b[k] \in Items
  BY StampIs, Texts DEF VersionStamp, BuildStamp
\* Where the names are.
<1>6. ASSUME NEW n \in 1 .. Len(slot)
      PROVE  /\ slot[n] = "version" => n = shift + 1
             /\ slot[n] = "build" => n = mid + 1
  <2>1. Newline \notin {"version", "build"} /\ "version" # "build"
    BY DEF Newline
  <2>2. CASE n <= shift
    BY <1>2, <2>1, <2>2
  <2>3. CASE n = shift + 1
    <3>1. 1 \in 1 .. Len(v) + 1
      BY <1>1
    <3>2. slot[n] = "version"
      BY <1>2, <1>5, <2>3, <3>1
    <3> QED BY <2>1, <2>3, <3>2
  <2>4. CASE shift + 1 < n /\ n < mid
    <3> DEFINE k == n - shift - 1
    <3>1. k \in 1 .. Len(v) /\ k + 1 \in 1 .. Len(v) + 1 /\ shift + (k + 1) = n
      BY <1>1, <1>3, <2>4
    <3> HIDE DEF k
    <3>2. slot[n] = v[k] /\ v[k] \in Items
      BY <1>2, <1>5, <3>1
    <3> QED BY <3>2, ItemsAre
  <2>5. CASE n = mid
    BY <1>4, <2>1, <2>5
  <2>6. CASE n = mid + 1
    <3>1. 1 \in 1 .. Len(b) + 1
      BY <1>1
    <3>2. slot[n] = "build"
      BY <1>4, <1>5, <2>6, <3>1
    <3> QED BY <2>1, <2>6, <3>2
  <2>7. CASE mid + 1 < n /\ n < Len(slot)
    <3> DEFINE k == n - mid - 1
    <3>1. k \in 1 .. Len(b) /\ k + 1 \in 1 .. Len(b) + 1 /\ mid + (k + 1) = n
      BY <1>1, <1>2, <1>3, <2>7
    <3> HIDE DEF k
    <3>2. slot[n] = b[k] /\ b[k] \in Items
      BY <1>4, <1>5, <3>1
    <3> QED BY <3>2, ItemsAre
  <2>8. CASE n = Len(slot)
    BY <1>2, <2>1, <2>8
  <2>9. \/ n <= shift \/ n = shift + 1 \/ (shift + 1 < n /\ n < mid) \/ n = mid
        \/ n = mid + 1 \/ (mid + 1 < n /\ n < Len(slot)) \/ n = Len(slot)
    <3>1. n \in Nat /\ n <= Len(slot) /\ Len(slot) \in Nat
      BY <1>1, <1>2
    <3>2. mid \in Nat /\ shift \in Nat
      BY <1>3
    <3> QED BY ONLY <3>1, <3>2
  <2> QED BY <2>2, <2>3, <2>4, <2>5, <2>6, <2>7, <2>8, <2>9
<1>7. shift \in 0 .. Len(slot) - Len(VersionStamp(v)) /\ StandsAt(VersionStamp(v), slot, shift)
  BY <1>1, <1>2, <1>5 DEF StandsAt
<1>8. mid \in 0 .. Len(slot) - Len(BuildStamp(b)) /\ StandsAt(BuildStamp(b), slot, mid)
  BY <1>1, <1>2, <1>3, <1>4, <1>5 DEF StandsAt
<1>9. ASSUME NEW i \in 0 .. Len(slot) - Len(VersionStamp(x)), StandsAt(VersionStamp(x), slot, i)
      PROVE  IsPrefix(x, v)
  <2>1. i + 1 \in 1 .. Len(slot) /\ 1 \in 1 .. Len(VersionStamp(x))
    BY <1>1, <1>2, <1>5
  <2>2. slot[i + 1] = "version"
    BY <1>5, <1>9, <2>1 DEF StandsAt
  <2>3. i = shift
    BY <1>6, <2>1, <2>2
  <2>4. /\ StandsAt(<<"version">> \o x, slot, shift)
        /\ \A k \in 1 .. Len(v) + 1 : slot[shift + k] = (<<"version">> \o v)[k]
        /\ slot[shift + Len(v) + 2] = Newline
    BY <1>2, <1>3, <1>9, <2>3 DEF VersionStamp
  <2> QED BY <2>4, LineIs
<1>10. ASSUME NEW i \in 0 .. Len(slot) - Len(BuildStamp(x)), StandsAt(BuildStamp(x), slot, i)
      PROVE  IsPrefix(x, b)
  <2>1. i + 1 \in 1 .. Len(slot) /\ 1 \in 1 .. Len(BuildStamp(x))
    BY <1>1, <1>2, <1>5
  <2>2. slot[i + 1] = "build"
    BY <1>5, <1>10, <2>1 DEF StandsAt
  <2>3. i = mid
    BY <1>3, <1>6, <2>1, <2>2
  <2>4. mid + Len(b) + 2 = shift + Len(v) + Len(b) + 4
    BY <1>1, <1>3
  <2>5. /\ StandsAt(<<"build">> \o x, slot, mid)
        /\ \A k \in 1 .. Len(b) + 1 : slot[mid + k] = (<<"build">> \o b)[k]
        /\ slot[mid + Len(b) + 2] = Newline
    BY <1>2, <1>4, <1>10, <2>3, <2>4 DEF BuildStamp
  <2> QED BY <1>3, <2>5, LineIs
<1> QED BY <1>7, <1>8, <1>9, <1>10 DEF slot, v, b

-----------------------------------------------------------------------------
\* What may be written into a file of work for StampInv to go on.
Says(f, v) ==
  /\ f = "itb" => v.kind # "root"
  /\ f = "rootfs" => RootSays(v)
  /\ f = "buildId" => (IsWhole(v) => v.id \in Stampable)
  /\ f = "image" => ImageSays(v)

LEMMA SaysNothing ==
  ASSUME NEW f, NEW v \in {Absent, Cut}
  PROVE  Says(f, v)
BY DEF Says, RootSays, ImageSays, IsWhole, Absent, Cut

LEMMA StampFile ==
  ASSUME PlaceInv, StampInv, NEW f \in WorkFiles, NEW v, Says(f, v),
         work' = [work EXCEPT ![f] = v]
  PROVE  StampInv'
<1>1. work'[f] = v /\ \A g \in WorkFiles : g # f => work'[g] = work[g]
  BY Written DEF PlaceInv
<1>2. \A g \in WorkFiles : Says(g, work[g])
  BY DEF StampInv, Says
<1>3. \A g \in WorkFiles : Says(g, work'[g])
  BY <1>1, <1>2
<1>4. /\ Says("itb", work'.itb) /\ Says("rootfs", work'.rootfs)
      /\ Says("buildId", work'.buildId) /\ Says("image", work'.image)
  BY <1>3 DEF WorkFiles
<1>5. RootSays(work.rootfs)' <=> RootSays(work'.rootfs)
  BY DEF RootSays
<1>6. ImageSays(work.image)' <=> ImageSays(work'.image)
  BY DEF ImageSays, RootSays
<1> QED BY <1>4, <1>5, <1>6 DEF StampInv, Says

\* A region of the image written anew.
LEMMA StampRegion ==
  ASSUME NEW image, NEW r \in Regions, NEW v, IsWhole(image), ImageSays(image),
         image.kind = "image", v.kind # "root" \/ (r = "rootfs" /\ RootSays(v))
  PROVE  ImageSays([image EXCEPT ![r] = v])
<1> DEFINE new == [image EXCEPT ![r] = v]
<1>1. image = [f \in DOMAIN EmptyImage |-> image[f]]
  BY DEF ImageSays
<1>2. DOMAIN EmptyImage = {"kind", "uboot", "boot", "rootfs"}
  BY DEF EmptyImage
<1>3. /\ new = [f \in DOMAIN EmptyImage |-> new[f]] /\ new[r] = v
      /\ \A f \in DOMAIN EmptyImage : f # r => new[f] = image[f]
  BY <1>1, <1>2, Written DEF Regions
<1> HIDE DEF new
<1>4. /\ r # "uboot" => new.uboot = image.uboot
      /\ r # "boot" => new.boot = image.boot
      /\ r # "rootfs" => new.rootfs = image.rootfs
  BY <1>2, <1>3
<1>5. image.uboot.kind # "root" /\ image.boot.kind # "root" /\ RootSays(image.rootfs)
  BY DEF ImageSays
<1>6. CASE r = "rootfs"
  <2>1. RootSays(v)
    BY DEF RootSays
  <2> QED BY <1>3, <1>4, <1>5, <1>6, <2>1 DEF ImageSays, new
<1>7. CASE r # "rootfs"
  <2>1. v.kind # "root"
    BY <1>7
  <2> QED BY <1>3, <1>4, <1>5, <1>7, <2>1 DEF ImageSays, Regions, new
<1> QED BY <1>6, <1>7

LEMMA InitStamp == Init => StampInv
<1> SUFFICES ASSUME Init PROVE StampInv
  OBVIOUS
<1>1. /\ work.itb = Absent /\ work.rootfs = Absent /\ work.buildId = Absent
      /\ work.image = Absent
  BY DEF Init, NoWork
<1>2. /\ Says("itb", Absent) /\ Says("rootfs", Absent) /\ Says("buildId", Absent)
      /\ Says("image", Absent)
  BY SaysNothing
<1> QED BY <1>1, <1>2 DEF StampInv, Says

LEMMA EditionSays == \A e \in Editions : e.version \in Stampable /\ e.git \in Stampable
  BY StampsAssumption DEF Stampable, Items, Newline

\* A root half copied says what it said.
LEMMA HalfSays ==
  ASSUME NEW f, RootSays(f)
  PROVE  RootSays(HalfOf(f))
<1>1. CASE IsWhole(f) /\ f.kind = "root"
  <2> DEFINE h == [f EXCEPT !["whole"] = FALSE]
  <2>1. f = [x \in RootFields |-> f[x]] /\ "whole" \in RootFields
    BY <1>1 DEF RootSays, RootFields
  <2>2. /\ h = [x \in RootFields |-> h[x]]
        /\ \A x \in RootFields : x # "whole" => h[x] = f[x]
    BY <2>1, Written
  <2>3. h = HalfOf(f)
    BY <1>1 DEF HalfOf
  <2> HIDE DEF h
  <2>4. h.version = f.version /\ h.build = f.build
    BY <2>2 DEF RootFields
  <2> QED BY <1>1, <2>2, <2>3, <2>4 DEF RootSays
<1>2. CASE ~(IsWhole(f) /\ f.kind = "root")
  BY <1>2 DEF HalfOf
<1> QED BY <1>1, <1>2

LEMMA StopStamp ==
  ASSUME BuildInv, StampInv, Stop
  PROVE  StampInv'
<1>1. PlaceInv /\ StepInv
  BY DEF BuildInv, InputInv
<1>2. CASE UNCHANGED work
  BY <1>2 DEF StampInv, RootSays, ImageSays
<1>3. CASE \E f \in BeingWritten(WorkSteps) : work' = [work EXCEPT ![f] = Cut]
  <2>1. BeingWritten(WorkSteps) \subseteq WorkFiles
    BY DEF BeingWritten, WorkSteps, WorkFiles
  <2> QED BY <1>1, <1>3, <2>1, SaysNothing, StampFile
<1>4. CASE \E r \in BeingWritten(ImageSteps) : \E v \in StoppedIn(r) :
             work' = [work EXCEPT !["image"] = [work.image EXCEPT ![r] = v]]
  <2>1. PICK r \in BeingWritten(ImageSteps) : \E v \in StoppedIn(r) :
          work' = [work EXCEPT !["image"] = [work.image EXCEPT ![r] = v]]
    BY <1>4
  <2>2. PICK v \in StoppedIn(r) :
          work' = [work EXCEPT !["image"] = [work.image EXCEPT ![r] = v]]
    BY <2>1
  <2>3. r \in Regions /\ pc \in Composing
    <3>1. r \in DOMAIN ImageSteps /\ pc \in ImageSteps[r]
      BY DEF BeingWritten
    <3>2. r \in Regions
      BY <3>1 DEF ImageSteps, Regions
    <3>3. /\ ImageSteps["uboot"] = {"compose uboot"} /\ ImageSteps["boot"] = {"compose boot"}
          /\ ImageSteps["rootfs"] = {"compose rootfs"}
      BY DEF ImageSteps
    <3> QED BY <3>1, <3>2, <3>3 DEF Regions, Composing
  <2>4. IsWhole(work.image) /\ ImageSays(work.image) /\ work.image.kind = "image"
    BY <1>1, <2>3, KindsDiffer DEF StepInv, StampInv
  <2>5. v.kind # "root" \/ (r = "rootfs" /\ RootSays(v))
    <3>1. CASE v = Cut
      BY <3>1 DEF Cut
    <3>2. CASE r = "rootfs" /\ v = HalfOf(work.rootfs)
      BY <3>2, HalfSays DEF StampInv
    <3> QED BY <3>1, <3>2 DEF StoppedIn
  <2>6. ImageSays([work.image EXCEPT ![r] = v])
    BY <2>3, <2>4, <2>5, StampRegion
  <2>7. Says("image", [work.image EXCEPT ![r] = v])
    BY <2>6 DEF Says
  <2>8. "image" \in WorkFiles
    BY DEF WorkFiles
  <2> QED BY <1>1, <2>2, <2>7, <2>8, StampFile
<1> QED BY <1>2, <1>3, <1>4 DEF Stop

\* What builds, writes only what it took of the edition or made before.
LEMMA BuildStamps ==
  ASSUME BuildInv, StampInv, BuildActions
  PROVE  StampInv'
<1>1. PlaceInv /\ StepInv
  BY DEF BuildInv, InputInv
<1>2. ASSUME UNCHANGED work PROVE StampInv'
  BY <1>2 DEF StampInv, RootSays, ImageSays
<1>3. ASSUME Untouched PROVE StampInv'
  BY <1>2, <1>3 DEF Untouched
<1>4. ASSUME NEW f \in WorkFiles, NEW v, Work(f, v), Says(f, v) PROVE StampInv'
  BY <1>1, <1>4, StampFile DEF Work
<1>5. tree.version \in Stampable /\ tree.git \in Stampable
  BY <1>1, EditionSays DEF PlaceInv
<1>6. CASE BuildUboot
  <2> DEFINE fit == [kind |-> "fit", vendor |-> prep.uboot, map |-> tree.map]
  <2>1. Says("itb", fit)
    BY DEF Says
  <2>2. Untouched \/ Work("itb", fit)
    BY <1>6 DEF BuildUboot
  <2> QED BY <1>3, <1>4, <2>1, <2>2 DEF WorkFiles
<1>7. CASE UbootJson
  <2>1. PICK v : Work("meta", v)
    BY <1>7 DEF UbootJson
  <2>2. Says("meta", v)
    BY DEF Says
  <2> QED BY <1>4, <2>1, <2>2 DEF WorkFiles
<1>8. CASE BuildId
  <2> DEFINE id == [kind |-> "id", id |-> tree.git]
  <2>1. Says("buildId", id)
    BY <1>5 DEF Says
  <2>2. Work("buildId", id)
    BY <1>8 DEF BuildId
  <2> QED BY <1>4, <2>1, <2>2 DEF WorkFiles
<1>9. CASE Rootfs
  <2> DEFINE root == [kind |-> "root", vendor |-> prep.harvest, whole |-> TRUE,
                      version |-> tree.version, build |-> tree.git]
  <2>1. root = [x \in RootFields |-> root[x]]
    BY DEF RootFields
  <2>2. Says("rootfs", root)
    BY <1>5, <2>1 DEF Says, RootSays
  <2>3. Work("rootfs", root)
    BY <1>9 DEF Rootfs
  <2> QED BY <1>4, <2>2, <2>3 DEF WorkFiles
<1>10. CASE BuildImage
  <2>1. ImageSays(EmptyImage)
    BY DEF ImageSays, EmptyImage, RootSays, Absent
  <2>2. Says("image", EmptyImage)
    BY <2>1 DEF Says
  <2>3. Untouched \/ Work("image", EmptyImage)
    BY <1>10 DEF BuildImage
  <2> QED BY <1>3, <1>4, <2>2, <2>3 DEF WorkFiles
\* Putting a region into the image.
<1>11. ASSUME NEW r \in Regions, NEW v, ToImage(r, v), pc \in Composing,
              v.kind # "root" \/ (r = "rootfs" /\ RootSays(v))
       PROVE  StampInv'
  <2>1. IsWhole(work.image) /\ ImageSays(work.image) /\ work.image.kind = "image"
    BY <1>1, <1>11, KindsDiffer DEF StepInv, StampInv
  <2>2. ImageSays([work.image EXCEPT ![r] = v])
    BY <1>11, <2>1, StampRegion
  <2>3. Says("image", [work.image EXCEPT ![r] = v])
    BY <2>2 DEF Says
  <2> QED BY <1>4, <1>11, <2>3 DEF ToImage, WorkFiles
<1>12. CASE ComposeUboot
  <2> DEFINE v == IF arg = "mainline" THEN work.itb ELSE [kind |-> "stock", vendor |-> prep.uboot]
  <2>1. v.kind # "root"
    BY DEF StampInv
  <2>2. ToImage("uboot", v) /\ pc \in Composing
    BY <1>12 DEF ComposeUboot, Composing
  <2> HIDE DEF v
  <2> QED BY <1>11, <2>1, <2>2 DEF Regions
<1>13. CASE ComposeBoot
  <2> DEFINE v == [kind |-> "boot", vendor |-> prep.boot]
  <2>1. v.kind # "root"
    OBVIOUS
  <2>2. ToImage("boot", v) /\ pc \in Composing
    BY <1>13 DEF ComposeBoot, Composing
  <2> HIDE DEF v
  <2> QED BY <1>11, <2>1, <2>2 DEF Regions
<1>14. CASE ComposeRootfs
  <2>1. Untouched \/ (ToImage("rootfs", work.rootfs) /\ pc \in Composing)
    BY <1>14 DEF ComposeRootfs, Composing
  <2> QED BY <1>3, <1>11, <2>1 DEF Regions, StampInv
<1>15. CASE BuildUpdate
  <2>1. CASE Untouched
    BY <1>3, <2>1
  <2>2. CASE ~Untouched
    <3>1. PICK p : work' = [work EXCEPT !["payload"] = p]
      BY <1>15, <2>2 DEF BuildUpdate
    <3>2. Says("payload", p)
      BY DEF Says
    <3> QED BY <1>1, <3>1, <3>2, StampFile DEF WorkFiles
  <2> QED BY <2>1, <2>2
<1> QED BY <1>6, <1>7, <1>8, <1>9, <1>10, <1>12, <1>13, <1>14, <1>15 DEF BuildActions

LEMMA StampStep == BuildInv /\ StampInv /\ [Next]_vars => StampInv'
<1> SUFFICES ASSUME BuildInv, StampInv, [Next]_vars PROVE StampInv'
  OBVIOUS
<1>1. ASSUME UNCHANGED work PROVE StampInv'
  BY <1>1 DEF StampInv, RootSays, ImageSays
<1>2. CASE RemoveStale
  <2> DEFINE bare == [work EXCEPT !["rootfs"] = Absent]
  <2>1. PlaceInv
    BY DEF BuildInv, InputInv
  <2>2. work' = [bare EXCEPT !["image"] = Absent]
    BY <1>2 DEF RemoveStale
  <2>3. /\ bare = [g \in WorkFiles |-> bare[g]] /\ bare["rootfs"] = Absent
        /\ \A g \in WorkFiles : g # "rootfs" => bare[g] = work[g]
    BY <2>1, Written DEF PlaceInv, WorkFiles
  <2> HIDE DEF bare
  <2>4. /\ work'["image"] = Absent
        /\ \A g \in WorkFiles : g # "image" => work'[g] = bare[g]
    BY <2>2, <2>3, Written DEF WorkFiles
  <2>5. /\ work'.itb = work.itb /\ work'.buildId = work.buildId
        /\ work'.rootfs = Absent /\ work'.image = Absent
    BY <2>3, <2>4 DEF WorkFiles
  <2> QED BY <2>5 DEF StampInv, RootSays, ImageSays, IsWhole, Absent
<1>3. CASE \/ Edit \/ Prepare \/ Fetch \/ Pack \/ BuildAll \/ BuildStep
           \/ PrepareUboot \/ PrepareBoot \/ Harvest \/ Source
           \/ FetchSource \/ Compare \/ Download \/ Unpack
           \/ PackBundle \/ Publish \/ UNCHANGED vars
  <2>1. UNCHANGED work
    BY <1>3 DEF Edit, Prepare, Fetch, Pack, BuildAll, BuildStep, Run, PrepareUboot, PrepareBoot,
       Harvest, Source, FetchSource, Compare, Download, Unpack, PackBundle, Publish, Prep, Rest,
       Untouched, vars
  <2> QED BY <1>1, <2>1
<1> QED BY <1>2, <1>3, StopStamp, BuildStamps DEF Next, BuildActions

-----------------------------------------------------------------------------
\* A region that is no root shows no stamp.
LEMMA NoneInBare ==
  ASSUME NEW f, NEW shift \in Nat, NEW x \in Seq(Items), NEW w \in {"version", "build"},
         NEW i \in 0 .. Len(SlotAt(f, shift)) - Len(<<w>> \o x),
         StandsAt(<<w>> \o x, SlotAt(f, shift), i)
  PROVE  f.kind = "root"
<1> SUFFICES ASSUME f.kind # "root" PROVE FALSE
  OBVIOUS
<1>1. Len(SlotAt(f, shift)) = shift /\ \A n \in 1 .. shift : SlotAt(f, shift)[n] = Newline
  BY BareSlot
<1>2. Len(<<w>> \o x) = Len(x) + 1 /\ (<<w>> \o x)[1] = w /\ Len(x) \in Nat
  BY StampIs, Texts
<1>3. i + 1 \in 1 .. shift /\ 1 \in 1 .. Len(<<w>> \o x)
  BY <1>1, <1>2
<1>4. SlotAt(f, shift)[i + 1] = w
  BY <1>2, <1>3 DEF StandsAt
<1> QED BY <1>1, <1>3, <1>4 DEF Newline

\* What the scan of an image's regions says of its root.
LEMMA ScanIs ==
  ASSUME NEW image, NEW shift \in Nat, NEW v \in Stampable, NEW b \in Stampable,
         IsWhole(image), ImageSays(image)
  PROVE  LET stamps == {VersionStamp(v), BuildStamp(b)}
             seen == UNION {Seen(SlotAt(image[r], shift), stamps) : r \in Regions}
         IN /\ image.rootfs.kind = "root" /\ image.rootfs.version = v /\ image.rootfs.build = b
                 => seen = stamps
            /\ seen = stamps =>
                 IsPrefix(v, image.rootfs.version) /\ IsPrefix(b, image.rootfs.build)
<1> DEFINE vs == VersionStamp(v)
           bs == BuildStamp(b)
           stamps == {vs, bs}
           slot(r) == SlotAt(image[r], shift)
           seen == UNION {Seen(slot(r), stamps) : r \in Regions}
           root == image.rootfs
<1>1. /\ v \in Seq(Items) /\ b \in Seq(Items)
      /\ Len(v) \in Nat /\ Len(b) \in Nat /\ Len(v) < CHUNK /\ Len(b) < CHUNK
      /\ CHUNK \in Nat
  BY LenProperties, ChunkAssumption DEF Stampable
<1>2. /\ vs \in Seq(Text) /\ bs \in Seq(Text) /\ Len(vs) = Len(v) + 1 /\ Len(bs) = Len(b) + 1
  BY <1>1, StampIs DEF VersionStamp, BuildStamp
<1>3. Len(vs) \in 1 .. CHUNK /\ Len(bs) \in 1 .. CHUNK
  BY <1>1, <1>2
<1>4. /\ image["uboot"].kind # "root" /\ image["boot"].kind # "root"
      /\ image["rootfs"] = root /\ RootSays(root)
  BY DEF ImageSays
<1>5. root.kind = "root" =>
        root.version \in Seq(Items) /\ root.build \in Seq(Items)
  BY <1>4 DEF RootSays, Stampable
<1>6. ASSUME NEW r \in Regions
      PROVE  slot(r) \in Seq(Text)
  <2>1. CASE image[r].kind # "root"
    BY <2>1, BareSlot
  <2>2. CASE image[r].kind = "root"
    <3>1. image[r] = root
      BY <1>4, <2>2 DEF Regions
    <3> QED BY <1>5, <2>2, <3>1, RootSlot
  <2> QED BY <2>1, <2>2
<1> HIDE DEF vs, bs, slot, root
<1>7. ASSUME NEW r \in Regions, NEW s \in stamps
      PROVE  s \in Seen(slot(r), stamps) <=>
               \E i \in 0 .. Len(slot(r)) - Len(s) : StandsAt(s, slot(r), i)
  BY <1>2, <1>3, <1>6, SeenIs
<1>8. seen \subseteq stamps
  BY DEF Seen
<1>9. ASSUME root.kind = "root", root.version = v, root.build = b
      PROVE  seen = stamps
  <2>1. slot("rootfs") = SlotAt(root, shift)
    BY <1>4 DEF slot
  <2>2. /\ \E i \in 0 .. Len(slot("rootfs")) - Len(vs) : StandsAt(vs, slot("rootfs"), i)
        /\ \E i \in 0 .. Len(slot("rootfs")) - Len(bs) : StandsAt(bs, slot("rootfs"), i)
    <3>1. /\ \E i \in 0 .. Len(SlotAt(root, shift)) - Len(VersionStamp(v)) :
                StandsAt(VersionStamp(v), SlotAt(root, shift), i)
          /\ \E i \in 0 .. Len(SlotAt(root, shift)) - Len(BuildStamp(b)) :
                StandsAt(BuildStamp(b), SlotAt(root, shift), i)
      BY ONLY <1>1, <1>9, StampsInRoot, shift \in Nat
    <3> QED BY <2>1, <3>1 DEF vs, bs
  <2>3. "rootfs" \in Regions
    BY DEF Regions
  <2>4. vs \in Seen(slot("rootfs"), stamps) /\ bs \in Seen(slot("rootfs"), stamps)
    BY <1>7, <2>2, <2>3
  <2> QED BY <1>8, <2>3, <2>4
\* A stamp that is seen is the root's.
<1>10. ASSUME NEW s \in stamps, s \in seen
       PROVE  root.kind = "root" /\
                \E i \in 0 .. Len(SlotAt(root, shift)) - Len(s) : StandsAt(s, SlotAt(root, shift), i)
  <2>1. PICK r \in Regions : s \in Seen(slot(r), stamps)
    BY <1>10
  <2>2. PICK i \in 0 .. Len(slot(r)) - Len(s) : StandsAt(s, slot(r), i)
    BY <1>7, <2>1
  <2>3. image[r].kind = "root"
    <3>1. CASE s = vs
      BY <1>1, <2>2, <3>1, NoneInBare DEF vs, VersionStamp, slot
    <3>2. CASE s = bs
      BY <1>1, <2>2, <3>2, NoneInBare DEF bs, BuildStamp, slot
    <3> QED BY <3>1, <3>2
  <2>4. image[r] = root
    BY <1>4, <2>3 DEF Regions
  <2> QED BY <2>2, <2>3, <2>4 DEF slot
<1>11. ASSUME seen = stamps
       PROVE  IsPrefix(v, root.version) /\ IsPrefix(b, root.build)
  <2>1. vs \in seen /\ bs \in seen
    BY <1>11
  <2>2. /\ root.kind = "root"
        /\ \E i \in 0 .. Len(SlotAt(root, shift)) - Len(vs) : StandsAt(vs, SlotAt(root, shift), i)
        /\ \E i \in 0 .. Len(SlotAt(root, shift)) - Len(bs) : StandsAt(bs, SlotAt(root, shift), i)
    BY <1>10, <2>1
  <2>3. IsPrefix(v, root.version)
    BY <1>1, <1>5, <2>2, StampsInRoot DEF vs
  <2>4. IsPrefix(b, root.build)
    BY <1>1, <1>5, <2>2, StampsInRoot DEF bs
  <2> QED BY <2>3, <2>4
<1> QED BY <1>9, <1>11 DEF vs, bs, slot, root

\* The stops are counted.
LEMMA StopsCounted == Spec => [](stops \in Nat)
<1>1. Init => stops \in Nat
  BY DEF Init
<1>2. stops \in Nat /\ [Next]_vars => (stops \in Nat)'
  <2> SUFFICES ASSUME stops \in Nat, [Next]_vars PROVE stops' \in Nat
    OBVIOUS
  <2>1. /\ Finish \/ Fail => stops' = stops
        /\ \A step : Continue(step) => stops' = stops
        /\ \A step, a, rest : Run(step, a, rest) => stops' = stops
    BY DEF Finish, Fail, Continue, Run
  <2>2. CASE \/ Edit \/ Prepare \/ Fetch \/ Pack \/ BuildAll \/ BuildStep \/ UNCHANGED vars
    BY <2>1, <2>2 DEF Edit, Prepare, Fetch, Pack, BuildAll, BuildStep, vars
  <2>3. CASE Stop
    BY <2>3 DEF Stop
  <2>4. CASE \/ PrepareUboot \/ PrepareBoot \/ Harvest \/ Source
             \/ FetchSource \/ Compare \/ Download \/ Unpack \/ RemoveStale
             \/ PackBundle \/ Publish
    BY <2>1, <2>4 DEF PrepareUboot, PrepareBoot, Harvest, Source, FetchSource, Compare,
       Download, Unpack, RemoveStale, PackBundle, Publish
  <2>5. CASE BuildActions
    BY <2>1, <2>5 DEF BuildActions, BuildUboot, UbootJson, BuildId, Rootfs, BuildImage,
       ComposeUboot, ComposeBoot, ComposeRootfs, BuildUpdate
  <2> QED BY <2>2, <2>3, <2>4, <2>5 DEF Next, BuildActions
<1> QED BY <1>1, <1>2, PTL DEF Spec

\* A payload is made of every image whose root carries the two stamps, wherever in its
\* slot they lie and over the end of a chunk too, and of none whose root does not: for
\* any versions, ids and chunks.
THEOREM PayloadsAreStamped == ~Standalone => (Spec => PayloadIffStamped)
<1> SUFFICES ASSUME ~Standalone PROVE Spec => PayloadIffStamped
  OBVIOUS
<1>1. StampInv /\ BuildInv /\ [Next]_vars => StampInv'
  BY StampStep
<1>2. ASSUME BuildInv, StampInv, stops \in Nat, Next, pc = "update", stops' = stops
      PROVE  /\ Carries(work.image) =>
                  IsWhole(work'.payload) /\ work'.payload.image = work.image
             /\ work'.payload # work.payload => CarriesMore(work.image)
  <2>1. BuildUpdate
    BY <1>2 DEF Next, Edit, Prepare, Fetch, Pack, BuildAll, BuildStep, Stop, PrepareUboot,
       PrepareBoot, Harvest, Source, FetchSource, Compare, Download, Unpack, RemoveStale,
       PackBundle, Publish, BuildUboot, UbootJson, BuildId, Rootfs, BuildImage, ComposeUboot,
       ComposeBoot, ComposeRootfs, Run
  <2>2. CASE ~(IsWhole(work.image) /\ IsWhole(work.buildId))
    <3>1. work' = work
      BY <2>1, <2>2 DEF BuildUpdate, Untouched
    <3> QED BY <2>2, <3>1 DEF Carries
  <2>3. CASE IsWhole(work.image) /\ IsWhole(work.buildId)
    <3> DEFINE v == tree.version
               b == work.buildId.id
               stamps == {VersionStamp(v), BuildStamp(b)}
               seen(shift) ==
                 UNION {Seen(SlotAt(work.image[r], shift), stamps) : r \in Regions}
               made == [kind |-> "payload", version |-> v, build |-> b, image |-> work.image]
    <3>1. v \in Stampable /\ b \in Stampable /\ ImageSays(work.image)
      BY <1>2, <2>3, EditionSays DEF StampInv, BuildInv, InputInv, PlaceInv
    <3>2. PICK shift \in 0 .. CHUNK - 1 :
            IF seen(shift) = stamps
            THEN work' = [work EXCEPT !["payload"] = made]
            ELSE Untouched
      BY <2>1, <2>3 DEF BuildUpdate
    <3>3. shift \in Nat
      BY ChunkAssumption
    <3>4. /\ work.image.rootfs.kind = "root" /\ work.image.rootfs.version = v
               /\ work.image.rootfs.build = b
             => seen(shift) = stamps
          /\ seen(shift) = stamps =>
               /\ IsPrefix(v, work.image.rootfs.version)
               /\ IsPrefix(b, work.image.rootfs.build)
      BY <2>3, <3>1, <3>3, ScanIs
    <3>5. made.kind = "payload" /\ made.image = work.image
      OBVIOUS
    <3> HIDE DEF seen, made, v, b, stamps
    <3>6. CASE seen(shift) = stamps
      <4>1. work' = [work EXCEPT !["payload"] = made]
        BY <3>2, <3>6
      <4>2. work'.payload = made
        BY <1>2, <4>1, Written DEF BuildInv, InputInv, PlaceInv, WorkFiles
      <4>3. IsComplete(work.image)
        <5>1. UbootIn /\ BootIn /\ RootIn
          BY <1>2, <2>3 DEF BuildInv, StepInv
        <5>2. IsWhole(work.image.uboot) /\ IsWhole(work.image.boot) /\ IsWhole(work.image.rootfs)
          BY <5>1 DEF UbootIn, BootIn, RootIn
        <5> QED BY <2>3, <5>2 DEF IsComplete, Regions
      <4>4. CarriesMore(work.image)
        BY <2>3, <3>4, <3>6, <4>3 DEF CarriesMore, v, b
      <4>5. IsWhole(made)
        BY <3>5, KindsDiffer
      <4> QED BY <3>5, <4>2, <4>4, <4>5
    <3>7. CASE seen(shift) # stamps
      <4>1. work' = work
        BY <3>2, <3>7 DEF Untouched
      <4>2. ~Carries(work.image)
        BY <3>4, <3>7 DEF Carries, v, b
      <4> QED BY <4>1, <4>2
    <3> QED BY <3>6, <3>7
  <2> QED BY <2>2, <2>3
<1> DEFINE Stamped ==
      pc = "update" /\ stops' = stops =>
        /\ Carries(work.image) => IsWhole(work'.payload) /\ work'.payload.image = work.image
        /\ work'.payload # work.payload => CarriesMore(work.image)
<1>3. BuildInv /\ StampInv /\ stops \in Nat /\ [Next]_vars => [Stamped]_vars
  BY <1>2
<1>4. PayloadIffStamped <=> [][Stamped]_vars
  BY DEF PayloadIffStamped
<1> HIDE DEF Stamped
<1>5. Spec => []BuildInv
  BY BuildInvariant
<1> QED BY <1>1, <1>3, <1>4, <1>5, InitStamp, StopsCounted, PTL DEF Spec

=============================================================================
