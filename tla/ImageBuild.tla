------------------------------ MODULE ImageBuild ------------------------------
(***************************************************************************)
(* The build tree work/my355 and the scripts that fill it, one step per     *)
(* file written: prepare-stock.sh and fetch-prepared.sh bring the vendor's  *)
(* artifacts, cache-pack.sh publishes them, build-uboot.sh, build-rootfs.sh, *)
(* build-image.sh and build-update.sh build, alone or one after the other   *)
(* under build-all.sh.  Any of them may stop at any step, with the file it   *)
(* is writing cut short; the sources change between them.                   *)
(***************************************************************************)
EXTENDS StockInputs, FiniteSetsExt

CONSTANTS
  Dumps,       \* firmware by NAND dump: uboot, boot and the root's files
  Editions,    \* the tree's states: harvest list, VERSION, git id, DRAM map
  CHUNK,       \* what mkupdate.py reads of a slot at a time
  MaxRuns,     \* how many scripts are started,
  MaxStops,    \* how many of them are stopped
  Standalone   \* whether a step is run by itself over inputs it is due for

ASSUME ChunkAssumption == CHUNK \in Nat \ {0}
ASSUME PathsAssumption ==
  /\ \A d \in DOMAIN Dumps : DOMAIN Dumps[d].root \subseteq Seq(STRING)
  /\ \A e \in Editions : \A line \in e.list : line.path \in Seq(STRING)
\* A version or an id is no longer than a chunk behind its stamp's name, and holds
\* neither a line's end nor a stamp's name.
ASSUME StampsAssumption ==
  \A e \in Editions : \A s \in {e.version, e.git} :
    s \in Seq(STRING \ {"version", "build", "newline"}) /\ Len(s) < CHUNK
ASSUME RunsAssumption == MaxRuns \in Nat /\ MaxStops \in Nat /\ Standalone \in BOOLEAN

VARIABLES
  tree,       \* the edition checked out
  prep,       \* work/my355/prepared
  published,  \* manifest/prepared in git
  cache,      \* the bundle in work/prepared
  work,       \* the rest of work/my355
  pc,         \* the step the running script is at
  arg,        \* what it was called with
  plan,       \* what build-all.sh still runs after it
  due,        \* what build-all.sh has not made since inputs came or a script stopped
  runs, stops

vars == <<tree, prep, published, cache, work, pc, arg, plan, due, runs, stops>>

Cut == [kind |-> "cut"]
IsWhole(f) == f # Absent /\ f # Cut
NoPrep == [uboot |-> Absent, boot |-> Absent, harvest |-> Absent, source |-> Absent]
NoWork == [itb |-> Absent, meta |-> Absent, buildId |-> Absent, rootfs |-> Absent,
           image |-> Absent, payload |-> Absent]
Regions == {"uboot", "boot", "rootfs"}
EmptyImage == [kind |-> "image", uboot |-> Absent, boot |-> Absent, rootfs |-> Absent]

\* Inputs that came, or a script that was stopped, make a whole run of build-all.sh due.
\* One with the vendor's U-Boot leaves the mainline one as it was.
Due == {"image", "uboot"}
ImageDue == "image" \in due

Init ==
  /\ tree \in Editions
  /\ prep = NoPrep /\ cache = Absent /\ work = NoWork
  /\ published = [source |-> Absent, bundle |-> Absent]
  /\ pc = "idle" /\ arg = <<>> /\ plan = <<>>
  /\ due = Due /\ runs = 0 /\ stops = 0

-----------------------------------------------------------------------------
\* The script goes to its next step; at its end build-all.sh starts another.
Continue(step) == pc' = step /\ UNCHANGED <<tree, arg, plan, runs, stops>>
Finish ==
  /\ IF plan = <<>> THEN pc' = "idle" /\ plan' = plan
     ELSE pc' = Head(plan) /\ plan' = Tail(plan)
  /\ UNCHANGED <<tree, arg, runs, stops>>
Fail == pc' = "idle" /\ plan' = <<>> /\ UNCHANGED <<tree, arg, runs, stops>>

Rest(f) == IF f = "prep" THEN UNCHANGED <<published, cache, work, due>>
           ELSE UNCHANGED <<prep, published, cache, due>>
Prep(file, v) == prep' = [prep EXCEPT ![file] = v] /\ Rest("prep")
Work(file, v) == work' = [work EXCEPT ![file] = v] /\ Rest("work")
Untouched == UNCHANGED <<prep, published, cache, work, due>>

\* Mutant: a U-Boot that was built once is taken for built.
PlanCached(path) ==
  (IF path = "mainline" /\ work.itb = Absent THEN <<"uboot">> ELSE <<>>)
  \o <<"build-id", "image", "update">>

\* What build-all.sh runs: the vendor's U-Boot needs no building.
PlanFor(path) ==
  (IF path = "mainline" THEN <<"uboot">> ELSE <<>>) \o <<"build-id", "image", "update">>

Run(step, a, rest) ==
  /\ pc = "idle" /\ runs < MaxRuns
  /\ pc' = step /\ arg' = a /\ plan' = rest /\ runs' = runs + 1
  /\ UNCHANGED <<tree, prep, published, cache, work, stops>>

Edit == /\ pc = "idle" /\ runs < MaxRuns
        /\ tree' \in Editions \ {tree}
        /\ runs' = runs + 1
        /\ UNCHANGED <<prep, published, cache, work, pc, arg, plan, due, stops>>

Prepare == \E d \in DOMAIN Dumps : Run("prepare uboot", d, <<>>) /\ due' = Due
Fetch == \E force \in BOOLEAN : Run("fetch", force, <<>>) /\ due' = Due
Pack == Run("pack", <<>>, <<>>) /\ UNCHANGED due
\* build-all.sh wants the inputs up front, rather than part-way through.
BuildAll ==
  /\ Verifies(prep, ReadList(tree.list))
  /\ \E path \in {"vendor", "mainline"} :
       Run(Head(PlanFor(path)), path, Tail(PlanFor(path)))
  /\ UNCHANGED due
BuildStep ==
  /\ \E path \in {"vendor", "mainline"} :
       /\ Standalone \/ due = {} \/ (path = "vendor" /\ ~ImageDue)
       /\ \E step \in ToSet(PlanFor(path)) : Run(step, path, <<>>)
  /\ UNCHANGED due

-----------------------------------------------------------------------------
\* prepare_stock.py: source.json last, of what it wrote.
Firmware == Dumps[arg]
PrepareUboot ==
  pc = "prepare uboot" /\ Prep("uboot", Firmware.uboot) /\ Continue("prepare boot")
PrepareBoot ==
  pc = "prepare boot" /\ Prep("boot", Firmware.boot) /\ Continue("harvest")

TarFile(tar) == [kind |-> "tar", tar |-> tar]
Harvest ==
  /\ pc = "harvest"
  /\ LET list == ReadList(tree.list)
         tar == TarOf(Firmware.root, list)
     IN /\ Prep("harvest", TarFile(tar))
        /\ IF Missing(Firmware.root, list) # {} \/ Unresolved(tar) # {}
           THEN Fail ELSE Continue("source")
Source == pc = "source" /\ Prep("source", Hashes(prep)) /\ Finish

-----------------------------------------------------------------------------
\* fetch-prepared.sh: source.json first, so that what is there is checked
\* against the published one.
FetchSource ==
  /\ pc = "fetch"
  /\ LET foreign == prep.source \notin {Absent, published.source}
     IN IF Absent \in {published.source, published.bundle} \/ (foreign /\ ~arg)
        THEN Untouched /\ Fail
        ELSE Prep("source", published.source) /\ Continue("compare")

Compare ==
  /\ pc = "compare" /\ Untouched
  /\ IF Verifies(prep, ReadList(tree.list)) THEN Finish ELSE Continue("bundle")

\* The download is renamed into place; what it brings need not be the bundle.
Download ==
  /\ pc = "bundle"
  /\ cache' \in IF cache = published.bundle THEN {cache} ELSE {published.bundle, Cut}
  /\ UNCHANGED <<prep, published, work, due>>
  /\ IF cache' = published.bundle THEN Continue("unpack uboot") ELSE Fail

Unpack ==
  \/ pc = "unpack uboot" /\ Prep("uboot", cache.uboot) /\ Continue("unpack boot")
  \/ pc = "unpack boot" /\ Prep("boot", cache.boot) /\ Continue("unpack harvest")
  \/ pc = "unpack harvest" /\ Prep("harvest", cache.harvest) /\ Continue("stale")

\* What an earlier set of inputs was built into, but for the mainline U-Boot.
RemoveStale ==
  /\ pc = "stale"
  /\ work' = [work EXCEPT !.rootfs = Absent, !.image = Absent] /\ Rest("work")
  /\ IF Verifies(prep, ReadList(tree.list)) THEN Finish ELSE Fail

\* cache-pack.sh
PackBundle ==
  /\ pc = "pack"
  /\ IF Verifies(prep, ReadList(tree.list))
     THEN /\ cache' = Hashes(prep) /\ UNCHANGED <<prep, published, work, due>>
          /\ Continue("publish source")
     ELSE Untouched /\ Fail

Publish ==
  /\ \/ /\ pc = "publish source" /\ Continue("publish bundle")
        /\ published' = [published EXCEPT !.source = prep.source]
     \/ /\ pc = "publish bundle" /\ Finish
        /\ published' = [published EXCEPT !.bundle = cache]
  /\ UNCHANGED <<prep, cache, work, due>>

-----------------------------------------------------------------------------
\* build-uboot.sh: the FIT, then what build-image.sh will check it against.
BuildUboot ==
  /\ pc = "uboot"
  /\ IF IsWhole(prep.uboot)
     THEN Work("itb", [kind |-> "fit", vendor |-> prep.uboot, map |-> tree.map])
          /\ Continue("uboot.json")
     ELSE Untouched /\ Fail
UbootJson ==
  /\ pc = "uboot.json"
  /\ Work("meta", [kind |-> "json", sha |-> work.itb, map |-> tree.map])
  /\ Finish

\* mkfit.py verify-uboot
VerifyUboot == IsWhole(work.meta) /\ work.meta.sha = work.itb /\ work.meta.map = tree.map

\* build-rootfs.sh: the id is there before the root it is stamped into.
BuildId ==
  /\ pc = "build-id"
  /\ Work("buildId", [kind |-> "id", id |-> tree.git])
  /\ IF Verifies(prep, ReadList(tree.list)) THEN Continue("rootfs") ELSE Fail

Rootfs ==
  /\ pc = "rootfs"
  /\ Work("rootfs", [kind |-> "root", vendor |-> prep.harvest, whole |-> TRUE,
                     version |-> tree.version, build |-> tree.git])
  /\ Finish

\* build-image.sh: a new image, then its regions in order.
BuildImage ==
  /\ pc = "image"
  /\ IF /\ Verifies(prep, ReadList(tree.list))
        /\ arg = "mainline" => VerifyUboot
        /\ work.rootfs # Absent
     THEN Work("image", EmptyImage) /\ Continue("compose uboot")
     ELSE Untouched /\ Fail

ToImage(region, v) == Work("image", [work.image EXCEPT ![region] = v])
ComposeUboot ==
  /\ pc = "compose uboot"
  /\ ToImage("uboot", IF arg = "mainline" THEN work.itb
                      ELSE [kind |-> "stock", vendor |-> prep.uboot])
  /\ Continue("compose boot")
ComposeBoot ==
  /\ pc = "compose boot"
  /\ ToImage("boot", [kind |-> "boot", vendor |-> prep.boot])
  /\ Continue("compose rootfs")
ComposeRootfs ==
  /\ pc = "compose rootfs"
  /\ IF work.rootfs = Cut THEN Untouched /\ Fail
     ELSE ToImage("rootfs", work.rootfs) /\ Finish

-----------------------------------------------------------------------------
\* Mutant: the end that is kept is too short for a stamp with one item in the
\* next chunk.
WindowShort(stamps) == Max({Len(s) : s \in stamps}) - 2

Window(stamps) == Max({Len(s) : s \in stamps})

Occurs(stamp, s) ==
  \E i \in 0 .. Len(s) - Len(stamp) : SubSeq(s, i + 1, i + Len(stamp)) = stamp

\* mkupdate.py pack: a stamp is looked for in each chunk, behind the end of the
\* one before it.
Seen(slot, stamps) ==
  LET from(i) == Max({(i - 1) * CHUNK - Window(stamps), (i - 2) * CHUNK, 0})
      haystack(i) == SubSeq(slot, from(i) + 1, Min({i * CHUNK, Len(slot)}))
  IN {s \in stamps : \E i \in 1 .. Len(slot) \div CHUNK + 1 : Occurs(s, haystack(i))}

\* The stamps are lines of etc/baseos-release, wherever that lies in its slot.
Newline == "newline"
VersionStamp(v) == <<"version">> \o v
BuildStamp(b) == <<"build">> \o b
SlotAt(region, shift) ==
  [i \in 1 .. shift |-> Newline]
  \o IF region.kind = "root"
     THEN VersionStamp(region.version) \o <<Newline>> \o BuildStamp(region.build)
          \o <<Newline>>
     ELSE <<>>

\* build-update.sh, mkupdate.py
BuildUpdate ==
  /\ pc = "update"
  /\ IF IsWhole(work.image) /\ IsWhole(work.buildId)
     THEN \E shift \in 0 .. CHUNK - 1 :
       LET stamps == {VersionStamp(tree.version), BuildStamp(work.buildId.id)}
           seen == UNION {Seen(SlotAt(work.image[r], shift), stamps) : r \in Regions}
       IN IF seen = stamps
          THEN /\ work' = [work EXCEPT !.payload =
                             [kind |-> "payload", version |-> tree.version,
                              build |-> work.buildId.id, image |-> work.image]]
               /\ due' = IF arg = "vendor" THEN due \ {"image"} ELSE {}
               /\ UNCHANGED <<prep, published, cache>> /\ Finish
          ELSE Untouched /\ Fail
     ELSE Untouched /\ Fail

-----------------------------------------------------------------------------
\* The steps that write a file.
PrepSteps ==
  [uboot |-> {"prepare uboot", "unpack uboot"}, boot |-> {"prepare boot", "unpack boot"},
   harvest |-> {"harvest", "unpack harvest"}, source |-> {"source", "fetch"}]
WorkSteps ==
  [itb |-> {"uboot"}, meta |-> {"uboot.json"}, buildId |-> {"build-id"},
   rootfs |-> {"rootfs"}, image |-> {"image"}, payload |-> {"update"}]
ImageSteps ==
  [uboot |-> {"compose uboot"}, boot |-> {"compose boot"}, rootfs |-> {"compose rootfs"}]
BeingWritten(steps) == {f \in DOMAIN steps : pc \in steps[f]}

\* A root half copied may well have its stamps.
HalfOf(f) == IF IsWhole(f) /\ f.kind = "root" THEN [f EXCEPT !.whole = FALSE] ELSE f
StoppedIn(region) ==
  {Cut} \cup (IF region = "rootfs" THEN {HalfOf(work.rootfs)} ELSE {})

Stop ==
  /\ pc # "idle" /\ stops < MaxStops
  /\ stops' = stops + 1 /\ pc' = "idle" /\ plan' = <<>> /\ due' = Due
  /\ \/ UNCHANGED <<prep, work, cache>>
     \/ \E f \in BeingWritten(PrepSteps) :
          prep' = [prep EXCEPT ![f] = Cut] /\ UNCHANGED <<work, cache>>
     \/ \E f \in BeingWritten(WorkSteps) :
          work' = [work EXCEPT ![f] = Cut] /\ UNCHANGED <<prep, cache>>
     \/ \E r \in BeingWritten(ImageSteps) : \E v \in StoppedIn(r) :
          work' = [work EXCEPT !.image = [work.image EXCEPT ![r] = v]]
          /\ UNCHANGED <<prep, cache>>
     \/ pc = "pack" /\ cache' = Cut /\ UNCHANGED <<prep, work>>
  /\ UNCHANGED <<tree, published, arg, runs>>

Next ==
  \/ Edit \/ Prepare \/ Fetch \/ Pack \/ BuildAll \/ BuildStep \/ Stop
  \/ PrepareUboot \/ PrepareBoot \/ Harvest \/ Source
  \/ FetchSource \/ Compare \/ Download \/ Unpack \/ RemoveStale
  \/ PackBundle \/ Publish
  \/ BuildUboot \/ UbootJson \/ BuildId \/ Rootfs
  \/ BuildImage \/ ComposeUboot \/ ComposeBoot \/ ComposeRootfs \/ BuildUpdate

Spec == Init /\ [][Next]_vars

-----------------------------------------------------------------------------
TarNow(d) == TarOf(Dumps[d].root, ReadList(tree.list))
EverExcluded == UNION {ReadList(e.list).exclude : e \in Editions}

\* Inputs a build accepts are whole and of one dump, whatever a prepare, a
\* fetch or a pack was stopped in: U-Boot, boot image and harvest belong
\* together, the harvest has what today's list asks for and nothing beyond it,
\* and its libraries are closed.  (What a "!" line kept out of the harvest stays
\* out when that line goes.)
PreparedIsWhole ==
  Verifies(prep, ReadList(tree.list)) =>
    \E d \in DOMAIN Dumps :
      LET tar == prep.harvest.tar
          now == TarNow(d)
      IN /\ prep.uboot = Dumps[d].uboot /\ prep.boot = Dumps[d].boot
         /\ \A m \in DOMAIN tar : m \in DOMAIN now /\ tar[m] = now[m]
         /\ \A m \in DOMAIN now \ DOMAIN tar : Under(m, EverExcluded)
         /\ \A m \in DOMAIN tar : tar[m].kind = "file" =>
              \A n \in tar[m].needs : \E k \in DOMAIN tar :
                tar[k].kind = "file" /\ (Last(k) = n \/ tar[k].soname = n)

\* "The tar holds exactly each listed path and its subtree, minus exclusions, so a
\* list edit in either direction shows up here" (source_manifest.py:55-56).
ListEditsShow ==
  Verifies(prep, ReadList(tree.list)) =>
    \E d \in DOMAIN Dumps : prep.harvest = TarFile(TarNow(d))

\* An image that can be flashed boots one vendor's firmware: the secure
\* payloads beside U-Boot, the kernel and the libraries are of one dump, however
\* often inputs were replaced and scripts stopped, when every replacement is
\* followed by a build-all.sh that gets to its end.
IsComplete(image) == IsWhole(image) /\ \A r \in Regions : IsWhole(image[r])
ImageOfOneDump ==
  pc = "idle" /\ ~ImageDue /\ IsWhole(work.image) =>
    /\ IsComplete(work.image) /\ work.image.rootfs.whole
    /\ \E d \in DOMAIN Dumps, e \in Editions :
         /\ work.image.uboot.vendor = Dumps[d].uboot
         /\ work.image.boot.vendor = Dumps[d].boot
         /\ work.image.rootfs.vendor = TarFile(TarOf(Dumps[d].root, ReadList(e.list)))

\* "each step below runs standalone" (build-all.sh:7), and no build is to "mix a fresh
\* boot image with an old rootfs" (fetch-prepared.sh:98).
NeverMixed ==
  pc = "idle" /\ IsComplete(work.image) =>
    \E d \in DOMAIN Dumps, e \in Editions :
      /\ work.image.boot.vendor = Dumps[d].boot
      /\ work.image.rootfs.vendor = TarFile(TarOf(Dumps[d].root, ReadList(e.list)))

\* The root in image carries the two stamps of the manifest: exactly, or as the
\* beginning of its own.
Carries(image) ==
  /\ IsWhole(image) /\ IsWhole(work.buildId) /\ image.rootfs.kind = "root"
  /\ image.rootfs.version = tree.version /\ image.rootfs.build = work.buildId.id
CarriesMore(image) ==
  /\ IsComplete(image) /\ IsWhole(work.buildId)
  /\ IsPrefix(tree.version, image.rootfs.version)
  /\ IsPrefix(work.buildId.id, image.rootfs.build)

\* A payload is made of every image whose root carries what its manifest will
\* say, wherever in the slot, and of none whose stamps do not at least begin with
\* it.
PayloadIffStamped ==
  [][pc = "update" /\ stops' = stops =>
       /\ Carries(work.image) =>
            IsWhole(work'.payload) /\ work'.payload.image = work.image
       /\ work'.payload # work.payload => CarriesMore(work.image)]_vars

\* mkupdate.py:98-100: no manifest claims "a version the filesystem does not carry",
\* which "would make the card apply it, boot, still disagree about its own
\* version, and apply it again".
ManifestIsTrue ==
  IsWhole(work.payload) =>
    /\ work.payload.image.rootfs.version = work.payload.version
    /\ work.payload.image.rootfs.build = work.payload.build

\* One of the three claims.  Each implies this, so a state without it refutes all.
BuildAsClaimed == ListEditsShow \/ NeverMixed \/ ManifestIsTrue
=============================================================================
