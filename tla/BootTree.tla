------------------------------ MODULE BootTree ------------------------------
(***************************************************************************)
(* The tools that put a device tree on the card or into the NAND:          *)
(* rkbootimg.py setargs, mkfit.py boot, mkfit.py uboot and mkpreloader.py.  *)
(* A tool takes the trees of its input one by one, edits each, composes a   *)
(* file of the results, writes it and reads it back; whatever raises ends   *)
(* it.  A file it wrote may be given to a tool again.                       *)
(***************************************************************************)
EXTENDS KernelTree, Preloader, FitImage

CONSTANTS
  Jobs,   \* what the tools are called with, by name
  Sound,  \* the names of those with an input the tools are made for
  Want    \* the command line asked for: root, type, drop, append

\* Every rk-kernel.dtb* variant, since U-Boot may select any.
TREE_NAMES == {"rk-kernel.dtb", "rk-kernel.dtb.hdmi", "spl"}
IsTree(part) == part.name \in TREE_NAMES
IsLogo(part) == part.name \in {"logo.bmp", "logo_kernel.bmp"}

Good == {t \in Blobs : WellFormed(t)}
Compressions == {"none", "gzip", "zstd"}

\* An Android image: a kernel and the parts of its resource image.
Kernels == [form : {"raw", "gzip", "zstd"}, len : Nat]
KernelParts == [name : TREE_NAMES \ {"spl"}, tree : Good, len : Nat]
               \cup [name : STRING \ TREE_NAMES, len : Nat]

\* A preloader: two copies that differ as they may, each of an SPL whose
\* /pinctrl is the empty skeleton it comes with or a working node.
SplPart(part) ==
  /\ DOMAIN part = {"name", "tree", "copy"}
  /\ part.name = "spl" /\ part.tree \in Good
  /\ \/ <<PINCTRL, "compatible">> \in DOMAIN Facts(part.tree)
     \/ \A k \in DOMAIN Facts(part.tree) : k[1] # PINCTRL
  /\ DOMAIN part.copy = {"body", "hash1", "hash2"}
  /\ part.copy.body \in [ddr : STRING, spl : STRING, tree : {part.tree}, slack : Nat,
                         tail : STRING]

\* U-Boot's FIT: named payloads with their lengths.
Vendors ==
  [images : Seq([name : STRING, len : Nat, data : STRING, type : STRING, load : STRING]),
   firmware : STRING, loadables : Seq(STRING), fdt : STRING]
Uboots == [data : STRING, len : Nat, load : STRING, elf : BOOLEAN]

\* What each tool can be called with.
Callable(j) ==
  \/ j \in [tool : {"setargs"}, uhs : BOOLEAN, compress : Compressions, logo : Nat,
            kernel : Kernels, parts : Seq(KernelParts)]
  \/ j \in [tool : {"mkfit"}, uhs : BOOLEAN, compress : Compressions, imageMiB : Nat,
            slot : Nat, kernel : Kernels, parts : Seq(KernelParts)]
  \/ /\ DOMAIN j = {"tool", "parts"} /\ j.tool = "mkpreloader"
     /\ j.parts = <<j.parts[1], j.parts[2]>>
     /\ \A i \in 1 .. 2 : SplPart(j.parts[i])
  \/ j \in [tool : {"mkfit-uboot"}, vendor : Vendors, uboot : Uboots, parts : {<<>>}]

ASSUME JobsAssumption ==
  /\ Sound \subseteq DOMAIN Jobs
  /\ \A n \in DOMAIN Jobs : Callable(Jobs[n])
ASSUME WantAssumption ==
  /\ Want.root \in 0 .. 9 /\ Want.type \in 0 .. 9
  /\ Want.append \in Seq(Int \ {Blank})
\* A name that is written out is a string; the provers know nothing of STRING.
ASSUME NamesAssumption ==
  /\ {"sd-uhs-sdr50", "sd-uhs-sdr104", "desired-num-phases", "status",
      "system-status-level", "reg", "no-map", "plane-mask", "primary-plane",
      OPTEE_NODE} \subseteq STRING
  /\ {"compatible", "grf", "pmu", "#address-cells", "#size-cells", "ranges", "dm-spl",
      "phandle"} \subseteq STRING

VARIABLES
  job,    \* the running tool and its input
  pc,     \* how far it is
  tree,   \* the tree being edited, Refused when there is none
  todo,   \* the edits that tree still gets
  done,   \* the parts dealt with so far
  file    \* what lies at the output path

vars == <<job, pc, tree, todo, done, file>>

NoJob == [name |-> <<"none">>, tool |-> "none", parts |-> <<>>]
NoFile == [tool |-> "none", parts |-> <<>>]

-----------------------------------------------------------------------------
KernelEdits(uhs) ==
  <<"bootargs">> \o (IF uhs THEN <<"uhs">> ELSE <<>>) \o <<"slot1", "ohci", "boost">>
MainlineEdits == <<"optee", "planes", "panel">>

EditsOf(j) ==
  CASE j.tool = "setargs" -> KernelEdits(j.uhs)
    [] j.tool = "mkfit" -> KernelEdits(j.uhs) \o MainlineEdits
    [] j.tool = "mkpreloader" -> <<"pinctrl">>

Edited(e, t) ==
  CASE e = "bootargs" -> SetBootargs(t, RewriteRoot(Bootargs(t), Want))
    [] e = "uhs" -> SetSdUhs(t)
    [] e = "slot1" -> DetachSlot1(t)
    [] e = "ohci" -> DisableWifiOhci(t)
    [] e = "boost" -> DropTouchboost(t)
    [] e = "optee" -> ReserveOptee(t)
    [] e = "planes" -> SetPlaneMasks(t)
    [] e = "panel" -> SetPanelDelays(t)
    [] e = "pinctrl" -> AddPinctrl(t)

\* mkfit takes rk-kernel.dtb alone out of the resource image.
PartsOf(j) ==
  IF j.tool = "mkfit"
  THEN Picked(j.parts, {i \in DOMAIN j.parts : j.parts[i].name = "rk-kernel.dtb"})
  ELSE j.parts
Part == PartsOf(job)[Len(done) + 1]

-----------------------------------------------------------------------------
Init ==
  /\ job = NoJob /\ pc = "idle" /\ file = NoFile
  /\ tree = Refused /\ todo = <<>> /\ done = <<>>

\* A written Android image or preloader as a later call's input.
Reused ==
  CASE file.tool = "setargs" ->
         {[tool |-> "setargs", uhs |-> u, compress |-> "gzip", logo |-> 0,
           parts |-> file.parts, kernel |-> file.img.kernel] : u \in BOOLEAN}
         \cup {[tool |-> "mkfit", uhs |-> u, compress |-> "zstd", imageMiB |-> 40,
                slot |-> 2000, parts |-> file.parts, kernel |-> file.img.kernel] :
                 u \in BOOLEAN}
    [] file.tool = "mkpreloader" -> {[tool |-> "mkpreloader", parts |-> file.parts]}
    [] OTHER -> {}

Again == <<"again">>
Named(n, j) == [f \in {"name"} \cup DOMAIN j |-> IF f = "name" THEN n ELSE j[f]]

Run(j) ==
  /\ job' = j /\ pc' = IF j.tool = "mkfit-uboot" THEN "write" ELSE "parts"
  /\ done' = <<>>
  /\ UNCHANGED <<tree, todo, file>>

Start == pc = "idle" /\ \E n \in DOMAIN Jobs : Run(Named(n, Jobs[n]))

StartAgain == pc = "done" /\ job.name # Again /\ \E j \in Reused : Run(Named(Again, j))

Refuse == /\ pc' = "refused" /\ tree' = Refused /\ todo' = <<>> /\ done' = <<>>
          /\ UNCHANGED <<job, file>>

\* patch looks at a preloader copy's hashes, slack and tree before it starts.
Touchable(part) == part.name = "spl" => PatchCopy(part.copy).body.tree # Refused

OpenPart ==
  /\ pc = "parts" /\ Len(done) < Len(PartsOf(job)) /\ IsTree(Part)
  /\ IF Touchable(Part)
     THEN /\ tree' = Part.tree /\ todo' = EditsOf(job) /\ pc' = "edit"
          /\ UNCHANGED <<job, done, file>>
     ELSE Refuse

\* The logo is replaced, everything else goes through.
CopyPart ==
  /\ pc = "parts" /\ Len(done) < Len(PartsOf(job)) /\ ~IsTree(Part)
  /\ done' = Append(done, IF job.logo # 0 /\ IsLogo(Part)
                          THEN [Part EXCEPT !.len = job.logo] ELSE Part)
  /\ UNCHANGED <<job, pc, tree, todo, file>>

EditTree ==
  /\ pc = "edit" /\ todo # <<>>
  /\ LET new == IF Head(todo) = "bootargs" /\ FindProp(tree, <<"chosen">>, "bootargs") = 0
                THEN Refused ELSE Edited(Head(todo), tree)
     IN IF new = Refused THEN Refuse
        ELSE /\ tree' = new /\ todo' = Tail(todo)
             /\ UNCHANGED <<job, pc, done, file>>

ClosePart ==
  /\ pc = "edit" /\ todo = <<>>
  /\ done' = Append(done, IF Part.name = "spl"
                          THEN [Part EXCEPT !.tree = tree, !.copy = PatchCopy(@)]
                          ELSE [Part EXCEPT !.tree = tree, !.len = Size(tree)])
  /\ tree' = Refused /\ pc' = "parts"
  /\ UNCHANGED <<job, todo, file>>

-----------------------------------------------------------------------------
Copies(parts) == [i \in DOMAIN parts |-> parts[i].copy]

\* --compress-kernel: what is compressed already is left alone.
PackedKernel ==
  IF job.compress = "none" \/ job.kernel.form # "raw" THEN job.kernel
  ELSE [job.kernel EXCEPT !.form = job.compress, !.len = (@ + 1) \div 2]

FileOf ==
  CASE job.tool = "setargs" ->
         [tool |-> job.tool, parts |-> done,
          img |-> Android(PackedKernel, [len |-> 0], Resource(done))]
    [] job.tool = "mkfit" ->
         [tool |-> job.tool, parts |-> done, kernel |-> PackedKernel]
    [] job.tool = "mkpreloader" -> [tool |-> job.tool, parts |-> done]
    [] job.tool = "mkfit-uboot" ->
         [tool |-> job.tool, parts |-> <<>>, fit |-> UbootFit(job.vendor, job.uboot)]

\* What stops a tool between its last edit and its output.
Unwritable ==
  CASE job.tool = "setargs" -> FALSE
    [] job.tool = "mkfit" ->
         \/ done = <<>> \/ job.kernel.form # "raw"
         \/ LET len == BootFitLen(PackedKernel, done[1].tree)
            IN ~DramMapOk(job.imageMiB, len) \/ ~FitsSlot(len, job.slot)
    [] job.tool = "mkpreloader" -> ~Verified(Copies(job.parts), Copies(done))
    [] job.tool = "mkfit-uboot" ->
         job.uboot.elf \/ UbootFitRefused(job.vendor, job.uboot)

AllParts ==
  /\ pc = "parts" /\ Len(done) = Len(PartsOf(job))
  /\ pc' = "write"
  /\ UNCHANGED <<job, tree, todo, done, file>>

WriteFile ==
  /\ pc = "write"
  /\ IF Unwritable THEN Refuse
     ELSE /\ file' = FileOf
          /\ pc' = IF job.tool = "mkpreloader" THEN "done" ELSE "check"
          /\ UNCHANGED <<job, tree, todo, done>>

\* The asserts come after the file is written, and leave it where it is.
Expected(part) == RewriteRoot(Bootargs(part.tree), Want)

SetargsChecks ==
  /\ [i \in DOMAIN file.parts |-> file.parts[i].name]
       = [i \in DOMAIN job.parts |-> job.parts[i].name]
  /\ file.img.id = IdOf(file.img)
  /\ \A i \in DOMAIN job.parts :
       IsTree(job.parts[i]) => Bootargs(file.parts[i].tree) = Expected(job.parts[i])
  /\ \E i \in DOMAIN job.parts : IsTree(job.parts[i])

MkfitChecks ==
  LET back == file.parts[1].tree
      planes(encoder) ==
        LET port == CHOOSE q \in VopPorts(back, encoder) : TRUE
        IN NodeProps(back, PortNode(port))["plane-mask"]
  IN /\ Bootargs(back) = Expected(PartsOf(job)[1])
     /\ Has(NodeProps(back, <<OPTEE_NODE>>), "no-map")
     /\ planes(DSI) = <<Mask(PANEL_WINDOWS)>> /\ planes(HDMI) = <<Mask(HDMI_WINDOWS)>>
     /\ NodeProps(back, PANEL_NODE)["panel-init-sequence"][1] = PANEL_SLEEP_OUT[2]
     /\ job.uhs => NodeProps(back, <<SD_SLOT0_NODE>>)["desired-num-phases"]
                     = <<SD_TUNING_PHASES>>
     /\ ~Has(NodeProps(back, <<SD_SLOT1_NODE>>), "vqmmc-supply")
     /\ LET levels == NodeProps(back, <<"dmc">>)["system-status-level"]
        IN WithoutBoost(levels) = levels

ReadBack ==
  /\ pc = "check"
  /\ pc' = IF CASE job.tool = "setargs" -> SetargsChecks
                [] job.tool = "mkfit" -> MkfitChecks
                [] OTHER -> UbootReadsBack(job.vendor, job.uboot, file.fit)
           THEN "done" ELSE "failed"
  /\ UNCHANGED <<job, tree, todo, done, file>>

Next ==
  \/ Start \/ StartAgain
  \/ OpenPart \/ CopyPart \/ EditTree \/ ClosePart
  \/ AllParts \/ WriteFile \/ ReadBack

Spec == Init /\ [][Next]_vars
-----------------------------------------------------------------------------
\* No tree a tool holds or has written is ever malformed: one root, properties
\* ahead of subnodes, every name resolved, nothing twice.  The two writers
\* read back only the node they touched, so this is what they do not check.
TreesWellFormed ==
  /\ tree # Refused => WellFormed(tree)
  /\ \A i \in DOMAIN file.parts :
       "tree" \in DOMAIN file.parts[i] => WellFormed(file.parts[i].tree)

\* The node an edit is for, which the tools know by the end of its path.
For(e, path) ==
  CASE e = "bootargs" -> Is(path, <<"chosen">>)
    [] e = "uhs" -> Is(path, <<SD_SLOT0_NODE>>)
    [] e = "slot1" -> Is(path, <<SD_SLOT1_NODE>>)
    [] e = "ohci" -> Is(path, <<WIFI_OHCI_NODE>>)
    [] e = "boost" -> Is(path, <<"dmc">>)
    [] e = "optee" -> Is(path, <<"reserved-memory", OPTEE_NODE>>)
    [] e = "planes" -> \E port \in Elems(path) : Is(path, <<VOP2_NODE, "ports", port>>)
    [] e = "panel" -> Is(path, PANEL_NODE)
    [] e = "pinctrl" -> path = PINCTRL

\* What it may take out there.
Takes(e, prop) ==
  CASE e = "bootargs" -> prop = "bootargs"
    [] e = "slot1" -> prop = "vqmmc-supply"
    [] e = "ohci" -> prop = "status"
    [] e = "boost" -> prop = "system-status-level"
    [] e = "panel" -> prop \in {"reset-delay-ms", "init-delay-ms", "enable-delay-ms",
                               "panel-init-sequence"}
    [] OTHER -> FALSE

\* What it may put in there, when it took out what is gone.
Puts(e, prop, v, gone) ==
  CASE e = "bootargs" ->
         prop = "bootargs" /\ \E g \in gone : ArgsOf(v) = RewriteRoot(ArgsOf(g[3]), Want)
    [] e = "uhs" ->
         <<prop, v>> \in {<<"sd-uhs-sdr50", <<>>>>, <<"sd-uhs-sdr104", <<>>>>,
                         <<"desired-num-phases", <<SD_TUNING_PHASES>>>>}
    [] e = "slot1" -> FALSE
    [] e = "ohci" -> prop = "status" /\ v = Disabled
    [] e = "boost" ->
         prop = "system-status-level" /\ \E g \in gone : v = WithoutBoost(g[3])
    [] e = "optee" -> <<prop, v>> \in {<<"reg", OPTEE_REG>>, <<"no-map", <<>>>>}
    [] e = "planes" ->
         \/ prop = "plane-mask" /\ v \in {<<Mask(PANEL_WINDOWS)>>, <<Mask(HDMI_WINDOWS)>>}
         \/ prop = "primary-plane" /\ v \in {<<PANEL_PRIMARY>>, <<HDMI_PRIMARY>>}
    [] e = "panel" ->
         \/ <<prop, v>> \in {<<d[1], <<d[3]>>>> : d \in Elems(PANEL_DELAYS)}
         \/ /\ prop = "panel-init-sequence"
            /\ \E g \in gone : g[2] = prop /\ v = <<PANEL_SLEEP_OUT[2]>> \o Tail(g[3])
    [] e = "pinctrl" -> <<prop, v>> \in Elems(PINCTRL_PROPS)

\* Whatever tree it is given, an edit changes entries of the node it is for, of
\* one such node unless it is for two displays or looks up each value by itself,
\* takes out and puts in what it is meant to, and leaves every other entry of
\* every node as it was, where the tokens had to move and names were interned.
EditsStayInPlace ==
  [][todo # <<>> /\ tree' # Refused =>
       \E was \in {Entries(tree)}, is \in {Entries(tree')} :
         LET gone == was \ is
             come == is \ was
             e == Head(todo)
         IN /\ \A x \in gone : For(e, x[1]) /\ Takes(e, x[2])
            /\ \A x \in come : For(e, x[1]) /\ Puts(e, x[2], x[3], gone)
            /\ e \notin {"planes", "panel"} =>
                 \A x, y \in gone \cup come : x[1] = y[1]]_vars

\* A tool gets to the end of exactly the inputs it is made for: none of those
\* is refused by a check or fails an assert, and no other gets through, be it a
\* tree one of the edits was not written for or a file that was patched before.
DoneIffSound ==
  /\ pc = "done" => job.name \in Sound
  /\ pc \in {"refused", "failed"} => job.name \notin Sound

Apart(extents, from) ==
  \A i, j \in DOMAIN extents :
    /\ extents[i][1] >= from
    /\ i < j => extents[i][2] <= extents[j][1]

\* However much the trees grew, each payload of a finished file has room: the
\* Android payloads lie on pages behind the header, the resource entries on
\* blocks behind their table, the FIT's payloads on sectors behind its tree,
\* none over another, and each is as long as what it holds.
LaidOut ==
  pc = "done" =>
    CASE file.tool = "setargs" ->
           LET img == file.img
               lens == <<img.kernel.len, img.ramdisk.len, img.second.len>>
               entries == img.second.entries
               offs == img.second.offs
           IN /\ Apart([i \in 1 .. 3 |-> <<img.offs[i], img.offs[i] + lens[i]>>], PAGE)
              /\ \A i \in 1 .. 3 : img.offs[i] % PAGE = 0
              /\ Apart([i \in DOMAIN entries |-> <<offs[i], offs[i] + entries[i].len>>],
                       SECTOR * (1 + Len(entries)))
              /\ \A i \in DOMAIN entries :
                   /\ offs[i] % SECTOR = 0
                   /\ offs[i] + entries[i].len <= img.second.len
                   /\ "tree" \in DOMAIN entries[i]
                        => entries[i].len = Size(entries[i].tree)
      [] file.tool = "mkfit-uboot" ->
           LET put == file.fit.written
           IN Apart([i \in DOMAIN put |-> <<put[i].at, put[i].at + put[i].len>>],
                    Size(file.fit.tree))
      [] OTHER -> TRUE

\* A preloader that is written is exactly as long as it was, in each copy, and
\* each copy's hashes are those of its contents: the NAND region is fixed, and
\* the boot ROM refuses a copy whose hash does not match.
PreloaderFits ==
  pc = "done" /\ job.tool = "mkpreloader" =>
    \A i \in DOMAIN file.parts :
      LET was == job.parts[i].copy
          now == file.parts[i].copy
      IN /\ now.body.slack >= 0
         /\ Size(now.body.tree) + now.body.slack = Size(was.body.tree) + was.body.slack
         /\ now.hash1 = HashOf1(now.body) /\ now.hash2 = HashOf2(now.body)

-----------------------------------------------------------------------------
\* The dictionary a tree stands for; the padding of a command line is not in it.
Dict(t) ==
  LET padded == {<<<<"/", "chosen">>, "bootargs">>}
      stripped(facts) ==
        [k \in DOMAIN facts |-> IF k \in padded THEN ArgsOf(facts[k]) ELSE facts[k]]
  IN CHOOSE d \in {stripped(facts) : facts \in {Facts(b) : b \in {t}}} : TRUE
Trees(parts) == Picked(parts, {i \in DOMAIN parts : "tree" \in DOMAIN parts[i]})
Dicts(parts) == [i \in DOMAIN Trees(parts) |-> Dict(Trees(parts)[i].tree)]

AsFcn(props) ==
  [n \in Elems(NamesOf(props)) |-> props[OffsetIn(NamesOf(props), n)][2]]

EditValues ==
  [okay |-> Okay, disabled |-> Disabled, sleepOut |-> PANEL_SLEEP_OUT[2],
   boost |-> SYS_STATUS_BOOST,
   optee |-> AsFcn(<<<<"reg", OPTEE_REG>>, <<"no-map", <<>>>>>>),
   panelPlanes |-> AsFcn(PlaneProps(48, 4)), hdmiPlanes |-> AsFcn(PlaneProps(15, 2)),
   delays |-> [n \in {d[1] : d \in Elems(PANEL_DELAYS)} |->
                 CHOOSE v \in {<<0>>, <<20>>} :
                   \E d \in Elems(PANEL_DELAYS) : d[1] = n /\ v = <<d[3]>>],
   pinctrl |-> AsFcn(PINCTRL_PROPS)]

PT == INSTANCE PlainTree WITH
  NewLine <- LAMBDA v : RewriteRoot(v, Want),
  Flags <- AsFcn(<<<<UHS_FLAGS[1], <<>>>>, <<UHS_FLAGS[2], <<>>>>,
                   <<"desired-num-phases", <<SD_TUNING_PHASES>>>>>>),
  Edit <- EditValues,
  Plans <- {KernelEdits(u) : u \in BOOLEAN} \cup {<<"pinctrl">>}
           \cup {KernelEdits(u) \o MainlineEdits : u \in BOOLEAN},
  given <- Dicts(PartsOf(job)),
  dict <- IF tree = Refused THEN <<>> ELSE Dict(tree),
  kept <- Dicts(done),
  out <- Dicts(file.parts)

\* What the tools do to the bytes is what the plain tree says: each edit
\* changes the entries it is for in the node it is for and no other, whatever
\* shares a name with it and wherever the tokens had to move, and a file holds
\* the edited tree of every variant its input had.
ImplementsPlainTree == PT!Spec
=============================================================================
