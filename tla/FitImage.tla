------------------------------- MODULE FitImage -------------------------------
(***************************************************************************)
(* The containers the tools write: tools/mkfit.py's FITs, whose tree is     *)
(* serialised from nodes, and the Android boot image and resource image of  *)
(* tools/rkbootimg.py.  Lengths and places are in words of four bytes.      *)
(***************************************************************************)
EXTENDS DeviceTree

SECTOR == 128
PAGE == 512
FIT_DATA_START == 1024

-----------------------------------------------------------------------------
\* Node: its properties first, then its children, whatever the order of calls.
Node(name, props, children) ==
  <<Begin(name)>> \o props \o FlattenSeq(children) \o <<EndNode>>

\* build_fdt: a property's name enters the strings when it is first used.
Serialise(items) ==
  LET prop(i) == items[i].tok = "prop"
      first == {i \in DOMAIN items :
                  prop(i) /\ \A j \in 1 .. i - 1 : prop(j) => items[j].at # items[i].at}
      named == Picked(items, first)
      strings == [i \in DOMAIN named |-> named[i].at]
      token(t) == IF t.tok = "prop" THEN Prop(OffsetIn(strings, t.at), t.val) ELSE t
  IN [struct |-> [i \in DOMAIN items |-> token(items[i])], strings |-> strings]

-----------------------------------------------------------------------------
\* Mutant: the next payload starts on the boundary the last one ended behind.
RoundDown(n, to) == (n \div to) * to

\* _pad, and every "-len % align" of the writers.
RoundUp(n, to) == ((n + to - 1) \div to) * to

\* Where payloads of these lengths go, each at the next boundary.
Offsets(lens, start, align) ==
  LET at[i \in 1 .. Len(lens) + 1] ==
        IF i = 1 THEN RoundUp(start, align)
        ELSE RoundUp(at[i - 1] + lens[i - 1], align)
  IN [i \in DOMAIN lens |-> at[i]]

TotalLen(lens, start, align) ==
  LET offs == Offsets(lens, start, align)
  IN IF lens = <<>> THEN RoundUp(start, align)
     ELSE RoundUp(offs[Len(lens)] + lens[Len(lens)], align)

\* ResourceImage.build: a table of one block per entry, the data behind it.
Resource(entries) ==
  LET lens == [i \in DOMAIN entries |-> entries[i].len]
      start == SECTOR * (1 + Len(entries))
  IN [entries |-> entries, offs |-> Offsets(lens, start, SECTOR),
      len |-> TotalLen(lens, start, SECTOR)]

\* BootImage.compute_id, over each payload and its length.
IdOf(img) == <<img.kernel, img.ramdisk, img.second>>

\* BootImage.rebuild: three payloads on pages, and the id of what is there.
Android(kernel, ramdisk, second) ==
  [kernel |-> kernel, ramdisk |-> ramdisk, second |-> second,
   offs |-> Offsets(<<kernel.len, ramdisk.len, second.len>>, PAGE, PAGE),
   id |-> IdOf([kernel |-> kernel, ramdisk |-> ramdisk, second |-> second])]

-----------------------------------------------------------------------------
(***************************************************************************)
(* mkfit.py uboot: the vendor's FIT with our U-Boot in it.  A FIT is its   *)
(* tree and what was written behind it, in order.                          *)
(***************************************************************************)
CARRY_PROPS == <<"type", "load">>

ImageNode(img, at) ==
  Node(img.name,
       <<Prop("data-size", <<img.len>>), Prop("data-position", <<at>>)>>
       \o [i \in DOMAIN CARRY_PROPS |-> Prop(CARRY_PROPS[i], <<img[CARRY_PROPS[i]]>>)],
       <<Node("hash", <<Prop("value", <<img.data>>)>>, <<>>)>>)

\* compose
FitTree(vendor, images, positions, total) ==
  Serialise(Node("/", <<Prop("totalsize", <<total>>)>>,
    <<Node("images", <<>>, [i \in DOMAIN images |-> ImageNode(images[i], positions[i])]),
      Node("configurations", <<Prop("default", <<"conf">>)>>,
        <<Node("conf", <<Prop("firmware", <<vendor.firmware>>),
                         Prop("loadables", vendor.loadables)>>
                       \o IF vendor.fdt = "" THEN <<>> ELSE <<Prop("fdt", <<vendor.fdt>>)>>,
               <<>>)>>)>>))

WithUboot(vendor, uboot) ==
  [i \in DOMAIN vendor.images |->
     IF vendor.images[i].name = "uboot"
     THEN [vendor.images[i] EXCEPT !.data = uboot.data, !.len = uboot.len,
                                   !.load = uboot.load]
     ELSE vendor.images[i]]

HasUboot(vendor) ==
  /\ "uboot" \in {vendor.images[i].name : i \in DOMAIN vendor.images}
  /\ "uboot" \in Elems(vendor.loadables)

\* The first pass measures the tree with every position zero.
Probe(vendor, images) ==
  FitTree(vendor, images, [i \in DOMAIN images |-> 0], 0)

UbootFit(vendor, uboot) ==
  LET images == WithUboot(vendor, uboot)
      lens == [i \in DOMAIN images |-> images[i].len]
      offs == Offsets(lens, FIT_DATA_START, SECTOR)
      total == TotalLen(lens, FIT_DATA_START, SECTOR)
  IN [tree |-> FitTree(vendor, images, offs, total), total |-> total,
      written |-> [i \in DOMAIN images |->
                     [at |-> offs[i], len |-> images[i].len, data |-> images[i].data]]]

UbootFitRefused(vendor, uboot) ==
  LET probe == Probe(vendor, WithUboot(vendor, uboot))
  IN \/ ~HasUboot(vendor)
     \/ Size(probe) > FIT_DATA_START
     \/ Size(UbootFit(vendor, uboot).tree) # Size(probe)

Overlap(lo, hi, from, to) == lo < to /\ from < hi

\* image_data: what lies at the position the tree names; a later write over any
\* of it, or the tree itself, spoils it.
ImageData(fit, name) ==
  LET facts == Facts(fit.tree)
      prop(p) == facts[<<<<"/", "images", name>>, p>>][1]
      at == prop("data-position")
      here == {i \in DOMAIN fit.written :
                 fit.written[i].at = at /\ fit.written[i].len = prop("data-size")}
      whole(i) == /\ at >= Size(fit.tree) /\ at + prop("data-size") <= fit.total
                  /\ \A j \in i + 1 .. Len(fit.written) :
                       ~Overlap(at, at + fit.written[i].len, fit.written[j].at,
                                fit.written[j].at + fit.written[j].len)
      good == {i \in here : whole(i)}
  IN IF good = {} THEN "spoiled" ELSE fit.written[CHOOSE i \in good : TRUE].data

\* cmd_uboot's asserts: every hash, and every vendor payload as it was.
UbootReadsBack(vendor, uboot, fit) ==
  \A i \in DOMAIN vendor.images :
    LET img == vendor.images[i]
        data == ImageData(fit, img.name)
    IN /\ data = IF img.name = "uboot" THEN uboot.data ELSE img.data
       /\ Facts(fit.tree)[<<<<"/", "images", img.name, "hash">>, "value">>] = <<data>>

-----------------------------------------------------------------------------
(***************************************************************************)
(* mkfit.py boot: kernel and tree in one FIT behind a header sector.       *)
(* check_dram_map's regions are in MiB.                                    *)
(***************************************************************************)
LOG_SECTORS == 128

BootFit(kernel, dtb) ==
  Serialise(Node("/", <<>>,
    <<Node("images", <<>>,
       <<Node("kernel", <<Prop("data", <<kernel>>)>>, <<>>),
         Node("fdt", <<Prop("data", <<dtb>>)>>, <<>>)>>),
      Node("configurations", <<Prop("default", <<"conf">>)>>,
       <<Node("conf", <<Prop("kernel", <<"kernel">>), Prop("fdt", <<"fdt">>)>>, <<>>)>>)>>))

BootFitLen(kernel, dtb) ==
  RoundUp(Size(BootFit(kernel, dtb)) + kernel.len + Size(dtb), SECTOR)

WORDS_PER_MIB == 262144
DramMap(imageMiB, fitLen) ==
  <<<<32, 32 + imageMiB>>,                                  \* kernel
    <<160, 160 + RoundUp(fitLen, WORDS_PER_MIB) \div WORDS_PER_MIB>>,   \* FIT
    <<192, 193>>, <<193, 194>>,                             \* header, log
    <<132, 148>>>>                                          \* OP-TEE

DramMapOk(imageMiB, fitLen) ==
  LET r == DramMap(imageMiB, fitLen)
  IN \A i, j \in DOMAIN r : i < j => ~Overlap(r[i][1], r[i][2], r[j][1], r[j][2])

FitsSlot(fitLen, slotSectors) ==
  1 + fitLen \div SECTOR <= slotSectors - LOG_SECTORS
=============================================================================
