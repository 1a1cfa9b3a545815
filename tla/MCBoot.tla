------------------------------- MODULE MCBoot -------------------------------
(***************************************************************************)
(* Instance of BootTree: the vendor's trees in the shape the tools expect, *)
(* and each of them off in one respect.  A variant is the name of that      *)
(* respect; most are off for one tool or one option only.                   *)
(***************************************************************************)
EXTENDS BootTree, TLC

MCWant == [root |-> 1, type |-> 4, drop |-> {7}, append |-> <<8, 9>>]

Endpoint(n, phandle, remote, status) ==
  Node(n, <<Prop("phandle", <<phandle>>), Prop("remote-endpoint", <<remote>>)>>
          \o (IF status = Okay THEN <<>> ELSE <<Prop("status", status)>>), <<>>)
PortOfOne(n, endpoints) == Node(n, <<>>, endpoints)

Line(v) == CASE v = "grows" -> <<203, 212, 6>>
             [] v = "norootarg" -> <<6, 212>>
             [] OTHER -> <<203, 7, 212, Blank, Blank>>
Levels(v) == CASE v = "noboost" -> <<1, 50>>
               [] v = "boosts" -> <<4096, 60, 4096, 70>>
               [] v = "oddlevels" -> <<4096, 60, 1>>
               [] OTHER -> <<1, 50, 4096, 60, 2, 80>>

\* The panel hangs off port@1 of the VOP and HDMI off port@0, or the reverse.
VopPhandles(v) == IF v = "swapped" THEN <<34, 33>> ELSE <<33, 34>>

Kernel(v) ==
  LET hdmiStatus == IF v = "shared" THEN <<Disabled, Okay>> ELSE <<Okay, Disabled>>
      ph == VopPhandles(v)
  IN Serialise(Node("/", <<Prop("model", <<1>>)>>,
  <<Node("chosen", IF v = "noargs" THEN <<>> ELSE <<Prop("bootargs", Line(v))>>, <<>>),
    Node("reserved-memory",
         <<Prop("#address-cells", <<IF v = "cells" THEN 1 ELSE 2>>),
           Prop("#size-cells", <<2>>)>>,
         <<Node("ramoops", <<Prop("reg", <<1>>)>>, <<>>)>>
         \o (IF v = "optee" THEN <<Node(OPTEE_NODE, <<Prop("no-map", <<>>)>>, <<>>)>>
             ELSE <<>>)),
    Node(DSI, <<>>,
         <<Node("ports", <<>>,
                <<PortOfOne("port@0", <<Endpoint("endpoint@0", 21, 35, Disabled),
                                        Endpoint("endpoint@1", 22, 34, Okay)>>),
                  PortOfOne("port@1", <<Endpoint("endpoint", 23, 24, Okay)>>)>>),
           Node("panel@0",
                [i \in DOMAIN PANEL_DELAYS |->
                   Prop(PANEL_DELAYS[i][1],
                        <<IF v = "delays" /\ i = 2 THEN 20 ELSE PANEL_DELAYS[i][2]>>)]
                \o <<Prop("panel-init-sequence", <<IF v = "sleepout" THEN 120 ELSE 250, 41>>)>>
                \o (IF v = "reset" THEN <<Prop("reset-gpios", <<9>>)>> ELSE <<>>),
                <<Node("ports", <<>>,
                       <<PortOfOne("port@0", <<Endpoint("endpoint", 24, 23, Okay)>>)>>)>>)>>),
    Node(HDMI, <<Prop("status", Okay)>>,
         <<Node("ports", <<>>,
                <<PortOfOne("port@0", <<Endpoint("endpoint@0", 25, 33, hdmiStatus[1]),
                                        Endpoint("endpoint@1", 26, 36, hdmiStatus[2])>>)>>)>>),
    Node(VOP2_NODE, <<>>,
         <<Node("ports", <<>>,
                <<PortOfOne("port@0", <<Endpoint("endpoint@0", ph[1], 25, Okay),
                                        Endpoint("endpoint@1", 35, 21, Disabled)>>),
                  Node("port@1",
                       IF v = "mask" THEN <<Prop("plane-mask", <<1>>)>> ELSE <<>>,
                       <<Endpoint("endpoint@0", ph[2], 22, Okay),
                         Endpoint("endpoint@1", 36, 26, Disabled)>>)>>)>>),
    Node(SD_SLOT0_NODE,
         <<Prop("max-frequency", <<IF v = "slow" THEN 149 ELSE 150>>)>>
         \o (IF v = "nosupply" THEN <<>> ELSE <<Prop("vqmmc-supply", <<55>>)>>)
         \o (IF v = "tuned" THEN <<Prop("desired-num-phases", <<90>>)>> ELSE <<>>), <<>>),
    Node(SD_SLOT1_NODE,
         (IF v = "nosupply" THEN <<>>
          ELSE <<Prop("vqmmc-supply", <<IF v = "ownsupply" THEN 56 ELSE 55>>)>>)
         \o (IF v = "slot1uhs" THEN <<Prop("sd-uhs-sdr25", <<>>)>> ELSE <<>>), <<>>),
    Node(WIFI_OHCI_NODE,
         <<Nop, Prop("reg", <<3>>), Prop("status", IF v = "ohci" THEN Disabled ELSE Okay)>>,
         <<>>),
    Node("dmc", <<Prop("system-status-level", Levels(v))>>,
         <<Node("opp", <<Prop("status", Okay)>>, <<>>)>>)>>))

\* What each option and tool minds.
Minded == {"noargs", "nosupply", "ownsupply", "slot1uhs", "ohci", "noboost", "boosts",
           "oddlevels"}
MindedByUhs == {"slow", "tuned"}
MindedByMkfit == {"cells", "shared", "mask", "reset", "delays", "sleepout"}
Variants == Minded \cup MindedByUhs \cup MindedByMkfit
            \cup {"plain", "swapped", "grows", "norootarg", "optee"}

MindedBy(tool, uhs) ==
  Minded \cup (IF uhs THEN MindedByUhs ELSE {})
         \cup (IF tool = "mkfit" THEN MindedByMkfit ELSE {})

KernelOf == [v \in Variants |-> Kernel(v)]
RawKernel == [form |-> "raw", len |-> 3001]
TreePart(n, v) == [name |-> n, tree |-> KernelOf[v], len |-> Size(KernelOf[v])]
Logo(n) == [name |-> n, len |-> 300]

\* The tree that is off is the HDMI variant for setargs, the only one for mkfit.
SetargsJob(v, uhs, compress, logo) ==
  [tool |-> "setargs", uhs |-> uhs, compress |-> compress, logo |-> logo,
   kernel |-> RawKernel,
   parts |-> <<Logo("logo.bmp"), TreePart("rk-kernel.dtb", "plain"),
               TreePart("rk-kernel.dtb.hdmi", v), Logo("logo_kernel.bmp")>>]
MkfitJob(v, uhs, imageMiB, slot) ==
  [tool |-> "mkfit", uhs |-> uhs, compress |-> "zstd", kernel |-> RawKernel,
   imageMiB |-> imageMiB, slot |-> slot,
   parts |-> <<TreePart("rk-kernel.dtb.hdmi", "plain"), TreePart("rk-kernel.dtb", v)>>]

\* A job's name: its tool, what its input is off in, its option.
KernelNames == {"setargs", "mkfit"} \X Variants \X {"uhs", "-"}
SoundKernels == {n \in KernelNames : n[2] \notin MindedBy(n[1], n[3] = "uhs")}
KernelJobs ==
  [n \in KernelNames |->
     IF n[1] = "setargs" THEN SetargsJob(n[2], n[3] = "uhs", "gzip", 417)
     ELSE MkfitJob(n[2], n[3] = "uhs", 100, 2000)]

\* A kernel of 100 MiB ends where OP-TEE starts.
MoreJobs ==
  (<<"setargs", "raw", "uhs">> :> SetargsJob("plain", TRUE, "none", 0))
  @@ (<<"mkfit", "101 MiB", "uhs">> :> MkfitJob("plain", TRUE, 101, 2000))
  @@ (<<"mkfit", "no room", "uhs">> :> MkfitJob("plain", TRUE, 40, 130))
  @@ (<<"setargs", "no tree", "uhs">> :>
        [SetargsJob("plain", TRUE, "none", 0) EXCEPT !.parts = <<Logo("logo.bmp")>>])
  @@ (<<"mkfit", "no tree", "uhs">> :>
        [MkfitJob("plain", TRUE, 40, 2000) EXCEPT !.parts = <<Logo("logo.bmp")>>])

-----------------------------------------------------------------------------
Spl(v) ==
  Serialise(Node("/", <<>>,
    <<Node("chosen", <<Prop("spl-boot-order",
                            IF v = "nandfirst" THEN <<NAND_DEVICE, SD_DEVICE>>
                            ELSE <<3, SD_DEVICE, NAND_DEVICE>>)>>, <<>>),
      Node("syscon@fdc20000", <<Prop("phandle", <<PMUGRF_PHANDLE>>)>>, <<>>),
      Node("syscon@fdc60000",
           <<Prop("phandle", <<IF v = "phandle" THEN 99 ELSE GRF_PHANDLE>>)>>, <<>>),
      Node("dwmmc@fe2b0000",
           IF v = "nopins" THEN <<>> ELSE <<Prop("pinctrl-0", <<75>>)>>, <<>>),
      Node(IF v = "nopinctrl" THEN "pinmux" ELSE "pinctrl",
           IF v = "patched" THEN <<Prop("compatible", <<70>>)>> ELSE <<>>,
           <<Node("sdmmc0", <<Prop("phandle", <<75>>), Prop("pins", <<1, 2>>)>>, <<>>)>>)>>))

Growth == Size(Insert(Spl("plain"), FirstNode(Spl("plain"), <<"pinctrl">>), PINCTRL_PROPS))
          - Size(Spl("plain"))

SplCopy(v, i) ==
  LET c == Copy(CASE v = "ddr" -> "V1.10" [] v = "ddrs" /\ i = 2 -> "V1.17" [] OTHER -> "V1.18",
                "spl", Spl(v), CASE v = "tight" -> Growth [] v = "full" -> Growth - 1
                                 [] OTHER -> Growth + 40,
                IF v = "tail" THEN "data" ELSE "zero")
  IN CASE v = "hash1" /\ i = 2 -> [c EXCEPT !.hash1 = <<"V1.17">>]
       [] v = "hash2" /\ i = 2 -> [c EXCEPT !.hash2 = <<>>]
       [] OTHER -> c

SoundSpls == {"plain", "tight"}
Spls == SoundSpls \cup {"nandfirst", "phandle", "nopins", "nopinctrl", "patched", "ddr",
                        "ddrs", "full", "tail", "hash1", "hash2"}
PreloaderJobs ==
  [n \in {"mkpreloader"} \X Spls \X {"-"} |->
     [tool |-> "mkpreloader",
      parts |-> [i \in 1 .. 2 |-> [name |-> "spl", tree |-> Spl(n[2]),
                                   copy |-> SplCopy(n[2], i)]]]]

-----------------------------------------------------------------------------
Image(n, l) == [name |-> n, len |-> l, data |-> n, type |-> "standalone", load |-> "there"]
Stock(images, loadables) ==
  [images |-> images, firmware |-> "atf-1", loadables |-> loadables, fdt |-> "fdt"]
StockImages == <<Image("uboot", 9001), Image("atf-1", 700), Image("atf-2", 128),
                 Image("optee", 1000), Image("fdt", 129)>>
Ours(l, elf) == [data |-> "ours", len |-> l, load |-> "text base", elf |-> elf]

UbootJob(vendor, uboot) ==
  [tool |-> "mkfit-uboot", vendor |-> vendor, uboot |-> uboot, parts |-> <<>>]
Many == [i \in 1 .. 45 |-> Image(IF i = 45 THEN "uboot" ELSE ToString(i), 10)]
UbootCases == {"short", "whole", "long", "noload", "missing", "elf", "many"}
UbootJobs ==
  [n \in {"mkfit-uboot"} \X UbootCases \X {"-"} |->
     UbootJob(CASE n[2] = "noload" -> Stock(StockImages, <<"atf-2">>)
                [] n[2] = "missing" -> Stock(Tail(StockImages), <<"uboot">>)
                [] n[2] = "many" -> Stock(Many, <<"uboot">>)
                [] OTHER -> Stock(StockImages, <<"uboot", "atf-2">>),
              Ours(CASE n[2] = "whole" -> 5120 [] n[2] = "long" -> 12345 [] OTHER -> 5000,
                   n[2] = "elf"))]

MCJobs == KernelJobs @@ MoreJobs @@ PreloaderJobs @@ UbootJobs
MCSound ==
  SoundKernels \cup {<<"setargs", "raw", "uhs">>}
  \cup {<<"mkpreloader", v, "-">> : v \in SoundSpls}
  \cup {<<"mkfit-uboot", v, "-">> : v \in {"short", "whole", "long"}}
=============================================================================
