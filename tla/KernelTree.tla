----------------------------- MODULE KernelTree -----------------------------
(***************************************************************************)
(* The edits BaseOS makes to the vendor's rk-kernel.dtb, each an operator   *)
(* from a tree to a tree or to Refused (tools/rkbootimg.py), and the one    *)
(* mkpreloader.py makes to the tree of the SPL.                             *)
(***************************************************************************)
EXTENDS DeviceTree

SD_SLOT0_NODE == "dwmmc@fe2b0000"
SD_SLOT1_NODE == "dwmmc@fe2c0000"
WIFI_OHCI_NODE == "usb@fd8c0000"
VOP2_NODE == "vop@fe040000"
DSI == "dsi@fe060000"
HDMI == "hdmi@fe0a0000"
PANEL_NODE == <<DSI, "panel@0">>
OPTEE_NODE == "optee@8400000"

\* Cells that stand for text: "disabled" takes one more than "okay" does.
Okay == <<101>>
Disabled == <<102, 103>>

-----------------------------------------------------------------------------
\* A command line is a sequence of tokens; padding is blank.
Blank == 0
RootTok(dev) == 200 + dev
TypeTok(fs) == 210 + fs
IsRoot(t) == t \in 200 .. 209
IsType(t) == t \in 210 .. 219

\* rewrite_root: root= repointed or added, dropped tokens out, new ones behind.
RewriteRoot(args, want) ==
  LET kept == Picked(args, {i \in DOMAIN args : args[i] \notin want.drop})
      set(t) == IF IsRoot(t) THEN RootTok(want.root)
                ELSE IF IsType(t) THEN TypeTok(want.type) ELSE t
      line == [i \in DOMAIN kept |-> set(kept[i])]
      rooted == IF \E i \in DOMAIN line : IsRoot(line[i])
                THEN line ELSE Append(line, RootTok(want.root))
  IN rooted \o want.append

ArgsOf(v) == Picked(v, {i \in DOMAIN v : v[i] # Blank})
PadTo(args, n) == args \o [i \in 1 .. n - Len(args) |-> Blank]

\* set_bootargs: padded in place when it fits, otherwise the value grows.
SetBootargs(b, args) ==
  LET p == FindProp(b, <<"chosen">>, "bootargs")
      room == Len(b.struct[p].val)
      new == SetValue(b, p, IF Len(args) <= room THEN PadTo(args, room) ELSE args)
      q == FindProp(new, <<"chosen">>, "bootargs")
  IN IF p = 0 THEN Refused
     ELSE IF Len(args) > room /\ new.struct[q].val # args THEN Refused
     ELSE new

\* The line a tool starts from; it raises where there is none.
Bootargs(b) == ArgsOf(b.struct[FindProp(b, <<"chosen">>, "bootargs")].val)

-----------------------------------------------------------------------------
\* set_sd_uhs, for sdr104.
UHS_FLAGS == <<"sd-uhs-sdr50", "sd-uhs-sdr104">>
UHS_NEEDS == 150

\* Every property the device tree binding names sd-uhs-...
SdUhsNames == {"sd-uhs-sdr12", "sd-uhs-sdr25", "sd-uhs-sdr50", "sd-uhs-sdr104",
               "sd-uhs-ddr50"}
SD_TUNING_PHASES == 36

SetSdUhs(b) ==
  LET props == NodeProps(b, <<SD_SLOT0_NODE>>)
  IN IF /\ FirstNode(b, <<SD_SLOT0_NODE>>) # 0
        /\ Has(props, "vqmmc-supply") /\ Has(props, "max-frequency")
        /\ props["max-frequency"][1] >= UHS_NEEDS
        /\ ~Has(props, "desired-num-phases")
     THEN AddProps(b, <<SD_SLOT0_NODE>>,
            [i \in DOMAIN UHS_FLAGS |-> <<UHS_FLAGS[i], <<>>>>]
            \o <<<<"desired-num-phases", <<SD_TUNING_PHASES>>>>>>)
     ELSE Refused

\* Mutant: slot 1's supply is removed whether or not slot 0 shares it.
DetachSlot1Unasked(b) == NopProp(b, <<SD_SLOT1_NODE>>, "vqmmc-supply")

\* detach_sd_slot1_vqmmc: .get() on both, so two absent supplies are equal.
SupplyOf(b, node) ==
  LET props == NodeProps(b, <<node>>)
  IN IF Has(props, "vqmmc-supply") THEN props["vqmmc-supply"] ELSE <<>>

DetachSlot1(b) ==
  IF /\ FirstNode(b, <<SD_SLOT0_NODE>>) # 0 /\ FirstNode(b, <<SD_SLOT1_NODE>>) # 0
     /\ SupplyOf(b, SD_SLOT0_NODE) = SupplyOf(b, SD_SLOT1_NODE)
     /\ SdUhsNames \cap DOMAIN NodeProps(b, <<SD_SLOT1_NODE>>) = {}
  THEN NopProp(b, <<SD_SLOT1_NODE>>, "vqmmc-supply")
  ELSE Refused

\* A property whose new value is longer: the old one out, the new one in.
Replace(b, node, prop, v) ==
  LET out == NopProp(b, node, prop)
  IN IF out = Refused THEN Refused ELSE AddProps(out, node, <<<<prop, v>>>>)

DisableWifiOhci(b) ==
  LET props == NodeProps(b, <<WIFI_OHCI_NODE>>)
  IN IF /\ FirstNode(b, <<WIFI_OHCI_NODE>>) # 0
        /\ Has(props, "status") /\ props["status"] = Okay
     THEN Replace(b, <<WIFI_OHCI_NODE>>, "status", Disabled)
     ELSE Refused

\* drop_dmc_touchboost: system-status-level is a list of pairs, exactly one of
\* them the boost.
SYS_STATUS_BOOST == 4096
Pairs(v) == [i \in 1 .. Len(v) \div 2 |-> <<v[2 * i - 1], v[2 * i]>>]
WithoutBoost(v) ==
  FlattenSeq(Picked(Pairs(v), {i \in DOMAIN Pairs(v) : Pairs(v)[i][1] # SYS_STATUS_BOOST}))

DropTouchboost(b) ==
  LET props == NodeProps(b, <<"dmc">>)
      levels == props["system-status-level"]
  IN IF /\ FirstNode(b, <<"dmc">>) # 0 /\ Has(props, "system-status-level")
        /\ Len(levels) % 2 = 0 /\ Len(WithoutBoost(levels)) = Len(levels) - 2
     THEN Replace(b, <<"dmc">>, "system-status-level", WithoutBoost(levels))
     ELSE Refused

-----------------------------------------------------------------------------
\* add_optee_reservation; an address and a size take two cells each.
OPTEE_REG == <<0, 132, 0, 16>>

ReserveOptee(b) ==
  LET cells == NodeProps(b, <<"reserved-memory">>)
  IN IF /\ FirstNode(b, <<"reserved-memory">>) # 0
        /\ Has(cells, "#address-cells") /\ cells["#address-cells"] = <<2>>
        /\ Has(cells, "#size-cells") /\ cells["#size-cells"] = <<2>>
     THEN AddSubnode(b, "reserved-memory", OPTEE_NODE,
                     <<<<"reg", OPTEE_REG>>, <<"no-map", <<>>>>>>)
     ELSE Refused

\* vop2_port_of: the port an enabled endpoint of the encoder is wired to.  A
\* decoy port of the encoder's own has the same name as one of the VOP's.
VopPorts(b, encoder) ==
  LET facts == Facts(b)
      paths == {k[1] : k \in DOMAIN facts}
      enabled(path) == <<path, "status">> \in DOMAIN facts
                         => facts[<<path, "status">>] = Okay
      remotes == {facts[<<path, "remote-endpoint">>] : path \in
                    {q \in paths : /\ encoder \in Elems(q)
                                   /\ <<q, "remote-endpoint">> \in DOMAIN facts
                                   /\ enabled(q)}}
  IN {path[Len(path) - 1] : path \in
        {q \in paths : /\ VOP2_NODE \in Elems(q)
                       /\ <<q, "phandle">> \in DOMAIN facts
                       /\ facts[<<q, "phandle">>] \in remotes}}

\* Mutant: the port is looked up by its own name, which the encoders use too.
PortNodeBare(port) == <<port>>

PortNode(port) == <<VOP2_NODE, "ports", port>>

PlaneProps(mask, primary) ==
  <<<<"plane-mask", <<mask>>>>, <<"primary-plane", <<primary>>>>>>

\* One display of set_vop2_plane_masks, not on a port taken before.
AssignPlanes(b, encoder, mask, primary, taken) ==
  LET ports == VopPorts(b, encoder)
      port == CHOOSE q \in ports : TRUE
  IN IF b = Refused \/ Cardinality(ports) # 1 THEN Refused
     ELSE IF port \in taken \/ FirstNode(b, PortNode(port)) = 0 THEN Refused
     ELSE IF Has(NodeProps(b, PortNode(port)), "plane-mask") THEN Refused
     ELSE AddProps(b, PortNode(port), PlaneProps(mask, primary))

\* The VOP's six windows and the one each display scans out from first.
PANEL_WINDOWS == {4, 5}
HDMI_WINDOWS == {0, 1, 2, 3}
PANEL_PRIMARY == 4
HDMI_PRIMARY == 2
Mask(windows) ==
  LET bit(i) == IF i \in windows THEN 2 ^ i ELSE 0
  IN bit(0) + bit(1) + bit(2) + bit(3) + bit(4) + bit(5)

\* set_vop2_plane_masks: all six windows, each once, and a port per display.
SetPlaneMasks(b) ==
  LET dsi == AssignPlanes(b, DSI, Mask(PANEL_WINDOWS), PANEL_PRIMARY, {})
  IN IF /\ PANEL_WINDOWS \cap HDMI_WINDOWS = {}
        /\ PANEL_WINDOWS \cup HDMI_WINDOWS = 0 .. 5
     THEN AssignPlanes(dsi, HDMI, Mask(HDMI_WINDOWS), HDMI_PRIMARY, VopPorts(b, DSI))
     ELSE Refused

\* set_panel_delays: vendor value against ours, and the sleep-out's wait.
PANEL_DELAYS == <<<<"reset-delay-ms", 160, 0>>, <<"init-delay-ms", 200, 20>>,
                  <<"enable-delay-ms", 200, 0>>>>
PANEL_SLEEP_OUT == <<250, 120>>

PutPanel(b, prop, v) == SetValue(b, FindProp(b, PANEL_NODE, prop), v)

SetPanelDelays(b) ==
  LET at(prop) == FindProp(b, PANEL_NODE, prop)
      put(t, i) == PutPanel(t, PANEL_DELAYS[i][1], <<PANEL_DELAYS[i][3]>>)
      opening == b.struct[at("panel-init-sequence")].val
  IN IF /\ FirstNode(b, PANEL_NODE) # 0
        /\ ~Has(NodeProps(b, PANEL_NODE), "reset-gpios")
        /\ \A i \in DOMAIN PANEL_DELAYS :
             /\ at(PANEL_DELAYS[i][1]) # 0
             /\ b.struct[at(PANEL_DELAYS[i][1])].val = <<PANEL_DELAYS[i][2]>>
        /\ at("panel-init-sequence") # 0
        /\ opening # <<>> /\ opening[1] = PANEL_SLEEP_OUT[1]
     THEN PutPanel(put(put(put(b, 1), 2), 3), "panel-init-sequence",
                   <<PANEL_SLEEP_OUT[2]>> \o Tail(opening))
     ELSE Refused
=============================================================================
