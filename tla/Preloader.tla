------------------------------ MODULE Preloader ------------------------------
(***************************************************************************)
(* tools/mkpreloader.py: the stock preloader is two IDB copies, each a DDR *)
(* blob and an SPL image with a device tree and some slack behind it.  A   *)
(* hash is the content it is taken of.                                     *)
(***************************************************************************)
EXTENDS DeviceTree

GRF_PHANDLE == 71
PMUGRF_PHANDLE == 72
PINCTRL_PHANDLE == 73

PINCTRL_PROPS ==
  <<<<"compatible", <<70>>>>, <<"grf", <<GRF_PHANDLE>>>>, <<"pmu", <<PMUGRF_PHANDLE>>>>,
    <<"#address-cells", <<2>>>>, <<"#size-cells", <<2>>>>, <<"ranges", <<>>>>,
    <<"dm-spl", <<>>>>, <<"status", <<101>>>>, <<"phandle", <<PINCTRL_PHANDLE>>>>>>

PINCTRL == <<"/", "pinctrl">>
\* Where the SPL looks for U-Boot, by number: the card and the NAND.
SD_DEVICE == 1
NAND_DEVICE == 2

HashOf1(c) == <<c.ddr>>
HashOf2(c) == <<c.spl, c.tree, c.tail>>

\* A copy of its DDR blob, its SPL, the tree in it and what follows the tree.
Copy(ddr, spl, tree, slack, tail) ==
  LET c == [ddr |-> ddr, spl |-> spl, tree |-> tree, slack |-> slack, tail |-> tail]
  IN [body |-> c, hash1 |-> HashOf1(c), hash2 |-> HashOf2(c)]

\* Fdt.add_props: at the head of /pinctrl, whatever it holds already.
AddPinctrl(t) ==
  LET path == Paths(t.struct)
      named == {p \in NodesAt(t) : path[p] = PINCTRL}
  IN IF named = {} THEN Refused ELSE Insert(t, Min(named), PINCTRL_PROPS)

\* Mutant: the tree may grow over what follows the slack.
RoomIgnored(c, new) == TRUE

RoomFor(c, new) == Size(new) - Size(c.body.tree) <= c.body.slack

\* patch, on one copy.  A refusal is a copy with no tree.
PatchCopy(c) ==
  LET new == AddPinctrl(c.body.tree)
      patched == [c.body EXCEPT !.tree = new,
                                !.slack = @ - (Size(new) - Size(c.body.tree))]
      refusal == [c EXCEPT !.body.tree = Refused]
  IN IF \/ c.hash1 # HashOf1(c.body) \/ c.hash2 # HashOf2(c.body)
        \/ <<PINCTRL, "compatible">> \in DOMAIN Facts(c.body.tree)
        \/ c.body.tail # "zero"
        \/ new = Refused
     THEN refusal
     ELSE IF RoomFor(c, new)
     THEN [c EXCEPT !.body = patched, !.hash2 = HashOf2(patched)]
     ELSE refusal

-----------------------------------------------------------------------------
Get(facts, k) == IF k \in DOMAIN facts THEN facts[k] ELSE <<-1>>

PrefersCard(order) ==
  \E i, j \in DOMAIN order :
    /\ i < j /\ order[i] = SD_DEVICE /\ order[j] = NAND_DEVICE
    /\ \A k \in 1 .. j - 1 : order[k] # NAND_DEVICE

\* verify: what main asks of the result before it writes anything.
Verified(orig, new) ==
  LET old == Facts(orig[1].body.tree)
      now == Facts(new[1].body.tree)
      order == <<<<"/", "chosen">>, "spl-boot-order">>
  IN /\ \A i \in 1 .. 2 : /\ new[i].hash1 = HashOf1(new[i].body)
                          /\ new[i].hash2 = HashOf2(new[i].body)
     /\ new[1].body.ddr = orig[1].body.ddr
     /\ \E i \in 1 .. 2 : new[i].body.ddr = "V1.18"
     /\ \A i \in 1 .. 2 : new[i].body.ddr # "V1.10"
     /\ new[1] = new[2]
     /\ new[1].body.spl = orig[1].body.spl
     /\ \A k \in DOMAIN old : Get(now, k) = old[k]
     /\ \A k \in DOMAIN now \ DOMAIN old : k[1] = PINCTRL
     /\ \A i \in DOMAIN PINCTRL_PROPS :
          Get(now, <<PINCTRL, PINCTRL_PROPS[i][1]>>) = PINCTRL_PROPS[i][2]
     /\ <<<<"/", "dwmmc@fe2b0000">>, "pinctrl-0">> \in DOMAIN now
     /\ Get(now, <<<<"/", "syscon@fdc60000">>, "phandle">>) = <<GRF_PHANDLE>>
     /\ Get(now, <<<<"/", "syscon@fdc20000">>, "phandle">>) = <<PMUGRF_PHANDLE>>
     /\ Get(now, order) = Get(old, order)
     /\ order \in DOMAIN now /\ PrefersCard(now[order])
=============================================================================
