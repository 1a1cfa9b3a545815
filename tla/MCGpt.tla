------------------------------- MODULE MCGpt -------------------------------
(* SlotLayout for TLC: two regions are enough for partial flips; the sizes are *)
(* those of tools/mkgpt.py, on a card of 4 GiB.                                *)
EXTENDS SlotLayout
MCRegions == {"boot", "rootfs"}
MIB == 2048
MCSectors == [uboot |-> 8 * MIB, boot |-> 40 * MIB, rootfs |-> 512 * MIB]
MCData == 128 * MIB
MCPrimary == 64 * MIB
MCDevice == 4096 * MIB
=============================================================================
