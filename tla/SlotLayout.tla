----------------------------- MODULE SlotLayout -----------------------------
(***************************************************************************)
(* The sectors behind the partition table that GptCommit writes: where     *)
(* tools/mkgpt.py lays the regions out, how src/gptslot.c derives from a   *)
(* table alone which half of each is active, and what flip and gptgrow put *)
(* into an entry.  A table maps the names of its entries to their first    *)
(* and last sector.                                                        *)
(***************************************************************************)
EXTENDS GptCommit, Integers

CONSTANTS
  Sectors,         \* SLOTS: the size of one half of each A/B region
  DATA_SECTORS,
  PRIMARY_SECTORS, \* of the image
  Device           \* the size of the card it is written to

Names == {"uboot", "boot", "rootfs"}
Entries == Names \cup {"data", "primary"}
UBOOT_START == 16384
ENTRY_SECTORS == 32

ASSUME SlotAssumption ==
  /\ Regions \subseteq Names
  /\ Sectors \in [Names -> Nat] /\ \A r \in Names : Sectors[r] > 1
  /\ DATA_SECTORS \in Nat \ {0} /\ PRIMARY_SECTORS \in Nat \ {0} /\ Device \in Nat

Span(first, sectors) == [start |-> first, end |-> first + sectors - 1]

-----------------------------------------------------------------------------
\* mkgpt's layout: each region reserves twice what it needs.
At(size) ==
  [r \in Entries |->
     CASE r = "uboot" -> UBOOT_START
       [] r = "boot" -> UBOOT_START + 2 * size["uboot"]
       [] r = "rootfs" -> UBOOT_START + 2 * (size["uboot"] + size["boot"])
       [] r = "data" -> UBOOT_START + 2 * (size["uboot"] + size["boot"] + size["rootfs"])
       [] r = "primary" -> UBOOT_START + DATA_SECTORS
                           + 2 * (size["uboot"] + size["boot"] + size["rootfs"])]

Total == At(Sectors)["primary"] + PRIMARY_SECTORS + ENTRY_SECTORS + 1

\* The card is no smaller than the image.
ASSUME DeviceAssumption == Device >= Total

DeviceEnd == [image |-> Total, end |-> Device]
LastUsable(total) == total - ENTRY_SECTORS - 2

\* Where a copy lies, its header and its entries, the MBR with the primary's.
CopySpan(c) ==
  IF c = "primary" THEN Span(0, 2 + ENTRY_SECTORS)
  ELSE Span(DeviceEnd[c] - 1 - ENTRY_SECTORS, ENTRY_SECTORS + 1)

\* The table a layout stands for; gptgrow has moved the end of `primary`.
EntryOf(layout, r) ==
  CASE r \in Names ->
         Span(At(Sectors)[r] + (IF r \in layout.slots THEN Sectors[r] ELSE 0), Sectors[r])
    [] r = "data" -> Span(At(Sectors)["data"], DATA_SECTORS)
    [] r = "primary" ->
         [start |-> At(Sectors)["primary"],
          end |-> IF layout.grown THEN LastUsable(Device) ELSE LastUsable(Total)]
TableOf(layout) == [r \in Entries |-> EntryOf(layout, r)]

-----------------------------------------------------------------------------
\* derive.  The sizes come from the entries.
SizeOf(t) == [r \in Names |-> t[r].end - t[r].start + 1]

\* Mutant: the next region is looked for behind this one's first half.
BaseTight(t, r) ==
  IF r = "uboot" THEN UBOOT_START
  ELSE IF r = "boot" THEN UBOOT_START + SizeOf(t)["uboot"] ELSE At(SizeOf(t))[r]

Base(t, r) == At(SizeOf(t))[r]

Derived(t) ==
  /\ Names \cup {"data"} \subseteq DOMAIN t
  /\ \A r \in Names :
       /\ t[r].end > t[r].start
       /\ t[r].start \in {Base(t, r), Base(t, r) + SizeOf(t)[r]}
  /\ t["data"].start = Base(t, "data")

InB(t, r) == t[r].start # Base(t, r)
Inactive(t, r) == IF InB(t, r) THEN Base(t, r) ELSE Base(t, r) + SizeOf(t)[r]
Spare(t, r) == Span(Inactive(t, r), SizeOf(t)[r])

\* gptslot flip.
FlipTable(t, rs) == [r \in DOMAIN t |-> IF r \in rs THEN Spare(t, r) ELSE t[r]]

-----------------------------------------------------------------------------
Apart(s, t) == s.end < t.start \/ t.end < s.start

\* The primary's tables: gpt_read checks no CRC, so gptslot may be given either,
\* whatever the header says of it.
PrimaryTables == {tab["primary"], tabD["primary"]}

\* In the cache and on the card the primary's table is a layout gptslot derives,
\* with the halves the commit meant, and a flip makes the table it means.
HalvesDerived ==
  \A layout \in PrimaryTables :
    LET t == TableOf(layout)
    IN /\ Derived(t)
       /\ \A r \in Names : InB(t, r) <=> r \in layout.slots
       /\ \A rs \in SUBSET Regions :
            FlipTable(t, rs) =
              TableOf([layout EXCEPT !.slots = (@ \ rs) \cup (rs \ @)])

\* The halves an update writes belong to no partition and hold no copy of the
\* table; no partition, grown or not, covers the primary or the backup that the
\* header in force names.
NothingOverlaps ==
  /\ \A layout \in PrimaryTables :
       LET t == TableOf(layout)
       IN /\ \A r \in Names :
               /\ \A e \in Entries : Apart(Spare(t, r), t[e])
               /\ \A c \in Copies : Apart(Spare(t, r), CopySpan(c))
          /\ \A d, e \in Entries : d # e => Apart(t[d], t[e])
  /\ Valid(tabD, hdrD, "primary") =>
       \A e \in Entries :
         /\ Apart(TableOf(tabD["primary"])[e], CopySpan("primary"))
         /\ Apart(TableOf(tabD["primary"])[e], CopySpan(hdrD["primary"].alt))

\* src/gptslot.c and tools/mkgpt.py agree on the sectors of every table that any
\* commit, cut or error leaves on the card.
LayoutSound == HalvesDerived /\ NothingOverlaps
=============================================================================
