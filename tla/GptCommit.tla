----------------------------- MODULE GptCommit -----------------------------
(***************************************************************************)
(* The write of the partition table (src/gpt.h, gpt_commit) under its two  *)
(* callers: gptslot flip, which repoints A/B entries in place, and gptgrow,*)
(* which extends `primary` and moves the backup copy to the device's end.  *)
(*                                                                         *)
(* A copy of the GPT is a header sector and an entry table.  All that ever *)
(* changes in the table lies in one sector (entries 1-3 in the first, the  *)
(* fifth in the second, never both at once), so it is written as a unit;   *)
(* header and table are not.  pwrite reaches the page cache; fsync, and    *)
(* the kernel in its own time and order, reach the card.                   *)
(***************************************************************************)
EXTENDS FiniteSets

CONSTANTS
  Regions,  \* the entries gptslot may flip
  Blank     \* a sector that holds no copy

ASSUME BlankAssumption ==
  Blank \notin [slots : SUBSET Regions, grown : BOOLEAN]
          \cup [crc : [slots : SUBSET Regions, grown : BOOLEAN], alt : {"image", "end"}]

\* The regions in their second half; whether `primary` fills the device.
Layouts == [slots : SUBSET Regions, grown : BOOLEAN]

\* The image's own end, where mkgpt puts the backup, and the device's end.
Ends == {"image", "end"}
Copies == Ends \cup {"primary"}

\* What matters of a header: the table CRC it stores, standing for the table
\* itself, and where it says the other copy is.
Headers == [crc : Layouts, alt : Ends]

VARIABLES
  tab, hdr,    \* [Copies -> ...] as programs read them
  tabD, hdrD,  \* ... and as they are on the card
  pc,          \* the next step of gpt_commit, "idle" or "off"
  result,      \* what the last commit of this boot returned
  old,         \* the layout gpt_read found
  new,         \* the layout being committed
  end          \* where its backup goes

card == <<tabD, hdrD>>
pages == <<tab, hdr>>
vars == <<pages, card, pc, result, old, new, end>>

-----------------------------------------------------------------------------
\* A reader accepts a copy whose header matches its table.
Valid(t, h, c) == h[c] # Blank /\ h[c].crc = t[c]

\* The layout SPL, U-Boot and the kernel find.  All of them read the primary.
Seen(t, h) == IF Valid(t, h, "primary") THEN t["primary"] ELSE Blank

NewHeader == [crc |-> new, alt |-> end]

-----------------------------------------------------------------------------
\* mkgpt's card: both copies at the image's ends, every region in half A.
Fresh == [slots |-> {}, grown |-> FALSE]
FreshTab == [c \in Copies |-> IF c = "end" THEN Blank ELSE Fresh]
FreshHdr == [c \in Copies |-> IF c = "end" THEN Blank
                              ELSE [crc |-> Fresh, alt |-> "image"]]

Init ==
  /\ tab = FreshTab /\ tabD = FreshTab
  /\ hdr = FreshHdr /\ hdrD = FreshHdr
  /\ pc = "off" /\ result = "none"
  /\ old = Fresh /\ new = Fresh /\ end = "image"

-----------------------------------------------------------------------------
(* The callers: gpt_read, no CRC checked, then the edit of the table.      *)

Ready == pc = "idle" /\ result # "primary"

Start(layout, where) ==
  /\ old' = tab["primary"]
  /\ new' = layout
  /\ end' = where
  /\ pc' = "bakTab"
  /\ result' = "none"
  /\ UNCHANGED <<pages, card>>

\* gptslot flip: the backup is where the primary's header says.  rcS grows
\* the card before anything can flip it; a card that could not be grown, whose
\* backup would stay at the image's end, is left out.
Flip(rs) ==
  /\ Ready
  /\ tab["primary"].grown
  /\ hdr[hdr["primary"].alt] # Blank
  /\ LET now == tab["primary"]
     IN Start([now EXCEPT !.slots = (@ \ rs) \cup (rs \ @)], hdr["primary"].alt)

\* gptgrow: the backup moves to the device's last sectors.
Grow ==
  /\ Ready
  /\ ~tab["primary"].grown
  /\ Start([tab["primary"] EXCEPT !.grown = TRUE], "end")

-----------------------------------------------------------------------------
(* gpt_commit: backup table, backup header, fsync, then the primary alike. *)

WriteTab(c) == tab' = [tab EXCEPT ![c] = new] /\ UNCHANGED hdr
WriteHdr(c) == hdr' = [hdr EXCEPT ![c] = NewHeader] /\ UNCHANGED tab
Fsync == tabD' = tab /\ hdrD' = hdr

Goto(next) == pc' = next /\ UNCHANGED <<result, old, new, end>>
Return(r) == pc' = "idle" /\ result' = r /\ UNCHANGED <<old, new, end>>

\* Mutant: the primary's table is the first to be written.
BackupTabSwapped ==
  pc = "bakTab" /\ WriteTab("primary") /\ UNCHANGED card /\ Goto("bakHdr")

BackupTab == pc = "bakTab" /\ WriteTab(end) /\ UNCHANGED card /\ Goto("bakHdr")

BackupHdr == pc = "bakHdr" /\ WriteHdr(end) /\ UNCHANGED card /\ Goto("bakSync")

\* Mutant: the backup is left to the second fsync.
BackupUnsynced == pc = "bakSync" /\ UNCHANGED <<pages, card>> /\ Goto("priTab")

BackupSync == pc = "bakSync" /\ Fsync /\ UNCHANGED pages /\ Goto("priTab")

PrimaryTab == pc = "priTab" /\ WriteTab("primary") /\ UNCHANGED card /\ Goto("priHdr")

\* Mutant: the header goes out with the CRC it was read with.
PrimaryHdrStale == pc = "priHdr" /\ UNCHANGED <<pages, card>> /\ Goto("priSync")

PrimaryHdr == pc = "priHdr" /\ WriteHdr("primary") /\ UNCHANGED card /\ Goto("priSync")

\* Mutant: success is reported before the card has the table.
PrimaryUnsynced == pc = "priSync" /\ UNCHANGED <<pages, card>> /\ Return("ok")

PrimarySync == pc = "priSync" /\ Fsync /\ UNCHANGED pages /\ Return("ok")

Failure == IF pc \in {"bakTab", "bakHdr", "bakSync"} THEN "backup" ELSE "primary"

\* pwrite fails, or stops short having written the sector that changed.
WriteFails ==
  /\ \/ pc \in {"bakTab", "priTab"}
        /\ LET c == IF pc = "bakTab" THEN end ELSE "primary"
           IN UNCHANGED pages \/ WriteTab(c)
     \/ pc \in {"bakHdr", "priHdr"} /\ UNCHANGED pages
  /\ UNCHANGED card
  /\ Return(Failure)

\* fsync fails: any of the dirty sectors may have reached the card.
FsyncFails ==
  /\ pc \in {"bakSync", "priSync"}
  /\ \E ts \in SUBSET Copies, hs \in SUBSET Copies :
       /\ tabD' = [c \in Copies |-> IF c \in ts THEN tab[c] ELSE tabD[c]]
       /\ hdrD' = [c \in Copies |-> IF c \in hs THEN hdr[c] ELSE hdrD[c]]
  /\ UNCHANGED pages
  /\ Return(Failure)

-----------------------------------------------------------------------------
(* The kernel and the power.                                               *)

WritebackTab(c) ==
  /\ pc # "off" /\ tabD[c] # tab[c]
  /\ tabD' = [tabD EXCEPT ![c] = tab[c]]
  /\ UNCHANGED <<pages, hdrD, pc, result, old, new, end>>

WritebackHdr(c) ==
  /\ pc # "off" /\ hdrD[c] # hdr[c]
  /\ hdrD' = [hdrD EXCEPT ![c] = hdr[c]]
  /\ UNCHANGED <<pages, tabD, pc, result, old, new, end>>

PowerCut ==
  /\ pc # "off"
  /\ pc' = "off" /\ result' = "none"
  /\ tab' = tabD /\ hdr' = hdrD
  /\ UNCHANGED <<card, old, new, end>>

\* SPL, U-Boot and kernel all read the primary.
Boot ==
  /\ pc = "off"
  /\ Valid(tab, hdr, "primary")
  /\ pc' = "idle"
  /\ UNCHANGED <<pages, card, result, old, new, end>>

\* Nothing on the device repairs a card that does not boot.
Reflash ==
  /\ pc = "off"
  /\ ~Valid(tab, hdr, "primary")
  /\ tab' = FreshTab /\ tabD' = FreshTab
  /\ hdr' = FreshHdr /\ hdrD' = FreshHdr
  /\ old' = Fresh /\ new' = Fresh
  /\ UNCHANGED <<pc, result, end>>

-----------------------------------------------------------------------------
Commit ==
  \/ BackupTab \/ BackupHdr \/ BackupSync
  \/ PrimaryTab \/ PrimaryHdr \/ PrimarySync
  \/ WriteFails \/ FsyncFails

Next ==
  \/ Commit \/ Grow
  \/ \E rs \in (SUBSET Regions) \ {{}} : Flip(rs)
  \/ \E c \in Copies : WritebackTab(c) \/ WritebackHdr(c)
  \/ PowerCut \/ Boot \/ Reflash

Spec == Init /\ [][Next]_vars

-----------------------------------------------------------------------------
TypeOK ==
  /\ tab \in [Copies -> Layouts \cup {Blank}]
  /\ tabD \in [Copies -> Layouts \cup {Blank}]
  /\ hdr \in [Copies -> Headers \cup {Blank}]
  /\ hdrD \in [Copies -> Headers \cup {Blank}]
  /\ pc \in {"off", "idle", "bakTab", "bakHdr", "bakSync",
             "priTab", "priHdr", "priSync"}
  /\ result \in {"none", "ok", "backup", "primary"}
  /\ old \in Layouts /\ new \in Layouts /\ end \in Ends

\* At every instant the card itself, cache aside, has a primary that describes the
\* layout before or after the commit; or, the primary being torn, a whole backup
\* of the new layout at the device's end, for whoever is to repair the card.
SomeCopyValid ==
  IF Valid(tabD, hdrD, "primary") THEN tabD["primary"] \in {old, new}
  ELSE Valid(tabD, hdrD, "end") /\ tabD["end"] = new

\* A sector of the primary changes on the card only once a valid backup of
\* the new layout is on the card: the order the two fsyncs are there for.
BackupBeforePrimary ==
  [][(tabD'["primary"] # tabD["primary"] \/ hdrD'["primary"] # hdrD["primary"])
       => \/ Valid(tabD, hdrD, end) /\ tabD[end] = new
          \/ pc = "off"]_vars

\* A commit that returned success survives any power cut: both copies are on
\* the card, valid, and the primary's header leads to the backup.
SuccessIsDurable ==
  result = "ok" =>
    /\ Valid(tabD, hdrD, "primary") /\ tabD["primary"] = new
    /\ Valid(tabD, hdrD, hdrD["primary"].alt) /\ tabD[hdrD["primary"].alt] = new

\* After "cannot write the backup GPT" the primary, cached and on the card, is
\* still the valid old one: what the update log then says is true.
BackupErrorKeepsLayout ==
  result = "backup" =>
    /\ Valid(tab, hdr, "primary") /\ tab["primary"] = old
    /\ Valid(tabD, hdrD, "primary") /\ tabD["primary"] = old

(***************************************************************************)
(* Refinement: the primary alone, as the boot chain reads it on the card.  *)
(***************************************************************************)
OW == INSTANCE OneWayTable WITH Torn <- Blank, layout <- Seen(tabD, hdrD)

\* The two-copy protocol implements the one-way table: the primary leaves the old
\* layout for good, and a commit never starts over a torn one.
ImplementsOneWayTable == OW!OWSpec

=============================================================================
