-------------------------- MODULE SlotLayoutProofs --------------------------
(***************************************************************************)
(* Proofs about GptCommit, for any set of regions, and about SlotLayout,   *)
(* for halves of any size.                                                 *)
(*                                                                         *)
(* The argument for the commit: while the backup is being written the      *)
(* primary is the same in the page cache and on the card, so nothing the   *)
(* kernel or the power does can touch it; from the first write to the      *)
(* primary until the card is read again, the backup of the new layout is   *)
(* the same in both: that is the copy left when the primary is torn.       *)
(*                                                                         *)
(* For the layout, first of any table derive accepts, whoever wrote it:    *)
(* the halves it gives out are free, and a flip leaves a table it accepts  *)
(* again.  Then of the tables mkgpt, gptgrow and gptslot write, with       *)
(* CommitInv, which says which of them are on the card.                    *)
(***************************************************************************)
EXTENDS SlotLayout, TLAPS

Primary == "primary"

WritingBackup == pc \in {"bakTab", "bakHdr", "bakSync"}

\* From the first write to the primary on, or after one has failed.
PrimaryAtRisk == pc \in {"priTab", "priHdr", "priSync"} \/ result = "primary"

\* A layout is what mkgpt wrote or has grown: rcS grows before it flips.
Grown(l) == l = Fresh \/ l.grown

\* A primary's header leads to the backup of its time.
Leads(h) ==
  /\ h \in Headers
  /\ \/ h.crc = Fresh /\ h.alt = "image"
     \/ h.crc.grown /\ h.alt = "end"

\* The copy at the image's end is never written.
ImageInv ==
  /\ tab["image"] = Fresh /\ tabD["image"] = Fresh
  /\ hdr["image"] = [crc |-> Fresh, alt |-> "image"]
  /\ hdrD["image"] = [crc |-> Fresh, alt |-> "image"]

LayoutInv ==
  /\ Grown(old) /\ Grown(new)
  /\ tab[Primary] \in {old, new} /\ tabD[Primary] \in {old, new}
  /\ Leads(hdr[Primary]) /\ Leads(hdrD[Primary])
  /\ hdr[Primary].crc \in {old, new} /\ hdrD[Primary].crc \in {old, new}

TargetInv == WritingBackup \/ PrimaryAtRisk => end = "end" /\ new.grown

\* The cache and the card agree on the primary, and it is a valid copy.
PrimaryInv ==
  WritingBackup \/ (pc = "idle" /\ result # "primary") =>
    /\ tab[Primary] = tabD[Primary] /\ hdr[Primary] = hdrD[Primary]
    /\ hdr[Primary].crc = tab[Primary]

\* ... or they agree on the backup, and it holds the new layout.
BackupInv ==
  PrimaryAtRisk =>
    /\ tab["end"] = new /\ tabD["end"] = new
    /\ hdr["end"] = hdrD["end"] /\ hdr["end"] \in Headers /\ hdr["end"].crc = new

\* Whatever of the primary is still to reach the card is of the new layout.
AdvanceInv ==
  PrimaryAtRisk =>
    tab[Primary] \in {tabD[Primary], new} /\ hdr[Primary] \in {hdrD[Primary], NewHeader}

ProgressInv ==
  /\ WritingBackup => tab[Primary] = old
  /\ pc \in {"bakHdr", "bakSync"} => tab["end"] = new
  /\ pc = "bakSync" => hdr["end"] = NewHeader
  /\ pc \in {"priHdr", "priSync"} => tab[Primary] = new
  /\ pc = "priSync" => hdr[Primary] = NewHeader

ResultInv ==
  /\ result # "none" => pc = "idle"
  /\ result = "backup" => tab[Primary] = old
  /\ result = "ok" =>
       /\ tab[Primary] = new /\ hdr[Primary].alt = "end"
       /\ tab["end"] = new /\ tabD["end"] = new
       /\ hdr["end"] = hdrD["end"] /\ hdr["end"] \in Headers /\ hdr["end"].crc = new

OffInv == pc = "off" => tab = tabD /\ hdr = hdrD

\* What is on the card is readable: the primary is whole, or the backup is.
CardInv ==
  \/ hdrD[Primary].crc = tabD[Primary]
  \/ tabD["end"] = new /\ hdrD["end"] \in Headers /\ hdrD["end"].crc = new

CommitInv ==
  /\ TypeOK /\ ImageInv /\ LayoutInv /\ TargetInv /\ PrimaryInv
  /\ BackupInv /\ AdvanceInv /\ ProgressInv /\ ResultInv /\ OffInv /\ CardInv

-----------------------------------------------------------------------------
\* The sets the variables range over are what the code's fields can hold.
LEMMA BlankApart == Blank \notin Layouts /\ Blank \notin Headers
  BY BlankAssumption DEF Layouts, Headers, Ends

\* mkgpt's layout is one of them, and not a grown one.
LEMMA FreshIsLayout == Fresh \in Layouts /\ ~Fresh.grown
  BY DEF Fresh, Layouts

\* What mkgpt writes is in those sets too.
LEMMA FreshCard ==
  /\ FreshTab \in [Copies -> Layouts \cup {Blank}]
  /\ FreshTab["image"] = Fresh /\ FreshTab["primary"] = Fresh
  /\ FreshHdr \in [Copies -> Headers \cup {Blank}]
  /\ FreshHdr["image"] = [crc |-> Fresh, alt |-> "image"]
  /\ FreshHdr["primary"] = [crc |-> Fresh, alt |-> "image"]
  /\ Leads([crc |-> Fresh, alt |-> "image"])
<1>1. [crc |-> Fresh, alt |-> "image"] \in Headers
  BY FreshIsLayout DEF Headers, Ends
<1> QED
  BY <1>1, FreshIsLayout DEF FreshTab, FreshHdr, Leads, Copies, Ends

\* mkgpt's card satisfies the invariant.
LEMMA InitCommitInv == Init => CommitInv
<1> SUFFICES ASSUME Init PROVE CommitInv
  OBVIOUS
<1>1. TypeOK
  BY FreshCard, FreshIsLayout DEF Init, TypeOK, Ends
<1>2. LayoutInv
  BY FreshCard DEF Init, LayoutInv, Grown, Primary
<1> QED
  BY <1>1, <1>2, FreshCard DEF Init, CommitInv, ImageInv, TargetInv, PrimaryInv,
     BackupInv, AdvanceInv, ProgressInv, ResultInv, OffInv, CardInv, WritingBackup,
     PrimaryAtRisk, Primary

\* The backup's table goes to the cache; the primary is not touched.
LEMMA BackupTabInv == CommitInv /\ BackupTab => CommitInv'
<1> SUFFICES ASSUME CommitInv, BackupTab PROVE CommitInv'
  OBVIOUS
<1>1. TypeOK'
  BY DEF CommitInv, TypeOK, BackupTab, Goto, WriteTab, Copies, card
<1>2. ProgressInv'
  BY DEF CommitInv, TypeOK, TargetInv, ProgressInv, BackupTab, Goto, WriteTab, Copies,
     WritingBackup, Primary
<1>3. ImageInv' /\ LayoutInv' /\ TargetInv' /\ PrimaryInv'
      /\ BackupInv' /\ AdvanceInv' /\ ResultInv' /\ OffInv' /\ CardInv'
  BY DEF CommitInv, ImageInv, LayoutInv, TargetInv, PrimaryInv, BackupInv, AdvanceInv,
     ResultInv, OffInv, CardInv, BackupTab, Goto, WriteTab, WritingBackup,
     PrimaryAtRisk, Primary, card
<1> QED
  BY <1>1, <1>2, <1>3 DEF CommitInv

\* The backup's header goes to the cache.
LEMMA BackupHdrInv == CommitInv /\ BackupHdr => CommitInv'
<1> SUFFICES ASSUME CommitInv, BackupHdr PROVE CommitInv'
  OBVIOUS
<1>1. TypeOK'
  BY DEF CommitInv, TypeOK, BackupHdr, Goto, WriteHdr, Copies, Headers, NewHeader,
     card
<1>2. ProgressInv'
  BY DEF CommitInv, TypeOK, TargetInv, ProgressInv, BackupHdr, Goto, WriteHdr, Copies,
     WritingBackup, NewHeader
<1>3. ImageInv' /\ LayoutInv' /\ TargetInv' /\ PrimaryInv'
      /\ BackupInv' /\ AdvanceInv' /\ ResultInv' /\ OffInv' /\ CardInv'
  BY DEF CommitInv, ImageInv, LayoutInv, TargetInv, PrimaryInv, BackupInv, AdvanceInv,
     ResultInv, OffInv, CardInv, BackupHdr, Goto, WriteHdr, WritingBackup,
     PrimaryAtRisk, Primary, card
<1> QED
  BY <1>1, <1>2, <1>3 DEF CommitInv

\* The backup is on the card before the primary is first written.
LEMMA BackupSyncInv == CommitInv /\ BackupSync => CommitInv'
<1> SUFFICES ASSUME CommitInv, BackupSync PROVE CommitInv'
  OBVIOUS
<1>1. TypeOK'
  BY DEF CommitInv, TypeOK, BackupSync, Goto, Fsync, pages
<1>2. BackupInv'
  BY DEF CommitInv, TypeOK, BackupInv, ProgressInv, BackupSync, Goto, Fsync, Headers,
     NewHeader, pages
<1>3. AdvanceInv'
  BY DEF AdvanceInv, BackupSync, Fsync, pages
<1>4. CardInv'
  BY DEF CommitInv, TypeOK, ProgressInv, CardInv, BackupSync, Goto, Fsync, Headers,
     NewHeader
<1>5. ImageInv' /\ LayoutInv' /\ TargetInv' /\ PrimaryInv'
      /\ ProgressInv' /\ ResultInv' /\ OffInv'
  BY DEF CommitInv, ImageInv, LayoutInv, TargetInv, PrimaryInv, ProgressInv,
     ResultInv, OffInv, BackupSync, Goto, Fsync, WritingBackup, pages
<1> QED
  BY <1>1, <1>2, <1>3, <1>4, <1>5 DEF CommitInv

\* The primary's table changes in the cache; the backup is on the card.
LEMMA PrimaryTabInv == CommitInv /\ PrimaryTab => CommitInv'
<1> SUFFICES ASSUME CommitInv, PrimaryTab PROVE CommitInv'
  OBVIOUS
<1>1. TypeOK'
  BY DEF CommitInv, TypeOK, PrimaryTab, Goto, WriteTab, Copies, card
<1>2. LayoutInv'
  BY DEF CommitInv, LayoutInv, PrimaryTab, Goto, WriteTab, card
<1>3. AdvanceInv'
  BY DEF CommitInv, AdvanceInv, PrimaryTab, Goto, WriteTab, PrimaryAtRisk, NewHeader,
     card
<1>4. ProgressInv'
  BY DEF CommitInv, TypeOK, ProgressInv, PrimaryTab, Goto, WriteTab, Copies,
     WritingBackup, Primary
<1>5. ImageInv' /\ TargetInv' /\ PrimaryInv' /\ BackupInv'
      /\ ResultInv' /\ OffInv' /\ CardInv'
  BY DEF CommitInv, ImageInv, TargetInv, PrimaryInv, BackupInv, ResultInv, OffInv,
     CardInv, PrimaryTab, Goto, WriteTab, WritingBackup, PrimaryAtRisk, card
<1> QED
  BY <1>1, <1>2, <1>3, <1>4, <1>5 DEF CommitInv

\* The primary's header changes in the cache.
LEMMA PrimaryHdrInv == CommitInv /\ PrimaryHdr => CommitInv'
<1> SUFFICES ASSUME CommitInv, PrimaryHdr PROVE CommitInv'
  OBVIOUS
<1>1. TypeOK'
  BY DEF CommitInv, TypeOK, PrimaryHdr, Goto, WriteHdr, Copies, Headers, NewHeader,
     card
<1>2. LayoutInv'
  BY DEF CommitInv, LayoutInv, TargetInv, BackupInv, PrimaryHdr, Goto, WriteHdr, Ends,
     Headers, Leads, PrimaryAtRisk, NewHeader, card
<1>3. AdvanceInv'
  BY DEF CommitInv, AdvanceInv, PrimaryHdr, Goto, WriteHdr, PrimaryAtRisk, NewHeader,
     card
<1>4. ProgressInv'
  BY DEF CommitInv, TypeOK, ProgressInv, PrimaryHdr, Goto, WriteHdr, Copies,
     WritingBackup, Primary, NewHeader
<1>5. ImageInv' /\ TargetInv' /\ PrimaryInv' /\ BackupInv'
      /\ ResultInv' /\ OffInv' /\ CardInv'
  BY DEF CommitInv, ImageInv, TargetInv, PrimaryInv, BackupInv, ResultInv, OffInv,
     CardInv, PrimaryHdr, Goto, WriteHdr, WritingBackup, PrimaryAtRisk, card
<1> QED
  BY <1>1, <1>2, <1>3, <1>4, <1>5 DEF CommitInv

\* Both copies are on the card when success is returned.
LEMMA PrimarySyncInv == CommitInv /\ PrimarySync => CommitInv'
<1> SUFFICES ASSUME CommitInv, PrimarySync PROVE CommitInv'
  OBVIOUS
<1>1. TypeOK'
  BY DEF CommitInv, TypeOK, PrimarySync, Return, Fsync, pages
<1>2. LayoutInv'
  BY DEF CommitInv, LayoutInv, PrimarySync, Return, Fsync, pages
<1>3. PrimaryInv'
  BY DEF CommitInv, PrimaryInv, ProgressInv, PrimarySync, Fsync, NewHeader, pages
<1>4. AdvanceInv'
  BY DEF AdvanceInv, PrimarySync, Return, PrimaryAtRisk
<1>5. ResultInv'
  BY DEF CommitInv, TargetInv, BackupInv, ProgressInv, ResultInv, PrimarySync, Return,
     Fsync, PrimaryAtRisk, NewHeader, pages
<1>6. ImageInv' /\ TargetInv' /\ BackupInv' /\ ProgressInv' /\ OffInv' /\ CardInv'
  BY DEF CommitInv, ImageInv, TargetInv, BackupInv, ProgressInv, OffInv, CardInv,
     PrimarySync, Return, Fsync, WritingBackup, PrimaryAtRisk, pages
<1> QED
  BY <1>1, <1>2, <1>3, <1>4, <1>5, <1>6 DEF CommitInv

\* A failed write returns with the copy it was for possibly changed.
LEMMA WriteFailsInv == CommitInv /\ WriteFails => CommitInv'
<1> SUFFICES ASSUME CommitInv, WriteFails PROVE CommitInv'
  OBVIOUS
<1>1. TypeOK'
  BY DEF CommitInv, TypeOK, WriteFails, Return, WriteTab, Failure, pages, card
<1>2. LayoutInv'
  BY DEF CommitInv, TypeOK, LayoutInv, WriteFails, Return, WriteTab, Copies, Primary,
     pages, card
<1>3. PrimaryInv'
  BY DEF CommitInv, TypeOK, PrimaryInv, WriteFails, Return, WriteTab, Failure, Copies,
     Ends, WritingBackup, Primary, pages, card
<1>4. AdvanceInv'
  BY DEF CommitInv, TypeOK, AdvanceInv, WriteFails, Return, WriteTab, Failure,
     PrimaryAtRisk, Primary, NewHeader, pages, card
<1>5. ResultInv'
  BY DEF CommitInv, TypeOK, ProgressInv, ResultInv, WriteFails, Return, WriteTab,
     Failure, Copies, Ends, WritingBackup, Primary, pages
<1>6. ImageInv' /\ TargetInv' /\ BackupInv' /\ ProgressInv' /\ OffInv' /\ CardInv'
  BY DEF CommitInv, TypeOK, ImageInv, TargetInv, BackupInv, ProgressInv, OffInv,
     CardInv, WriteFails, Return, WriteTab, Failure, Copies, Ends, WritingBackup,
     PrimaryAtRisk, pages, card
<1> QED
  BY <1>1, <1>2, <1>3, <1>4, <1>5, <1>6 DEF CommitInv

\* A failed fsync may have brought any dirty sector to the card.
LEMMA FsyncFailsInv == CommitInv /\ FsyncFails => CommitInv'
<1> SUFFICES ASSUME CommitInv, FsyncFails PROVE CommitInv'
  OBVIOUS
<1>1. TypeOK'
  BY DEF CommitInv, TypeOK, FsyncFails, Return, Failure, pages
<1>2. ImageInv'
  BY DEF CommitInv, ImageInv, FsyncFails, Copies, Ends, pages
<1>3. LayoutInv'
  BY DEF CommitInv, LayoutInv, FsyncFails, Return, Copies, Primary, pages
<1>4. PrimaryInv'
  BY DEF CommitInv, PrimaryInv, FsyncFails, Return, Failure, Copies, WritingBackup,
     Primary, pages
<1>5. BackupInv'
  BY DEF CommitInv, BackupInv, FsyncFails, Return, Failure, Copies, Ends,
     PrimaryAtRisk, pages
<1>6. AdvanceInv'
  BY DEF CommitInv, AdvanceInv, ProgressInv, FsyncFails, Return, Failure,
     PrimaryAtRisk, NewHeader, pages
<1>7. ResultInv'
  BY DEF CommitInv, ProgressInv, ResultInv, FsyncFails, Return, Failure,
     WritingBackup, pages
<1>8. CardInv'
  BY DEF CommitInv, PrimaryInv, BackupInv, CardInv, FsyncFails, Return, Copies, Ends,
     WritingBackup, PrimaryAtRisk, Primary
<1>9. TargetInv' /\ ProgressInv' /\ OffInv'
  BY DEF CommitInv, TargetInv, ProgressInv, OffInv, FsyncFails, Return, WritingBackup,
     PrimaryAtRisk
<1> QED
  BY <1>1, <1>2, <1>3, <1>4, <1>5, <1>6, <1>7, <1>8, <1>9 DEF CommitInv

\* A flip starts from a valid, grown primary.
LEMMA FlipInv == CommitInv /\ (\E rs \in SUBSET Regions : Flip(rs)) => CommitInv'
<1> SUFFICES ASSUME CommitInv, NEW rs \in SUBSET Regions, Flip(rs) PROVE CommitInv'
  OBVIOUS
<1>1. tab[Primary] \in Layouts /\ new' \in Layouts /\ new'.grown
  BY DEF CommitInv, TypeOK, LayoutInv, Flip, Start, Primary, Layouts
<1>2. TypeOK'
  BY DEF CommitInv, TypeOK, LayoutInv, Flip, Headers, Layouts, Leads, Primary, pages,
     card, Start
<1>3. LayoutInv'
  BY DEF CommitInv, LayoutInv, PrimaryInv, Flip, Grown, Primary, pages, card, Start,
     Ready
<1>4. TargetInv'
  BY FreshIsLayout DEF CommitInv, LayoutInv, TargetInv, PrimaryInv, Flip, Leads,
     Primary, Start, Ready
<1>5. ProgressInv'
  BY DEF ProgressInv, Flip, Primary, pages, Start
<1>6. ImageInv' /\ PrimaryInv' /\ BackupInv' /\ AdvanceInv'
      /\ ResultInv' /\ OffInv' /\ CardInv'
  BY DEF CommitInv, ImageInv, PrimaryInv, BackupInv, AdvanceInv, ResultInv, OffInv,
     CardInv, Flip, PrimaryAtRisk, pages, card, Start, Ready
<1> QED
  BY <1>2, <1>3, <1>4, <1>5, <1>6 DEF CommitInv

\* Growing starts from a valid primary and aims the backup at the device's end.
LEMMA GrowInv == CommitInv /\ Grow => CommitInv'
<1> SUFFICES ASSUME CommitInv, Grow PROVE CommitInv'
  OBVIOUS
<1>1. tab[Primary] \in Layouts /\ new' \in Layouts /\ new'.grown
  <2>1. tab[Primary] \in Layouts
    BY DEF CommitInv, TypeOK, LayoutInv
  <2>2. new' = [tab[Primary] EXCEPT !.grown = TRUE]
    BY DEF Grow, Start, Primary
  <2>3. \A l \in Layouts : [l EXCEPT !.grown = TRUE] \in Layouts
                           /\ [l EXCEPT !.grown = TRUE].grown
    BY DEF Layouts
  <2> QED
    BY <2>1, <2>2, <2>3
<1>2. TypeOK'
  BY <1>1 DEF CommitInv, TypeOK, Grow, Ends, Primary, pages, card, Start
<1>3. LayoutInv'
  BY DEF CommitInv, LayoutInv, PrimaryInv, Grow, Grown, Primary, pages, card, Start,
     Ready
<1>4. TargetInv'
  BY DEF TargetInv, Grow, Start
<1>5. ProgressInv'
  BY DEF ProgressInv, Grow, Primary, pages, Start
<1>6. ImageInv' /\ PrimaryInv' /\ BackupInv' /\ AdvanceInv'
      /\ ResultInv' /\ OffInv' /\ CardInv'
  BY DEF CommitInv, ImageInv, PrimaryInv, BackupInv, AdvanceInv, ResultInv, OffInv,
     CardInv, Grow, PrimaryAtRisk, pages, card, Start, Ready
<1> QED
  BY <1>2, <1>3, <1>4, <1>5, <1>6 DEF CommitInv

\* The kernel brings a table to the card.
LEMMA WritebackTabInv == CommitInv /\ (\E c \in Copies : WritebackTab(c)) => CommitInv'
<1> SUFFICES ASSUME CommitInv, NEW c \in Copies, WritebackTab(c) PROVE CommitInv'
  OBVIOUS
<1>1. TypeOK'
  BY DEF CommitInv, TypeOK, WritebackTab, pages
<1>2. ImageInv'
  BY DEF CommitInv, ImageInv, WritebackTab, pages
<1>3. LayoutInv'
  BY DEF CommitInv, LayoutInv, WritebackTab, pages
<1>4. PrimaryInv'
  BY DEF CommitInv, PrimaryInv, WritebackTab, WritingBackup, pages
<1>5. BackupInv'
  BY DEF CommitInv, BackupInv, WritebackTab, PrimaryAtRisk, pages
<1>6. AdvanceInv'
  BY DEF CommitInv, AdvanceInv, WritebackTab, PrimaryAtRisk, NewHeader, pages
<1>7. ResultInv'
  BY DEF CommitInv, ResultInv, WritebackTab, pages
<1>8. CardInv'
  BY DEF CommitInv, TypeOK, PrimaryInv, BackupInv, CardInv, WritebackTab,
     WritingBackup, PrimaryAtRisk
<1>9. TargetInv' /\ ProgressInv' /\ OffInv'
  BY DEF CommitInv, TargetInv, ProgressInv, OffInv, WritebackTab, WritingBackup,
     PrimaryAtRisk, NewHeader, pages
<1> QED
  BY <1>1, <1>2, <1>3, <1>4, <1>5, <1>6, <1>7, <1>8, <1>9 DEF CommitInv

\* The kernel brings a header to the card.
LEMMA WritebackHdrInv == CommitInv /\ (\E c \in Copies : WritebackHdr(c)) => CommitInv'
<1> SUFFICES ASSUME CommitInv, NEW c \in Copies, WritebackHdr(c) PROVE CommitInv'
  OBVIOUS
<1>1. TypeOK'
  BY DEF CommitInv, TypeOK, WritebackHdr, pages
<1>2. ImageInv'
  BY DEF CommitInv, ImageInv, WritebackHdr, pages
<1>3. LayoutInv'
  BY DEF CommitInv, LayoutInv, WritebackHdr, pages
<1>4. PrimaryInv'
  BY DEF CommitInv, PrimaryInv, WritebackHdr, WritingBackup, pages
<1>5. BackupInv'
  BY DEF CommitInv, BackupInv, WritebackHdr, PrimaryAtRisk, pages
<1>6. AdvanceInv'
  BY DEF CommitInv, AdvanceInv, WritebackHdr, PrimaryAtRisk, NewHeader, pages
<1>7. ResultInv'
  BY DEF CommitInv, ResultInv, WritebackHdr, pages
<1>8. CardInv'
  BY DEF CommitInv, TypeOK, PrimaryInv, BackupInv, CardInv, WritebackHdr,
     WritingBackup, PrimaryAtRisk
<1>9. TargetInv' /\ ProgressInv' /\ OffInv'
  BY DEF CommitInv, TargetInv, ProgressInv, OffInv, WritebackHdr, WritingBackup,
     PrimaryAtRisk, NewHeader, pages
<1> QED
  BY <1>1, <1>2, <1>3, <1>4, <1>5, <1>6, <1>7, <1>8, <1>9 DEF CommitInv

\* Power goes: the cache is the card again.
LEMMA PowerCutInv == CommitInv /\ PowerCut => CommitInv'
<1> SUFFICES ASSUME CommitInv, PowerCut PROVE CommitInv'
  OBVIOUS
<1>1. TypeOK'
  BY DEF CommitInv, TypeOK, PowerCut, card
<1>2. ImageInv'
  BY DEF CommitInv, ImageInv, PowerCut, card
<1>3. LayoutInv'
  BY DEF CommitInv, LayoutInv, PowerCut, card
<1>4. OffInv'
  BY DEF OffInv, PowerCut, card
<1>5. TargetInv' /\ PrimaryInv' /\ BackupInv' /\ AdvanceInv'
      /\ ProgressInv' /\ ResultInv' /\ CardInv'
  BY DEF CommitInv, TargetInv, PrimaryInv, BackupInv, AdvanceInv, ProgressInv,
     ResultInv, CardInv, PowerCut, WritingBackup, PrimaryAtRisk, card
<1> QED
  BY <1>1, <1>2, <1>3, <1>4, <1>5 DEF CommitInv

\* A card is only ever run from a valid primary.
LEMMA BootInv == CommitInv /\ Boot => CommitInv'
<1> SUFFICES ASSUME CommitInv, Boot PROVE CommitInv'
  OBVIOUS
<1>1. TypeOK'
  BY DEF CommitInv, TypeOK, Boot, pages, card
<1>2. PrimaryInv'
  BY DEF CommitInv, PrimaryInv, OffInv, Boot, Primary, pages, card, Valid
<1>3. ImageInv' /\ LayoutInv' /\ TargetInv' /\ BackupInv'
      /\ AdvanceInv' /\ ProgressInv' /\ ResultInv' /\ OffInv' /\ CardInv'
  BY DEF CommitInv, ImageInv, LayoutInv, TargetInv, BackupInv, AdvanceInv,
     ProgressInv, ResultInv, OffInv, CardInv, Boot, WritingBackup, PrimaryAtRisk,
     pages, card
<1> QED
  BY <1>1, <1>2, <1>3 DEF CommitInv

\* A new card is mkgpt's.
LEMMA ReflashInv == CommitInv /\ Reflash => CommitInv'
<1> SUFFICES ASSUME CommitInv, Reflash PROVE CommitInv'
  OBVIOUS
<1>1. TypeOK'
  BY FreshCard, FreshIsLayout DEF CommitInv, TypeOK, Reflash
<1>2. ImageInv'
  BY FreshCard DEF ImageInv, Reflash
<1>3. LayoutInv'
  BY FreshCard DEF LayoutInv, Reflash, Grown, Primary
<1>4. CardInv'
  BY FreshCard DEF CardInv, Reflash, Primary
<1>5. TargetInv' /\ PrimaryInv' /\ BackupInv' /\ AdvanceInv'
      /\ ProgressInv' /\ ResultInv' /\ OffInv'
  BY DEF CommitInv, TargetInv, PrimaryInv, BackupInv, AdvanceInv, ProgressInv,
     ResultInv, OffInv, Reflash, WritingBackup, PrimaryAtRisk
<1> QED
  BY <1>1, <1>2, <1>3, <1>4, <1>5 DEF CommitInv

-----------------------------------------------------------------------------
\* Every step keeps the invariant.
LEMMA StepCommitInv == CommitInv /\ [Next]_vars => CommitInv'
<1> SUFFICES ASSUME CommitInv, [Next]_vars PROVE CommitInv'
  OBVIOUS
<1>1. CASE Commit
  BY <1>1, BackupTabInv, BackupHdrInv, BackupSyncInv, PrimaryTabInv, PrimaryHdrInv,
     PrimarySyncInv, WriteFailsInv, FsyncFailsInv DEF Commit
<1>2. CASE Grow
  BY <1>2, GrowInv
<1>3. CASE \E rs \in (SUBSET Regions) \ {{}} : Flip(rs)
  BY <1>3, FlipInv
<1>4. CASE \E c \in Copies : WritebackTab(c) \/ WritebackHdr(c)
  BY <1>4, WritebackTabInv, WritebackHdrInv
<1>5. CASE PowerCut \/ Boot \/ Reflash
  BY <1>5, PowerCutInv, BootInv, ReflashInv
<1>6. CASE UNCHANGED vars
  BY <1>6 DEF vars, pages, card, CommitInv, TypeOK, ImageInv, LayoutInv, TargetInv,
     PrimaryInv, BackupInv, AdvanceInv, ProgressInv, ResultInv, OffInv, CardInv,
     WritingBackup, PrimaryAtRisk, NewHeader
<1> QED
  BY <1>1, <1>2, <1>3, <1>4, <1>5, <1>6 DEF Next

\* CommitInv is inductive: it holds in every state of every commit, failed,
\* interrupted or complete.
THEOREM CommitInvariant == Spec => []CommitInv
  BY InitCommitInv, StepCommitInv, PTL DEF Spec

\* Every variable keeps to the values its code can give it (gpt.h, gptslot.c,
\* gptgrow.c).
THEOREM TypeCorrect == Spec => []TypeOK
<1>1. CommitInv => TypeOK
  BY DEF CommitInv
<1> QED
  BY <1>1, CommitInvariant, PTL

-----------------------------------------------------------------------------
\* Either the primary is whole and the readers find its layout, or its table and
\* its header are of two commits and the backup holds the new layout.
LEMMA SeenLayout ==
  CommitInv =>
    \/ /\ hdrD[Primary].crc = tabD[Primary] /\ Valid(tabD, hdrD, "primary")
       /\ Seen(tabD, hdrD) = tabD[Primary] /\ tabD[Primary] \in {old, new}
       /\ Seen(tabD, hdrD) # Blank
    \/ /\ hdrD[Primary].crc # tabD[Primary] /\ ~Valid(tabD, hdrD, "primary")
       /\ Seen(tabD, hdrD) = Blank
       /\ Valid(tabD, hdrD, "end") /\ tabD["end"] = new
<1> SUFFICES ASSUME CommitInv
             PROVE \/ /\ hdrD[Primary].crc = tabD[Primary] /\ Valid(tabD, hdrD, "primary")
                      /\ Seen(tabD, hdrD) = tabD[Primary] /\ tabD[Primary] \in {old, new}
                      /\ Seen(tabD, hdrD) # Blank
                   \/ /\ hdrD[Primary].crc # tabD[Primary] /\ ~Valid(tabD, hdrD, "primary")
                      /\ Seen(tabD, hdrD) = Blank
                      /\ Valid(tabD, hdrD, "end") /\ tabD["end"] = new
  OBVIOUS
<1>1. hdrD[Primary] # Blank /\ tabD[Primary] \in {old, new} /\ old # Blank /\ new # Blank
  BY BlankApart DEF CommitInv, TypeOK, LayoutInv, Leads
<1>2. hdrD[Primary].crc # tabD[Primary] => Valid(tabD, hdrD, "end") /\ tabD["end"] = new
  BY BlankApart DEF CommitInv, CardInv, Valid
<1> QED
  BY <1>1, <1>2 DEF Seen, Valid, Primary

\* ... which is what SomeCopyValid asks for.
LEMMA SomeCopyValidHolds == CommitInv => SomeCopyValid
  BY SeenLayout DEF SomeCopyValid, Primary

\* No cut, failure or writeback, at any step of gpt_commit, leaves a card without
\* a valid table, or with one other than the old or the new.
THEOREM SomeCopyAlwaysValid == Spec => []SomeCopyValid
  BY CommitInvariant, SomeCopyValidHolds, PTL

\* A commit that returned NULL is on the card in both copies.
THEOREM SuccessDurable == Spec => []SuccessIsDurable
<1>1. CommitInv => SuccessIsDurable
  <2> SUFFICES ASSUME CommitInv, result = "ok" PROVE SuccessIsDurable
    BY DEF SuccessIsDurable
  <2>1. Valid(tabD, hdrD, "primary") /\ tabD["primary"] = new /\ hdrD["primary"].alt = "end"
    BY BlankApart DEF CommitInv, PrimaryInv, LayoutInv, Leads, ResultInv, Valid,
       Primary
  <2>2. Valid(tabD, hdrD, "end") /\ tabD["end"] = new
    BY BlankApart DEF CommitInv, ResultInv, Valid
  <2> QED
    BY <2>1, <2>2 DEF SuccessIsDurable
<1> QED
  BY <1>1, CommitInvariant, PTL

\* A commit that could not write the backup has left the primary alone.
THEOREM BackupErrorHarmless == Spec => []BackupErrorKeepsLayout
<1>1. CommitInv => BackupErrorKeepsLayout
  BY BlankApart DEF CommitInv, PrimaryInv, LayoutInv, Leads, ResultInv,
     BackupErrorKeepsLayout, Valid, Primary
<1> QED
  BY <1>1, CommitInvariant, PTL

-----------------------------------------------------------------------------
\* Outside the primary's own write the cache has nothing new for the primary.
LEMMA PrimaryOnCard ==
  CommitInv /\ [Next]_vars =>
    \/ tabD'[Primary] = tabD[Primary] /\ hdrD'[Primary] = hdrD[Primary]
    \/ Reflash
    \/ /\ PrimaryAtRisk /\ UNCHANGED <<old, new, end>>
       /\ tabD'[Primary] \in {tabD[Primary], new}
       /\ hdrD'[Primary] \in {hdrD[Primary], NewHeader}
<1> SUFFICES ASSUME CommitInv, [Next]_vars
             PROVE \/ tabD'[Primary] = tabD[Primary] /\ hdrD'[Primary] = hdrD[Primary]
                   \/ Reflash
                   \/ /\ PrimaryAtRisk /\ UNCHANGED <<old, new, end>>
                      /\ tabD'[Primary] \in {tabD[Primary], new}
                      /\ hdrD'[Primary] \in {hdrD[Primary], NewHeader}
  OBVIOUS
<1>1. CASE Commit
  BY <1>1 DEF CommitInv, PrimaryInv, AdvanceInv, WritingBackup, PrimaryAtRisk,
     Primary, Copies, Commit, BackupTab, BackupHdr, BackupSync, PrimaryTab,
     PrimaryHdr, PrimarySync, WriteFails, FsyncFails, Return, Fsync, card
<1>2. CASE Grow \/ (\E rs \in (SUBSET Regions) \ {{}} : Flip(rs))
  BY <1>2 DEF Grow, Flip, Start, card
<1>3. CASE \E c \in Copies : WritebackTab(c) \/ WritebackHdr(c)
  BY <1>3 DEF CommitInv, TypeOK, PrimaryInv, AdvanceInv, WritingBackup, PrimaryAtRisk,
     Primary, Copies, WritebackTab, WritebackHdr
<1>4. CASE PowerCut \/ Boot \/ UNCHANGED vars
  BY <1>4 DEF PowerCut, Boot, card, vars
<1> QED
  BY <1>1, <1>2, <1>3, <1>4 DEF Next

\* The primary on the card is changed only with the new backup on the card: what
\* gpt_commit's first fsync is for.
THEOREM BackupFirst == Spec => BackupBeforePrimary
<1>1. CommitInv /\ [Next]_vars =>
        [(tabD'["primary"] # tabD["primary"] \/ hdrD'["primary"] # hdrD["primary"])
           => \/ Valid(tabD, hdrD, end) /\ tabD[end] = new
              \/ pc = "off"]_vars
  <2> SUFFICES ASSUME CommitInv, [Next]_vars,
                      tabD'[Primary] # tabD[Primary] \/ hdrD'[Primary] # hdrD[Primary]
               PROVE \/ Valid(tabD, hdrD, end) /\ tabD[end] = new
                     \/ pc = "off"
    BY DEF Primary
  <2>1. CASE Reflash
    BY <2>1 DEF Reflash
  <2>2. CASE PrimaryAtRisk
    BY <2>2, BlankApart DEF CommitInv, TargetInv, BackupInv, Valid
  <2> QED
    BY <2>1, <2>2, PrimaryOnCard
<1> QED
  BY <1>1, CommitInvariant, PTL DEF Spec, BackupBeforePrimary

-----------------------------------------------------------------------------
(* The refinement: what the readers of the primary find on the card.       *)

\* A power-up, a cut or a step of a commit changes what they find, if it does,
\* from the old layout to a torn one or to the new, or from the torn to the new.
LEMMA SeenAdvances ==
  CommitInv /\ CommitInv' /\ [Next]_vars /\ UNCHANGED <<old, new>> =>
    \/ Reflash
    \/ Seen(tabD, hdrD)' = Seen(tabD, hdrD)
    \/ Seen(tabD, hdrD) = old /\ Seen(tabD, hdrD)' = Blank
    \/ Seen(tabD, hdrD) \in {old, Blank} /\ Seen(tabD, hdrD)' = new
<1> SUFFICES ASSUME CommitInv, CommitInv', [Next]_vars, UNCHANGED <<old, new>>, ~Reflash
             PROVE \/ Seen(tabD, hdrD)' = Seen(tabD, hdrD)
                   \/ Seen(tabD, hdrD) = old /\ Seen(tabD, hdrD)' = Blank
                   \/ Seen(tabD, hdrD) \in {old, Blank} /\ Seen(tabD, hdrD)' = new
  OBVIOUS
<1>1. \/ /\ hdrD[Primary].crc = tabD[Primary] /\ Seen(tabD, hdrD) = tabD[Primary]
         /\ tabD[Primary] \in {old, new}
      \/ hdrD[Primary].crc # tabD[Primary] /\ Seen(tabD, hdrD) = Blank
  BY SeenLayout
<1>2. (\/ /\ hdrD[Primary].crc = tabD[Primary] /\ Seen(tabD, hdrD) = tabD[Primary]
          /\ tabD[Primary] \in {old, new}
       \/ hdrD[Primary].crc # tabD[Primary] /\ Seen(tabD, hdrD) = Blank)'
  BY SeenLayout, PTL
<1>3. CASE tabD'[Primary] = tabD[Primary] /\ hdrD'[Primary] = hdrD[Primary]
  BY <1>1, <1>2, <1>3
<1>4. CASE /\ PrimaryAtRisk
           /\ tabD'[Primary] \in {tabD[Primary], new}
           /\ hdrD'[Primary] \in {hdrD[Primary], NewHeader}
  BY <1>1, <1>2, <1>4 DEF NewHeader
<1> QED
  BY <1>3, <1>4, PrimaryOnCard

\* Each step of the protocol is one of OneWayTable's or leaves its state alone.
LEMMA StepRefines ==
  CommitInv /\ CommitInv' /\ [Next]_vars => [OW!OWNext]_(OW!owVars)
<1> SUFFICES ASSUME CommitInv, CommitInv', [Next]_vars PROVE [OW!OWNext]_(OW!owVars)
  OBVIOUS
<1>1. CASE Reflash
  <2>1. Seen(tabD, hdrD) = Blank
    BY <1>1, SeenLayout DEF Reflash, CommitInv, OffInv
  <2>2. Seen(tabD, hdrD)' = Fresh /\ old' = Fresh /\ new' = Fresh
    BY <1>1, FreshCard, BlankApart DEF Reflash, Seen, Valid, Leads
  <2> QED
    BY <2>1, <2>2, FreshIsLayout DEF OW!OWNext, OW!Replace
<1>2. CASE Grow \/ (\E rs \in SUBSET Regions : Flip(rs))
  <2>1. old' = tab[Primary] /\ UNCHANGED <<tabD, hdrD>> /\ Ready
    BY <1>2 DEF Grow, Flip, Start, card, Primary
  <2>2. Seen(tabD, hdrD) = tab[Primary] /\ Seen(tabD, hdrD) # Blank
    BY <2>1, SeenLayout DEF CommitInv, PrimaryInv, Ready
  <2>3. new' \in Layouts /\ Seen(tabD, hdrD)' = Seen(tabD, hdrD)
    BY <2>1 DEF CommitInv, TypeOK, Seen, Valid
  <2> QED
    BY <2>1, <2>2, <2>3 DEF OW!OWNext, OW!Begin
<1>3. CASE UNCHANGED <<old, new>>
  BY <1>1, <1>3, SeenAdvances DEF OW!OWNext, OW!Tear, OW!Take, OW!owVars
<1> QED
  BY <1>1, <1>2, <1>3 DEF Next, Commit, BackupTab, BackupHdr, BackupSync, PrimaryTab,
     PrimaryHdr, PrimarySync, WriteFails, FsyncFails, Goto, Return, WritebackTab,
     WritebackHdr, PowerCut, Boot, vars

\* The two-copy protocol implements the one-way table for SPL, U-Boot and the
\* kernel, who read the primary alone: it may be torn, but it leaves the old
\* layout for good, and no flip or growth starts over a torn one.
THEOREM CommitGoesOneWay == Spec => ImplementsOneWayTable
<1>1. Init => OW!OWInit
  <2> SUFFICES ASSUME Init PROVE OW!OWInit
    OBVIOUS
  <2>1. Seen(tabD, hdrD) = Fresh
    BY FreshCard, BlankApart DEF Init, Seen, Valid, Leads
  <2> QED
    BY <2>1, FreshIsLayout DEF Init, OW!OWInit
<1> QED
  BY <1>1, StepRefines, CommitInvariant, PTL DEF Spec, ImplementsOneWayTable,
     OW!OWSpec

-----------------------------------------------------------------------------
(***************************************************************************)
(* The sectors.                                                            *)
(***************************************************************************)

\* What the 64-bit fields of an entry are read as.
Numbers(t) ==
  \A e \in Names \cup {"data"} : t[e].start \in Nat /\ t[e].end \in Nat

-----------------------------------------------------------------------------
\* At lays each region behind both halves of the one before.
LEMMA AtValues ==
  ASSUME NEW size
  PROVE  /\ At(size)["uboot"] = 16384
         /\ At(size)["boot"] = 16384 + 2 * size["uboot"]
         /\ At(size)["rootfs"] = 16384 + 2 * (size["uboot"] + size["boot"])
         /\ At(size)["data"] = 16384 + 2 * (size["uboot"] + size["boot"] + size["rootfs"])
         /\ At(size)["primary"] =
              16384 + DATA_SECTORS + 2 * (size["uboot"] + size["boot"] + size["rootfs"])
  BY DEF At, Entries, Names, UBOOT_START

\* The bases derive works with, in an accepted table, and what it gives out.
LEMMA DerivedValues ==
  ASSUME NEW t, Numbers(t), Derived(t), NEW r \in Names
  PROVE  /\ SizeOf(t)[r] = t[r].end - t[r].start + 1
         /\ SizeOf(t)[r] \in Nat /\ SizeOf(t)[r] > 1
         /\ Base(t, r) \in Nat
         /\ \/ /\ ~InB(t, r) /\ t[r].start = Base(t, r)
               /\ Inactive(t, r) = Base(t, r) + SizeOf(t)[r]
            \/ /\ InB(t, r) /\ t[r].start = Base(t, r) + SizeOf(t)[r]
               /\ Inactive(t, r) = Base(t, r)
<1>1. \A n \in Names : /\ SizeOf(t)[n] = t[n].end - t[n].start + 1
                       /\ SizeOf(t)[n] \in Nat /\ SizeOf(t)[n] > 1
  BY DEF Numbers, Derived, SizeOf
<1>2. Base(t, r) \in Nat
  BY <1>1, AtValues DEF Base, Names
<1>3. t[r].start \in {Base(t, r), Base(t, r) + SizeOf(t)[r]}
  BY DEF Derived
<1> QED
  BY <1>1, <1>2, <1>3 DEF InB, Inactive

\* In an accepted table the regions follow each other, both halves each, and
\* `data` follows them.
LEMMA DerivedOrder ==
  ASSUME NEW t, Numbers(t), Derived(t)
  PROVE  /\ Base(t, "boot") = Base(t, "uboot") + 2 * SizeOf(t)["uboot"]
         /\ Base(t, "rootfs") = Base(t, "boot") + 2 * SizeOf(t)["boot"]
         /\ t["data"].start = Base(t, "rootfs") + 2 * SizeOf(t)["rootfs"]
<1>1. \A n \in Names : SizeOf(t)[n] \in Nat
  BY DerivedValues
<1> QED
  BY <1>1, AtValues DEF Base, Derived, Names

\* The half of a region that apply writes raw belongs to no entry of the A/B
\* regions or of `data`, in any table gptslot accepts, whoever wrote it.
THEOREM SpareIsFree ==
  ASSUME NEW t, Numbers(t), Derived(t), t["data"].end >= t["data"].start,
         NEW r \in Names, NEW e \in Names \cup {"data"}
  PROVE  Apart(Spare(t, r), t[e])
<1> DEFINE n == SizeOf(t)
<1>1. \A q \in Names :
        /\ n[q] \in Nat /\ n[q] > 1 /\ Base(t, q) \in Nat
        /\ t[q].start \in Nat /\ t[q].end \in Nat /\ t[q].end = t[q].start + n[q] - 1
        /\ \/ t[q].start = Base(t, q) /\ Inactive(t, q) = Base(t, q) + n[q]
           \/ t[q].start = Base(t, q) + n[q] /\ Inactive(t, q) = Base(t, q)
  BY DerivedValues DEF Numbers
<1>2. Spare(t, r) = [start |-> Inactive(t, r), end |-> Inactive(t, r) + n[r] - 1]
  BY DEF Spare, Span
<1>3. CASE e = r
  BY <1>1, <1>2, <1>3 DEF Apart
<1>4. CASE e # r
  <2>1. /\ Base(t, "boot") = Base(t, "uboot") + 2 * n["uboot"]
        /\ Base(t, "rootfs") = Base(t, "boot") + 2 * n["boot"]
        /\ t["data"].start = Base(t, "rootfs") + 2 * n["rootfs"]
    BY DerivedOrder
  <2>2. /\ Inactive(t, r) >= Base(t, r)
        /\ Inactive(t, r) + n[r] <= Base(t, r) + 2 * n[r]
    BY <1>1
  <2>3. CASE e = "data"
    BY <1>1, <1>2, <2>1, <2>2, <2>3 DEF Apart, Names
  <2>4. CASE e \in Names
    <3>1. t[e].start >= Base(t, e) /\ t[e].end < Base(t, e) + 2 * n[e]
      BY <1>1, <2>4
    <3>2. \/ Base(t, r) + 2 * n[r] <= Base(t, e)
          \/ Base(t, e) + 2 * n[e] <= Base(t, r)
      BY <1>1, <2>1, <2>4, <1>4 DEF Names
    <3> QED
      BY <1>1, <1>2, <2>2, <2>4, <3>1, <3>2 DEF Apart
  <2> QED
    BY <2>3, <2>4
<1> QED
  BY <1>3, <1>4

-----------------------------------------------------------------------------
\* What flip writes can be derived again: the regions it was given are in their
\* other half, the others where they were.
THEOREM FlipDerives ==
  ASSUME NEW t, Numbers(t), Derived(t), NEW rs \in SUBSET Names
  PROVE  /\ Derived(FlipTable(t, rs))
         /\ \A r \in Names : InB(FlipTable(t, rs), r) <=> (InB(t, r) <=> r \notin rs)
<1> DEFINE u == FlipTable(t, rs)
           n == SizeOf(t)
<1>1. \A q \in Names :
        /\ n[q] \in Nat /\ n[q] > 1 /\ Base(t, q) \in Nat
        /\ t[q].start \in Nat /\ t[q].end \in Nat /\ t[q].end = t[q].start + n[q] - 1
        /\ \/ /\ ~InB(t, q) /\ t[q].start = Base(t, q)
              /\ Inactive(t, q) = Base(t, q) + n[q]
           \/ /\ InB(t, q) /\ t[q].start = Base(t, q) + n[q]
              /\ Inactive(t, q) = Base(t, q)
  BY DerivedValues DEF Numbers
<1>2. /\ DOMAIN u = DOMAIN t /\ Names \cup {"data"} \subseteq DOMAIN t
      /\ "data" \notin Names
  BY DEF FlipTable, Derived, Names
<1>3. \A q \in Names \cup {"data"} : q \notin rs => u[q] = t[q]
  BY <1>2 DEF FlipTable
<1>4. \A q \in rs : /\ q \in Names
                    /\ u[q].start = Inactive(t, q)
                    /\ u[q].end = Inactive(t, q) + n[q] - 1
                    /\ Inactive(t, q) \in Nat
  <2> TAKE q \in rs
  <2>1. u[q] = [start |-> Inactive(t, q), end |-> Inactive(t, q) + n[q] - 1]
    BY <1>2 DEF FlipTable, Spare, Span
  <2> HIDE DEF u, n
  <2> QED
    BY <1>1, <2>1
<1>5. \A q \in Names : u[q].end - u[q].start + 1 = n[q]
  <2> TAKE q \in Names
  <2>1. CASE q \in rs
    BY <1>1, <1>4, <2>1
  <2>2. CASE q \notin rs
    BY <1>1, <1>3, <2>2
  <2> QED
    BY <2>1, <2>2
<1>6. SizeOf(u) = n
  BY <1>5 DEF SizeOf
<1>7. \A q \in Entries : Base(u, q) = Base(t, q)
  BY <1>6 DEF Base
<1>8. \A q \in Names : /\ u[q].start \in {Base(u, q), Base(u, q) + n[q]}
                       /\ InB(u, q) <=> (InB(t, q) <=> q \notin rs)
  <2> TAKE q \in Names
  <2>1. Base(u, q) = Base(t, q)
    BY <1>7 DEF Entries
  <2>2. CASE q \in rs
    BY <1>1, <1>4, <2>1, <2>2 DEF InB
  <2>3. CASE q \notin rs
    BY <1>1, <1>3, <2>1, <2>3 DEF InB
  <2> QED
    BY <2>2, <2>3
<1>9. \A q \in Names : u[q].end > u[q].start
  <2> TAKE q \in Names
  <2>1. CASE q \in rs
    BY <1>1, <1>4, <2>1
  <2>2. CASE q \notin rs
    BY <1>1, <1>3, <2>2
  <2> QED
    BY <2>1, <2>2
<1>10. u["data"].start = Base(u, "data")
  <2>1. u["data"] = t["data"] /\ Base(u, "data") = Base(t, "data")
    BY <1>2, <1>3, <1>7 DEF Entries
  <2> QED
    BY <2>1 DEF Derived
<1> QED
  BY <1>2, <1>6, <1>8, <1>9, <1>10 DEF Derived

-----------------------------------------------------------------------------
\* The entries of mkgpt's layout and of what flips and gptgrow make of it.
LEMMA TableValues ==
  ASSUME NEW layout \in Layouts
  PROVE  LET t == TableOf(layout)
             s == Sectors
         IN /\ DOMAIN t = Entries
            /\ \A r \in Names :
                 /\ s[r] \in Nat /\ s[r] > 1 /\ At(s)[r] \in Nat
                 /\ r \in layout.slots => t[r] = Span(At(s)[r] + s[r], s[r])
                 /\ r \notin layout.slots => t[r] = Span(At(s)[r], s[r])
            /\ t["data"] = Span(At(s)["data"], DATA_SECTORS)
            /\ t["primary"].start = At(s)["primary"]
            /\ t["primary"].end =
                 IF layout.grown THEN LastUsable(Device) ELSE LastUsable(Total)
<1> DEFINE s == Sectors
           t == TableOf(layout)
<1>1. \A r \in Names : s[r] \in Nat /\ s[r] > 1
  BY SlotAssumption
<1>2. \A r \in Names : At(s)[r] \in Nat
  BY <1>1, AtValues DEF Names
<1>3. \A r \in Names : t[r] = Span(At(s)[r] + (IF r \in layout.slots THEN s[r] ELSE 0), s[r])
  BY DEF TableOf, EntryOf, Entries, Names
<1>4. /\ t["data"] = Span(At(s)["data"], DATA_SECTORS)
      /\ t["primary"] = [start |-> At(s)["primary"],
                         end |-> IF layout.grown THEN LastUsable(Device) ELSE LastUsable(Total)]
  BY DEF TableOf, EntryOf, Entries, Names
<1>5. DOMAIN t = Entries
  BY DEF TableOf
<1>6. \A r \in Names : r \notin layout.slots => t[r] = Span(At(s)[r], s[r])
  BY <1>2, <1>3, SlotAssumption
<1> QED
  BY <1>1, <1>2, <1>3, <1>4, <1>5, <1>6

\* gptslot derives every such table, with the halves the layout has.
LEMMA TableDerived ==
  ASSUME NEW layout \in Layouts
  PROVE  LET t == TableOf(layout)
         IN /\ Numbers(t) /\ Derived(t) /\ SizeOf(t) = Sectors
            /\ \A r \in Names : /\ Base(t, r) = At(Sectors)[r]
                                /\ InB(t, r) <=> r \in layout.slots
<1> DEFINE t == TableOf(layout)
           s == Sectors
<1>1. \A r \in Names : s[r] \in Nat /\ s[r] > 1 /\ At(s)[r] \in Nat
  BY TableValues
<1>2. \A r \in Names : /\ t[r].start = At(s)[r] + (IF r \in layout.slots THEN s[r] ELSE 0)
                       /\ t[r].end = t[r].start + s[r] - 1
  <2> TAKE r \in Names
  <2>1. t[r] = IF r \in layout.slots THEN Span(At(s)[r] + s[r], s[r])
               ELSE Span(At(s)[r], s[r])
    BY TableValues
  <2> QED
    BY <1>1, <2>1 DEF Span
<1>3. /\ DOMAIN t = Entries
      /\ t["data"].start = At(s)["data"] /\ t["data"].end = At(s)["data"] + DATA_SECTORS - 1
  BY TableValues DEF Span
<1>4. SizeOf(t) = s
  <2>1. \A r \in Names : t[r].end - t[r].start + 1 = s[r]
    BY <1>1, <1>2
  <2> QED
    BY <2>1, SlotAssumption DEF SizeOf
<1>5. \A r \in Entries : Base(t, r) = At(s)[r]
  BY <1>4 DEF Base
<1>6. At(s)["data"] \in Nat /\ At(s)["data"] + DATA_SECTORS - 1 \in Nat
  BY <1>1, AtValues, SlotAssumption DEF Names
<1>7. \A r \in Names : /\ t[r].start \in Nat /\ t[r].end \in Nat /\ t[r].end > t[r].start
                       /\ t[r].start \in {Base(t, r), Base(t, r) + SizeOf(t)[r]}
                       /\ InB(t, r) <=> r \in layout.slots
  <2> TAKE r \in Names
  <2>1. Base(t, r) = At(s)[r] /\ SizeOf(t)[r] = s[r]
    BY <1>4, <1>5 DEF Entries
  <2> QED
    BY <1>1, <1>2, <2>1 DEF InB
<1>8. Numbers(t)
  BY <1>3, <1>6, <1>7 DEF Numbers
<1>9. Derived(t)
  <2>1. t["data"].start = Base(t, "data") /\ Names \cup {"data"} \subseteq DOMAIN t
    BY <1>3, <1>5 DEF Entries
  <2> QED
    BY <1>7, <2>1 DEF Derived
<1> QED
  BY <1>4, <1>5, <1>7, <1>8, <1>9 DEF Entries

\* A flip of its table is the table of the flipped layout.
LEMMA FlipIsFlip ==
  ASSUME NEW layout \in Layouts, NEW rs \in SUBSET Regions
  PROVE  FlipTable(TableOf(layout), rs) =
           TableOf([layout EXCEPT !.slots = (@ \ rs) \cup (rs \ @)])
<1> DEFINE t == TableOf(layout)
           s == Sectors
           l == [layout EXCEPT !.slots = (@ \ rs) \cup (rs \ @)]
           u == TableOf(l)
<1>1. /\ l \in Layouts /\ l.grown = layout.grown
      /\ \A r \in Names : r \in l.slots <=> (r \in layout.slots <=> r \notin rs)
  BY DEF Layouts
<1>2. rs \subseteq Names
  BY SlotAssumption
<1>3. \A r \in Entries : (IF r \in rs THEN Spare(t, r) ELSE t[r]) = EntryOf(l, r)
  <2> TAKE r \in Entries
  <2>1. t[r] = EntryOf(layout, r) /\ u[r] = EntryOf(l, r)
    BY DEF TableOf
  <2>2. CASE r \in rs
    <3>1. /\ r \in Names /\ SizeOf(t)[r] = s[r] /\ Base(t, r) = At(s)[r]
          /\ InB(t, r) <=> r \in layout.slots
      BY <1>2, <2>2, TableDerived
    <3>2. Spare(t, r) = IF r \in layout.slots THEN Span(At(s)[r], s[r])
                        ELSE Span(At(s)[r] + s[r], s[r])
      BY <3>1 DEF Spare, Inactive
    <3>3. u[r] = IF r \in l.slots THEN Span(At(s)[r] + s[r], s[r]) ELSE Span(At(s)[r], s[r])
      BY <1>1, <3>1, TableValues
    <3> QED
      BY <1>1, <2>1, <2>2, <3>1, <3>2, <3>3
  <2>3. CASE r \notin rs
    <3>1. CASE r \in Names
      BY <1>1, <2>1, <2>3, <3>1 DEF EntryOf
    <3>2. CASE r \notin Names
      BY <1>1, <2>1, <2>3, <3>2 DEF EntryOf, Entries
    <3> QED
      BY <3>1, <3>2
  <2> QED
    BY <2>2, <2>3
<1>4. FlipTable(t, rs) = [r \in Entries |-> IF r \in rs THEN Spare(t, r) ELSE t[r]]
  <2>1. DOMAIN t = Entries
    BY TableValues
  <2> HIDE DEF t
  <2> QED
    BY <2>1 DEF FlipTable
<1>5. u = [r \in Entries |-> EntryOf(l, r)]
  BY DEF TableOf
<1> QED
  <2> HIDE DEF t, u, l
  <2>1. FlipTable(t, rs) = u
    BY <1>3, <1>4, <1>5
  <2> QED
    BY <2>1 DEF t, u, l

-----------------------------------------------------------------------------
\* A span of sectors inside another.
Within(s, z) == z.start <= s.start /\ s.end <= z.end /\ s.start \in Int /\ s.end \in Int

\* What mkgpt sets aside for an entry: both halves of a region, and for `primary`
\* whatever the card has before the last copy.
Zone(e) ==
  IF e \in Names THEN Span(At(Sectors)[e], 2 * Sectors[e])
  ELSE IF e = "data" THEN Span(At(Sectors)[e], DATA_SECTORS)
  ELSE [start |-> At(Sectors)["primary"], end |-> LastUsable(Device)]

\* The zones follow each other, behind the primary copy and before the last one.
LEMMA ZonesApart ==
  /\ \A e \in Entries : Zone(e).start \in Int /\ Zone(e).end \in Int
  /\ \A d, e \in Entries : d # e => Apart(Zone(d), Zone(e))
  /\ \A e \in Entries : Zone(e).start > 33 /\ Zone(e).end < Device - 33
  /\ \A e \in Entries \ {"primary"} : Zone(e).end < Total - 33
  /\ Total \in Nat /\ Device \in Nat /\ Total <= Device
<1> DEFINE a == At(Sectors)
           s == Sectors
<1>1. /\ s["uboot"] \in Nat /\ s["boot"] \in Nat /\ s["rootfs"] \in Nat
      /\ s["uboot"] > 1 /\ s["boot"] > 1 /\ s["rootfs"] > 1
      /\ DATA_SECTORS \in Nat /\ PRIMARY_SECTORS \in Nat /\ Device \in Nat
      /\ DATA_SECTORS > 0 /\ PRIMARY_SECTORS > 0
  BY SlotAssumption DEF Names
<1>2. /\ a["uboot"] = 16384
      /\ a["boot"] = 16384 + 2 * s["uboot"]
      /\ a["rootfs"] = 16384 + 2 * (s["uboot"] + s["boot"])
      /\ a["data"] = 16384 + 2 * (s["uboot"] + s["boot"] + s["rootfs"])
      /\ a["primary"] = 16384 + DATA_SECTORS + 2 * (s["uboot"] + s["boot"] + s["rootfs"])
  BY AtValues
<1>3. Total = a["primary"] + PRIMARY_SECTORS + 33 /\ Total <= Device
  BY <1>1, <1>2, DeviceAssumption DEF Total, ENTRY_SECTORS
<1>4. /\ Zone("uboot") = [start |-> a["uboot"], end |-> a["uboot"] + 2 * s["uboot"] - 1]
      /\ Zone("boot") = [start |-> a["boot"], end |-> a["boot"] + 2 * s["boot"] - 1]
      /\ Zone("rootfs") = [start |-> a["rootfs"], end |-> a["rootfs"] + 2 * s["rootfs"] - 1]
      /\ Zone("data") = [start |-> a["data"], end |-> a["data"] + DATA_SECTORS - 1]
      /\ Zone("primary") = [start |-> a["primary"], end |-> Device - 34]
  BY <1>1 DEF Zone, Span, Names, LastUsable, ENTRY_SECTORS
<1> HIDE DEF a, s
<1>5. \A e \in Entries : Zone(e).start \in Int /\ Zone(e).end \in Int
  BY <1>1, <1>2, <1>4 DEF Entries, Names
<1>6. \A d, e \in Entries : d # e => Apart(Zone(d), Zone(e))
  BY <1>1, <1>2, <1>4 DEF Entries, Names, Apart
<1>7. \A e \in Entries : Zone(e).start > 33 /\ Zone(e).end < Device - 33
  BY <1>1, <1>2, <1>3, <1>4 DEF Entries, Names
<1>8. \A e \in Entries \ {"primary"} : Zone(e).end < Total - 33
  BY <1>1, <1>2, <1>3, <1>4 DEF Entries, Names
<1> QED
  BY <1>1, <1>2, <1>3, <1>5, <1>6, <1>7, <1>8

\* Each entry, and each spare half, stays in its zone, and the two halves apart.
LEMMA EntriesInZones ==
  ASSUME NEW layout \in Layouts
  PROVE  LET t == TableOf(layout)
         IN /\ \A e \in Entries : Within(t[e], Zone(e))
            /\ \A r \in Names : Within(Spare(t, r), Zone(r)) /\ Apart(Spare(t, r), t[r])
            /\ ~layout.grown => t["primary"].end < Total - 33
<1> DEFINE t == TableOf(layout)
           a == At(Sectors)
           s == Sectors
<1>1. \A r \in Names : s[r] \in Nat /\ s[r] > 1 /\ a[r] \in Nat
  BY TableValues
<1>2. \A r \in Names :
        /\ t[r] = IF r \in layout.slots THEN Span(a[r] + s[r], s[r]) ELSE Span(a[r], s[r])
        /\ Spare(t, r) = IF r \in layout.slots THEN Span(a[r], s[r])
                         ELSE Span(a[r] + s[r], s[r])
  BY TableValues, TableDerived DEF Spare, Inactive
<1>3. \A r \in Names : Zone(r) = Span(a[r], 2 * s[r])
  BY DEF Zone
<1>4. /\ t["data"] = Zone("data")
      /\ t["primary"].start = Zone("primary").start
      /\ t["primary"].end = IF layout.grown THEN Zone("primary").end ELSE Total - 34
      /\ Total - 34 <= Zone("primary").end /\ Total - 34 < Total - 33
  BY TableValues, ZonesApart DEF Zone, Span, Names, LastUsable, ENTRY_SECTORS
<1> HIDE DEF t, a, s
<1>5. \A r \in Names :
        Within(t[r], Zone(r)) /\ Within(Spare(t, r), Zone(r)) /\ Apart(Spare(t, r), t[r])
  <2> TAKE r \in Names
  <2> DEFINE A == [start |-> a[r], end |-> a[r] + s[r] - 1]
             B == [start |-> a[r] + s[r], end |-> a[r] + s[r] + s[r] - 1]
             Z == [start |-> a[r], end |-> a[r] + 2 * s[r] - 1]
  <2>1. Span(a[r], s[r]) = A /\ Span(a[r] + s[r], s[r]) = B /\ Zone(r) = Z
    BY <1>3 DEF Span
  <2>2. Within(A, Z) /\ Within(B, Z) /\ Apart(A, B) /\ Apart(B, A)
    BY <1>1 DEF Within, Apart
  <2> HIDE DEF A, B, Z
  <2> QED
    BY <1>2, <2>1, <2>2
<1>6. Within(t["data"], Zone("data"))
  BY <1>4, ZonesApart DEF Within, Entries
<1>7. Within(t["primary"], Zone("primary"))
  BY <1>4, ZonesApart DEF Within, Entries
<1> QED
  BY <1>4, <1>5, <1>6, <1>7 DEF Entries, t

\* Spans in zones that are apart are apart.
LEMMA WithinApart ==
  ASSUME NEW x, NEW y, NEW z, NEW w, Within(x, z), Within(y, w), Apart(z, w),
         z.start \in Int, z.end \in Int, w.start \in Int, w.end \in Int
  PROVE  Apart(x, y)
  BY DEF Within, Apart

\* Where the three copies are.
LEMMA CopySpans ==
  /\ CopySpan("primary") = [start |-> 0, end |-> 33]
  /\ CopySpan("image") = [start |-> Total - 33, end |-> Total - 1]
  /\ CopySpan("end") = [start |-> Device - 33, end |-> Device - 1]
<1>1. Total \in Nat /\ Device \in Nat
  BY ZonesApart
<1>2. /\ CopySpan("primary") = Span(0, 2 + 32)
      /\ CopySpan("image") = Span(Total - 1 - 32, 32 + 1)
      /\ CopySpan("end") = Span(Device - 1 - 32, 32 + 1)
  BY DEF CopySpan, DeviceEnd, ENTRY_SECTORS
<1> QED
  BY <1>1, <1>2 DEF Span

\* Of any layout: no entry and no spare half is over another entry or a copy of
\* the table, but that a grown `primary` is over the image's own backup.
LEMMA LayoutApart ==
  ASSUME NEW layout \in Layouts
  PROVE  LET t == TableOf(layout)
         IN /\ \A r \in Names : /\ \A e \in Entries : Apart(Spare(t, r), t[e])
                                /\ \A c \in Copies : Apart(Spare(t, r), CopySpan(c))
            /\ \A d, e \in Entries : d # e => Apart(t[d], t[e])
            /\ \A e \in Entries, c \in {"primary", "end"} : Apart(t[e], CopySpan(c))
            /\ ~layout.grown => \A e \in Entries : Apart(t[e], CopySpan("image"))
<1> DEFINE t == TableOf(layout)
<1>1. /\ \A e \in Entries : Within(t[e], Zone(e))
      /\ \A r \in Names : Within(Spare(t, r), Zone(r)) /\ Apart(Spare(t, r), t[r])
      /\ ~layout.grown => t["primary"].end < Total - 33
  BY EntriesInZones
<1>2. Names \subseteq Entries /\ "primary" \in Entries /\ "primary" \notin Names
  BY DEF Entries, Names
<1> HIDE DEF t
<1>3. \A r \in Names, e \in Entries : Apart(Spare(t, r), t[e])
  <2> TAKE r \in Names, e \in Entries
  <2>1. CASE e = r
    BY <1>1, <2>1
  <2>2. CASE e # r
    BY <1>1, <1>2, <2>2, ZonesApart, WithinApart
  <2> QED
    BY <2>1, <2>2
<1>4. \A d, e \in Entries : d # e => Apart(t[d], t[e])
  BY <1>1, ZonesApart, WithinApart
<1>5. \A r \in Names, c \in Copies : Apart(Spare(t, r), CopySpan(c))
  <2> TAKE r \in Names, c \in Copies
  <2>1. /\ Spare(t, r).start > 33 /\ Spare(t, r).end < Total - 33
        /\ Spare(t, r).start \in Int /\ Spare(t, r).end \in Int
    <3>1. /\ Zone(r).start \in Int /\ Zone(r).end \in Int
          /\ Zone(r).start > 33 /\ Zone(r).end < Total - 33 /\ Total \in Nat
      BY <1>2, ZonesApart
    <3> QED
      BY <1>1, <3>1 DEF Within
  <2> QED
    BY <2>1, ZonesApart, CopySpans DEF Apart, Copies, Ends
<1>6. \A e \in Entries, c \in {"primary", "end"} : Apart(t[e], CopySpan(c))
  <2> TAKE e \in Entries, c \in {"primary", "end"}
  <2>1. /\ t[e].start > 33 /\ t[e].end < Device - 33
        /\ t[e].start \in Int /\ t[e].end \in Int
    <3>1. /\ Zone(e).start \in Int /\ Zone(e).end \in Int
          /\ Zone(e).start > 33 /\ Zone(e).end < Device - 33 /\ Device \in Nat
      BY ZonesApart
    <3> QED
      BY <1>1, <3>1 DEF Within
  <2> QED
    BY <2>1, ZonesApart, CopySpans DEF Apart
<1>7. ASSUME ~layout.grown, NEW e \in Entries PROVE Apart(t[e], CopySpan("image"))
  <2>1. t[e].end < Total - 33
    <3>1. CASE e = "primary"
      BY <1>1, <1>7, <3>1
    <3>2. CASE e # "primary"
      <4>1. Zone(e).end < Total - 33 /\ Zone(e).end \in Int /\ Total \in Nat
        BY <3>2, ZonesApart
      <4> QED
        BY <1>1, <4>1 DEF Within
    <3> QED
      BY <3>1, <3>2
  <2> QED
    BY <2>1, CopySpans DEF Apart
<1> QED
  BY <1>3, <1>4, <1>5, <1>6, <1>7 DEF t

-----------------------------------------------------------------------------
\* The sectors of every table the primary can hold, cached or on the card, at any
\* step of any commit, after any cut or error: gptslot derives its halves as the
\* commit meant them, and nothing an update or a partition writes is over
\* anything else.
THEOREM LayoutAlwaysSound == Spec => []LayoutSound
<1>1. CommitInv => LayoutSound
  <2> SUFFICES ASSUME CommitInv PROVE LayoutSound
    OBVIOUS
  <2>1. \A layout \in PrimaryTables : layout \in Layouts
    BY DEF CommitInv, LayoutInv, TypeOK, PrimaryTables, Primary
  <2>2. HalvesDerived
    BY <2>1, TableDerived, FlipIsFlip DEF HalvesDerived
  <2>3. ASSUME Valid(tabD, hdrD, "primary"), NEW e \in Entries
        PROVE  LET t == TableOf(tabD["primary"])
               IN /\ Apart(t[e], CopySpan("primary"))
                  /\ Apart(t[e], CopySpan(hdrD["primary"].alt))
    <3>1. /\ tabD["primary"] \in Layouts
          /\ \/ tabD["primary"] = Fresh /\ hdrD["primary"].alt = "image"
             \/ hdrD["primary"].alt = "end"
      BY <2>3 DEF CommitInv, LayoutInv, TypeOK, Leads, Valid, Primary, Headers
    <3> QED
      BY <3>1, FreshIsLayout, LayoutApart
  <2>4. NothingOverlaps
    BY <2>1, <2>3, LayoutApart DEF NothingOverlaps
  <2> QED
    BY <2>2, <2>4 DEF LayoutSound
<1> QED
  BY <1>1, CommitInvariant, PTL
=============================================================================
