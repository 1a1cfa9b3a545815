------------------------------ MODULE MCExpand ------------------------------
(* ExpandStorage for TLC: the preloader backup the installer left, the settings *)
(* file the script supplies if need be, and a file the user may add.            *)
EXTENDS ExpandStorage
MCFiles == {"mtd5", "conf", "music"}
MCProvided == {"conf"}
MCShipped == {"mtd5"}
AllWindows == Windows
OnlyHollow == {"hollow"}
OnlyUnstage == {"unstage"}
OnlyMount == {"mount"}
OnlyRestore == {"restore"}
OnlyPending == {"pending"}
=============================================================================
