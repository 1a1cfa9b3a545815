------------------------------ MODULE ABTrial ------------------------------
(***************************************************************************)
(* What the update engine promises, without its slots, files or power      *)
(* cuts: the card holds one release; an update replaces it on trial; a     *)
(* trial ends by being kept, by the release it replaced coming back or,    *)
(* when that fails, by being lost, and no release is put on trial twice.   *)
(* The card is lost, too, when an update is said to have failed and has    *)
(* not, until what it holds then has proved itself.  BaseosUpdate          *)
(* implements it.                                                          *)
(***************************************************************************)
CONSTANTS Releases, Factory

VARIABLES
  installed,  \* the release the active halves hold
  fallback,   \* the release a rollback would bring back
  phase,      \* "stable", "trial" or, with nothing to fall back on, "lost"
  tried       \* releases ever put on trial

abVars == <<installed, fallback, phase, tried>>

ABInit ==
  /\ installed = Factory /\ fallback = Factory
  /\ phase = "stable"
  /\ tried = {}

Update(rel) ==
  /\ phase = "stable"
  /\ rel \notin tried /\ rel # installed
  /\ installed' = rel
  /\ fallback' = installed
  /\ phase' = "trial"
  /\ tried' = tried \cup {rel}

Keep ==
  /\ phase = "trial"
  /\ phase' = "stable"
  /\ UNCHANGED <<installed, fallback, tried>>

Rollback ==
  /\ phase = "trial"
  /\ installed' = fallback
  /\ phase' = "stable"
  /\ UNCHANGED <<fallback, tried>>

\* The release it replaced cannot be brought back.
Abandon ==
  /\ phase = "trial"
  /\ phase' = "lost"
  /\ UNCHANGED <<installed, fallback, tried>>

\* A release gets onto the card and no trial is opened for it.
Slip(rel) ==
  /\ phase = "stable"
  /\ installed' = rel
  /\ phase' = "lost"
  /\ UNCHANGED <<fallback, tried>>

\* What the card holds has proved itself.
Recover ==
  /\ phase = "lost"
  /\ phase' = "stable"
  /\ UNCHANGED <<installed, fallback, tried>>

\* Until then it is only promised that the card holds a release and that none
\* is tried twice.
Lost ==
  /\ phase = "lost" /\ phase' = "lost"
  /\ installed' \in Releases
  /\ tried \subseteq tried' /\ (tried' = tried => fallback' = fallback)

ABNext ==
  \/ Keep \/ Rollback \/ Abandon \/ Lost \/ Recover
  \/ \E rel \in Releases : Update(rel) \/ Slip(rel)

ABSafety == ABInit /\ [][ABNext]_abVars

\* A trial does not stay open.
ABSpec == ABSafety /\ WF_abVars(Keep \/ Rollback)

=============================================================================
