---------------------------- MODULE OneWayTable ----------------------------
(***************************************************************************)
(* What a partition table commit promises to those who read one copy only: *)
(* the table goes from the old layout to the new one and never back.  On   *)
(* the way it may be torn, and then it is either completed or the card is  *)
(* written anew; no other commit starts from a torn table.                 *)
(***************************************************************************)
CONSTANTS
  Layouts,
  Torn  \* what a header and a table that do not match are read as

VARIABLES
  layout,  \* what the readers find
  old,     \* the layout the commit in progress started from
  new      \* the layout it installs

owVars == <<layout, old, new>>

OWInit == layout \in Layouts /\ old = layout /\ new = layout

Begin == layout # Torn /\ layout' = layout /\ old' = layout /\ new' \in Layouts

Tear == layout = old /\ layout' = Torn /\ UNCHANGED <<old, new>>

Take == layout \in {old, Torn} /\ layout' = new /\ UNCHANGED <<old, new>>

\* The card is written anew.
Replace == layout = Torn /\ layout' \in Layouts /\ old' = layout' /\ new' = layout'

OWNext == Begin \/ Tear \/ Take \/ Replace

OWSpec == OWInit /\ [][OWNext]_owVars

=============================================================================
