------------------------------ MODULE MCSession ------------------------------
\* Instance of Shutdown: a frontend in each of its forms, on either card, and
\* nowhere but on a card that is put in later.
EXTENDS Shutdown

Blank == Volume("none", FALSE, FALSE)
MCCards ==
  {[left |-> Volume("none", TRUE, FALSE), own |-> Blank, in |-> FALSE],
   [left |-> Volume("none", FALSE, TRUE), own |-> Unreadable, in |-> FALSE],
   [left |-> Blank, own |-> Volume("whole", FALSE, FALSE), in |-> TRUE]}
=============================================================================
