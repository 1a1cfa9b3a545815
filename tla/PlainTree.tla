------------------------------ MODULE PlainTree ------------------------------
(***************************************************************************)
(* What the device tree tools promise, with no tokens, offsets or name      *)
(* lookups: a tree is a dictionary from a node's absolute path and a        *)
(* property's name to a value.  An edit changes exactly the entries it is    *)
(* for, of exactly the node it is for, or the tool gives up; what is written *)
(* is what the edits made of each tree.                                     *)
(***************************************************************************)
EXTENDS Integers, Sequences

CONSTANTS
  NewLine(_),   \* the command line made of an old one
  Flags,        \* the properties a slot gets for UHS, with their values
  Edit,         \* values the other edits set, by name
  Plans         \* the edits a tool gives a tree, in order

VARIABLES
  given,   \* the trees of the running tool's input, in order
  dict,    \* the one being edited
  todo,    \* the edits it still gets
  kept,    \* those that are through
  out      \* those in the written file

vars == <<given, dict, todo, kept, out>>

Nothing == <<>>

Put(d, path, prop, v) ==
  [k \in DOMAIN d \cup {<<path, prop>>} |-> IF k = <<path, prop>> THEN v ELSE d[k]]
Drop(d, path, prop) == [k \in DOMAIN d \ {<<path, prop>>} |-> d[k]]
PutAll(d, path, f) ==
  [k \in DOMAIN d \cup {<<path, n>> : n \in DOMAIN f} |->
     IF k[1] = path /\ k[2] \in DOMAIN f /\ k \notin DOMAIN d THEN f[k[2]] ELSE d[k]]

Top(node) == <<"/", node>>
Chosen == Top("chosen")
Panel == <<"/", "dsi@fe060000", "panel@0">>
Optee == <<"/", "reserved-memory", "optee@8400000">>
Vop(port) == <<"/", "vop@fe040000", "ports", port>>

\* The port one of whose endpoints is the other end of an enabled endpoint of
\* the encoder's.
WiredTo(d, encoder, port) ==
  \E k, e \in DOMAIN d :
    /\ k[2] = "phandle" /\ Len(k[1]) = 5 /\ SubSeq(k[1], 1, 4) = Vop(port)
    /\ e[2] = "remote-endpoint" /\ e[1][2] = encoder /\ d[e] = d[k]
    /\ <<e[1], "status">> \in DOMAIN d => d[<<e[1], "status">>] = Edit.okay

PortOf(d, encoder) ==
  CHOOSE port \in {"port@0", "port@1", "port@2"} : WiredTo(d, encoder, port)

Effect(e, d) ==
  CASE e = "bootargs" ->
         Put(d, Chosen, "bootargs", NewLine(d[<<Chosen, "bootargs">>]))
    [] e = "uhs" -> PutAll(d, Top("dwmmc@fe2b0000"), Flags)
    [] e = "slot1" -> Drop(d, Top("dwmmc@fe2c0000"), "vqmmc-supply")
    [] e = "ohci" -> Put(d, Top("usb@fd8c0000"), "status", Edit.disabled)
    [] e = "boost" ->
         LET level == <<Top("dmc"), "system-status-level">>
             at == CHOOSE i \in DOMAIN d[level] : i % 2 = 1 /\ d[level][i] = Edit.boost
         IN [d EXCEPT ![level] = SubSeq(@, 1, at - 1) \o SubSeq(@, at + 2, Len(@))]
    [] e = "optee" ->
         IF \E k \in DOMAIN d : k[1] = Optee THEN d ELSE PutAll(d, Optee, Edit.optee)
    [] e = "planes" ->
         PutAll(PutAll(d, Vop(PortOf(d, "dsi@fe060000")), Edit.panelPlanes),
                Vop(PortOf(d, "hdmi@fe0a0000")), Edit.hdmiPlanes)
    [] e = "panel" ->
         [k \in DOMAIN d |->
            IF k[1] = Panel /\ k[2] \in DOMAIN Edit.delays THEN Edit.delays[k[2]]
            ELSE IF k = <<Panel, "panel-init-sequence">>
            THEN <<Edit.sleepOut>> \o Tail(d[k]) ELSE d[k]]
    [] e = "pinctrl" -> PutAll(d, Top("pinctrl"), Edit.pinctrl)

-----------------------------------------------------------------------------
Init == given = <<>> /\ dict = Nothing /\ todo = <<>> /\ kept = <<>> /\ out = <<>>

\* A tool is called, or gives up: what it had is gone, what it wrote stays.
Call ==
  /\ dict' = Nothing /\ todo' = <<>> /\ kept' = <<>>
  /\ UNCHANGED out

Open ==
  /\ dict = Nothing /\ Len(kept) < Len(given)
  /\ dict' = given[Len(kept) + 1] /\ todo' \in Plans
  /\ UNCHANGED <<given, kept, out>>

DoEdit ==
  /\ todo # <<>>
  /\ \E d \in {dict} : dict' = Effect(Head(todo), d)
  /\ todo' = Tail(todo)
  /\ UNCHANGED <<given, kept, out>>

Close ==
  /\ dict # Nothing /\ todo = <<>>
  /\ kept' = Append(kept, dict) /\ dict' = Nothing
  /\ UNCHANGED <<given, todo, out>>

\* Only the whole of the input is written.
Write ==
  /\ Len(kept) = Len(given) /\ out' = kept
  /\ UNCHANGED <<given, dict, todo, kept>>

Next == Call \/ Open \/ DoEdit \/ Close \/ Write

Spec == Init /\ [][Next]_vars
=============================================================================
