------------------------------ MODULE MCUpdate ------------------------------
(* Instances of BaseosUpdate for TLC. *)
EXTENDS BaseosUpdate

\* The factory release, a pre-release, a rebuild of it, either of which supersedes the other so
\* that the card may come back to its factory release as to an update, and an
\* update to its release that never reaches a session.
beta == [core |-> <<Num(1), Text(0)>>, pre |-> <<Num(0), Text(1)>>]
final == [core |-> <<Num(1), Num(0), Num(0)>>, pre |-> <<>>]
v1a == [version |-> beta, build |-> "a"]
v1b == [version |-> beta, build |-> "b"]
v2a == [version |-> final, build |-> "a"]

MCReleases == {v1a, v1b, v2a}
MCRegions == {"uboot", "boot", "rootfs"}

\* The rebuild has a boot image of its own, the update a U-Boot.
MCImage ==
  [rel \in MCReleases |->
    [r \in MCRegions |->
      CASE r = "rootfs" -> <<"rootfs", rel>>
        [] r = "boot" -> <<"boot", IF rel = v1b THEN 2 ELSE 1>>
        [] r = "uboot" -> <<"uboot", IF rel = v2a THEN 2 ELSE 1>>]]

Sound(rel) == [release |-> rel, fits |-> TRUE, sound |-> TRUE]

MCBroken == {v2a}
MCOffered ==
  {Sound(v1a), Sound(v1b), Sound(v2a),
   [Sound(v1b) EXCEPT !.sound = FALSE], [Sound(v1b) EXCEPT !.fits = FALSE]}

FailingFlip == {"noflip"}
CommitWindow == {"commit"}

\* Every version with a core of one to three fields and a pre-release of up to
\* two, over two numbers and two texts.
CoreFields == {Num(0), Num(1), Text(0)}
PreFields == {Num(0), Num(1), Text(0), Text(1)}

MCCores == {<<f>> : f \in CoreFields}
           \cup {<<Num(1), f>> : f \in CoreFields}
           \cup {<<Num(1), Num(0), f>> : f \in {Num(0), Num(1)}}
MCPreReleases == {<<>>} \cup {<<f>> : f \in PreFields}
                 \cup {<<f, g>> : f \in PreFields, g \in PreFields}
=============================================================================
