------------------------------- MODULE MCBuild -------------------------------
\* Instance of ImageBuild: two dumps (the second's curl wants a
\* library it has not), four editions of the tree.
EXTENDS ImageBuild, TLC

Root(d) ==
  (<<"bin">> :> Dir) @@ (<<"bin", "sh">> :> Elf(d, "", {"libc.so"}))
  @@ (<<"bin", "curl">> :> Elf("curl", "", {"libz.so.1"} \cup (IF d = 2 THEN {"libq.so"} ELSE {})))
  @@ (<<"lib">> :> Dir) @@ (<<"lib", "libc.so">> :> Elf("c", "libc.so", {}))
  @@ (<<"lib", "libz.so.1">> :> Link(<<"lib", "libz.so.1.2">>))
  @@ (<<"lib", "libz.so.1.2">> :> Elf("z", "libz.so.1", {"libc.so"}))
  @@ (<<"tz">> :> Dir) @@ (<<"tz", "posix">> :> File("posix"))
  @@ (<<"tz", "right">> :> File("right"))
  @@ IF d = 2 THEN (<<"extra">> :> Broken(Elf("e", "libe.so", {"libf.so"}))) ELSE <<>>
MCDumps == [d \in 1 .. 2 |->
  [uboot |-> [kind |-> "mtd1", of |-> d], boot |-> [kind |-> "mtd2", of |-> d],
   root |-> Root(d)]]

Ask(p) == [bang |-> FALSE, path |-> p]
Bar(p) == [bang |-> TRUE, path |-> p]
Base == {Ask(<<"bin", "sh">>), Ask(<<"lib", "libc.so">>), Ask(<<"tz">>), Bar(<<"tz", "right">>)}
Edition(list, version, git, map) ==
  [list |-> list, version |-> version, git |-> git, map |-> map]
MCEditions ==
  {Edition(Base, <<"1", "3", "rc">>, <<"7", "dirty">>, 1),
   Edition(Base, <<"1", "3">>, <<"7">>, 2),
   Edition(Base \ {Bar(<<"tz", "right">>)}, <<"1", "3">>, <<"8">>, 2),
   Edition(Base \cup {Ask(<<"bin", "curl">>), Ask(<<"lib", "libz.so.1">>)}, <<"1", "4">>, <<"9">>, 2)}
=============================================================================
