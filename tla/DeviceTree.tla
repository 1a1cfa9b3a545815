----------------------------- MODULE DeviceTree -----------------------------
(***************************************************************************)
(* The flattened device tree as tools/rkbootimg.py, tools/mkfit.py and     *)
(* tools/mkpreloader.py read and edit it: a struct block of tokens and a   *)
(* strings block that holds the names of properties.  A value is a         *)
(* sequence of cells, so that an edit in place and one that moves          *)
(* everything behind it are told apart.  An operator that raises ValueError *)
(* or KeyError yields Refused.                                             *)
(***************************************************************************)
EXTENDS Integers, Sequences, SequencesExt, FiniteSetsExt

Begin(n) == [tok |-> "begin", name |-> n]
EndNode == [tok |-> "end"]
Prop(at, v) == [tok |-> "prop", at |-> at, val |-> v]
Nop == [tok |-> "nop"]

\* A blob's two blocks, whatever is in them.
Tokens == [tok : {"begin"}, name : STRING] \cup [tok : {"end"}]
          \cup [tok : {"prop"}, at : Nat, val : Seq(Int)] \cup [tok : {"nop"}]
Blobs == [struct : Seq(Tokens), strings : Seq(STRING)]

Refused == [struct |-> <<>>, strings |-> <<>>]

Elems(s) == {s[i] : i \in DOMAIN s}

\* The elements of s at the places in kept, in order.
Picked(s, kept) ==
  LET nth(i) == CHOOSE p \in kept : Cardinality({q \in kept : q <= p}) = i
  IN [i \in 1 .. Cardinality(kept) |-> s[nth(i)]]

WithTokens(b, s) == [b EXCEPT !.struct = s]

-----------------------------------------------------------------------------
\* The path of the node each token belongs to, its own for a begin or an end:
\* those of the tokens up to p are upTo[p][1].
Paths(s) ==
  LET around(before, p) == IF p = 1 THEN <<>>
                           ELSE IF s[p - 1].tok = "end" THEN Front(before[p - 1])
                           ELSE before[p - 1]
      extended(before, p) ==
        Append(before, around(before, p)
                       \o (IF s[p].tok = "begin" THEN <<s[p].name>> ELSE <<>>))
      upTo[p \in 0 .. Len(s)] ==
        IF p = 0 THEN <<<<>>>> ELSE [upTo[p - 1] EXCEPT ![1] = extended(@, p)]
  IN upTo[Len(s)][1]

NodesAt(b) == {p \in DOMAIN b.struct : b.struct[p].tok = "begin"}
PropsAt(b) == {p \in DOMAIN b.struct : b.struct[p].tok = "prop"}
NameAt(b, p) == b.strings[b.struct[p].at]

\* _fdt_is: the last components of the path are the ones asked for.
Is(path, node) ==
  LET n == Len(path) - Len(node) IN n >= 0 /\ SubSeq(path, n + 1, Len(path)) = node

\* The place of the first node so named, 0 for none.
FirstOn(path, b, node) ==
  LET named == {p \in NodesAt(b) : Is(path[p], node)}
  IN IF named = {} THEN 0 ELSE Min(named)
FirstNode(b, node) == FirstOn(Paths(b.struct), b, node)

\* fdt_find_prop: the first property of that name in any node so named.
FindProp(b, node, prop) ==
  LET path == Paths(b.struct)
      named == {p \in PropsAt(b) : NameAt(b, p) = prop /\ Is(path[p], node)}
  IN IF named = {} THEN 0 ELSE Min(named)

\* fdt_node_props: those of the first node so named, until the walk leaves it.
NodeProps(b, node) ==
  LET path == Paths(b.struct)
      first == FirstOn(path, b, node)
      left == {q \in NodesAt(b) \cup PropsAt(b) :
                 q > first /\ ~IsPrefix(path[first], path[q])}
      own == {p \in PropsAt(b) :
                /\ p > first /\ path[p] = path[first]
                /\ \A q \in left : p < q}
  IN [n \in {NameAt(b, p) : p \in own} |->
        b.struct[Max({p \in own : NameAt(b, p) = n})].val]

Has(props, n) == n \in DOMAIN props

\* The words a token takes in the struct block; a begin takes its name's two.
Words(t) == CASE t.tok = "prop" -> 3 + Len(t.val) [] t.tok = "begin" -> 3 [] OTHER -> 1

\* The blob's length in words: a strings entry is taken as two.
Size(b) ==
  LET words(p) == {p} \X (1 .. Words(b.struct[p]))
  IN 2 * Len(b.strings) + Cardinality(UNION {words(p) : p \in DOMAIN b.struct})

-----------------------------------------------------------------------------
\* _fdt_intern: a name is reused whole, or appended to the strings.
Intern(strings, names) ==
  strings \o Picked(names, {i \in DOMAIN names : names[i] \notin Elems(strings)})

OffsetIn(strings, n) == Min({i \in DOMAIN strings : strings[i] = n})

NamesOf(props) == [i \in DOMAIN props |-> props[i][1]]
PropTokens(strings, props) ==
  [i \in DOMAIN props |-> Prop(OffsetIn(strings, props[i][1]), props[i][2])]

Splice(s, p, tokens) == SubSeq(s, 1, p) \o tokens \o SubSeq(s, p + 1, Len(s))

\* The end that closes the node opened at p.
ClosedAt(b, p) ==
  LET path == Paths(b.struct)
  IN Min({q \in p .. Len(b.struct) :
            b.struct[q].tok = "end" /\ Len(path[q]) = Len(path[p])})

\* Mutant: the new tokens go behind the node's own subnodes.
InsertLast(b, p, props) ==
  LET strings == Intern(b.strings, NamesOf(props))
  IN [struct |-> Splice(b.struct, ClosedAt(b, p) - 1, PropTokens(strings, props)),
      strings |-> strings]

\* The head of a property list is right behind its node's begin.
Insert(b, p, props) ==
  LET strings == Intern(b.strings, NamesOf(props))
  IN [struct |-> Splice(b.struct, p, PropTokens(strings, props)), strings |-> strings]

\* The read-back check of both writers.
ReadsBack(new, node, props, kept) ==
  LET check == NodeProps(new, node)
  IN /\ \A i \in DOMAIN props :
          Has(check, props[i][1]) /\ check[props[i][1]] = props[i][2]
     /\ \A n \in DOMAIN kept : Has(check, n) /\ check[n] = kept[n]

\* fdt_add_props: what the node has already is left alone.
AddProps(b, node, props) ==
  IF FirstNode(b, node) = 0 THEN Refused
  ELSE LET existing == NodeProps(b, node)
           todo == Picked(props, {i \in DOMAIN props : ~Has(existing, props[i][1])})
           new == Insert(b, FirstNode(b, node), todo)
       IN IF todo = <<>> THEN b
          ELSE IF ReadsBack(new, node, props, existing) THEN new ELSE Refused

\* fdt_add_subnode: unless any node has that name already.
AddSubnode(b, parent, name, props) ==
  LET strings == Intern(b.strings, NamesOf(props))
      at == FirstNode(b, <<parent>>)
      child == <<Begin(name)>> \o PropTokens(strings, props) \o <<EndNode>>
      new == [struct |-> Splice(b.struct, ClosedAt(b, at) - 1, child),
              strings |-> strings]
  IN IF FirstNode(b, <<name>>) # 0 THEN b
     ELSE IF at = 0 THEN Refused
     ELSE IF /\ ReadsBack(new, <<name>>, props, <<>>)
             /\ NodeProps(new, <<parent>>) = NodeProps(b, <<parent>>)
          THEN new ELSE Refused

\* fdt_nop_prop: overwritten with FDT_NOP, so no offset moves.
NopProp(b, node, prop) ==
  LET p == FindProp(b, node, prop)
      nops == [i \in 1 .. Words(b.struct[p]) |-> Nop]
      new == WithTokens(b, SubSeq(b.struct, 1, p - 1) \o nops
                           \o SubSeq(b.struct, p + 1, Len(b.struct)))
  IN IF p = 0 \/ Has(NodeProps(new, node), prop) THEN Refused ELSE new

\* A value of the same width, put over the old one.
SetValue(b, p, v) == WithTokens(b, [b.struct EXCEPT ![p].val = v])

-----------------------------------------------------------------------------
\* What a reader of the tree finds: the value of each property of each node.
\* (The singletons have TLC evaluate what they hold once, under a prime too.)
FactsOf(b, key) ==
  [k \in {key[p] : p \in DOMAIN key} |->
     b.struct[Max({p \in DOMAIN key : key[p] = k})].val]
Facts(b) ==
  CHOOSE f \in {FactsOf(b, key) :
                  key \in {[p \in PropsAt(b) |-> <<path[p], NameAt(b, p)>>] :
                             path \in {Paths(b.struct)}}} : TRUE

\* The same as a set: every property of every node with its value.
Entries(b) ==
  UNION {{<<path[p], NameAt(b, p), b.struct[p].val>> : p \in PropsAt(b)} :
           path \in {Paths(b.struct)}}

\* What the format asks: one root, closed at the very end; properties ahead of
\* subnodes; names that resolve; no name twice in one node.
WellFormed(b) ==
  LET s == b.struct
      path == Paths(s)
      shut(p) == {q \in p .. Len(s) : s[q].tok = "end" /\ Len(path[q]) = Len(path[p])}
  IN /\ s # <<>> /\ s[1].tok = "begin" /\ s[Len(s)].tok = "end"
     /\ \A p \in NodesAt(b) : shut(p) # {} /\ (p > 1 => path[p] # <<s[p].name>>)
     /\ \A q \in DOMAIN s : s[q].tok = "end" => path[q] # <<>>
     /\ \A p \in PropsAt(b) : s[p].at \in DOMAIN b.strings
     /\ \A p \in PropsAt(b), q \in DOMAIN s :
          q < p /\ s[q].tok = "end" => ~IsStrictPrefix(path[p], path[q])
     /\ \A p, q \in PropsAt(b) :
          p # q /\ path[p] = path[q] => NameAt(b, p) # NameAt(b, q)
     /\ \A p, q \in NodesAt(b) : p # q => path[p] # path[q]
=============================================================================
