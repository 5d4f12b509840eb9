---------------------------- MODULE DeviceTree ----------------------------
(***************************************************************************)
(* A device tree, independently of how libfdt stores it: what the          *)
(* functions over the flattened blob are compared with.                    *)
(*                                                                         *)
(* A tree is the sequence of its tokens in document order: the beginning   *)
(* of a node, a property, the end of a node.  A node or a property is the  *)
(* position of its token.                                                  *)
(***************************************************************************)
EXTENDS Integers, Sequences, FiniteSets, SequencesExt

Begin(name)     == [tag |-> "begin", name |-> name, val |-> <<>>]
Prop(name, val) == [tag |-> "prop", name |-> name, val |-> val]
End             == [tag |-> "end", name |-> <<>>, val |-> <<>>]

(* A node with its properties and the trees of its children.               *)
Node(name, props, kids) ==
  <<Begin(name)>> \o props \o FlattenSeq(kids) \o <<End>>

TagAt(tree, tag) == {i \in DOMAIN tree : tree[i].tag = tag}
Nodes(tree)      == TagAt(tree, "begin")

(* How many nodes are open before token i.                                 *)
Open(tree, i) == Cardinality({j \in TagAt(tree, "begin") : j < i})
                   - Cardinality({j \in TagAt(tree, "end") : j < i})

(* One root without a name, and every node that begins ends.               *)
IsTree(tree) ==
  /\ Len(tree) >= 2
  /\ tree[1] = Begin(<<>>)
  /\ tree[Len(tree)].tag = "end"
  /\ \A i \in 2 .. Len(tree) : Open(tree, i) >= 1
  /\ Open(tree, Len(tree) + 1) = 0

(* The first and the last position of a non-empty set of positions.        *)
First(S)  == CHOOSE i \in S : \A j \in S : i <= j
Latest(S) == CHOOSE i \in S : \A j \in S : i >= j

EndOf(tree, n) ==
  First({j \in TagAt(tree, "end") : j > n /\ Open(tree, j) = Open(tree, n) + 1})

Inside(tree, n) == n + 1 .. EndOf(tree, n) - 1

(* Its children and its properties, in order.                              *)
Members(tree, n, tag) ==
  SetToSortSeq({j \in Inside(tree, n) : /\ tree[j].tag = tag
                                        /\ Open(tree, j) = Open(tree, n) + 1}, <)
Children(tree, n)   == Members(tree, n, "begin")
Properties(tree, n) == Members(tree, n, "prop")

(* The nodes from the root down to n, n included, and n's place on it.     *)
Ancestry(tree, n) ==
  SetToSortSeq({m \in Nodes(tree) : m = n \/ n \in Inside(tree, m)}, <)

Root       == 1
Depth(tree, n)  == Open(tree, n)
Parent(tree, n) == Ancestry(tree, n)[Depth(tree, n)]

(* The first property of a node with this name, 0 if it has none.          *)
PropertyNamed(tree, n, name) ==
  LET ps == SelectSeq(Properties(tree, n), LAMBDA p : tree[p].name = name)
  IN IF ps = <<>> THEN 0 ELSE ps[1]

HasValue(tree, n, name, value) ==
  /\ PropertyNamed(tree, n, name) # 0
  /\ tree[PropertyNamed(tree, n, name)].val = value

(* The components of a node's path, and the path as it is written.         *)
Names(tree, n) ==
  [i \in 1 .. Depth(tree, n) |-> tree[Ancestry(tree, n)[i + 1]].name]

PathOf(tree, n) ==
  IF n = Root THEN <<47>>
  ELSE FlattenSeq([i \in DOMAIN Names(tree, n) |-> <<47>> \o Names(tree, n)[i]])

(* A name with its unit address cut off.                                   *)
BaseName(name) ==
  LET i == SelectInSeq(name, LAMBDA c : c = 64)
  IN IF i = 0 THEN name ELSE SubSeq(name, 1, i - 1)

(* A component designates a node by its full name, or by the name without  *)
(* the unit address.                                                       *)
Designates(component, name) == component \in {name, BaseName(name)}

(* The child that a component designates: the first of several.            *)
ChildNamed(tree, n, component) ==
  LET ks == SelectSeq(Children(tree, n),
                      LAMBDA k : Designates(component, tree[k].name))
  IN IF ks = <<>> THEN 0 ELSE ks[1]

(* The node that a sequence of components leads to, 0 if there is none.    *)
Reached(tree, components) ==
  FoldLeft(LAMBDA n, c : IF n = 0 THEN 0 ELSE ChildNamed(tree, n, c),
           Root, components)

(* The strings of a value that ends in a NUL.                              *)
StringList(value) ==
  LET ends == {i \in DOMAIN value : value[i] = 0}
      from(e) == IF \E d \in ends : d < e
                 THEN Latest({d \in ends : d < e}) + 1 ELSE 1
      inOrder == SetToSortSeq(ends, <)
  IN [i \in DOMAIN inOrder |-> SubSeq(value, from(inOrder[i]), inOrder[i] - 1)]
=============================================================================
