----------------------------- MODULE FdtReader -----------------------------
(***************************************************************************)
(* A program that walks over a blob with libfdt: it holds the offset of a  *)
(* node and its depth and moves by the functions that find nodes.  The     *)
(* properties compare what every reader says of that node, for every       *)
(* argument, with the tree that was flattened.                             *)
(***************************************************************************)
EXTENDS FdtRead, CheckedBlob

CONSTANTS PropNames,    (* names of properties that are asked for            *)
          Components,   (* names of nodes that are asked for                 *)
          Strings       (* members of string lists that are asked for        *)

VARIABLES node, depth

T == Tree(blob)

(* The blob passed the full check, and holds a root.                       *)
HoldsNode == Accepted /\ T # <<>> /\ T[1].tag = "begin"

Init == BlobInit /\ node = 0 /\ depth = 0

(* A failed search leaves the program where it was.                        *)
Move(offset, d) ==
  /\ offset >= 0
  /\ node' = offset
  /\ depth' = d
  /\ UNCHANGED blob

MoveTo(offset) == Move(offset, fdt_node_depth(blob, offset))

NextNode ==
  \E n \in {fdt_next_node_depth(blob, node, depth)} :
    n.depth >= 0 /\ Move(n.offset, n.depth)

FirstSubnode == Move(fdt_first_subnode(blob, node), depth + 1)
NextSubnode  == depth > 0 /\ Move(fdt_next_subnode(blob, node), depth)
ParentNode   == Move(fdt_parent_offset(blob, node), depth - 1)

Subnode == \E c \in Components : Move(fdt_subnode_offset(blob, node, c), depth + 1)

FollowPath ==
  \E c \in Components
          \union IF HoldsNode THEN {PathOf(T, n) : n \in Nodes(T)} ELSE {} :
    MoveTo(fdt_path_offset(blob, c))

ByPhandle ==
  \E h \in 1 .. 3 :
    MoveTo(fdt_node_offset_by_phandle(blob, h))

ByCompatible ==
  \E s \in Strings :
    MoveTo(fdt_node_offset_by_compatible(blob, node, s))

Next == \/ NextNode \/ FirstSubnode \/ NextSubnode \/ ParentNode
        \/ Subnode \/ FollowPath \/ ByPhandle \/ ByCompatible

(***************************************************************************)
(* Properties.                                                             *)
(***************************************************************************)
Here == TokenAt(blob, node)
Offset(n) == IF n = 0 THEN -FDT_ERR_NOTFOUND ELSE OffsetOf(blob, n)

(* In a blob that passed the check the walker always stands on the         *)
(* beginning of a node and knows its depth.                                *)
TypeOK ==
  HoldsNode => /\ node \in {OffsetOf(blob, n) : n \in Nodes(T)}
               /\ depth = Depth(T, Here)

(***************************************************************************)
(* What the functions say of the node at token n of the tree t.            *)
(***************************************************************************)
NestingAt(t, n) ==
  LET line == Ancestry(t, n)
      kids == Children(t, n)
  IN  /\ fdt_node_depth(blob, node) = Depth(t, n)
      /\ fdt_parent_offset(blob, node) = Offset(IF n = Root THEN 0 ELSE Parent(t, n))
      /\ \A d \in 0 .. 4 : fdt_supernode_atdepth_offset(blob, node, d)
           = Offset(IF d < Len(line) THEN line[d + 1] ELSE 0)
      /\ subnodes(blob, node) = [i \in DOMAIN kids |-> OffsetOf(blob, kids[i])]

(* An alias leads where its value leads, if that is a path with its NUL.   *)
AliasLeads(t, c, i) ==
  fdt_path_offset(blob, c)
    = IF i # 0 /\ t[i].val # <<>> /\ t[i].val[1] = Slash /\ Last(t[i].val) = 0
      THEN fdt_path_offset(blob, StringList(t[i].val)[1])
      ELSE -FDT_ERR_BADPATH

PathsAt(t, n, path, names) ==
  /\ \A buflen \in 0 .. Len(path) + 2 :
       fdt_get_path(blob, node, buflen) =
         IF buflen > Len(path) THEN [len |-> 0, str |-> path]
         ELSE Failure(-FDT_ERR_NOSPACE)
  /\ ~Contains(names, <<>>) =>
       /\ fdt_path_offset(blob, path) = Offset(Reached(t, names))
       /\ \A c \in Components : fdt_path_offset(blob, path \o <<Slash>> \o c)
                                 = Offset(Reached(t, Append(names, c)))
  /\ \A c \in Components :
       /\ fdt_subnode_offset(blob, node, c) = Offset(ChildNamed(t, n, c))
       /\ AliasLeads(t, c, PropertyNamed(t, ChildNamed(t, Root, Tail(aliases_path)), c))

(* A property p as it was found, and the token i that it should be.        *)
FoundIs(t, name, p, i) ==
  IF i = 0 THEN p.len = -FDT_ERR_NOTFOUND
  ELSE p.offset = OffsetOf(blob, i) /\ PropValue(blob, p) = t[i].val

FirstOr0(S) == IF S = {} THEN 0 ELSE First(S)

(* The first node after n whose property has the value of token i.         *)
NextLike(t, n, name, i) ==
  i # 0 => fdt_node_offset_by_prop_value(blob, node, name, t[i].val)
             = Offset(FirstOr0({m \in Nodes(t) : m > n /\ HasValue(t, m, name, t[i].val)}))

(* The length of a symbol: property i of node n.                           *)
SymbolLen(t, n, i) == CASE n = 0 -> -FDT_ERR_BADOFFSET
                        [] n # 0 /\ i = 0 -> -FDT_ERR_NOTFOUND
                        [] OTHER -> Len(t[i].val)

PropertiesAt(t, n) ==
  /\ \A name \in PropNames :
       /\ FoundIs(t, name, fdt_getprop(blob, node, name), PropertyNamed(t, n, name))
       /\ NextLike(t, n, name, PropertyNamed(t, n, name))
  /\ \A name \in PropNames, c \in Components :
       fdt_get_symbol(blob, <<Slash>> \o c, name).len
         = SymbolLen(t, ChildNamed(t, Root, c), PropertyNamed(t, ChildNamed(t, Root, c), name))
  /\ property_scan(blob, node) =
       Append([i \in DOMAIN Properties(t, n) |-> OffsetOf(blob, Properties(t, n)[i])],
              -FDT_ERR_NOTFOUND)

(* The nodes that carry a phandle, the older name counting where there is  *)
(* no property under the new one that could be a phandle.                  *)
Carrying(t, h) ==
  {n \in Nodes(t) :
     \/ HasValue(t, n, phandle_name, CellBytes(h))
     \/ /\ HasValue(t, n, linux_phandle_name, CellBytes(h))
        /\ \A i \in {PropertyNamed(t, n, phandle_name)} : i # 0 => Len(t[i].val) # Cell}

PhandlesIn(t) ==
  /\ \A h \in 1 .. 3 :
       fdt_node_offset_by_phandle(blob, h) = Offset(FirstOr0(Carrying(t, h)))
  /\ Carrying(t, fdt_generate_phandle(blob)) = {}

StringsAt(name, list, whole, none) ==
  /\ fdt_stringlist_count(blob, node, name)
       = IF whole THEN Len(list) ELSE -FDT_ERR_BADVALUE
  /\ \A k \in 0 .. Len(list) : fdt_stringlist_get(blob, node, name, k)
       = IF k < Len(list) THEN [len |-> Len(list[k + 1]), str |-> list[k + 1]]
         ELSE Failure(none)
  /\ \A s \in Strings : fdt_stringlist_search(blob, node, name, s)
       = IF Contains(list, s) THEN SelectInSeq(list, LAMBDA x : x = s) - 1 ELSE none
  /\ whole /\ name = compatible_name =>
       \A s \in Strings : fdt_node_check_compatible(blob, node, s)
                            = IF Contains(list, s) THEN 0 ELSE 1

StringsOf(name, val) ==
  LET whole == val = <<>> \/ Last(val) = 0
  IN  StringsAt(name, StringList(val), whole,
                -(IF whole THEN FDT_ERR_NOTFOUND ELSE FDT_ERR_BADVALUE))

StringListsAt(t, n) ==
  \A name \in PropNames : \A i \in {PropertyNamed(t, n, name)} :
    i # 0 => StringsOf(name, t[i].val)

(* fdt_supernode_atdepth_offset, fdt_node_depth, fdt_parent_offset and the *)
(* walks over subnodes agree with the nesting of the tree.                 *)
NestingIsRead == HoldsNode => NestingAt(T, Here)

(* fdt_get_path writes the node's path exactly when it fits with its NUL.  *)
(* fdt_path_offset, relative or from the root, leads where the components  *)
(* of a path lead, the first of several nodes when unit addresses are      *)
(* omitted; a node without a name (fdt_check_full accepts one below the    *)
(* root) is out of their reach.  An alias leads where its value leads.     *)
PathsAreRead ==
  HoldsNode => PathsAt(T, Here, PathOf(T, Here), Names(T, Here))

(* A name is looked up in the node's own properties, past deleted ones and *)
(* never in a child's, and only as a whole, be it through the path of a    *)
(* symbol; the walk over the properties sees each of them once and in      *)
(* order, and the search for a value stops at the next node that has it.   *)
PropertiesAreRead == HoldsNode => PropertiesAt(T, Here)

(* Every phandle leads to the first node that carries it, under its name   *)
(* or the older one, and a generated phandle is one that no node carries.  *)
PhandlesAreRead == HoldsNode => PhandlesIn(T)

(* The string list functions agree with one another and with the value:    *)
(* the search finds what get returns, and a list without its last NUL is   *)
(* reported as such once the strings before it are exhausted; a node is    *)
(* compatible with the strings of its list and no others.                  *)
StringListsAreRead == HoldsNode => StringListsAt(T, Here)
=============================================================================
