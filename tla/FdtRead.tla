------------------------------ MODULE FdtRead ------------------------------
(***************************************************************************)
(* The read-only functions of libfdt (fdt_ro.c, fdt_addresses.c,           *)
(* fdt_check.c): names, properties, phandles, paths and string lists.      *)
(*                                                                         *)
(* Strings are sequences of bytes without their NUL.  A function that      *)
(* returns a pointer and a length in the code returns a record: `len' is   *)
(* the length or the negative error, and the rest is meaningful only when  *)
(* len is not negative.                                                    *)
(***************************************************************************)
EXTENDS FdtCheck, SequencesExt

FDT_MAX_PHANDLE == WordSize - 2
FDT_MAX_NCELLS  == 4

Slash == 47
AtSign == 64

(***************************************************************************)
(* The walk over nodes (fdt.c).                                            *)
(***************************************************************************)
(* The walk of fdt_next_node from `offset' on, a tag or an error: the next *)
(* node and its depth.  `tracked' says that the caller passes a pointer to *)
(* a depth; without one the walk runs to the end of the block.             *)
RECURSIVE node_from(_, _, _, _)
node_from(b, offset, depth, tracked) ==
  LET at(o, d) == [offset |-> o, depth |-> d]
      seen(t) ==
        CASE t.tag = FDT_BEGIN_NODE -> at(offset, depth + 1)
          [] t.tag = FDT_END_NODE /\ tracked /\ depth = 0 -> at(t.next, -1)
          [] t.tag = FDT_END ->
               at(IF t.next >= 0 \/ (t.next = -FDT_ERR_TRUNCATED /\ ~tracked)
                  THEN -FDT_ERR_NOTFOUND ELSE t.next, depth)
          [] OTHER -> node_from(b, t.next,
                                IF t.tag = FDT_END_NODE THEN depth - 1 ELSE depth,
                                tracked)
  IN IF offset < 0 THEN at(offset, depth) ELSE seen(fdt_next_tag(b, offset))

next_node(b, offset, depth, tracked) ==
  node_from(b, IF offset >= 0 THEN fdt_check_node_offset_(b, offset) ELSE 0,
            depth, tracked)

(* fdt_next_node(b, offset, NULL) and fdt_next_node(b, offset, &depth).    *)
fdt_next_node(b, offset) == next_node(b, offset, 0, FALSE).offset
fdt_next_node_depth(b, offset, depth) == next_node(b, offset, depth, TRUE)

fdt_first_subnode(b, offset) ==
  LET child(n) == IF n.offset < 0 \/ n.depth # 1 THEN -FDT_ERR_NOTFOUND
                  ELSE n.offset
  IN child(fdt_next_node_depth(b, offset, 0))

RECURSIVE sibling_from(_, _, _)
sibling_from(b, offset, depth) ==
  LET sibling(n) == IF n.offset < 0 \/ n.depth < 1 THEN -FDT_ERR_NOTFOUND
                    ELSE IF n.depth > 1 THEN sibling_from(b, n.offset, n.depth)
                    ELSE n.offset
  IN sibling(fdt_next_node_depth(b, offset, depth))

fdt_next_subnode(b, offset) == sibling_from(b, offset, 1)

(* fdt_for_each_subnode: the children of a node, in the order of the blob. *)
RECURSIVE subnodes_from(_, _)
subnodes_from(b, node) ==
  IF node < 0 THEN <<>>
  ELSE <<node>> \o subnodes_from(b, fdt_next_subnode(b, node))

subnodes(b, parent) == subnodes_from(b, fdt_first_subnode(b, parent))

(***************************************************************************)
(* Strings and names.                                                      *)
(***************************************************************************)
(* Mutant: only as many characters as the given name has are compared.     *)
string_eq_prefix(b, stroffset, s) == IsPrefix(s, fdt_get_string(b, stroffset).str)
fdt_string_eq_(b, stroffset, s) ==
  LET equals(p) == p.len = Len(s) /\ p.str = s
  IN equals(fdt_get_string(b, stroffset))

(* The node has this name, or this name and a unit address that s omits.   *)
fdt_nodename_eq_(b, offset, s) ==
  LET named(p) ==
        /\ p.len >= Len(s)
        /\ IsPrefix(s, p.str)
        /\ \/ p.len = Len(s)
           \/ ~Contains(s, AtSign) /\ p.str[Len(s) + 1] = AtSign
  IN named(fdt_get_name(b, offset))

(***************************************************************************)
(* Properties.                                                             *)
(***************************************************************************)
RECURSIVE nextprop_(_, _)
nextprop_(b, offset) ==
  LET seen(t) ==
        CASE t.tag = FDT_END ->
               IF t.next >= 0 THEN -FDT_ERR_BADSTRUCTURE ELSE t.next
          [] t.tag = FDT_PROP -> offset
          [] t.tag = FDT_NOP -> nextprop_(b, t.next)
          [] OTHER -> -FDT_ERR_NOTFOUND
  IN seen(fdt_next_tag(b, offset))

fdt_first_property_offset(b, nodeoffset) ==
  unless_error(fdt_check_node_offset_(b, nodeoffset),
               LAMBDA offset : nextprop_(b, offset))

fdt_next_property_offset(b, propoffset) ==
  unless_error(fdt_check_prop_offset_(b, propoffset),
               LAMBDA offset : nextprop_(b, offset))

(* The offsets a loop over a node's properties sees, and the error that    *)
(* ends it.                                                                *)
RECURSIVE properties_from(_, _)
properties_from(b, offset) ==
  IF offset < 0 THEN <<offset>>
  ELSE <<offset>> \o properties_from(b, fdt_next_property_offset(b, offset))

property_scan(b, node) ==
  properties_from(b, fdt_first_property_offset(b, node))

(* The first element of a scan that passes a test, or the error at its end.*)
FirstIn(scan, Test(_)) ==
  LET i == SelectInSeq(scan, LAMBDA o : o >= 0 /\ Test(o))
  IN IF i = 0 THEN Last(scan) ELSE scan[i]

PropValue(b, p) == Bytes(b, p.data, p.len)

fdt_get_property(b, node, name) ==
  Property(b, FirstIn(property_scan(b, node),
                      LAMBDA o : fdt_string_eq_(b, prop_nameoff(b, o), name)))

fdt_getprop(b, node, name) == fdt_get_property(b, node, name)

(***************************************************************************)
(* Phandles, and searches over all nodes.                                  *)
(***************************************************************************)
phandle_name       == <<112, 104>>             (* "phandle"                *)
linux_phandle_name == <<108, 44, 112, 104>>    (* "linux,phandle"          *)

(* Mutant: the older name is not tried.                                    *)
get_phandle_new(b, node) ==
  LET value(php) == IF php.len = Cell THEN LoadCell(b, php.data) ELSE 0
  IN value(fdt_getprop(b, node, phandle_name))

fdt_get_phandle(b, node) ==
  LET value(php, otherwise) ==
        IF php.len = Cell THEN LoadCell(b, php.data) ELSE otherwise
  IN value(fdt_getprop(b, node, phandle_name),
           value(fdt_getprop(b, node, linux_phandle_name), 0))

RECURSIVE nodes_from(_, _)
nodes_from(b, offset) ==
  IF offset < 0 THEN <<offset>>
  ELSE <<offset>> \o nodes_from(b, fdt_next_node(b, offset))

node_scan(b, startoffset) == nodes_from(b, fdt_next_node(b, startoffset))

(* The largest phandle of the nodes of a scan, or its error.               *)
max_phandle_in(b, scan) ==
  LET larger(x, y) == IF x > y THEN x ELSE y
  IN  IF Last(scan) # -FDT_ERR_NOTFOUND THEN Last(scan)
      ELSE FoldLeft(LAMBDA m, o : larger(m, fdt_get_phandle(b, o)), 0, Front(scan))

fdt_find_max_phandle(b) ==
  max_phandle_in(b, node_scan(b, -1))

fdt_generate_phandle(b) ==
  unless_error(fdt_find_max_phandle(b),
               LAMBDA max : IF max = FDT_MAX_PHANDLE THEN -FDT_ERR_NOPHANDLES
                            ELSE max + 1)

fdt_node_offset_by_phandle(b, phandle) ==
  IF phandle \in {0, WordSize - 1} THEN -FDT_ERR_BADPHANDLE
  ELSE IF fdt_ro_probe_(b) < 0 THEN fdt_ro_probe_(b)
  ELSE FirstIn(node_scan(b, -1), LAMBDA o : fdt_get_phandle(b, o) = phandle)

has_value(b, p, value) == p.len = Len(value) /\ PropValue(b, p) = value

fdt_node_offset_by_prop_value(b, startoffset, name, value) ==
  IF fdt_ro_probe_(b) < 0 THEN fdt_ro_probe_(b)
  ELSE FirstIn(node_scan(b, startoffset),
               LAMBDA o : has_value(b, fdt_getprop(b, o, name), value))

(***************************************************************************)
(* Paths.                                                                  *)
(***************************************************************************)
RECURSIVE subnode_from(_, _, _, _)
subnode_from(b, offset, depth, name) ==
  IF depth < 0 THEN -FDT_ERR_NOTFOUND
  ELSE IF offset < 0 THEN offset
  ELSE IF depth = 1 /\ fdt_nodename_eq_(b, offset, name) THEN offset
  ELSE LET past(n) == subnode_from(b, n.offset, n.depth, name)
       IN past(fdt_next_node_depth(b, offset, depth))

fdt_subnode_offset(b, parentoffset, name) ==
  IF fdt_ro_probe_(b) < 0 THEN fdt_ro_probe_(b)
  ELSE subnode_from(b, parentoffset, 0, name)

(* The components of a path after one another; empty ones are skipped.     *)
path_end(path, p) ==
  LET i == SelectInSubSeq(path, p, Len(path), LAMBDA c : c = Slash)
  IN IF i = 0 THEN Len(path) + 1 ELSE i

RECURSIVE path_from(_, _, _, _)
path_from(b, path, p, offset) ==
  IF p > Len(path) THEN offset
  ELSE IF path[p] = Slash THEN path_from(b, path, p + 1, offset)
  ELSE LET q == path_end(path, p)
       IN unless_error(fdt_subnode_offset(b, offset, SubSeq(path, p, q - 1)),
                       LAMBDA o : path_from(b, path, q, o))

aliases_path == <<Slash, 97, 108>>    (* "/aliases"                        *)

(* The value of an alias when it is a string that starts like a path.      *)
fdt_get_alias(b, name) ==
  LET read(alias) ==
        IF /\ alias.len > 0
           /\ Byte(b, alias.data + alias.len - 1) = 0
           /\ Byte(b, alias.data) = Slash
        THEN [len |-> alias.len, str |-> CString(b, alias.data)]
        ELSE Failure(-FDT_ERR_BADPATH)
  IN read(fdt_getprop(b, path_from(b, aliases_path, 1, 0), name))

(* The node that the path of an alias leads to.                            *)
alias_node(b, alias) ==
  IF alias.len < 0 THEN -FDT_ERR_BADPATH ELSE path_from(b, alias.str, 1, 0)

fdt_path_offset(b, path) ==
  LET start == IF path[1] = Slash THEN 1 ELSE path_end(path, 1)
  IN  IF fdt_ro_probe_(b) < 0 THEN fdt_ro_probe_(b)
      ELSE IF path = <<>> THEN -FDT_ERR_BADPATH
      ELSE path_from(b, path, start,
                     IF path[1] = Slash THEN 0
                     ELSE alias_node(b, fdt_get_alias(b, SubSeq(path, 1, start - 1))))

fdt_get_symbol(b, symbols_path, name) ==
  fdt_getprop(b, fdt_path_offset(b, symbols_path), name)

(* buf holds a path that ends in '/': without its last component.          *)
RECURSIVE popped(_)
popped(buf) == IF buf[Len(buf) - 1] = Slash THEN Front(buf)
               ELSE popped(Front(buf))

RECURSIVE pop_to(_, _, _)
pop_to(buf, pdepth, depth) ==
  IF pdepth > depth THEN pop_to(popped(buf), pdepth - 1, depth)
  ELSE [buf |-> buf, pdepth |-> pdepth]

(* Mutant: the slash after a component is not counted.                     *)
fits_without_slash(buf, name, buflen) == Len(buf) + Len(name) <= buflen
fits(buf, name, buflen) == Len(buf) + Len(name) + 1 <= buflen

(* The error for a walk that ended before it reached its node.             *)
lost(err) == CASE err = -FDT_ERR_NOTFOUND  -> -FDT_ERR_BADOFFSET
               [] err = -FDT_ERR_BADOFFSET -> -FDT_ERR_BADSTRUCTURE
               [] OTHER -> err

(* The loop of fdt_get_path: what is in buf, how deep that is, and the     *)
(* node the walk has reached.                                              *)
RECURSIVE get_path_from(_, _, _, _, _, _, _)
get_path_from(b, node, buflen, offset, depth, buf0, pdepth0) ==
  LET extended(up, name) ==
        IF up.pdepth >= depth /\ fits(up.buf, name, buflen)
        THEN [buf |-> up.buf \o name \o <<Slash>>, pdepth |-> up.pdepth + 1]
        ELSE up
      reached(p, n) ==
        IF offset # node
        THEN get_path_from(b, node, buflen, n.offset, n.depth, p.buf, p.pdepth)
        ELSE IF p.pdepth < depth + 1 THEN Failure(-FDT_ERR_NOSPACE)
        ELSE [len |-> 0,
              str |-> IF Len(p.buf) > 1 THEN Front(p.buf) ELSE p.buf]
  IN  IF offset < 0 THEN Failure(lost(offset))
      ELSE IF offset > node THEN Failure(-FDT_ERR_BADOFFSET)
      ELSE reached(extended(pop_to(buf0, pdepth0, depth),
                            fdt_get_name(b, offset).str),
                   fdt_next_node_depth(b, offset, depth))

fdt_get_path(b, node, buflen) ==
  IF fdt_ro_probe_(b) < 0 THEN Failure(fdt_ro_probe_(b))
  ELSE IF buflen < 2 THEN Failure(-FDT_ERR_NOSPACE)
  ELSE get_path_from(b, node, buflen, 0, 0, <<>>, 0)

(* The loop of fdt_supernode_atdepth_offset.                               *)
RECURSIVE supernode_from(_, _, _, _, _, _)
supernode_from(b, node, want, offset, depth, super0) ==
  LET super     == IF depth = want THEN offset ELSE super0
      past(n)   == supernode_from(b, node, want, n.offset, n.depth, super)
      answer(o) == [offset |-> o, depth |-> depth]
  IN  IF offset < 0 THEN answer(lost(offset))
      ELSE IF offset > node THEN answer(-FDT_ERR_BADOFFSET)
      ELSE IF offset = node
      THEN answer(IF want > depth THEN -FDT_ERR_NOTFOUND ELSE super)
      ELSE past(fdt_next_node_depth(b, offset, depth))

supernode(b, node, want) ==
  IF fdt_ro_probe_(b) < 0 THEN [offset |-> fdt_ro_probe_(b), depth |-> 0]
  ELSE IF want < 0 THEN [offset |-> -FDT_ERR_NOTFOUND, depth |-> 0]
  ELSE supernode_from(b, node, want, 0, 0, -FDT_ERR_INTERNAL)

fdt_supernode_atdepth_offset(b, node, want) == supernode(b, node, want).offset

fdt_node_depth(b, node) ==
  LET depth(s) == CASE s.offset < 0 -> s.offset
                    [] s.offset > 0 -> -FDT_ERR_INTERNAL
                    [] OTHER -> s.depth
  IN depth(supernode(b, node, 0))

(* Mutant: the node itself.                                                *)
parent_offset_self(b, node) ==
  fdt_supernode_atdepth_offset(b, node, fdt_node_depth(b, node))

fdt_parent_offset(b, node) ==
  unless_error(fdt_node_depth(b, node),
               LAMBDA depth : fdt_supernode_atdepth_offset(b, node, depth - 1))

(***************************************************************************)
(* Lists of strings, one after the other in a value.                       *)
(***************************************************************************)

(* The code compares Len(str) + 1 bytes where Len(str) may be left: the    *)
(* last of them can lie past the value.                                    *)
RECURSIVE fdt_stringlist_contains(_, _, _, _)
fdt_stringlist_contains(b, at, listlen, str) ==
  LET nuls == {i \in 0 .. listlen - 1 : Byte(b, at + i) = 0}
      nul  == CHOOSE i \in nuls : \A j \in nuls : i <= j
  IN  /\ listlen >= Len(str)
      /\ \/ \A i \in 1 .. Len(str) + 1 :
              Byte(b, at + i - 1) = IF i <= Len(str) THEN str[i] ELSE 0
         \/ /\ nuls # {}
            /\ fdt_stringlist_contains(b, at + nul + 1, listlen - nul - 1, str)

(* The strings of a list, in order; the last element is the error          *)
(* -FDT_ERR_BADVALUE when the list does not end in a NUL.                  *)
RECURSIVE strings_of(_, _)
strings_of(b, p) ==
  LET nuls == {i \in 0 .. p.len - 1 : Byte(b, p.data + i) = 0}
      n    == CHOOSE i \in nuls : \A j \in nuls : i <= j
  IN  IF p.len <= 0 THEN <<>>
      ELSE IF nuls = {} THEN <<Failure(-FDT_ERR_BADVALUE)>>
      ELSE <<[len |-> n, str |-> Bytes(b, p.data, n)]>>
             \o strings_of(b, [len |-> p.len - n - 1, data |-> p.data + n + 1])

(* Mutant: the tail without a NUL is passed over in silence.               *)
Malformed_never(list) == FALSE
Malformed(list) == list # <<>> /\ Last(list).len < 0

fdt_stringlist_count(b, node, name) ==
  LET count(list) == IF Malformed(list) THEN -FDT_ERR_BADVALUE ELSE Len(list)
      of(p) == IF p.len < 0 THEN p.len ELSE count(strings_of(b, p))
  IN of(fdt_getprop(b, node, name))

(* The index of a string, from 0; a list is searched up to its first       *)
(* malformed string.                                                       *)
fdt_stringlist_search(b, node, name, string) ==
  LET index(list) ==
        IF \E i \in DOMAIN list : list[i] = Text(string)
        THEN SelectInSeq(list, LAMBDA s : s = Text(string)) - 1
        ELSE IF Malformed(list) THEN -FDT_ERR_BADVALUE ELSE -FDT_ERR_NOTFOUND
      of(p) == IF p.len < 0 THEN p.len ELSE index(strings_of(b, p))
  IN of(fdt_getprop(b, node, name))

fdt_stringlist_get(b, node, name, idx) ==
  LET at(list) == IF idx < Len(list) THEN list[idx + 1]
                  ELSE Failure(-(IF Malformed(list) THEN FDT_ERR_BADVALUE
                                 ELSE FDT_ERR_NOTFOUND))
      of(p) == IF p.len < 0 THEN Failure(p.len) ELSE at(strings_of(b, p))
  IN of(fdt_getprop(b, node, name))

compatible_name == <<99, 111>>    (* "compatible"                          *)

(* 0 when the node is compatible, 1 when it is not, or an error.           *)
fdt_node_check_compatible(b, node, compatible) ==
  LET check(p) ==
        IF p.len < 0 THEN p.len
        ELSE IF fdt_stringlist_contains(b, p.data, p.len, compatible) THEN 0
        ELSE 1
  IN check(fdt_getprop(b, node, compatible_name))

(* A node at which the search stops, or the error that stopped it.         *)
compatible_or_error(b, o, compatible) ==
  unless_error(o, LAMBDA n :
    unless_error(fdt_node_check_compatible(b, n, compatible), LAMBDA same : n))

fdt_node_offset_by_compatible(b, startoffset, compatible) ==
  IF fdt_ro_probe_(b) < 0 THEN fdt_ro_probe_(b)
  ELSE compatible_or_error(b,
         FirstIn(node_scan(b, startoffset), LAMBDA o :
                   fdt_node_check_compatible(b, o, compatible)
                     \notin {1, -FDT_ERR_NOTFOUND}), compatible)

(***************************************************************************)
(* Cells of addresses and sizes (fdt_addresses.c).                         *)
(***************************************************************************)
address_cells_name == <<35, 97>>    (* "#address-cells"                    *)
size_cells_name    == <<35, 115>>   (* "#size-cells"                       *)

fdt_cells(b, node, name) ==
  LET cells(c) ==
        IF c.len < 0 THEN c.len
        ELSE IF c.len # Cell \/ LoadCell(b, c.data) > FDT_MAX_NCELLS
             THEN -FDT_ERR_BADNCELLS
        ELSE LoadCell(b, c.data)
  IN cells(fdt_getprop(b, node, name))

fdt_address_cells(b, node) ==
  LET cells(val) == CASE val = 0 -> -FDT_ERR_BADNCELLS
                      [] val = -FDT_ERR_NOTFOUND -> 2
                      [] OTHER -> val
  IN cells(fdt_cells(b, node, address_cells_name))

fdt_size_cells(b, node) ==
  LET cells(val) == IF val = -FDT_ERR_NOTFOUND THEN 1 ELSE val
  IN cells(fdt_cells(b, node, size_cells_name))

=============================================================================
