----------------------------- MODULE FdtEditor -----------------------------
(***************************************************************************)
(* A program that takes a blob, opens it for editing in a buffer, perhaps  *)
(* over the blob itself, and edits it with fdt_rw.c and fdt_wip.c, in      *)
(* little room: calls fail, or succeed and move what follows.              *)
(*                                                                         *)
(* The program gives names to properties and nodes by their full length,   *)
(* neither renames nor deletes the root, and reserves no empty range (an   *)
(* entry of size 0 ends the list).                                         *)
(***************************************************************************)
EXTENDS FdtRw, DeviceTreeBlob, TreeEdits

CONSTANTS Given,       (* the blobs the program may be given                 *)
          Buffers,     (* buffers <<shift, size>> to open them in            *)
          PropNames,
          NodeNames,
          Values,
          Entries,     (* reservations, pairs of pairs of cells              *)
          MaxEdits     (* bound: successful edits                            *)

VARIABLES b,        (* the blob and the memory around it                     *)
          edits     (* -1 before the blob is opened, then successful edits   *)

Reserved(a) ==
  [n \in 1 .. fdt_num_mem_rsv(a) |->
     LET entry == fdt_get_mem_rsv(a, n - 1) IN <<entry.address, entry.size>>]

Init == b \in Given /\ edits = -1

Open_ ==
  /\ edits = -1
  /\ \E buf \in Buffers : \E r \in {fdt_open_into(b, buf[1], buf[2])} :
       /\ b' = r.b
       /\ edits' = IF r.ret = 0 THEN 0 ELSE edits

(* Positions that the program passes: the nodes and, by mistake, the last  *)
(* token; the root is left in place.                                       *)
Positions(tree) == Nodes(tree) \union {Len(tree)}

CallsOn(tree) ==
  LET call(op, at, name, val) == [op |-> op, at |-> at, name |-> name, val |-> val]
  IN  {call(op, n, name, val) : op \in {"setprop", "appendprop",
                                        "setprop_inplace", "setprop_partial"},
                                n \in Positions(tree), name \in PropNames, val \in Values}
      \union {call(op, n, name, <<>>) : op \in {"delprop", "nop_property"},
                                        n \in Positions(tree), name \in PropNames}
      \union {call("add_subnode", n, name, <<>>) : n \in Positions(tree),
                                                   name \in NodeNames}
      \union {call("set_name", n, name, <<>>) : n \in Positions(tree) \ {Root},
                                                name \in NodeNames}
      \union {call(op, n, <<>>, <<>>) : op \in {"del_node", "nop_node"},
                                        n \in Positions(tree) \ {Root}}
      \union {call("add_mem_rsv", 0, <<>>, e) : e \in Entries}
      \union {call("del_mem_rsv", n, <<>>, <<>>) : n \in 1 .. 2}
      \union {call("pack", 0, <<>>, <<>>)}

Calls == CallsOn(Tree(b))

(* Where the call's token is in a blob that holds a tree.                  *)
Place(a, c) == IF c.at \in DOMAIN Tokens(a) THEN OffsetOf(a, c.at) ELSE 0

MayEdit == edits \in 0 .. MaxEdits - 1

Do(op, Function(_, _)) ==
  /\ MayEdit
  /\ \E c \in {d \in Calls : d.op = op} : \E r \in {Function(Place(b, c), c)} :
       /\ b' = r.b
       /\ edits' = IF r.ret < 0 THEN edits ELSE edits + 1

SetProp == Do("setprop", LAMBDA o, c : fdt_setprop(b, o, c.name, c.val))
AppendProp == Do("appendprop", LAMBDA o, c : fdt_appendprop(b, o, c.name, c.val))
SetPropInplace ==
  Do("setprop_inplace", LAMBDA o, c : fdt_setprop_inplace(b, o, c.name, c.val))
SetPropPartial ==
  Do("setprop_partial", LAMBDA o, c :
     fdt_setprop_inplace_namelen_partial(b, o, c.name, 1, c.val))
DelProp     == Do("delprop", LAMBDA o, c : fdt_delprop(b, o, c.name))
NopProperty == Do("nop_property", LAMBDA o, c : fdt_nop_property(b, o, c.name))
AddSubnode  == Do("add_subnode", LAMBDA o, c : fdt_add_subnode(b, o, c.name))
SetName     == Do("set_name", LAMBDA o, c : fdt_set_name(b, o, c.name))
DelNode     == Do("del_node", LAMBDA o, c : fdt_del_node(b, o))
NopNode     == Do("nop_node", LAMBDA o, c : fdt_nop_node(b, o))
AddMemRsv   == Do("add_mem_rsv", LAMBDA o, c : fdt_add_mem_rsv(b, c.val[1], c.val[2]))
DelMemRsv   == Do("del_mem_rsv", LAMBDA o, c : fdt_del_mem_rsv(b, c.at - 1))
Pack        == Do("pack", LAMBDA o, c : fdt_pack(b))

Next == \/ Open_ \/ SetProp \/ AppendProp \/ SetPropInplace
        \/ SetPropPartial \/ DelProp \/ NopProperty \/ AddSubnode \/ SetName \/ DelNode \/ NopNode
        \/ AddMemRsv \/ DelMemRsv \/ Pack

(***************************************************************************)
(* Properties.                                                             *)
(***************************************************************************)
ErrorOf(err) == CASE err = "BADOFFSET" -> -FDT_ERR_BADOFFSET
                  [] err = "NOTFOUND"  -> -FDT_ERR_NOTFOUND
                  [] err = "EXISTS"    -> -FDT_ERR_EXISTS
                  [] err = "NOSPACE"   -> -FDT_ERR_NOSPACE

SameContents(x, y) == Tree(x) = Tree(y) /\ Reserved(x) = Reserved(y)

(* What a call c of the blob a would do.                                   *)
PerformAt(a, o, c) ==
  CASE c.op = "setprop"         -> fdt_setprop(a, o, c.name, c.val)
    [] c.op = "appendprop"      -> fdt_appendprop(a, o, c.name, c.val)
    [] c.op = "setprop_inplace" -> fdt_setprop_inplace(a, o, c.name, c.val)
    [] c.op = "setprop_partial" ->
         fdt_setprop_inplace_namelen_partial(a, o, c.name, 1, c.val)
    [] c.op = "delprop"         -> fdt_delprop(a, o, c.name)
    [] c.op = "nop_property"    -> fdt_nop_property(a, o, c.name)
    [] c.op = "add_subnode"     -> fdt_add_subnode(a, o, c.name)
    [] c.op = "set_name"        -> fdt_set_name(a, o, c.name)
    [] c.op = "del_node"        -> fdt_del_node(a, o)
    [] c.op = "nop_node"        -> fdt_nop_node(a, o)
    [] c.op = "add_mem_rsv"     -> fdt_add_mem_rsv(a, c.val[1], c.val[2])
    [] c.op = "del_mem_rsv"     -> fdt_del_mem_rsv(a, c.at - 1)
    [] c.op = "pack"            -> fdt_pack(a)
Perform(a, c) == PerformAt(a, Place(a, c), c)

(* An opened blob stays one that fdt_check_full accepts, with its blocks   *)
(* in order and inside it.                                                 *)
TypeOK ==
  edits >= 0 => /\ fdt_rw_probe_(b) = 0
                /\ IsTree(Tree(b))
                /\ fdt_check_full(b, b.totalsize) = 0

(* Whatever the layout and the version of the blob and wherever the buffer *)
(* lies, over the blob or not, opening it keeps its tree and reservations. *)
OpeningKeepsTheTree ==
  edits = -1 =>
    \A buf \in Buffers : \A r \in {fdt_open_into(b, buf[1], buf[2])} :
      /\ r.ret \in {0, -FDT_ERR_NOSPACE}
      /\ r.ret = 0 => SameContents(r.b, b) /\ r.b.totalsize = buf[2]

(* The effect of the call c on the blob is the outcome that is documented, *)
(* or there is no room for it.                                             *)
IsOutcome(out, r) ==
  IF out.err = "none"
  THEN \/ r.ret >= 0 /\ Tree(r.b) = out.tree /\ Reserved(r.b) = out.reserved
       \/ r.ret = -FDT_ERR_NOSPACE
  ELSE r.ret = ErrorOf(out.err)

Exact(a, c, r) == IsOutcome(Outcome(Tree(a), Reserved(a), c), r)

(* Every call of the program edits the tree exactly as documented: bytes   *)
(* that move take everything else along.                                   *)
EditsAreExact == MayEdit => \A c \in Calls : Exact(b, c, Perform(b, c))

(* A call that fails leaves tree and reservations, and takes no room: the  *)
(* name it may have added is taken back.                                   *)
FailuresChangeNothing ==
  MayEdit =>
    \A c \in Calls : \A r \in {Perform(b, c)} :
      r.ret < 0 => SameContents(r.b, b) /\ fdt_data_size_(r.b) = fdt_data_size_(b)

InPlaceOps == {"nop_property", "nop_node", "setprop_inplace", "setprop_partial"}

(* What does not fit does after the blob has been opened into a larger     *)
(* buffer, as the documentation of FDT_ERR_NOSPACE advises.                *)
Ample == 2 * b.totalsize
RetrySucceeds ==
  MayEdit =>
    \A c \in {d \in Calls : d.op \notin InPlaceOps} :
      Perform(b, c).ret = -FDT_ERR_NOSPACE =>
        \E larger \in {fdt_open_into(b, 0, Ample)} :
          /\ larger.ret = 0
          /\ \E again \in {Perform(larger.b, c)} : again.ret >= 0 /\ Exact(b, c, again)

(* Edits in place move nothing: every token that stays has its offset.     *)
Removed(tree, c) ==
  CASE c.op = "nop_property" -> {PropertyNamed(tree, c.at, c.name)}
    [] c.op = "nop_node"     -> c.at .. EndOf(tree, c.at)
    [] OTHER                 -> {}

InPlaceMovesNothing ==
  MayEdit =>
    \A c \in {d \in Calls : d.op \in InPlaceOps} : \A r \in {Perform(b, c)} :
      LET gone == IF r.ret < 0 THEN {} ELSE Removed(Tree(b), c)
      IN  {t.at : t \in ToSet(Tokens(r.b))}
            = {Tokens(b)[i].at : i \in DOMAIN Tokens(b) \ gone}

(* After fdt_pack the blob is the blocks one after another and no more.    *)
PackedIsTight ==
  MayEdit =>
    \E p \in {fdt_pack(b)} :
      /\ p.ret = 0 /\ SameContents(p.b, b)
      /\ p.b.totalsize = blocks_start + EntrySize * (1 + Len(Reserved(b)))
                           + b.size_dt_struct + b.size_dt_strings

(* fdt_create_empty_tree makes a root without properties, or says that the *)
(* buffer is too small.                                                    *)
EmptyTreeIsRoot ==
  \A size \in {0, 24, 39, 40, 50} : \A r \in {fdt_create_empty_tree(b, size)} :
    IF r.ret = 0 THEN /\ Tree(r.b) = Node(<<>>, <<>>, <<>>)
                      /\ r.b.totalsize = size /\ fdt_rw_probe_(r.b) = 0
    ELSE r.ret = -FDT_ERR_NOSPACE /\ size < 40

Cellular == {<<>>} \union {<<n>> : n \in 0 .. 3}
Ranges   == {0, 1} \X {0, WordSize - 1}

WithCells(a, ac, sc) ==
  LET set(r, name, n) == IF n = <<>> THEN r
                         ELSE fdt_setprop(r.b, 0, name, CellBytes(n[1]))
  IN set(set(fdt_open_into(a, 0, Ample), address_cells_name, ac),
         size_cells_name, sc).b

(* n cells in front of the last k cells of a property's value, as a pair.  *)
PairFrom(a, p, n, k) ==
  LET cell(i) == LoadCell(a, p.data + p.len - (i + 1) * Cell)
  IN IF n = 1 THEN <<0, cell(k)>> ELSE <<cell(k + 1), cell(k)>>

(* What appending a range makes of the blob a, with ac and sc cells.       *)
RangeRead(a, ac, sc, node, name, addr, size) ==
  \A r \in {fdt_appendprop_addrrange(a, 0, node, name, addr, size)} :
    LET representable == /\ sc = 1 => size[1] = 0
                         /\ ac = 1 => number(addr) + number(size) <= WordSize
                                      /\ addr[1] = 0
    IN  IF ac \notin {1, 2} \/ sc \notin {1, 2} THEN r.ret < 0
        ELSE IF ~representable THEN r.ret = -FDT_ERR_BADVALUE
        ELSE \A p \in {fdt_getprop(r.b, node, name)} :
               /\ r.ret = 0
               /\ PairFrom(r.b, p, sc, 0) = size
               /\ PairFrom(r.b, p, ac, sc) = addr

(* A range appended by fdt_appendprop_addrrange can be read back with the  *)
(* parent's numbers of cells, and exactly the ranges that do not fit them  *)
(* are refused.                                                            *)
RangesRoundTrip ==
  edits = 0 /\ fdt_first_subnode(b, 0) > 0 =>
    \A acs \in Cellular, scs \in Cellular : \A a \in {WithCells(b, acs, scs)} :
      \A addr \in Ranges, size \in Ranges, name \in PropNames :
        RangeRead(a, IF acs = <<>> THEN 2 ELSE acs[1], IF scs = <<>> THEN 1 ELSE scs[1],
                  fdt_first_subnode(a, 0), name, addr, size)
=============================================================================
