--------------------------- MODULE OverlayMeaning ---------------------------
(***************************************************************************)
(* What applying an overlay should make of a device tree, independently of *)
(* how fdt_overlay.c goes about it.                                        *)
(*                                                                         *)
(* An overlay is a record of its tree and of what a device tree compiler   *)
(* knows about it, nodes and places being positions in that tree:          *)
(*   locals    references <<node, property, place>> to nodes of the tree,  *)
(*   fixups    references <<symbol, node, property, place>> to the base,   *)
(*   exports   symbols <<name, node>> that it defines,                     *)
(*   spoilt    strings among the fixups that make no sense.                *)
(* Places count bytes from 0.  The meaning of a tree is what each path     *)
(* holds: neither the order of siblings nor that of properties matters.    *)
(***************************************************************************)
EXTENDS FdtOverlay, DeviceTreeBlob

(***************************************************************************)
(* The overlay as a blob.                                                  *)
(***************************************************************************)
Decimal(n) == <<48 + n>>   (* below 10                                     *)

FixupStrings(o, symbol) ==
  LET refs == SetToSeq({r \in o.fixups : r[1] = symbol})
  IN FlattenSeq([i \in DOMAIN refs |->
                   PathOf(o.tree, refs[i][2]) \o <<Colon>> \o refs[i][3]
                     \o <<Colon>> \o Decimal(refs[i][4]) \o <<0>>])
       \o (IF refs = <<>> THEN <<>> ELSE FlattenSeq(o.spoilt))

FixupsNode(o) ==
  LET symbols == SetToSeq({r[1] : r \in o.fixups})
  IN Node(fixups_name,
          [i \in DOMAIN symbols |-> Prop(symbols[i], FixupStrings(o, symbols[i]))],
          <<>>)

RECURSIVE LocalsNode(_, _, _)
LocalsNode(o, n, name) ==
  LET props == SetToSeq({r[2] : r \in {l \in o.locals : l[1] = n}})
      places(p) == SetToSortSeq({r[3] : r \in {l \in o.locals : l[1] = n /\ l[2] = p}}, <)
      kids == Children(o.tree, n)
  IN Node(name,
          [i \in DOMAIN props |->
             Prop(props[i], FlattenSeq([k \in DOMAIN places(props[i]) |->
                                          CellBytes(places(props[i])[k])]))],
          [i \in DOMAIN kids |-> LocalsNode(o, kids[i], o.tree[kids[i]].name)])

ExportsNode(o) ==
  LET all == SetToSeq(o.exports)
  IN Node(symbols_name,
          [i \in DOMAIN all |-> Prop(all[i][1], Append(PathOf(o.tree, all[i][2]), 0))],
          <<>>)

Compiled(o) ==
  Front(o.tree) \o (IF o.exports = {} THEN <<>> ELSE ExportsNode(o))
    \o (IF o.fixups = {} THEN <<>> ELSE FixupsNode(o))
    \o (IF o.locals = {} THEN <<>> ELSE LocalsNode(o, Root, local_fixups_name))
    \o <<End>>

(***************************************************************************)
(* Trees by what their paths hold.                                         *)
(***************************************************************************)
NodeAt(t, path) == CHOOSE n \in Nodes(t) : Names(t, n) = path
Paths(t) == {Names(t, n) : n \in Nodes(t)}
PropNamesOf(t, n) == {t[i].name : i \in ToSet(Properties(t, n))}
ValueOf(t, n, name) ==
  IF PropertyNamed(t, n, name) = 0 THEN <<>> ELSE t[PropertyNamed(t, n, name)].val

Meaning(t) ==
  [path \in Paths(t) |->
     LET n == NodeAt(t, path)
     IN [name \in PropNamesOf(t, n) |-> ValueOf(t, n, name)]]

CellAt(value, place) ==
  FoldLeft(LAMBDA v, i : 256 * v + value[place + i], 0, [i \in 1 .. Cell |-> i])

PhandleNames == {phandle_name, linux_phandle_name}
Phandle(t, n) ==
  LET held == {ValueOf(t, n, name) : name \in PhandleNames} \ {<<>>}
  IN IF held = {} THEN 0 ELSE CellAt(CHOOSE v \in held : TRUE, 0)

LargestPhandle(t) == Latest({0} \union {Phandle(t, n) : n \in Nodes(t)})

(* The node that a symbol of the base names, 0 if there is none.           *)
NodeNamed(t, value) ==
  LET there == {n \in Nodes(t) : value \in {Append(PathOf(t, n), 0),
                                           PathOf(t, n) \o <<Slash, 0>>}}
  IN IF there = {} THEN 0 ELSE First(there)

SymbolIn(t, table, symbol) ==
  NodeNamed(t, IF table = 0 THEN <<>> ELSE ValueOf(t, table, symbol))

SymbolTarget(t, symbol) == SymbolIn(t, ChildNamed(t, Root, symbols_name), symbol)

(***************************************************************************)
(* The fragments of an overlay o and where they belong in a base t.        *)
(***************************************************************************)
Contents(o, f) == ChildNamed(o.tree, f, overlay_name)
Fragments(o) ==
  {f \in ToSet(Children(o.tree, Root)) : Contents(o, f) # 0}

TargetSymbols(o, f) == {r[1] : r \in {x \in o.fixups : x[2] = f /\ x[3] = target_name}}
FirstOf(nodes) == IF nodes = {} THEN 0 ELSE First(nodes)
PathIs(t, n, path) == Append(PathOf(t, n), 0) = path
PhandleIs(t, n, phandle) == phandle # 0 /\ Phandle(t, n) = phandle

TargetOf(t, o, f) ==
  FirstOf(
    CASE TargetSymbols(o, f) # {} ->
           {SymbolTarget(t, s) : s \in TargetSymbols(o, f)} \ {0}
      [] TargetSymbols(o, f) = {} /\ ValueOf(o.tree, f, target_name) # <<>> ->
           {n \in Nodes(t) :
              PhandleIs(t, n, CellAt(ValueOf(o.tree, f, target_name), 0))}
      [] OTHER ->
           {n \in Nodes(t) : PathIs(t, n, ValueOf(o.tree, f, target_path_name))})

FragmentOf(o, n) ==
  CHOOSE f \in Fragments(o) : n = Contents(o, f) \/ n \in Inside(o.tree, Contents(o, f))
Merged(o) ==
  UNION {{n \in Nodes(o.tree) : n = Contents(o, f) \/ n \in Inside(o.tree, Contents(o, f))} :
           f \in Fragments(o)}

(* Where a node of a fragment is put: its path below the fragment's        *)
(* contents, two levels down, under the target.                            *)
Place(t, o, n) ==
  Names(t, TargetOf(t, o, FragmentOf(o, n)))
    \o SubSeq(Names(o.tree, n), 3, Depth(o.tree, n))

(***************************************************************************)
(* The meaning of the result.                                              *)
(***************************************************************************)
PhandleAt(t, path) == IF path \in Paths(t) THEN Phandle(t, NodeAt(t, path)) ELSE 0

NewPhandle(t, o, n) ==
  LET kept(old) == IF old # 0 THEN old ELSE Phandle(o.tree, n) + LargestPhandle(t)
  IN kept(IF n \in Merged(o) THEN PhandleAt(t, Place(t, o, n)) ELSE 0)

Holder(o, phandle) == CHOOSE n \in Nodes(o.tree) : Phandle(o.tree, n) = phandle

(* A value with a cell put at a place.                                     *)
Put(v, place, cell) ==
  [i \in DOMAIN v |->
     IF i - place \in 1 .. Cell THEN CellBytes(cell)[i - place] ELSE v[i]]

(* A value of the overlay with its references to the overlay, and those    *)
(* to the base.                                                            *)
WithLocals(t, o, raw, places) ==
  FoldLeft(LAMBDA v, k : Put(v, k, NewPhandle(t, o, Holder(o, CellAt(raw, k)))),
           raw, SetToSeq(places))
WithSymbols(t, value, fixups) ==
  FoldLeft(LAMBDA v, x : Put(v, x[4], Phandle(t, SymbolTarget(t, x[1]))),
           value, SetToSeq(fixups))

(* The value of a property of the overlay once its references are known.   *)
Resolved(t, o, n, name) ==
  IF name \in PhandleNames THEN CellBytes(NewPhandle(t, o, n))
  ELSE WithSymbols(t,
         WithLocals(t, o, ValueOf(o.tree, n, name),
                    {r[3] : r \in {l \in o.locals : l[1] = n /\ l[2] = name}}),
         {x \in o.fixups : x[2] = n /\ x[3] = name})

(* What a path holds when the overlay's nodes `put' are merged there.      *)
Merge(t, o, path, put, base) ==
  [name \in base \union UNION {PropNamesOf(o.tree, n) : n \in put} |->
     LET with == {n \in put : name \in PropNamesOf(o.tree, n)}
     IN  IF with = {} THEN ValueOf(t, NodeAt(t, path), name)
         ELSE Resolved(t, o, Latest(with), name)]

Expected(t, o) ==
  [path \in Paths(t) \union {Place(t, o, n) : n \in Merged(o)} |->
     Merge(t, o, path, {n \in Merged(o) : Place(t, o, n) = path},
           IF path \in Paths(t) THEN PropNamesOf(t, NodeAt(t, path)) ELSE {})]

(* The overlay makes sense on this base: its references lead somewhere,    *)
(* its fragments have targets, and there are phandles left for its nodes.  *)
Applicable(t, o) ==
  /\ o.spoilt = <<>>
  /\ \A r \in o.fixups :
       /\ SymbolTarget(t, r[1]) # 0 /\ Phandle(t, SymbolTarget(t, r[1])) # 0
       /\ r[4] + Cell <= Len(ValueOf(o.tree, r[2], r[3]))
  /\ \A r \in o.locals : PropertyNamed(o.tree, r[1], r[2]) # 0
  /\ \A f \in Fragments(o) : TargetOf(t, o, f) # 0
  /\ LargestPhandle(o.tree) + LargestPhandle(t) <= FDT_MAX_PHANDLE
=============================================================================
