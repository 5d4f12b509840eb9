----------------------------- MODULE TreeEdits -----------------------------
(***************************************************************************)
(* What an edit of a device tree should do to the tree, independently of   *)
(* any blob: the edits of fdt_rw.c and fdt_wip.c as they are documented.   *)
(* An outcome is an error, with everything left as it was, or the new tree *)
(* and the new reservations.                                               *)
(*                                                                         *)
(* A call is a record of the operation `op', a node or a reservation `at'  *)
(* (a position in the tree; not every position is a node) and the          *)
(* arguments `name' and `val', meaningless where the operation has none.   *)
(***************************************************************************)
EXTENDS DeviceTree

Replaced(tree, i, tokens) ==
  SubSeq(tree, 1, i - 1) \o tokens \o SubSeq(tree, i + 1, Len(tree))
Inserted(tree, i, tokens) ==
  SubSeq(tree, 1, i) \o tokens \o SubSeq(tree, i + 1, Len(tree))
Dropped(tree, i, j) == SubSeq(tree, 1, i - 1) \o SubSeq(tree, j + 1, Len(tree))

Refused(err) == [err |-> err]
Changed(tree, reserved) == [err |-> "none", tree |-> tree, reserved |-> reserved]

(* A value with another one written over it behind its first idx bytes.    *)
Overlaid(val, idx, over) ==
  [i \in DOMAIN val |-> IF i - idx \in DOMAIN over THEN over[i - idx] ELSE val[i]]

(* A new property comes first in its node, a new node after its parent's   *)
(* properties.                                                             *)
WithProperty(tree, n, name, val) ==
  LET p == PropertyNamed(tree, n, name)
  IN IF p = 0 THEN Inserted(tree, n, <<Prop(name, val)>>)
     ELSE Replaced(tree, p, <<Prop(name, val)>>)

Appended(tree, n, name, val) ==
  LET p == PropertyNamed(tree, n, name)
  IN WithProperty(tree, n, name, IF p = 0 THEN val ELSE tree[p].val \o val)

PropertiesEnd(tree, n) == n + Len(Properties(tree, n))

OnNode(tree, n, outcome) ==
  IF n \in Nodes(tree) THEN outcome ELSE Refused("BADOFFSET")
OnProperty(tree, n, name, outcome) ==
  OnNode(tree, n, IF PropertyNamed(tree, n, name) = 0
                  THEN Refused("NOTFOUND") ELSE outcome)

Outcome(tree, reserved, c) ==
  LET n == c.at
      p == PropertyNamed(tree, n, c.name)
      edit(t) == Changed(t, reserved)
  IN  CASE c.op = "setprop" ->
             OnNode(tree, n, edit(WithProperty(tree, n, c.name, c.val)))
        [] c.op = "appendprop" ->
             OnNode(tree, n, edit(Appended(tree, n, c.name, c.val)))
        [] c.op \in {"delprop", "nop_property"} ->
             OnProperty(tree, n, c.name, edit(Dropped(tree, p, p)))
        [] c.op = "setprop_inplace" ->
             OnProperty(tree, n, c.name,
               IF Len(tree[p].val) # Len(c.val) THEN Refused("NOSPACE")
               ELSE edit(Replaced(tree, p, <<Prop(c.name, c.val)>>)))
        [] c.op = "setprop_partial" ->
             OnProperty(tree, n, c.name,
               IF Len(tree[p].val) < Len(c.val) + 1 THEN Refused("NOSPACE")
               ELSE edit(Replaced(tree, p, <<Prop(c.name, Overlaid(tree[p].val, 1, c.val))>>)))
        [] c.op = "set_name" ->
             OnNode(tree, n, edit(Replaced(tree, n, <<Begin(c.name)>>)))
        [] c.op = "add_subnode" ->
             OnNode(tree, n,
               IF ChildNamed(tree, n, c.name) # 0 THEN Refused("EXISTS")
               ELSE edit(Inserted(tree, PropertiesEnd(tree, n),
                                  <<Begin(c.name), End>>)))
        [] c.op \in {"del_node", "nop_node"} ->
             OnNode(tree, n, edit(Dropped(tree, n, EndOf(tree, n))))
        [] c.op = "add_mem_rsv" -> Changed(tree, Append(reserved, c.val))
        [] c.op = "del_mem_rsv" ->
             IF n > Len(reserved) THEN Refused("NOTFOUND")
             ELSE Changed(tree, RemoveAt(reserved, n))
        [] c.op = "pack" -> edit(tree)
=============================================================================
