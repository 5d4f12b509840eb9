-------------------------- MODULE MCBlobPrograms --------------------------
EXTENDS BlobPrograms

(* To write into: buffers that overlap on both sides, from one without     *)
(* room for anything to one with room for a node with two properties.      *)
MCWriteBuffers == {<<0, 22>>, <<0, 48>>, <<4, 54>>}
MCWriteNodes   == {<<>>, <<97>>}
MCWriteProps   == {<<112>>, <<120, 112>>}
MCValues       == {<<>>, <<1, 2, 3>>}
MCEntries      == {<<<<0, 1>>, <<0, 2>>>>}

(* To edit: a tree whose second name is the end of the first, in the usual *)
(* layout with a gap before each property, with its strings in front of    *)
(* the structure block, and as version 16; buffers over the blob, shifted  *)
(* by less than its size and behind it, with little room and with none.    *)
MCTree == Node(<<>>, <<Prop(<<120, 112>>, <<1>>)>>,
               <<Node(<<98, 64, 49>>, <<Prop(<<112>>, <<7, 8>>)>>, <<>>)>>)

Plain(gap) == Flatten(MCTree, <<<<120, 112>>, <<112>>>>, gap, <<<<16, 1>>>>, 180)

StringsFirst(p) ==
  LET strings == FDT_TAGALIGN(p.size_dt_strings)
      m1 == moved(p.bytes, p.off_dt_struct + strings, p.off_dt_struct, p.size_dt_struct)
  IN  [p EXCEPT !.bytes = written(m1, p.off_dt_struct,
                                  Bytes(p, p.off_dt_strings, p.size_dt_strings)),
                !.off_dt_strings = p.off_dt_struct,
                !.off_dt_struct = p.off_dt_struct + strings,
                !.totalsize = FDT_TAGALIGN(@) + Cell]

Version16(p) == [p EXCEPT !.version = 16, !.size_dt_struct = 0]

MCGiven       == {Plain(1), StringsFirst(Plain(0)), Version16(Plain(0))}
MCEditBuffers == {<<0, 80>>, <<0, 180>>, <<8, 100>>, <<100, 84>>}
MCEditProps   == {<<112>>, <<113, 112>>}
MCEditNodes   == {<<98>>, <<99>>}

(* To apply overlays to: a base with two symbols and room for none, one    *)
(* and both of the larger overlays, one without symbols and one whose      *)
(* phandles are nearly used up.                                            *)
P(name, val)  == <<Prop(name, val)>>
phandle(h)    == P(phandle_name, CellBytes(h))
na == <<97>>
nb == <<98>>
nc == <<99>>
label_a == <<76, 97>>
label_b == <<76, 98>>
label_c == <<76, 99>>
ref   == <<114>>
other == <<113>>

BaseTree ==
  Node(<<>>, <<>>,
       << Node(na, phandle(1) \o P(other, <<7>>), <<Node(nb, phandle(2), <<>>)>>),
          Node(nc, P(ref, CellBytes(2)), <<>>),
          Node(<<115>>, P(label_a, <<47, 97, 0>>) \o P(label_b, <<47, 97, 47, 98, 0>>), <<>>) >>)

Bare(h) == Node(<<>>, P(linux_phandle_name, CellBytes(h)), <<Node(na, <<>>, <<>>)>>)

Opened(t, room) ==
  LET flat == Flatten(t, NamesIn(t), 0, <<>>, room)
  IN fdt_open_into(flat, 0, flat.totalsize + room).b

MCBases == {Opened(BaseTree, room) : room \in {0, 40, 80, 300}}
             \union {Opened(Bare(h), 120) : h \in {3, 65533}}

Fragment(name, target, props, kids) ==
  Node(name, target, <<Node(<<111>>, props, kids)>>)
by_phandle(cell) == P(<<116>>, CellBytes(cell))
by_path(path)    == P(<<116, 112>>, Append(path, 0))
One(target, props, kids) == Node(<<>>, <<>>, <<Fragment(<<48>>, target, props, kids)>>)

overlay(tree, locals, fixups, exports, spoilt) ==
  [tree |-> tree, locals |-> locals, fixups |-> fixups, exports |-> exports,
   spoilt |-> spoilt]

(* Positions in these trees: 2 the fragment, 4 its contents, then one for  *)
(* each property and each beginning and end of a node.                     *)
Extends == overlay(
  One(by_phandle(65535), P(ref, <<9>> \o CellBytes(1) \o CellBytes(0)), <<Node(nc, phandle(1), <<>>)>>),
  {<<4, ref, 1>>}, {<<label_a, 2, <<116>>, 0>>, <<label_b, 4, ref, 3>>},
  {<<label_c, 6>>, <<label_b, 4>>}, <<>>)
Overwrites == overlay(
  Node(<<>>, <<>>,
       << Fragment(<<48>>, by_path(<<47>>), P(ref, CellBytes(2)),
                   <<Node(na, phandle(2) \o P(other, <<8>>), <<>>)>>),
          Fragment(<<49>>, by_path(<<47, 99>>), P(other, CellBytes(5) \o CellBytes(2)),
                   <<Node(nb, P(linux_phandle_name, CellBytes(5)), <<>>)>>) >>),
  {<<4, ref, 0>>, <<14, other, 0>>, <<14, other, 2>>}, {}, {<<label_c, 6>>}, <<>>)
Below == overlay(One(by_path(<<47, 97>>), P(ref, CellBytes(4)), <<Node(nc, phandle(4), <<>>)>>),
                 {<<4, ref, 0>>}, {}, {<<label_c, 6>>}, <<>>)
Refers(fixups, spoilt) ==
  overlay(One(by_phandle(0), P(ref, CellBytes(0)), <<>>), {}, fixups, {}, spoilt)

target(label) == <<label, 2, <<116>>, 0>>

MCOverlays ==
  { Extends, Overwrites, Below,
    Refers({target(label_c), <<label_a, 4, ref, 0>>}, <<>>),    (* a later symbol    *)
    Refers({target(label_a), <<label_a, 4, ref, 1>>}, <<>>),    (* past the value    *)
    Refers({target(label_a)}, <<<<47, 58, 97, 0>>>>) }          (* one colon         *)
=============================================================================
