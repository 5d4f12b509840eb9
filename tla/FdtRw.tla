------------------------------- MODULE FdtRw -------------------------------
(***************************************************************************)
(* Editing a complete blob where it lies: with room to spare, by moving    *)
(* what follows the edit (fdt_rw.c), or without moving anything            *)
(* (fdt_wip.c).  Functions return a result as in FdtSw: what they return   *)
(* in the code and the blob they leave behind.  Bytes are counted from the *)
(* blob and may reach beyond it, as the memory around it does.             *)
(*                                                                         *)
(* The functions of fdt_rw.c that have a namesake in fdt_sw.c are called   *)
(* rw_... here.                                                            *)
(***************************************************************************)
EXTENDS FdtSw, FdtRead

blocks_start == FDT_ALIGN(fdt_header_size_(17), Alignment8)

fdt_blocks_misordered_(b, rsv, struct) ==
  \/ b.off_mem_rsvmap < blocks_start
  \/ b.off_dt_struct < Wrap(b.off_mem_rsvmap + rsv)
  \/ b.off_dt_strings < Wrap(b.off_dt_struct + struct)
  \/ b.totalsize < Wrap(b.off_dt_strings + b.size_dt_strings)

fdt_downgrade_version(b) ==
  [b EXCEPT !.version = IF @ > FDT_LAST_SUPPORTED_VERSION
                        THEN FDT_LAST_SUPPORTED_VERSION ELSE @]

fdt_rw_probe_(b) ==
  IF fdt_ro_probe_(b) < 0 THEN fdt_ro_probe_(b)
  ELSE IF b.version < 17 THEN -FDT_ERR_BADVERSION
  ELSE IF fdt_blocks_misordered_(b, EntrySize, b.size_dt_struct)
       THEN -FDT_ERR_BADLAYOUT
  ELSE 0

(* FDT_RW_PROBE before an operation on the blob.                           *)
Rw(b, Operation(_)) ==
  Probed(fdt_rw_probe_(b), b, Operation(fdt_downgrade_version(b)))

(***************************************************************************)
(* Splicing: the bytes from `at' to the end of the data move.              *)
(***************************************************************************)
fdt_data_size_(b) == Wrap(b.off_dt_strings + b.size_dt_strings)

fdt_splice_(b, at, oldlen, newlen) ==
  LET dsize == fdt_data_size_(b)
  IN  Unless(oldlen < 0 \/ at < 0 \/ at + oldlen > dsize, FDT_ERR_BADOFFSET, b,
      Unless(Wrap(dsize + newlen) < oldlen, FDT_ERR_BADOFFSET, b,
      Unless(Wrap(dsize - oldlen + newlen) > b.totalsize, FDT_ERR_NOSPACE, b,
        Result(0, [b EXCEPT !.bytes = moved(@, at + newlen, at + oldlen,
                                            dsize - (at + oldlen))]))))

(* The offsets and sizes that the blocks behind a splice get.              *)
shifted(r, delta, Header(_, _)) ==
  IF r.ret # 0 THEN r ELSE Result(0, Header(r.b, delta))

fdt_splice_mem_rsv_(b, n, oldn, newn) ==
  shifted(fdt_splice_(b, mem_rsv_at(b, n), oldn * EntrySize, newn * EntrySize),
          (newn - oldn) * EntrySize,
          LAMBDA a, delta : [a EXCEPT !.off_dt_struct = Wrap(@ + delta),
                                      !.off_dt_strings = Wrap(@ + delta)])

fdt_splice_struct_(b, at, oldlen, newlen) ==
  shifted(fdt_splice_(b, at, oldlen, newlen), newlen - oldlen,
          LAMBDA a, delta : [a EXCEPT !.size_dt_struct = Wrap(@ + delta),
                                      !.off_dt_strings = Wrap(@ + delta)])

fdt_splice_string_(b, newlen) ==
  shifted(fdt_splice_(b, b.off_dt_strings + b.size_dt_strings, 0, newlen), newlen,
          LAMBDA a, delta : [a EXCEPT !.size_dt_strings = Wrap(@ + delta)])

(* cname is the whole C string, of which the caller names a prefix.        *)
rw_del_last_string_(b, cname) ==
  [b EXCEPT !.size_dt_strings = Wrap(@ - (Len(cname) + 1))]

(* ret is the offset of the string in its block, or an error.              *)
rw_find_add_string_(b, s) ==
  LET added(r) == IF r.ret # 0 THEN string_at(r, FALSE)
                  ELSE string_at(Result(b.size_dt_strings, r.b), TRUE)
      found(p) ==
        IF p >= 0 THEN string_at(Result(p, b), FALSE)
        ELSE added(after(fdt_splice_string_(b, Len(s) + 1),
                         b.off_dt_strings + b.size_dt_strings, Append(s, 0)))
  IN found(fdt_find_string_len_(b, b.off_dt_strings, b.size_dt_strings, s))

(***************************************************************************)
(* Reservations.                                                           *)
(***************************************************************************)
fdt_add_mem_rsv(blob, address, size) == Rw(blob, LAMBDA b :
  LET add(n) == after(fdt_splice_mem_rsv_(b, n, 0, 1), mem_rsv_at(b, n),
                      entry_bytes(address, size))
  IN add(fdt_num_mem_rsv(b)))

fdt_del_mem_rsv(blob, n) == Rw(blob, LAMBDA b :
  Unless(n >= fdt_num_mem_rsv(b), FDT_ERR_NOTFOUND, b,
         fdt_splice_mem_rsv_(b, n, 1, 0)))

(***************************************************************************)
(* Properties.  `ret' of the first two is the place of the property's      *)
(* value, or an error.                                                     *)
(***************************************************************************)
placed(r, data) == IF r.ret # 0 THEN r ELSE Result(data, r.b)

(* What is done with a property or a name that was found, or its error.    *)
IfFound(p, b, Operation(_)) ==
  IF p.len < 0 THEN Result(p.len, b) ELSE Operation(p)

(* What is done with an offset or a number that is not an error.           *)
IfValid(value, b, Operation(_)) ==
  IF value < 0 THEN Result(value, b) ELSE Operation(value)

fdt_resize_property_(b, node, name, len) ==
  IfFound(fdt_get_property(b, node, name), b, LAMBDA p :
    placed(after(fdt_splice_struct_(b, p.data, FDT_TAGALIGN(p.len),
                                    FDT_TAGALIGN(len)),
                 p.data - 2 * Cell, CellBytes(len)), p.data))

(* Mutant: the name that was added stays when the property does not fit.   *)
undone_never(str, cname) == str.b
undone(str, cname) ==
  IF str.allocated THEN rw_del_last_string_(str.b, cname) ELSE str.b

fdt_add_property_(b, node, cname, namelen, len) ==
  LET put(str, space, at) ==
        IF space.ret # 0 THEN Result(space.ret, undone(str, cname))
        ELSE placed(after(space, at, CellBytes(FDT_PROP) \o CellBytes(len)
                                       \o CellBytes(str.ret)), at + 3 * Cell)
      named(str, at) ==
        IF str.ret < 0 THEN Result(str.ret, str.b)
        ELSE put(str, fdt_splice_struct_(str.b, at, 0,
                                         3 * Cell + FDT_TAGALIGN(len)), at)
  IN  IfValid(fdt_check_node_offset_(b, node), b, LAMBDA next :
        named(rw_find_add_string_(b, SubSeq(cname, 1, namelen)), At(b, next)))

IfAbsent(r, Step(_)) == IF r.ret # -FDT_ERR_NOTFOUND THEN r ELSE Step(r.b)

fdt_setprop_placeholder_namelen(blob, node, cname, namelen, len) ==
  Rw(blob, LAMBDA b :
    IfAbsent(fdt_resize_property_(b, node, SubSeq(cname, 1, namelen), len),
             LAMBDA a : fdt_add_property_(a, node, cname, namelen, len)))

fdt_setprop_namelen(b, node, cname, namelen, val) ==
  filled(fdt_setprop_placeholder_namelen(b, node, cname, namelen, Len(val)), val)

fdt_setprop(b, node, name, val) ==
  fdt_setprop_namelen(b, node, name, Len(name), val)

(* Mutant: the new bytes go to the aligned end of the old ones.            *)
append_at_aligned(p) == p.data + FDT_TAGALIGN(p.len)
append_at(p) == p.data + p.len

longer(b, p, newlen, val) ==
  after(after(fdt_splice_struct_(b, p.data, FDT_TAGALIGN(p.len), FDT_TAGALIGN(newlen)),
              p.data - 2 * Cell, CellBytes(newlen)),
        append_at(p), val)

appended(b, node, name, val, p) ==
  IF p.len < 0
  THEN filled(fdt_add_property_(b, node, name, Len(name), Len(val)), val)
  ELSE longer(b, p, p.len + Len(val), val)

fdt_appendprop(blob, node, name, val) == Rw(blob, LAMBDA b :
  appended(b, node, name, val, fdt_get_property(b, node, name)))

fdt_delprop(blob, node, name) == Rw(blob, LAMBDA b :
  IfFound(fdt_get_property(b, node, name), b, LAMBDA p :
    fdt_splice_struct_(b, At(b, p.offset), 3 * Cell + FDT_TAGALIGN(p.len), 0)))

(* An address and a size, pairs of cells, as the parent's cells have it.   *)
(* (fdt_addresses.c)                                                       *)
number(pair) == pair[1] * WordSize + pair[2]

fit(pair, cells) == IF cells = 1 THEN CellBytes(pair[2])
                    ELSE CellBytes(pair[1]) \o CellBytes(pair[2])

(* Mutant: as many cells for the size as for the address.                  *)
range_bytes_same(addr, ac, size, sc) == fit(addr, ac) \o fit(size, ac)
range_bytes(addr, ac, size, sc) == fit(addr, ac) \o fit(size, sc)

append_range(b, node, name, addr, ac, size, sc) ==
  IF \/ ac = 1 /\ (addr[1] > 0 \/ WordSize - addr[2] < number(size))
     \/ ac \in {1, 2} /\ sc = 1 /\ size[1] > 0
  THEN Result(-FDT_ERR_BADVALUE, b)
  ELSE Unless(ac \notin {1, 2} \/ sc \notin {1, 2}, FDT_ERR_BADNCELLS, b,
              fdt_appendprop(b, node, name, range_bytes(addr, ac, size, sc)))

fdt_appendprop_addrrange(b, parent, node, name, addr, size) ==
  IfValid(fdt_address_cells(b, parent), b, LAMBDA ac :
    IfValid(fdt_size_cells(b, parent), b, LAMBDA sc :
      append_range(b, node, name, addr, ac, size, sc)))

(***************************************************************************)
(* Nodes.                                                                  *)
(***************************************************************************)
fdt_set_name(blob, node, name) == Rw(blob, LAMBDA b :
  LET at == At(b, node) + Cell
  IN  IfFound(fdt_get_name(b, node), b, LAMBDA old :
        after(fdt_splice_struct_(b, at, FDT_TAGALIGN(old.len + 1),
                                 FDT_TAGALIGN(Len(name) + 1)),
              at, Append(name, 0))))

(* Past the properties of a node, and the NOPs between them.               *)
RECURSIVE past_properties(_, _)
past_properties(b, offset) ==
  LET seen(t) == IF t.tag \in {FDT_PROP, FDT_NOP} THEN past_properties(b, t.next)
                 ELSE offset
  IN seen(fdt_next_tag(b, offset))

node_place(b, parent) == past_properties(b, fdt_next_tag(b, parent).next)

fdt_add_subnode_namelen(blob, parent, name) == Rw(blob, LAMBDA b :
  LET padded == [i \in 1 .. FDT_TAGALIGN(Len(name) + 1) |->
                   IF i <= Len(name) THEN name[i] ELSE 0]
      add(offset) ==
        placed(after(fdt_splice_struct_(b, At(b, offset), 0, 2 * Cell + Len(padded)),
                     At(b, offset),
                     CellBytes(FDT_BEGIN_NODE) \o padded \o CellBytes(FDT_END_NODE)),
               offset)
      unless_there(there) ==
        CASE there >= 0 -> Result(-FDT_ERR_EXISTS, b)
          [] there = -FDT_ERR_NOTFOUND -> add(node_place(b, parent))
          [] OTHER -> Result(there, b)
  IN unless_there(fdt_subnode_offset(b, parent, name)))

fdt_add_subnode(b, parent, name) == fdt_add_subnode_namelen(b, parent, name)

(* Past the end of a node, or an error.                                    *)
RECURSIVE node_end_from(_, _, _)
node_end_from(b, offset, depth) ==
  IF offset < 0 \/ depth < 0 THEN offset
  ELSE LET past(n) == node_end_from(b, n.offset, n.depth)
       IN past(fdt_next_node_depth(b, offset, depth))

fdt_node_end_offset_(b, offset) == node_end_from(b, offset, 0)

fdt_del_node(blob, node) == Rw(blob, LAMBDA b :
  IfValid(fdt_node_end_offset_(b, node), b, LAMBDA end :
    fdt_splice_struct_(b, At(b, node), end - node, 0)))

(***************************************************************************)
(* In place (fdt_wip.c).                                                   *)
(***************************************************************************)
fdt_setprop_inplace_namelen_partial(b, node, name, idx, val) ==
  IfFound(fdt_getprop(b, node, name), b, LAMBDA p :
    Unless(p.len < Wrap(Len(val) + idx), FDT_ERR_NOSPACE, b,
           after(Result(0, b), p.data + idx, val)))

fdt_setprop_inplace(b, node, name, val) ==
  IfFound(fdt_getprop(b, node, name), b, LAMBDA p :
    Unless(p.len # Len(val), FDT_ERR_NOSPACE, b,
           fdt_setprop_inplace_namelen_partial(b, node, name, 0, val)))

(* Mutant: the last cell, which may be a partial one, is left.             *)
nop_region_short(at, len) ==
  FlattenSeq([i \in 1 .. len \div Cell |-> CellBytes(FDT_NOP)])

(* FDT_NOP in every cell that starts in the region.                        *)
fdt_nop_region_(at, len) ==
  FlattenSeq([i \in 1 .. FDT_TAGALIGN(len) \div Cell |-> CellBytes(FDT_NOP)])

fdt_nop_property(b, node, name) ==
  IfFound(fdt_get_property(b, node, name), b, LAMBDA p :
    after(Result(0, b), At(b, p.offset),
          fdt_nop_region_(At(b, p.offset), p.len + 3 * Cell)))

fdt_nop_node(b, node) ==
  IfValid(fdt_node_end_offset_(b, node), b, LAMBDA end :
    after(Result(0, b), At(b, node), fdt_nop_region_(At(b, node), end - node)))

(***************************************************************************)
(* Layout.                                                                 *)
(***************************************************************************)

(* fdt_packblocks_: the blocks of b one after another from `new' on, which *)
(* counts from b; the three moves in this order.                           *)
packed_blocks(b, new, rsv, struct) ==
  LET m1 == moved(b.bytes, new + blocks_start, b.off_mem_rsvmap, rsv)
      m2 == moved(m1, new + blocks_start + rsv, b.off_dt_struct, struct)
  IN  moved(m2, new + blocks_start + rsv + struct, b.off_dt_strings,
            b.size_dt_strings)

fdt_packblocks_(b, new, rsv, struct) ==
  [b EXCEPT !.bytes = packed_blocks(b, new, rsv, struct),
            !.off_mem_rsvmap = blocks_start,
            !.off_dt_struct = blocks_start + rsv, !.size_dt_struct = struct,
            !.off_dt_strings = blocks_start + rsv + struct]

rsv_size(b) == (fdt_num_mem_rsv(b) + 1) * EntrySize

RECURSIVE struct_end(_, _)
struct_end(b, offset) ==
  LET seen(t) == IF t.tag = FDT_END THEN t.next ELSE struct_end(b, t.next)
  IN seen(fdt_next_tag(b, offset))

(* The size of the structure block, which version 16 does not record.      *)
struct_size_(b) ==
  CASE b.version >= 17 -> b.size_dt_struct
    [] b.version = 16 -> struct_end(b, 0)
    [] OTHER -> -FDT_ERR_BADVERSION

(* The header's field that no function here looks at.                      *)
boot_cpuid_at == 7 * Cell
boot_cpuid_phys(b) == LoadCell(b, boot_cpuid_at)

(* Where the converted tree is built first: in the buffer, or behind the   *)
(* old tree when the two would overlap.                                    *)
(* Mutant: in the buffer although it overlaps the old tree.                *)
build_place_buffer(b, shift, newsize) == shift
build_place(b, shift, newsize) ==
  IF shift + newsize > 0 /\ shift < b.totalsize THEN b.totalsize ELSE shift

(* fdt_open_into with a buffer of bufsize bytes, shift bytes from the blob.*)
(* Mutant: the blob keeps its size.                                        *)
opened_same_size(b, shift, bufsize, struct) ==
  Probed(fdt_move(b, bufsize), b,
    Result(0, [b EXCEPT !.bytes = from_there(moved(@, shift, 0, b.totalsize), shift),
                        !.addr = @ + shift, !.version = 17,
                        !.size_dt_struct = struct]))

opened_as_is(b, shift, bufsize, struct) ==
  Probed(fdt_move(b, bufsize), b,
    Result(0, [b EXCEPT !.bytes = from_there(moved(@, shift, 0, b.totalsize), shift),
                        !.addr = @ + shift, !.version = 17,
                        !.size_dt_struct = struct, !.totalsize = bufsize]))

reordered(b, shift, bufsize, struct) ==
  LET finished(there) ==
        [there EXCEPT
           !.bytes = from_there(written(@, shift + boot_cpuid_at,
                                        CellBytes(boot_cpuid_phys(there))), shift),
           !.addr = @ + shift, !.magic = "FDT_MAGIC", !.totalsize = bufsize,
           !.version = 17, !.last_comp_version = 16]
      brought(built, tmp, size) == [built EXCEPT !.bytes = moved(@, shift, tmp, size)]
      build(tmp, newsize) ==
        Unless(bufsize < newsize, FDT_ERR_NOSPACE, b,
        Unless(tmp # shift /\ tmp + newsize > shift + bufsize, FDT_ERR_NOSPACE, b,
          Result(0, finished(brought(fdt_packblocks_(b, tmp, rsv_size(b), struct),
                                     tmp, newsize)))))
      place(newsize) == build(build_place(b, shift, newsize), newsize)
  IN place(blocks_start + rsv_size(b) + struct + b.size_dt_strings)

fdt_open_into(b, shift, bufsize) ==
  Probed(IF fdt_ro_probe_(b) < 0 THEN fdt_ro_probe_(b) ELSE 0, b,
    IfValid(struct_size_(b), b, LAMBDA struct :
      IF ~fdt_blocks_misordered_(b, rsv_size(b), struct)
      THEN opened_as_is(b, shift, bufsize, struct)
      ELSE reordered(b, shift, bufsize, struct)))

fdt_pack(blob) == Rw(blob, LAMBDA b :
  LET resized_(p) == Result(0, [p EXCEPT !.totalsize = fdt_data_size_(p)])
  IN resized_(fdt_packblocks_(b, 0, rsv_size(b), b.size_dt_struct)))

(* The smallest tree, in a buffer of its own (fdt_empty_tree.c).           *)
fdt_create_empty_tree(buf, bufsize) ==
  then(then(then(then(then(fdt_create(buf, bufsize),
       LAMBDA b : fdt_finish_reservemap(b)),
       LAMBDA b : fdt_begin_node(b, <<>>)),
       LAMBDA b : fdt_end_node(b)),
       LAMBDA b : fdt_finish(b)),
       LAMBDA b : fdt_open_into(b, 0, bufsize))
=============================================================================
