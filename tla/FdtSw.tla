-------------------------------- MODULE FdtSw --------------------------------
(***************************************************************************)
(* Writing a blob sequentially (fdt_sw.c).  While it is written, its magic *)
(* number is FDT_SW_MAGIC, last_comp_version holds the flags, the strings  *)
(* grow downwards from the end of the buffer and names are negative        *)
(* offsets from there.  off_dt_strings tells the stages apart: 0, then the *)
(* size of the buffer.                                                     *)
(*                                                                         *)
(* A function that changes the blob returns a record of its result `ret'   *)
(* and the blob `b' it leaves behind, changed or not.                      *)
(***************************************************************************)
EXTENDS FdtCheck

FDT_CREATE_FLAG_NO_NAME_DEDUP == 1
FDT_CREATE_FLAGS_ALL          == {0, FDT_CREATE_FLAG_NO_NAME_DEDUP}
FDT_LAST_COMPATIBLE_VERSION   == 16

Result(ret, b) == [ret |-> ret, b |-> b]

(* A check made before anything is changed, then the change.               *)
Probed(err, b, result) == IF err # 0 THEN Result(err, b) ELSE result
Unless(failed, err, b, result) == Probed(IF failed THEN -err ELSE 0, b, result)

(* What follows a step that succeeded; it is given the blob.               *)
then(r, Step(_)) == IF r.ret # 0 THEN r ELSE Step(r.b)

(* Memory written at a place once the step before has succeeded.           *)
after(r, at, s) == then(r, LAMBDA b : Result(0, [b EXCEPT !.bytes = written(@, at, s)]))

(* The same at the place that the step before has made.                    *)
filled(r, s) == IF r.ret < 0 THEN r ELSE after(Result(0, r.b), r.ret, s)

fdt_sw_probe_(b) ==
  CASE b.magic = "FDT_MAGIC" -> -FDT_ERR_BADSTATE
    [] b.magic = "FDT_SW_MAGIC" -> 0
    [] OTHER -> -FDT_ERR_BADMAGIC

fdt_sw_probe_memrsv_(b) ==
  IF fdt_sw_probe_(b) = 0 /\ b.off_dt_strings # 0 THEN -FDT_ERR_BADSTATE
  ELSE fdt_sw_probe_(b)

fdt_sw_probe_struct_(b) ==
  IF fdt_sw_probe_(b) = 0 /\ b.off_dt_strings # b.totalsize
  THEN -FDT_ERR_BADSTATE ELSE fdt_sw_probe_(b)

(* The structure block longer by len bytes; ret is the offset of the new   *)
(* bytes in the blob, or an error.                                         *)
fdt_grab_space_(b, len) ==
  LET offset    == b.size_dt_struct
      spaceleft == Wrap(b.totalsize - b.off_dt_struct - b.size_dt_strings)
  IN  IF Wrap(offset + len) < offset \/ Wrap(offset + len) > spaceleft
      THEN Result(-FDT_ERR_NOSPACE, b)
      ELSE Result(At(b, offset), [b EXCEPT !.size_dt_struct = Wrap(offset + len)])

(* Grabs space for a sequence of bytes, n in all, and writes it.           *)
emit(b, s, n) ==
  filled(fdt_grab_space_(b, n), s)

header_space == FDT_ALIGN(fdt_header_size_(17), EntrySize)

fdt_create_with_flags(buf, bufsize, flags) ==
  Unless(bufsize < header_space, FDT_ERR_NOSPACE, buf,
  Unless(flags \notin FDT_CREATE_FLAGS_ALL, FDT_ERR_BADFLAGS, buf,
    Result(0, [magic |-> "FDT_SW_MAGIC", version |-> FDT_LAST_SUPPORTED_VERSION,
               last_comp_version |-> flags, totalsize |-> bufsize,
               off_mem_rsvmap |-> header_space, off_dt_struct |-> header_space,
               off_dt_strings |-> 0, size_dt_struct |-> 0,
               size_dt_strings |-> 0, addr |-> buf.addr,
               bytes |-> written(buf.bytes, 0, [i \in 1 .. bufsize |-> 0])])))

fdt_create(buf, bufsize) == fdt_create_with_flags(buf, bufsize, 0)

(* Memory after the two parts of a blob have been moved `shift' bytes, the *)
(* tail to the end of its new buffer.  Addresses count from the old blob.  *)
headsize(b) == b.off_dt_struct + b.size_dt_struct
move_head(b, mem, shift) == moved(mem, shift, 0, headsize(b))
move_tail(b, mem, shift, bufsize) ==
  moved(mem, shift + bufsize - b.size_dt_strings,
        b.totalsize - b.size_dt_strings, b.size_dt_strings)

(* Mutant: always the head first.                                          *)
resized_head_first(b, shift, bufsize) ==
  move_tail(b, move_head(b, b.bytes, shift), shift, bufsize)

resized(b, shift, bufsize) ==
  IF shift <= 0 THEN move_tail(b, move_head(b, b.bytes, shift), shift, bufsize)
  ELSE move_head(b, move_tail(b, b.bytes, shift, bufsize), shift)

(* Into a buffer of bufsize bytes that starts shift bytes after the blob,  *)
(* from where bytes are counted afterwards.                                *)
from_there(bytes, shift) ==
  [i \in {j - shift : j \in DOMAIN bytes} |-> bytes[i + shift]]

fdt_resize(b, shift, bufsize) ==
  LET need == headsize(b) + b.size_dt_strings
  IN  Probed(fdt_sw_probe_(b), b,
      Unless(bufsize < 0, FDT_ERR_NOSPACE, b,
      Unless(need > b.totalsize, FDT_ERR_INTERNAL, b,
      Unless(need > bufsize, FDT_ERR_NOSPACE, b,
        Result(0, [b EXCEPT !.bytes = from_there(resized(b, shift, bufsize), shift),
                            !.addr = @ + shift,
                            !.totalsize = bufsize,
                            !.off_dt_strings = IF @ = 0 THEN 0 ELSE bufsize])))))

(***************************************************************************)
(* The reservation block.                                                  *)
(***************************************************************************)
entry_bytes(address, size) ==
  CellBytes(address[1]) \o CellBytes(address[2])
    \o CellBytes(size[1]) \o CellBytes(size[2])

fdt_add_reservemap_entry(b, address, size) ==
  LET end == b.off_dt_struct + EntrySize
  IN  Probed(fdt_sw_probe_memrsv_(b), b,
      Unless(end > b.totalsize, FDT_ERR_NOSPACE, b,
        Result(0, [b EXCEPT !.bytes = written(@, b.off_dt_struct,
                                              entry_bytes(address, size)),
                            !.off_dt_struct = end])))

fdt_finish_reservemap(b) ==
  then(fdt_add_reservemap_entry(b, <<0, 0>>, <<0, 0>>),
       LAMBDA a : Result(0, [a EXCEPT !.off_dt_strings = a.totalsize]))

(***************************************************************************)
(* Nodes and properties.                                                   *)
(***************************************************************************)
fdt_begin_node(b, name) ==
  Probed(fdt_sw_probe_struct_(b), b,
         emit(b, CellBytes(FDT_BEGIN_NODE) \o Append(name, 0),
              Cell + FDT_TAGALIGN(Len(name) + 1)))

fdt_end_node(b) ==
  Probed(fdt_sw_probe_struct_(b), b, emit(b, CellBytes(FDT_END_NODE), Cell))

(* Mutant: the room between the blocks is not looked at.                   *)
add_string_unchecked(b, s) ==
  LET offset == b.size_dt_strings + Len(s) + 1
  IN Result(-offset,
            [b EXCEPT !.bytes = written(@, b.totalsize - offset, Append(s, 0)),
                      !.size_dt_strings = offset])

(* ret is the negative offset of the string, 0 when there is no room.  The *)
(* difference wraps around when the string is longer than the buffer.      *)
fdt_add_string_(b, s) ==
  LET offset == b.size_dt_strings + Len(s) + 1
  IN  IF Wrap(b.totalsize - offset) < b.off_dt_struct + b.size_dt_struct
      THEN Result(0, b)
      ELSE Result(-offset,
                  [b EXCEPT !.bytes = written(@, b.totalsize - offset, Append(s, 0)),
                            !.size_dt_strings = offset])

(* Mutant: the string stays.                                               *)
del_last_string_none(b, s) == b
fdt_del_last_string_(b, s) == [b EXCEPT !.size_dt_strings = @ - (Len(s) + 1)]

(* The string's offset and whether it has been added.                      *)
string_at(r, allocated) == [ret |-> r.ret, b |-> r.b, allocated |-> allocated]

(* Mutant: the table is not searched.                                      *)
find_add_string_always(b, s) == string_at(fdt_add_string_(b, s), TRUE)

fdt_find_add_string_(b, s) ==
  LET found(p) ==
        IF p >= 0 THEN string_at(Result(p - b.size_dt_strings, b), FALSE)
        ELSE string_at(fdt_add_string_(b, s), TRUE)
  IN found(fdt_find_string_len_(b, b.totalsize - b.size_dt_strings,
                                b.size_dt_strings, s))

fdt_property(b, name, val) ==
  LET dedup == b.last_comp_version # FDT_CREATE_FLAG_NO_NAME_DEDUP
      undone(str) ==
        IF str.allocated THEN fdt_del_last_string_(str.b, name) ELSE str.b
      ended(str, prop) ==
        IF prop.ret < 0 THEN Result(prop.ret, undone(str)) ELSE prop
      named(str) ==
        Unless(str.ret = 0, FDT_ERR_NOSPACE, b,
          ended(str, emit(str.b, CellBytes(FDT_PROP) \o CellBytes(Len(val))
                                   \o CellBytes(Wrap(str.ret)) \o val,
                          3 * Cell + FDT_TAGALIGN(Len(val)))))
  IN  Probed(fdt_sw_probe_struct_(b), b,
             named(IF dedup THEN fdt_find_add_string_(b, name)
                   ELSE string_at(fdt_add_string_(b, name), TRUE)))

(***************************************************************************)
(* The end.                                                                *)
(***************************************************************************)

(* Mutant: the names keep the offsets of the growing table.                *)
nameoff_final_same(b, offset) == StructCell(b, offset + 2 * Cell)
nameoff_final(b, offset) ==
  Wrap(StructCell(b, offset + 2 * Cell) + b.size_dt_strings)

(* The walk that corrects the offsets of the names, given what it does     *)
(* from <<offset, blob>> on; ret is where it ends.                         *)
corrected(b, offset) ==
  [b EXCEPT !.bytes = written(@, At(b, offset) + 2 * Cell,
                              CellBytes(nameoff_final(b, offset)))]
correct_from(walk, offset, b) ==
  LET seen(t) == CASE t.tag = FDT_END -> Result(t.next, b)
                   [] t.tag = FDT_PROP -> walk[<<t.next, corrected(b, offset)>>]
                   [] OTHER -> walk[<<t.next, b>>]
  IN seen(fdt_next_tag(b, offset))

correct_names(blob) ==
  LET walk[s \in Int \X BlobsIn(MemoryOf(blob))] == correct_from(walk, s[1], s[2])
  IN walk[<<0, blob>>]

fdt_finish(b) ==
  LET tail(a) ==
        [a EXCEPT !.bytes = moved(@, headsize(a), a.totalsize - a.size_dt_strings,
                                  a.size_dt_strings),
                  !.off_dt_strings = headsize(a)]
      closed(a) ==
        Result(0, [a EXCEPT !.totalsize = a.off_dt_strings + a.size_dt_strings,
                            !.last_comp_version = FDT_LAST_COMPATIBLE_VERSION,
                            !.magic = "FDT_MAGIC"])
      named(r) == IF r.ret < 0 THEN r ELSE closed(r.b)
  IN  Probed(fdt_sw_probe_struct_(b), b,
             then(emit(b, CellBytes(FDT_END), Cell),
                  LAMBDA a : named(correct_names(tail(a)))))
=============================================================================
