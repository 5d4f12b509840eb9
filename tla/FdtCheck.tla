------------------------------ MODULE FdtCheck ------------------------------
(***************************************************************************)
(* The full check of a blob (fdt_check.c) and what it reads: strings,      *)
(* names, reservations and the property at an offset (fdt_ro.c).           *)
(*                                                                         *)
(* Strings are sequences of bytes without their NUL.  A function that      *)
(* returns a pointer and a length in the code returns a record: `len' is   *)
(* the length or the negative error, and the rest is meaningful only when  *)
(* len is not negative.                                                    *)
(***************************************************************************)
EXTENDS Fdt

Failure(err) == [len |-> err, str |-> <<>>]
Text(s)      == [len |-> Len(s), str |-> s]

(* f(offset) unless the offset is an error, which is then the result.      *)
unless_error(offset, f(_)) == IF offset < 0 THEN offset ELSE f(offset)

(***************************************************************************)
(* Strings and names.                                                      *)
(***************************************************************************)

(* Bytes that may belong to the string at an offset of the strings block,  *)
(* -1 when the offset is refused.  In a blob under construction offsets    *)
(* are negative and count from the end.                                    *)
string_room(b, stroffset, totalsize) ==
  LET absoffset == Wrap(stroffset + b.off_dt_strings)
      room      == totalsize - absoffset
      least(x, y) == IF x < y THEN x ELSE y
  IN  IF absoffset >= totalsize THEN -1
      ELSE IF b.magic = "FDT_SW_MAGIC"
      THEN IF stroffset >= 0 \/ -stroffset > b.size_dt_strings THEN -1
           ELSE least(room, -stroffset)
      ELSE IF stroffset < 0 \/ (b.version >= 17 /\ stroffset >= b.size_dt_strings)
      THEN -1
      ELSE IF b.version >= 17 THEN least(room, b.size_dt_strings - stroffset)
      ELSE room

fdt_get_string(b, stroffset) ==
  LET at == Wrap(stroffset + b.off_dt_strings)
      within(room) ==
        IF room < 0 THEN Failure(-FDT_ERR_BADOFFSET)
        ELSE IF \A i \in 0 .. room - 1 : Byte(b, at + i) # 0
             THEN Failure(-FDT_ERR_TRUNCATED)
        ELSE Text(CString(b, at))
      probed(totalsize) ==
        IF totalsize < 0 THEN Failure(totalsize)
        ELSE within(string_room(b, stroffset, totalsize))
  IN probed(fdt_ro_probe_(b))

fdt_get_name(b, nodeoffset) ==
  LET name(err) == IF err < 0 THEN Failure(err)
                   ELSE Text(CString(b, At(b, nodeoffset) + Cell))
  IN name(IF fdt_ro_probe_(b) < 0 THEN fdt_ro_probe_(b)
          ELSE fdt_check_node_offset_(b, nodeoffset))

(***************************************************************************)
(* The memory reservation block: entries of an address and a size, each a  *)
(* pair of cells.                                                          *)
(***************************************************************************)
mem_rsv_at(b, n) == b.off_mem_rsvmap + n * EntrySize

(* fdt_mem_rsv(b, n) # NULL.                                               *)
fdt_mem_rsv(b, n) ==
  /\ Wrap(mem_rsv_at(b, n)) >= b.off_mem_rsvmap
  /\ Wrap(mem_rsv_at(b, n)) <= Wrap(b.totalsize - EntrySize)

mem_rsv_address(b, n) ==
  <<LoadCell(b, mem_rsv_at(b, n)), LoadCell(b, mem_rsv_at(b, n) + Cell)>>

mem_rsv_size(b, n) ==
  <<LoadCell(b, mem_rsv_at(b, n) + 2 * Cell),
    LoadCell(b, mem_rsv_at(b, n) + 3 * Cell)>>

fdt_get_mem_rsv(b, n) ==
  IF fdt_ro_probe_(b) < 0 THEN [err |-> fdt_ro_probe_(b)]
  ELSE IF ~fdt_mem_rsv(b, n) THEN [err |-> -FDT_ERR_BADOFFSET]
  ELSE [err |-> 0, address |-> mem_rsv_address(b, n),
        size |-> mem_rsv_size(b, n)]

fdt_num_mem_rsv(b) ==
  LET stops(i)   == fdt_mem_rsv(b, i) => mem_rsv_size(b, i) = <<0, 0>>
      entries(i) == IF fdt_mem_rsv(b, i) THEN i ELSE -FDT_ERR_TRUNCATED
  IN entries(CHOOSE i \in 0 .. b.totalsize :
               stops(i) /\ \A j \in 0 .. i - 1 : ~stops(j))

(***************************************************************************)
(* Properties.                                                             *)
(***************************************************************************)
prop_len(b, offset)     == StructCell(b, offset + Cell)
prop_nameoff(b, offset) == Signed(StructCell(b, offset + 2 * Cell))
prop_data(b, offset)    == At(b, offset) + 3 * Cell

(* A property found: its offset, the length and the place of its value.    *)
Property(b, offset) ==
  IF offset < 0 THEN [len |-> offset, offset |-> offset]
  ELSE [len |-> prop_len(b, offset), offset |-> offset,
        data |-> prop_data(b, offset)]

fdt_get_property_by_offset(b, offset) ==
  Property(b, unless_error(fdt_check_prop_offset_(b, offset),
                           LAMBDA next : offset))

fdt_getprop_by_offset(b, offset) ==
  LET named(p, name) ==
        IF p.len < 0 THEN p
        ELSE IF name.len < 0 THEN [len |-> name.len, offset |-> name.len]
        ELSE [len |-> p.len, offset |-> offset, data |-> p.data,
              name |-> name.str]
  IN named(fdt_get_property_by_offset(b, offset),
           fdt_get_string(b, prop_nameoff(b, offset)))

(***************************************************************************)
(* The full check of a blob (fdt_check.c).                                 *)
(***************************************************************************)
(* Mutant: nodes left open at FDT_END are let through.                     *)
unclosed_never(depth) == FALSE
unclosed(depth) == depth # 0

(* What a tag is refused for, 0 or more if it is not.                      *)
refused(b, offset, tag, depth, expect_end) ==
  LET root_name(len) == IF len > 0 THEN -FDT_ERR_BADSTRUCTURE ELSE len
  IN  IF expect_end /\ tag \notin {FDT_END, FDT_NOP} THEN -FDT_ERR_BADSTRUCTURE
      ELSE CASE tag = FDT_BEGIN_NODE /\ depth = 0 ->
                  root_name(fdt_get_name(b, offset).len)
             [] tag = FDT_END_NODE /\ depth = 0 -> -FDT_ERR_BADSTRUCTURE
             [] tag = FDT_END /\ unclosed(depth) -> -FDT_ERR_BADSTRUCTURE
             [] tag = FDT_PROP -> fdt_getprop_by_offset(b, offset).len
             [] OTHER -> 0

depth_after(depth, tag) == CASE tag = FDT_BEGIN_NODE -> depth + 1
                             [] tag = FDT_END_NODE   -> depth - 1
                             [] OTHER                -> depth

check_from(b, walk, offset, depth, expect_end) ==
  LET seen(t, err) ==
        CASE t.next < 0 -> t.next
          [] t.next >= 0 /\ (err < 0 \/ t.tag = FDT_END) -> err
          [] OTHER -> walk[<<t.next, depth_after(depth, t.tag),
                             \/ expect_end
                             \/ t.tag = FDT_END_NODE /\ depth = 1>>]
  IN seen(fdt_next_tag(b, offset),
          refused(b, offset, fdt_next_tag(b, offset).tag, depth, expect_end))

check_structure(b) ==
  LET walk[s \in Int \X Int \X BOOLEAN] == check_from(b, walk, s[1], s[2], s[3])
  IN walk[<<0, 0, FALSE>>]

fdt_check_full(b, bufsize) ==
  IF bufsize < fdt_header_size_(1) \/ bufsize < fdt_header_size(b)
  THEN -FDT_ERR_TRUNCATED
  ELSE unless_error(fdt_check_header(b), LAMBDA ok :
         IF bufsize < b.totalsize THEN -FDT_ERR_TRUNCATED
         ELSE unless_error(fdt_num_mem_rsv(b), LAMBDA n :
                check_structure(b)))
=============================================================================
