-------------------------------- MODULE Fdt --------------------------------
(***************************************************************************)
(* The flattened device tree as libfdt reads it: the header, the cells of  *)
(* the structure block and the steps over them (fdt.c).                    *)
(*                                                                         *)
(* A blob is a record of the header's fields and the bytes of the buffer   *)
(* it lies in, numbered from 0 as the code's offsets are.  A cell has Cell *)
(* bytes (4 in the kernel) and offsets are unsigned words of one cell, so  *)
(* that sums wrap where the code's uint32_t sums do.  The bytes where the  *)
(* header itself lies are not used.  FDT_ASSUME_MASK is 0 in this          *)
(* repository: every can_assume() is false and every check is made.        *)
(*                                                                         *)
(* A function that returns a negative error code in the code returns the   *)
(* same number here.                                                       *)
(***************************************************************************)
EXTENDS Integers, Sequences, FiniteSets

CONSTANT Cell   (* bytes of a cell, sizeof(fdt32_t)                        *)

ASSUME CellAssumption == Cell \in {2, 4}

FDT_ERR_NOTFOUND     == 1
FDT_ERR_EXISTS       == 2
FDT_ERR_NOSPACE      == 3
FDT_ERR_BADOFFSET    == 4
FDT_ERR_BADPATH      == 5
FDT_ERR_BADPHANDLE   == 6
FDT_ERR_BADSTATE     == 7
FDT_ERR_TRUNCATED    == 8
FDT_ERR_BADMAGIC     == 9
FDT_ERR_BADVERSION   == 10
FDT_ERR_BADSTRUCTURE == 11
FDT_ERR_BADLAYOUT    == 12
FDT_ERR_INTERNAL     == 13
FDT_ERR_BADNCELLS    == 14
FDT_ERR_BADVALUE     == 15
FDT_ERR_BADOVERLAY   == 16
FDT_ERR_NOPHANDLES   == 17
FDT_ERR_BADFLAGS     == 18
FDT_ERR_ALIGNMENT    == 19

FDT_BEGIN_NODE == 1
FDT_END_NODE   == 2
FDT_PROP       == 3
FDT_NOP        == 4
FDT_END        == 9

FDT_FIRST_SUPPORTED_VERSION == 2
FDT_LAST_SUPPORTED_VERSION  == 17

WordSize   == IF Cell = 2 THEN 256 * 256 ELSE 256 * 256 * 256 * 256
INT_MAX    == (WordSize \div 2) - 1
Wrap(x)    == x % WordSize
Alignment8 == 2 * Cell   (* sizeof(uint64_t)                               *)
EntrySize  == 4 * Cell   (* sizeof(struct fdt_reserve_entry)               *)

FDT_ALIGN(x, a) == ((x + a - 1) \div a) * a
FDT_TAGALIGN(x) == FDT_ALIGN(x, Cell)

(* What may lie in a memory, the addresses of which count from the blob,   *)
(* whatever its header says: "none" is any other number where the magic    *)
(* number belongs.                                                         *)
Magics == {"FDT_MAGIC", "FDT_SW_MAGIC", "none"}
Word == 0 .. WordSize - 1
Octet == 0 .. 255
BlobsOver(memory) ==
  [magic : Magics, addr : Int, totalsize : Word, version : Word,
   last_comp_version : Word, off_mem_rsvmap : Word, off_dt_struct : Word,
   size_dt_struct : Word, off_dt_strings : Word, size_dt_strings : Word,
   bytes : [memory -> Octet]]
(* The blobs that lie in it as far as their size goes.                     *)
BlobsIn(memory) == {b \in BlobsOver(memory) : 0 .. b.totalsize - 1 \subseteq memory}
(* Where b is.                                                             *)
MemoryOf(b) == DOMAIN b.bytes

Byte(b, offset) == b.bytes[offset]

(* The bytes of a cell, and a cell read as a signed int.                   *)
CellBytes(value) ==
  LET byte(v) == v % 256
      up(v)   == v \div 256
  IN IF Cell = 2 THEN <<byte(up(value)), byte(value)>>
     ELSE <<byte(up(up(up(value)))), byte(up(up(value))), byte(up(value)), byte(value)>>

Signed(value) == IF value > INT_MAX THEN value - WordSize ELSE value

(* n bytes of the blob, as a sequence.                                     *)
Bytes(b, offset, n) == [i \in 1 .. n |-> Byte(b, offset + i - 1)]

(* fdt32_ld: a big-endian cell at an offset of the blob.                   *)
CellOf(s) == IF Cell = 2 THEN 256 * s[1] + s[2]
             ELSE 256 * (256 * (256 * s[1] + s[2]) + s[3]) + s[4]
LoadCell(b, offset) == CellOf(Bytes(b, offset, Cell))

(* The string that starts at a byte of the blob, without its NUL.          *)
CString(b, at) ==
  LET nul == CHOOSE p \in at .. at + b.totalsize :
               Byte(b, p) = 0 /\ \A q \in at .. p - 1 : Byte(b, q) # 0
  IN Bytes(b, at, nul - at)

(***************************************************************************)
(* The header.                                                             *)
(***************************************************************************)
fdt_ro_probe_(b) ==
  IF b.addr % Alignment8 # 0 THEN -FDT_ERR_ALIGNMENT
  ELSE IF b.magic = "FDT_MAGIC" /\ \/ b.version < FDT_FIRST_SUPPORTED_VERSION
                                   \/ b.last_comp_version > FDT_LAST_SUPPORTED_VERSION
       THEN -FDT_ERR_BADVERSION
  ELSE IF b.magic = "FDT_SW_MAGIC" /\ b.size_dt_struct = 0
       THEN -FDT_ERR_BADSTATE
  ELSE IF b.magic \notin {"FDT_MAGIC", "FDT_SW_MAGIC"} THEN -FDT_ERR_BADMAGIC
  ELSE IF b.totalsize < INT_MAX THEN b.totalsize ELSE -FDT_ERR_TRUNCATED

check_off_(hdrsize, totalsize, off) == hdrsize <= off /\ off <= totalsize

check_block_(hdrsize, totalsize, base, size) ==
  /\ check_off_(hdrsize, totalsize, base)
  /\ Wrap(base + size) >= base
  /\ check_off_(hdrsize, totalsize, Wrap(base + size))

fdt_header_size_(version) ==
  Cell * (CASE version <= 1  -> 7
            [] version = 2   -> 8
            [] version \in 3 .. 16 -> 9
            [] OTHER         -> 10)

fdt_header_size(b) == fdt_header_size_(b.version)

fdt_check_header(b) ==
  LET hdrsize == fdt_header_size(b)
      structure_inside ==
        IF b.version < 17
        THEN check_off_(hdrsize, b.totalsize, b.off_dt_struct)
        ELSE check_block_(hdrsize, b.totalsize, b.off_dt_struct,
                          b.size_dt_struct)
  IN  IF b.addr % Alignment8 # 0 THEN -FDT_ERR_ALIGNMENT
      ELSE IF b.magic # "FDT_MAGIC" THEN -FDT_ERR_BADMAGIC
      ELSE IF \/ b.version < FDT_FIRST_SUPPORTED_VERSION
              \/ b.last_comp_version > FDT_LAST_SUPPORTED_VERSION
              \/ b.version < b.last_comp_version THEN -FDT_ERR_BADVERSION
      ELSE IF b.totalsize < hdrsize \/ b.totalsize > INT_MAX
           THEN -FDT_ERR_TRUNCATED
      ELSE IF b.off_mem_rsvmap % Alignment8 # 0 \/ b.off_dt_struct % Cell # 0
           THEN -FDT_ERR_ALIGNMENT
      ELSE IF /\ check_off_(hdrsize, b.totalsize, b.off_mem_rsvmap)
              /\ structure_inside
              /\ check_block_(hdrsize, b.totalsize, b.off_dt_strings,
                              b.size_dt_strings)
           THEN 0 ELSE -FDT_ERR_TRUNCATED

(***************************************************************************)
(* The structure block.  Offsets are relative to its start.                *)
(***************************************************************************)

(* len bytes from `start' on lie below `end', and the sum does not wrap.   *)
Span(start, len, end) ==
  LET inside(stop) == start <= stop /\ stop <= end IN inside(Wrap(start + len))

(* fdt_offset_ptr(b, offset, len) # NULL.                                  *)
fdt_offset_ptr(b, offset, len) ==
  /\ offset >= 0
  /\ Wrap(offset + b.off_dt_struct) >= offset
  /\ Span(Wrap(offset + b.off_dt_struct), len, b.totalsize)
  /\ b.version >= 17 => Span(offset, len, b.size_dt_struct)

At(b, offset) == b.off_dt_struct + offset
StructCell(b, offset) == LoadCell(b, At(b, offset))

(* Where the scan over a name stops: past its NUL, or -1 when the block    *)
(* ends first.                                                             *)
name_end(b, offset) ==
  LET f[p \in offset .. offset + b.totalsize + 1] ==
        IF ~fdt_offset_ptr(b, p, 1) THEN -1
        ELSE IF Byte(b, At(b, p)) = 0 THEN p + 1 ELSE f[p + 1]
  IN f[offset]

(* Past a property whose tag has been read: its length, its name's offset, *)
(* its value.                                                              *)
property_end(b, offset) ==
  IF ~fdt_offset_ptr(b, offset, Cell) THEN -1
  ELSE LET past(len, sum) == IF INT_MAX <= sum \/ sum < offset THEN -1
                             ELSE offset + 2 * Cell + len
       IN past(StructCell(b, offset), Wrap(StructCell(b, offset) + offset))

(* Where what belongs to a tag ends, or -1.                                *)
tag_end(b, tag, offset) ==
  CASE tag = FDT_BEGIN_NODE -> name_end(b, offset)
    [] tag = FDT_PROP -> property_end(b, offset)
    [] tag \in {FDT_END, FDT_END_NODE, FDT_NOP} -> offset
    [] OTHER -> -1

no_tag(err) == [tag |-> FDT_END, next |-> -err]

tag_up_to(b, startoffset, tag, end) ==
  IF end < 0 \/ ~fdt_offset_ptr(b, startoffset, end - startoffset)
  THEN no_tag(FDT_ERR_BADSTRUCTURE)
  ELSE [tag |-> tag, next |-> FDT_TAGALIGN(end)]

read_tag(b, startoffset, tag) ==
  tag_up_to(b, startoffset, tag, tag_end(b, tag, startoffset + Cell))

(* The tag at an offset and the offset of the next one, or FDT_END and an  *)
(* error.  Versions below 16 align the values of properties differently;   *)
(* no blob of the model has one.                                           *)
fdt_next_tag(b, startoffset) ==
  IF ~fdt_offset_ptr(b, startoffset, Cell) THEN no_tag(FDT_ERR_TRUNCATED)
  ELSE read_tag(b, startoffset, StructCell(b, startoffset))

(* The offset past the tag at an offset that must be a `tag', or an error. *)
check_offset(b, offset, tag) ==
  LET expected(t) == IF t.tag = tag THEN t.next ELSE -FDT_ERR_BADOFFSET
  IN  IF offset < 0 \/ offset % Cell # 0 THEN -FDT_ERR_BADOFFSET
      ELSE expected(fdt_next_tag(b, offset))

fdt_check_node_offset_(b, offset) == check_offset(b, offset, FDT_BEGIN_NODE)
fdt_check_prop_offset_(b, offset) == check_offset(b, offset, FDT_PROP)

(* The first offset of strtab (tabsize bytes at an offset of the blob)     *)
(* where the string s stands with its NUL, or -1.  Any suffix of a longer  *)
(* string will do.                                                         *)
fdt_find_string_len_(b, strtab, tabsize, s) ==
  LET last == tabsize - (Len(s) + 1)
      found(p) == Bytes(b, strtab + p, Len(s) + 1) = Append(s, 0)
      hits == {p \in 0 .. last : found(p)}
  IN  IF hits = {} THEN -1 ELSE CHOOSE p \in hits : \A q \in hits : p <= q

(* Memory after a memmove of n bytes.                                      *)
moved(bytes, to, from, n) ==
  [i \in DOMAIN bytes |->
     IF i >= to /\ i < to + n THEN bytes[from + (i - to)] ELSE bytes[i]]

(* Memory after a sequence of bytes has been written at an offset.         *)
written(bytes, to, s) ==
  [i \in DOMAIN bytes |->
     IF i >= to /\ i < to + Len(s) THEN s[i - to + 1] ELSE bytes[i]]

(* fdt_move: the blob in a buffer of bufsize bytes, or an error.  `rest'   *)
(* is what the buffer holds past the blob.                                 *)
fdt_move(b, bufsize) ==
  IF bufsize < 0 THEN -FDT_ERR_NOSPACE
  ELSE IF fdt_ro_probe_(b) < 0 THEN fdt_ro_probe_(b)
  ELSE IF b.totalsize > bufsize THEN -FDT_ERR_NOSPACE ELSE 0
=============================================================================
