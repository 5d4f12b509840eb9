-------------------------- MODULE DeviceTreeBlob --------------------------
(***************************************************************************)
(* Between trees and blobs: the flattening of a tree, as a device tree     *)
(* compiler writes it, and the tree that a blob holds.  Blobs are laid out *)
(* as the flattened format asks (header, reservations, structure, strings) *)
(* and have version 17.                                                    *)
(***************************************************************************)
EXTENDS Fdt, DeviceTree

Zeros(n)  == [i \in 1 .. n |-> 0]
Padded(s) == s \o Zeros(FDT_TAGALIGN(Len(s)) - Len(s))

(* A strings block for a sequence of names and the offset of each.         *)
StringsBlock(names) ==
  FlattenSeq([i \in DOMAIN names |-> Append(names[i], 0)])

NameOffset(names, name) ==
  LET i == SelectInSeq(names, LAMBDA s : s = name)
  IN Len(StringsBlock(SubSeq(names, 1, i - 1)))

(* The bytes of a token; gap tokens FDT_NOP before each property and each  *)
(* end stand for what has been deleted in place.                           *)
TokenBytes(t, names, gap) ==
  LET nops == FlattenSeq([i \in 1 .. gap |-> CellBytes(FDT_NOP)])
  IN  CASE t.tag = "begin" -> CellBytes(FDT_BEGIN_NODE) \o Padded(Append(t.name, 0))
        [] t.tag = "end"   -> nops \o CellBytes(FDT_END_NODE)
        [] t.tag = "prop"  -> nops \o CellBytes(FDT_PROP) \o CellBytes(Len(t.val))
                                \o CellBytes(NameOffset(names, t.name))
                                \o Padded(t.val)

StructBlock(tree, names, gap) ==
  FlattenSeq([i \in DOMAIN tree |-> TokenBytes(tree[i], names, gap)])
    \o CellBytes(FDT_END)

(* A reservation block of entries <<address, size>>, each below one cell.  *)
ReserveBlock(entries) ==
  FlattenSeq([i \in DOMAIN entries |->
                CellBytes(0) \o CellBytes(entries[i][1])
                  \o CellBytes(0) \o CellBytes(entries[i][2])])
    \o Zeros(EntrySize)

(* The names of the properties of a tree, each once.                      *)
NamesIn(t) == SetToSeq({t[i].name : i \in TagAt(t, "prop")})

(* The blob of a tree in a buffer with `room' bytes after it.              *)
Flatten(tree, names, gap, entries, room) ==
  LET header  == FDT_ALIGN(fdt_header_size_(17), Alignment8)
      reserve == ReserveBlock(entries)
      struct  == StructBlock(tree, names, gap)
      strings == StringsBlock(names)
      all     == Zeros(header) \o reserve \o struct \o strings
  IN  [magic |-> "FDT_MAGIC", totalsize |-> Len(all),
       off_mem_rsvmap |-> header, off_dt_struct |-> header + Len(reserve),
       off_dt_strings |-> header + Len(reserve) + Len(struct),
       version |-> 17, last_comp_version |-> 16,
       size_dt_strings |-> Len(strings), size_dt_struct |-> Len(struct),
       addr |-> Alignment8,
       bytes |-> [i \in 0 .. Len(all) + room - 1 |->
                    IF i < Len(all) THEN all[i + 1] ELSE 0]]

(***************************************************************************)
(* The tree a blob holds.                                                  *)
(***************************************************************************)
(* Where the structure block ends; version 16 does not say.                *)
StructStop(b) ==
  IF b.version < 17 THEN b.totalsize ELSE b.off_dt_struct + b.size_dt_struct

(* A string starts there and ends before `end'.                            *)
HasString(b, at, end) == at >= 0 /\ \E q \in at .. end - 1 : Byte(b, q) = 0

Token(b, p, tag, name, val) ==
  <<[tag |-> tag, name |-> name, val |-> val, at |-> p - b.off_dt_struct]>>
Bad(b) == Token(b, b.off_dt_struct, "bad", <<>>, <<>>)

(* What the block holds from p on, given what it holds from any later      *)
(* place on.                                                               *)
BeginFrom(b, later, p, name) ==
  Token(b, p, "begin", name, <<>>) \o later[p + Cell + FDT_TAGALIGN(Len(name) + 1)]

PropFrom(b, later, p, len, name) ==
  IF p + 3 * Cell + len > StructStop(b) \/ ~HasString(b, name, b.totalsize) THEN Bad(b)
  ELSE Token(b, p, "prop", CString(b, name), Bytes(b, p + 3 * Cell, len))
         \o later[p + 3 * Cell + FDT_TAGALIGN(len)]

TagFrom(b, later, p, tag) ==
  CASE tag = FDT_END -> <<>>
    [] tag = FDT_NOP -> later[p + Cell]
    [] tag = FDT_BEGIN_NODE ->
         IF HasString(b, p + Cell, StructStop(b))
         THEN BeginFrom(b, later, p, CString(b, p + Cell)) ELSE Bad(b)
    [] tag = FDT_END_NODE -> Token(b, p, "end", <<>>, <<>>) \o later[p + Cell]
    [] tag = FDT_PROP ->
         IF p + 3 * Cell > StructStop(b) THEN Bad(b)
         ELSE PropFrom(b, later, p, LoadCell(b, p + Cell),
                       b.off_dt_strings + Signed(LoadCell(b, p + 2 * Cell)))
    [] OTHER -> Bad(b)

TokensFrom(b, later, p) ==
  IF b.magic = "FDT_SW_MAGIC" /\ p = StructStop(b) THEN <<>>
  ELSE IF p + Cell > StructStop(b) THEN Bad(b)
  ELSE TagFrom(b, later, p, LoadCell(b, p))

(* The tokens with their offsets in the structure block, NOPs left out;    *)
(* "bad" ends what cannot be read.  A blob under construction has no       *)
(* FDT_END yet and names its properties by negative offsets.               *)
Tokens(b) ==
  LET from[p \in Nat] == TokensFrom(b, from, p) IN from[b.off_dt_struct]

Contents_(ts) ==
  [i \in DOMAIN ts |-> [tag |-> ts[i].tag, name |-> ts[i].name, val |-> ts[i].val]]

Tree(b) == Contents_(Tokens(b))

(* The offset of a token of the tree, and the token at an offset.          *)
OffsetOf(b, i) == Tokens(b)[i].at
TokenAt(b, offset) == CHOOSE i \in DOMAIN Tokens(b) : Tokens(b)[i].at = offset
=============================================================================
