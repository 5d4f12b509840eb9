----------------------------- MODULE FdtWriter -----------------------------
(***************************************************************************)
(* A program that writes a device tree with fdt_sw.c in a memory that is   *)
(* often too small: calls fail for lack of space, it moves the blob to     *)
(* another, perhaps overlapping, buffer with fdt_resize and goes on.       *)
(***************************************************************************)
EXTENDS FdtSw, DeviceTreeBlob, Programs

CONSTANTS MemorySize,    (* bytes of memory, numbered from 0                 *)
          WriteBuffers,  (* buffers <<address, size>>                        *)
          Entries,       (* reservations <<address, size>>, pairs of cells   *)
          WriteNodes, WriteProps, Values,
          MaxMoves       (* bound: calls of fdt_resize that succeed          *)

(* Sizes are ints.  A name of a property fits where the header lies: the   *)
(* difference in fdt_add_string_ wraps around for longer names.            *)
ASSUME WriterAssumption ==
  /\ MemorySize \in 0 .. INT_MAX
  /\ \A buf \in WriteBuffers :
       buf[1] \in Nat /\ buf[2] \in Nat /\ buf[1] + buf[2] <= MemorySize
  /\ Entries \subseteq (Word \X Word) \X (Word \X Word)
  /\ \A e \in Entries : e[2] # <<0, 0>>
  /\ \A name \in WriteNodes : Len(name) + 4 * Cell <= INT_MAX
  /\ \A name \in WriteProps : Len(name) + 1 <= header_space
  /\ \A val \in Values : val \in Seq(Octet) /\ Len(val) + 4 * Cell <= INT_MAX
  /\ WriteNodes \union WriteProps \subseteq Seq(Octet \ {0})

(* The blob's bytes are all of memory, counted from the blob.               *)
NoBlob == [magic |-> "none", addr |-> 0, off_dt_strings |-> 0,
           bytes |-> [i \in 0 .. MemorySize - 1 |-> 255]]

Stage == CASE b.magic = "none" -> "none"
           [] b.magic = "FDT_MAGIC" -> "complete"
           [] b.magic = "FDT_SW_MAGIC" ->
                IF b.off_dt_strings = 0 THEN "reserve" ELSE "struct"

(* The reservations, the entry of zeros at the end not counted.            *)
Reserved ==
  IF Stage = "none" THEN <<>>
  ELSE LET entries == (b.off_dt_struct - b.off_mem_rsvmap) \div EntrySize
       IN [n \in 1 .. entries - (IF Stage = "reserve" THEN 0 ELSE 1) |->
             <<mem_rsv_address(b, n - 1), mem_rsv_size(b, n - 1)>>]

Written == IF Stage \in {"none", "reserve"} THEN <<>> ELSE Tree(b)

WriterInit == b = NoBlob /\ count = 0

Return(r) == b' = r.b /\ UNCHANGED count

Create ==
  /\ b.magic = "none"
  /\ \E buf \in WriteBuffers, flags \in 0 .. 2 :
       LET at == [b EXCEPT !.bytes = from_there(@, buf[1]), !.addr = buf[1]]
           r  == fdt_create_with_flags(at, buf[2], flags)
       IN Return(IF r.ret < 0 THEN Result(r.ret, b) ELSE r)

Made == b.magic # "none"

Resize ==
  Made /\ \E buf \in WriteBuffers :
    LET r == fdt_resize(b, buf[1] - b.addr, buf[2])
    IN IF r.ret < 0 THEN Return(r)
       ELSE count < MaxMoves /\ b' = r.b /\ count' = count + 1
AddReservemapEntry ==
  Made /\ \E e \in Entries : Return(fdt_add_reservemap_entry(b, e[1], e[2]))
FinishReservemap == Made /\ Return(fdt_finish_reservemap(b))

(* The program writes one root without a name, and ends what it began; it  *)
(* may finish too early.                                                   *)
OpenNodes == Open(Written, Len(Written) + 1)

BeginNode ==
  Made /\ \E name \in WriteNodes :
    /\ (name = <<>>) = (OpenNodes = 0)
    /\ Return(fdt_begin_node(b, name))
EndNode   == Made /\ OpenNodes > 0 /\ Return(fdt_end_node(b))
Property_ ==
  Made /\ \E name \in WriteProps, val \in Values : Return(fdt_property(b, name, val))
Finish == Made /\ Return(fdt_finish(b))

WriterNext ==
  \/ Create \/ Resize \/ AddReservemapEntry \/ FinishReservemap
  \/ BeginNode \/ EndNode \/ Property_ \/ Finish

(* Nobody begins to write in the middle; a finished blob may be taken.     *)
Writing == program = "writer"
Handed  == Stage = "complete" /\ ~Writing'
WriterSpec ==
  /\ Writing => WriterInit
  /\ [][/\ Writing => (WriterNext /\ UNCHANGED program) \/ Handed
        /\ Writing' => Writing]_vars

(***************************************************************************)
(* Properties.                                                             *)
(***************************************************************************)
(* The blocks lie in the buffer and do not run into one another.           *)
BlocksInPlace ==
  Made => /\ headsize(b) + b.size_dt_strings <= b.totalsize
          /\ b.off_mem_rsvmap <= b.off_dt_struct

(* Where the strings of the block start.                                   *)
StringsBase == IF Stage = "complete" THEN b.off_dt_strings
               ELSE b.totalsize - b.size_dt_strings
StringStarts ==
  {p \in StringsBase .. StringsBase + b.size_dt_strings - 1 :
     p = StringsBase \/ Byte(b, p - 1) = 0}

(* A string stays in the strings block only if a property uses it: what a  *)
(* failed fdt_property added is taken back.                                *)
NoStrayStrings ==
  Stage \in {"struct", "complete"} =>
    \A p \in StringStarts :
      \E t \in TagAt(Written, "prop") : Written[t].name = CString(b, p)

(* Unless the flag forbids it, no string is stored twice.                  *)
NamesShared ==
  Stage = "struct" /\ b.last_comp_version = 0 =>
    \A p, q \in StringStarts : CString(b, p) = CString(b, q) => p = q

(* A finished blob passes fdt_check_full whenever the nodes that were      *)
(* begun have been ended and hang from one root without a name, and what   *)
(* was reserved can be read back.  (fdt_check_header takes a blob of       *)
(* INT_MAX bytes, fdt_ro_probe_ does not.)                                 *)
FinishedIsValid ==
  Stage = "complete" =>
    /\ IsTree(Written) /\ b.addr % Alignment8 = 0 /\ b.totalsize < INT_MAX =>
         fdt_check_full(b, b.totalsize) = 0
    /\ b.addr % Alignment8 = 0 => fdt_num_mem_rsv(b) = Len(Reserved)

(* The blocks never run into one another, the strings are those that are   *)
(* used, each of them once, and a finished blob passes fdt_check_full.     *)
WrittenIsValid ==
  Writing => /\ BlocksInPlace /\ NoStrayStrings
             /\ NamesShared /\ FinishedIsValid

(* The writer promises to build a tree.                                    *)
WrittenTokens == {Begin(n) : n \in WriteNodes} \union {End}
                   \union {Prop(n, v) : n \in WriteProps, v \in Values}

Promise == INSTANCE TreeBuilder WITH
             BuilderEntries <- Entries, BuilderTokens <- WrittenTokens,
             stage    <- IF Writing THEN Stage ELSE "none",
             reserved <- IF Writing THEN Reserved ELSE <<>>,
             tree     <- IF Writing THEN Written ELSE <<>>

(* While a blob is written its bytes are a faithful log of the successful  *)
(* calls in their order: calls that fail, moves between overlapping        *)
(* buffers and the relocation of the strings at the end lose and change    *)
(* nothing.                                                                *)
ImplementsBuilder == Promise!BuilderSpec
=============================================================================
