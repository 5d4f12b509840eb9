---------------------------- MODULE PlatformInfo ----------------------------
(***************************************************************************)
(* platform_info_init: what the supervisor kernel learns from the device   *)
(* tree before it does anything else (DTB.cpp).  One step per check and    *)
(* one per round of the two loops over the nodes.                          *)
(*                                                                         *)
(* dtb_init checks the header only, so the loops also run over a structure *)
(* block that makes no sense.  A 64-bit number is a pair of cells.         *)
(***************************************************************************)
EXTENDS FdtRead, DeviceTreeBlob

CONSTANTS Blobs,     (* what the firmware's pointer can point to; a blob at  *)
                     (* address 0 stands for a null pointer                  *)
          Symbols    (* addresses of the linker's symbols                    *)

VARIABLES dtb, g_dtb, phase, node, platform

vars == <<dtb, g_dtb, phase, node, platform>>

Null == [addr |-> 0]
Zero == <<0, 0>>

device_type == <<100>>
reg         == <<114>>
memory      == <<109, 101>>
ns16550     == <<110, 115>>
uart        == <<117, 97>>

(* Mutant: the high word is dropped, as a 32-bit value would.              *)
read_cells_low(b, at, count) == <<0, LoadCell(b, at + (count - 1) * Cell)>>

(* Cells shifted into a 64-bit number: the last two remain.                *)
read_cells(b, at, count) ==
  FoldLeft(LAMBDA value, i : <<value[2], LoadCell(b, at + (i - 1) * Cell)>>,
           Zero, [i \in 1 .. count |-> i])

positive(value) == IF value > 0 THEN value ELSE -1
get_root_addr_cells(b) ==
  positive(fdt_address_cells(b, fdt_path_offset(b, <<Slash>>)))
get_root_size_cells(b) ==
  positive(fdt_size_cells(b, fdt_path_offset(b, <<Slash>>)))

(* The characters at an address are those of a word; the comparison stops  *)
(* at the first that differs and does not look at the value's length.      *)
StartsWith(b, at, word) ==
  LET f[k \in 1 .. Len(word) + 1] ==
        k > Len(word) \/ (Byte(b, at + k - 1) = word[k] /\ f[k + 1])
  IN f[1]

looks_like_uart(b, p) ==
  \E i \in 0 .. p.len - 1 :
    /\ i = 0 \/ Byte(b, p.data + i - 1) = 0
    /\ StartsWith(b, p.data + i, ns16550) \/ StartsWith(b, p.data + i, uart)

is_uart(b, compatible, where, addr_cells) ==
  /\ compatible.len > 0
  /\ looks_like_uart(b, compatible)
  /\ where.len >= addr_cells * Cell

is_memory(b, type) == type.len >= Len(memory) /\ StartsWith(b, type.data, memory)

Done == {"true", "false", "fault"}

Init ==
  /\ dtb \in Blobs
  /\ g_dtb = Null
  /\ phase = "header"
  /\ node = -1
  /\ platform = [dtb_size |-> 0, uart_base |-> Zero, ram_base |-> Zero,
                 ram_size |-> Zero, symbols |-> Zero]

Continue(next) == phase' = next /\ node' = -1

(* The size is read through the pointer before dtb_init has looked at it.  *)
ReadHeader ==
  /\ phase = "header"
  /\ IF dtb.addr = 0
     THEN Continue("fault") /\ UNCHANGED platform
     ELSE Continue("init") /\ platform' = [platform EXCEPT !.dtb_size = dtb.totalsize]
  /\ UNCHANGED <<dtb, g_dtb>>

dtb_init ==
  /\ phase = "init"
  /\ IF fdt_check_header(dtb) # 0
     THEN g_dtb' = Null /\ Continue("false")
     ELSE g_dtb' = dtb /\ Continue("uart")
  /\ UNCHANGED <<dtb, platform>>

(* Mutant: the search begins again at the root.                            *)
advance_restart == fdt_next_node(g_dtb, -1)
advance == fdt_next_node(g_dtb, node)

(* No node is left when the next offset is an error.                       *)
go_on(next) ==
  /\ IF next < 0 THEN Continue("false") ELSE node' = next /\ UNCHANGED phase
  /\ UNCHANGED platform

(* A round of the search for a console: `where' and `compatible' are the  *)
(* node's properties.                                                      *)
uart_round(addr_cells, compatible, where) ==
  CASE node < 0 /\ addr_cells <= 0 -> Continue("false") /\ UNCHANGED platform
    [] node >= 0 /\ is_uart(g_dtb, compatible, where, addr_cells) ->
         /\ platform' = [platform EXCEPT !.uart_base =
                           read_cells(g_dtb, where.data, addr_cells)]
         /\ Continue("memory")
    [] OTHER -> go_on(advance)

(* The first round finds the cells of the root node, each round the next   *)
(* node.                                                                   *)
dtb_get_uart_base ==
  /\ phase = "uart"
  /\ uart_round(get_root_addr_cells(g_dtb),
                fdt_getprop(g_dtb, node, compatible_name),
                fdt_getprop(g_dtb, node, reg))
  /\ UNCHANGED <<dtb, g_dtb>>

(* A round of the search for memory.                                       *)
memory_round(addr_cells, size_cells, type, where) ==
  IF addr_cells <= 0 \/ size_cells <= 0
  THEN Continue("false") /\ UNCHANGED platform
  ELSE IF node < 0 \/ ~is_memory(g_dtb, type) THEN go_on(advance)
  ELSE IF where.len < (addr_cells + size_cells) * Cell
  THEN Continue("false") /\ UNCHANGED platform
  ELSE /\ platform' = [platform EXCEPT
              !.ram_base = read_cells(g_dtb, where.data, addr_cells),
              !.ram_size = read_cells(g_dtb, where.data + addr_cells * Cell,
                                      size_cells)]
       /\ Continue("symbols")

dtb_get_memory_range ==
  /\ phase = "memory"
  /\ memory_round(get_root_addr_cells(g_dtb), get_root_size_cells(g_dtb),
                  fdt_getprop(g_dtb, node, device_type),
                  fdt_getprop(g_dtb, node, reg))
  /\ UNCHANGED <<dtb, g_dtb>>

TakeSymbols ==
  /\ phase = "symbols"
  /\ platform' = [platform EXCEPT !.symbols = Symbols]
  /\ Continue("true")
  /\ UNCHANGED <<dtb, g_dtb>>

(* platform_info_init has returned, or never will.                         *)
Returned == phase \in Done /\ UNCHANGED vars

Next == ReadHeader \/ dtb_init \/ dtb_get_uart_base \/ dtb_get_memory_range
          \/ TakeSymbols \/ Returned

(* The kernel runs on its own hart with interrupts off, so it takes steps  *)
(* until it is done: weak fairness of Next with its ENABLED written out.   *)
(* Only a round of a loop that does not advance could change nothing.      *)
Stuck ==
  phase \in {"uart", "memory"} /\ node >= 0 /\ advance = node
Fairness == \/ []<>(phase \in Done \/ Stuck)
            \/ []<><<TRUE>>_vars

(***************************************************************************)
(* Properties.                                                             *)
(***************************************************************************)
Checked == dtb.addr # 0 /\ fdt_check_full(dtb, Cardinality(DOMAIN dtb.bytes)) = 0
             /\ Tree(dtb) # <<>> /\ Tree(dtb)[1].tag = "begin"

(* The tree's own view: cells of the root, cells of a value, and the nodes *)
(* that describe a console or memory.                                      *)
CellIn(value, i) == value[(i - 1) * Cell + Cell]
                      + 256 * value[(i - 1) * Cell + Cell - 1]
Cells(t, name, default) ==
  LET i == PropertyNamed(t, Root, name)
  IN IF i = 0 THEN default
     ELSE IF Len(t[i].val) = Cell THEN CellIn(t[i].val, 1) ELSE 0
AddrCells(t) == Cells(t, address_cells_name, 2)
SizeCells(t) == Cells(t, size_cells_name, 1)

Value(t, n, name) ==
  LET i == PropertyNamed(t, n, name) IN IF i = 0 THEN <<>> ELSE t[i].val
Number(value, first, count) ==
  <<IF count > 1 THEN CellIn(value, first + count - 2) ELSE 0,
    CellIn(value, first + count - 1)>>
Consoles(t) ==
  {n \in Nodes(t) :
     /\ \E s \in {StringList(Append(Value(t, n, compatible_name), 0))[i] :
                    i \in DOMAIN StringList(Append(Value(t, n, compatible_name), 0))} :
          IsPrefix(ns16550, s) \/ IsPrefix(uart, s)
     /\ Len(Value(t, n, reg)) >= AddrCells(t) * Cell}
Memories(t) == {n \in Nodes(t) : IsPrefix(memory, Value(t, n, device_type))}

Usable(t) ==
  /\ AddrCells(t) \in 1 .. 4 /\ SizeCells(t) \in 1 .. 4
  /\ Consoles(t) # {} /\ Memories(t) # {}
  /\ Len(Value(t, First(Memories(t)), reg)) >= (AddrCells(t) + SizeCells(t)) * Cell

TypeOK ==
  /\ phase \in {"header", "init", "uart", "memory", "symbols"} \union Done
  /\ node = -1 \/ node \in 0 .. INT_MAX
  /\ phase \notin {"header", "init", "false", "fault"} => g_dtb = dtb

(* On a tree that is well formed, platform_info_init succeeds exactly when *)
(* the tree has the nodes it looks for, and the kernel gets the first      *)
(* console and the first memory region of the tree with every bit of their *)
(* addresses.                                                              *)
PlatformIsTheTrees ==
  Checked /\ phase \in {"true", "false"} =>
    LET t == Tree(dtb)
    IN  /\ (phase = "true") = Usable(t)
        /\ phase = "true" =>
             /\ platform.uart_base
                  = Number(Value(t, First(Consoles(t)), reg), 1, AddrCells(t))
             /\ platform.ram_base
                  = Number(Value(t, First(Memories(t)), reg), 1, AddrCells(t))
             /\ platform.ram_size
                  = Number(Value(t, First(Memories(t)), reg), AddrCells(t) + 1,
                           SizeCells(t))

(* The loops end on every blob whose header is good, whatever its          *)
(* structure block holds.                                                  *)
InitEnds == <>(phase \in Done)
=============================================================================
