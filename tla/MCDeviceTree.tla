---------------------------- MODULE MCDeviceTree ----------------------------
(* Small trees, with and without deleted tokens, and boards with one and   *)
(* two consoles, with memory before and after them, with one to three      *)
(* cells to an address, with a node or a property missing or too short;    *)
(* each also with single cells of the header or structure overwritten.     *)
EXTENDS DeviceTreeClients

a == <<97>>
b1 == <<98>>
ab == <<97, 98>>
a_1 == <<97, 64, 49>>
al == <<97, 108>>

MCPropNames == {phandle_name, linux_phandle_name, compatible_name, <<112>>, <<104>>}
MCComponents == {a, ab, a_1, al, b1}
MCStrings == {<<120>>, <<120, 121>>, <<121>>}

WalkNames == <<phandle_name, compatible_name, <<112>>, a, linux_phandle_name>>

P(name, val) == <<Prop(name, val)>>
Ph(h) == P(phandle_name, CellBytes(h))

(* Nested and sibling nodes, names that are prefixes of one another, an    *)
(* alias, a string list with and without its last NUL, both spellings of   *)
(* phandle.                                                                *)
WalkTrees ==
  { Node(<<>>, <<>>, <<>>),
    Node(<<>>, P(<<112>>, <<1, 2, 3>>), <<Node(a, Ph(2), <<Node(b1, <<>>, <<>>)>>)>>),
    Node(<<>>, Ph(1), <<Node(ab, Ph(3), <<>>), Node(a, P(<<112>>, <<>>) \o Ph(1), <<>>)>>),
    Node(<<>>, <<>>, <<Node(a_1, P(compatible_name, <<120, 0, 120, 121, 0>>), <<>>),
                       Node(a, <<>>, <<Node(a, P(compatible_name, <<121, 0, 120>>), <<>>)>>)>>),
    Node(<<>>, <<>>, <<Node(a, <<>>, <<Node(b1, <<>>, <<Node(a_1, Ph(2), <<>>)>>)>>),
                       Node(al, P(a, <<47, 97, 47, 98, 0>>), <<>>)>>),
    Node(<<>>, P(linux_phandle_name, CellBytes(2)), <<Node(b1, <<>>, <<>>)>>) }

WalkIntact == {Flatten(t, WalkNames, gap, <<<<1, 2>>>>, 0) : t \in WalkTrees, gap \in 0 .. 1}

WalkDamaged ==
  {[b EXCEPT !.bytes = written(b.bytes, At(b, c * Cell), CellBytes(v))] :
     b \in {Flatten(t, WalkNames, 0, <<>>, 0) : t \in WalkTrees},
     c \in 0 .. 12, v \in {0, 1, 2, 3, 4, 9, 32760, 65530}}

spoilt(b, v) ==
  { [b EXCEPT !.size_dt_struct = v], [b EXCEPT !.totalsize = v],
    [b EXCEPT !.off_dt_strings = v], [b EXCEPT !.off_dt_struct = v],
    [b EXCEPT !.size_dt_strings = v], [b EXCEPT !.off_mem_rsvmap = v],
    [b EXCEPT !.version = v], [b EXCEPT !.addr = v],
    [b EXCEPT !.last_comp_version = v], [b EXCEPT !.magic = "none"],
    [b EXCEPT !.bytes = written(b.bytes, b.totalsize - 1, <<v % 256>>)] }

WalkHeaders ==
  UNION {spoilt(Flatten(CHOOSE t \in WalkTrees : Len(t) = 8, WalkNames, 0, <<>>, 0), v) :
           v \in {0, 2, 16, 18, 24, 28, 65530}}

WalkBlobs == WalkIntact \union WalkDamaged \union WalkHeaders


MCSymbols == <<130, 140>>

(* The names platform_info_init looks for, as PlatformInfo spells them.    *)
device_type == <<100>>
reg         == <<114>>
memory      == <<109, 101>>
ns16550     == <<110, 115>>
uart        == <<117, 97>>

chosen == <<99, 104>>
stdout_path == <<115>>

BoardNames == <<compatible_name, device_type, reg, address_cells_name,
             size_cells_name, stdout_path>>

CellSeq(s) == FlattenSeq([i \in DOMAIN s |-> CellBytes(s[i])])
Root_(ac, sc, kids) ==
  Node(<<>>, P(address_cells_name, CellBytes(ac)) \o P(size_cells_name, CellBytes(sc)), kids)
Serial(name, compatible, cells) ==
  Node(name, P(compatible_name, compatible) \o P(reg, CellSeq(cells)), <<>>)
Memory(type, cells) ==
  Node(<<109>>, P(device_type, type) \o P(reg, CellSeq(cells)), <<>>)
Chosen(path) == Node(chosen, P(stdout_path, path), <<>>)

ns == ns16550 \o <<97, 0>>
board == Root_(2, 1, <<Memory(memory \o <<0>>, <<1, 2, 3>>), Serial(<<117>>, ns, <<7, 8, 9>>)>>)

BoardTrees ==
  { board,
    Root_(1, 1, <<Serial(<<117>>, <<120, 0>> \o uart, <<8>>), Memory(memory, <<2, 3>>)>>),
    Root_(3, 2, <<Node(<<115>>, <<>>, <<Serial(<<117>>, uart, <<6, 7, 8>>)>>),
                  Memory(memory, <<1, 2, 3, 4, 5>>)>>),
    Root_(2, 2, <<Serial(<<117>>, ns, <<7>>), Serial(<<118>>, ns, <<7, 9>>),
                  Memory(memory, <<1, 2, 3, 4>>), Memory(memory, <<5, 6, 7, 8>>)>>),
    Root_(1, 1, <<Chosen(<<47, 118, 0>>), Serial(<<117>>, ns, <<8>>),
                  Serial(<<118>>, ns, <<9>>), Memory(memory, <<2, 3>>)>>),
    Node(<<>>, <<>>, <<Memory(memory, <<1, 2, 3>>), Serial(<<117>>, uart, <<7, 8>>)>>),
    Root_(1, 1, <<Memory(<<109>>, <<4, 5>>), Memory(memory, <<1>>), Memory(memory, <<2, 3>>),
                  Serial(<<117>>, uart, <<8>>)>>),
    Root_(1, 1, <<Memory(<<109>>, <<4, 5>>), Memory(memory, <<2, 3>>),
                  Serial(<<117>>, uart, <<8>>)>>),
    Root_(1, 1, <<Memory(memory, <<2, 3>>), Serial(<<117>>, <<110>>, <<8>>)>>),
    Root_(0, 1, <<Memory(memory, <<3>>), Serial(<<117>>, uart, <<>>)>>),
    Root_(1, 0, <<Memory(memory, <<3>>), Serial(<<117>>, uart, <<8>>)>>),
    Root_(5, 1, <<Memory(memory, <<3>>), Serial(<<117>>, uart, <<8>>)>>),
    Root_(1, 1, <<Serial(<<117>>, uart, <<8>>)>>) }

BoardIntact == {Flatten(t, BoardNames, gap, <<>>, 0) : t \in BoardTrees, gap \in 0 .. 1}

BoardDamaged ==
  LET b == Flatten(board, BoardNames, 0, <<>>, 0)
  IN {[b EXCEPT !.bytes = written(b.bytes, At(b, c * Cell), CellBytes(v))] :
        c \in 0 .. (b.size_dt_struct \div Cell) - 1, v \in {0, 1, 2, 3, 9, 65530}}

BoardHeaders ==
  LET b == Flatten(board, BoardNames, 0, <<>>, 0)
  IN { [b EXCEPT !.magic = "none"], [b EXCEPT !.addr = 0], [b EXCEPT !.addr = 2],
       [b EXCEPT !.totalsize = 16], [b EXCEPT !.size_dt_struct = 65530],
       [b EXCEPT !.last_comp_version = 18] }

BoardBlobs == BoardIntact \union BoardDamaged \union BoardHeaders

MCBlobs == WalkBlobs \union BoardBlobs
=============================================================================
