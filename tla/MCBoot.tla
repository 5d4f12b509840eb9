------------------------------ MODULE MCBoot ------------------------------
(***************************************************************************)
(* Eight entries per table and 2-byte pages: 512 virtual pages, of which   *)
(* the upper half starts at the direct map, and RAM of up to 40 pages from *)
(* page 64.  The platforms differ in the amount of RAM (too little for the *)
(* allocator, for the tables, for the user program, or enough), in where   *)
(* the blob lies (after the kernel, unaligned, inside the kernel, at the   *)
(* top of RAM, outside RAM), and in the size of the user image.            *)
(***************************************************************************)
EXTENDS Boot, TLC

KernelAt(base, bss_pages) ==
  LET at(k) == base + k * PageSize
  IN  [text |-> [start |-> at(0), end |-> at(1)],
       rodata |-> [start |-> at(1), end |-> at(2)],
       data |-> [start |-> at(2), end |-> at(3)],
       bss |-> [start |-> at(3), end |-> at(3 + bss_pages)],
       kernel_end |-> at(3 + bss_pages)]

Board(ram_pages, dtb_addr, dtb_size, bss_pages, image) ==
  KernelAt(130, bss_pages) @@
  [ram_base |-> 128, ram_size |-> ram_pages * 2,
   dtb_addr |-> dtb_addr, dtb_size |-> dtb_size,
   uart_base |-> 33, image |-> image]

Images == { <<1>>, <<1, 2, 3>> }

MCPlatforms ==
  { Board(n, 141, 2, 2, image) : n \in {6, 7, 8, 12, 16, 20, 24, 28, 40}, image \in Images }
    \cup { Board(28, d, 3, 1, <<1, 2, 3>>) : d \in {137, 140, 150, 180, 90} }
    \cup { Board(28, 141, 0, 0, <<1>>) }

(* RAM full of what look like valid leaves, and of valid pointers to the   *)
(* kernel's own first page.                                                *)
MCGarbage == { [page |-> 130, flags |-> {"V", "R", "W", "U"}],
               [page |-> 130, flags |-> {"V"}] }
=============================================================================
