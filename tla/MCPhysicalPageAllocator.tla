--------------------- MODULE MCPhysicalPageAllocator ---------------------
(***************************************************************************)
(* A 32-byte address space of 4-byte pages: every placement of a kernel    *)
(* image end and of a blob, aligned or not, around RAM of every size.      *)
(***************************************************************************)
EXTENDS PhysicalPageAllocator

MCPlatforms ==
  { p \in [ram_base : {4, 5, 8}, ram_size : 0..16,
           dtb_addr : {0, 3, 9, 16}, dtb_size : {0, 1, 4, 6},
           kernel_end : {4, 7, 8, 10, 13}] :
      p.ram_base + p.ram_size <= 24 }
=============================================================================
