------------------------- MODULE PhysicalMemory -------------------------
(***************************************************************************)
(* Addresses, alignment and the bump allocator of physical pages, as       *)
(* operators on values: PhysicalPageAllocator and PageTables build their   *)
(* state machines on them.                                                 *)
(*                                                                         *)
(* The kernel's addresses are uint64_t, so every sum is taken modulo       *)
(* WordSize (2^64 in the kernel).  PageSize is 4096 in the kernel; the     *)
(* model keeps addresses in bytes so that unaligned inputs exist.          *)
(***************************************************************************)
EXTENDS Integers

CONSTANTS PageSize,  (* bytes in a page                                    *)
          WordSize   (* number of values of a uint64_t                     *)

ASSUME SizeAssumption ==
  /\ PageSize \in Nat \ {0}
  /\ WordSize \in Nat
  /\ PageSize < WordSize

Word == 0 .. WordSize - 1

Add(a, b) == (a + b) % WordSize

(* The code rounds with the mask ~(alignment - 1); alignment is always the *)
(* power of two 4096, for which clearing the low bits is subtracting the   *)
(* remainder.                                                              *)
align_down(value, alignment) == value - (value % alignment)

align_up(value, alignment) == align_down(Add(value, alignment - 1), alignment)

is_page_aligned(address) == address % PageSize = 0

max_u64(a, b) == IF a > b THEN a ELSE b

Frame == {a \in Word : is_page_aligned(a)}

(***************************************************************************)
(* struct PhysicalPageAllocator: the next byte never handed out, and the   *)
(* first byte after RAM.                                                   *)
(***************************************************************************)
Allocator == [current : Word, end : Word]

(* Mutant: the device tree blob is forgotten.                              *)
reserved_end_kernel(platform) == platform.kernel_end

(* First byte after everything the allocator must never hand out: the      *)
(* kernel image and the device tree blob.                                  *)
reserved_end(platform) ==
  max_u64(platform.kernel_end, Add(platform.dtb_addr, platform.dtb_size))

initial_allocator(platform) ==
  [current |-> align_up(reserved_end(platform), PageSize),
   end     |-> Add(platform.ram_base, platform.ram_size)]

(* The page physical_alloc_page returns, 0 when it has none left, and the  *)
(* allocator it leaves behind.                                             *)
next_page(allocator) == align_up(allocator.current, PageSize)

(* Mutant: the last page of RAM is refused.                                *)
has_page_strict(allocator) == Add(next_page(allocator), PageSize) < allocator.end

has_page(allocator) == Add(next_page(allocator), PageSize) <= allocator.end

(* Mutants of physical_alloc_page: no end check, the page not taken, the   *)
(* allocator advanced before the check.                                    *)
physical_alloc_page_unchecked(allocator) ==
  [page |-> next_page(allocator),
   allocator |-> [allocator EXCEPT !.current = next_page(allocator) + PageSize]]

physical_alloc_page_kept(allocator) ==
  [page |-> IF has_page(allocator) THEN next_page(allocator) ELSE 0,
   allocator |-> allocator]

physical_alloc_page_early(allocator) ==
  [page |-> IF has_page(allocator) THEN next_page(allocator) ELSE 0,
   allocator |-> [allocator EXCEPT !.current =
                                     Add(next_page(allocator), PageSize)]]

physical_alloc_page(allocator) ==
  IF has_page(allocator)
  THEN [page |-> next_page(allocator),
        allocator |-> [allocator EXCEPT !.current =
                                          Add(next_page(allocator), PageSize)]]
  ELSE [page |-> 0, allocator |-> allocator]
=========================================================================
