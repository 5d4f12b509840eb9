---------------------- MODULE PhysicalPageAllocator ----------------------
(***************************************************************************)
(* The physical page allocator as the kernel uses it: initialised once     *)
(* from the platform description, then asked for one page at a time and    *)
(* never given one back.                                                   *)
(***************************************************************************)
EXTENDS PhysicalMemory

CONSTANT Platforms   (* the platform descriptions the kernel may boot on   *)

(* Physical addresses have at most 56 bits on Sv39 hardware, so neither    *)
(* RAM nor the reserved region comes near the top of a 64-bit word, and    *)
(* the kernel image does not end at address 0.                             *)
ASSUME PlatformAssumption ==
  \A p \in Platforms :
    /\ p.ram_base \in Word /\ p.ram_size \in Word
    /\ p.dtb_addr \in Word /\ p.dtb_size \in Word
    /\ p.kernel_end \in Word \ {0}
    /\ p.ram_base + p.ram_size + 2 * PageSize <= WordSize
    /\ p.dtb_addr + p.dtb_size + 2 * PageSize <= WordSize
    /\ p.kernel_end + 2 * PageSize <= WordSize

VARIABLES platform,   (* the PlatformInfo read from the device tree        *)
          allocator,  (* struct PhysicalPageAllocator                      *)
          phase,      (* "start", "ready", or "panic" after a failed init  *)
          page,       (* what the last physical_alloc_page returned        *)
          given,      (* history: every page handed out                    *)
          parity      (* of the number of calls: each call is a step       *)

vars == <<platform, allocator, phase, page, given, parity>>

NotCalled == WordSize   (* value of page before the first call             *)

Init ==
  /\ platform \in Platforms
  /\ allocator = [current |-> 0, end |-> 0]
  /\ phase = "start"
  /\ page = NotCalled
  /\ given = {}
  /\ parity = 0

(* physical_page_allocator_init; supervisor_main panics when it fails.     *)
AllocatorInit ==
  /\ phase = "start"
  /\ allocator' = initial_allocator(platform)
  /\ phase' = IF allocator'.current >= allocator'.end THEN "panic" ELSE "ready"
  /\ UNCHANGED <<platform, page, given, parity>>

AllocPage ==
  /\ phase = "ready"
  /\ LET answer == physical_alloc_page(allocator)
     IN  /\ page' = answer.page
         /\ allocator' = answer.allocator
         /\ given' = IF answer.page = 0 THEN given ELSE given \cup {answer.page}
  /\ parity' = 1 - parity
  /\ UNCHANGED <<platform, phase>>

Next == AllocatorInit \/ AllocPage

Spec == Init /\ [][Next]_vars

-----------------------------------------------------------------------------
TypeOK ==
  /\ platform \in Platforms
  /\ allocator \in Allocator
  /\ phase \in {"start", "ready", "panic"}
  /\ page \in Word \cup {NotCalled}
  /\ given \subseteq Word
  /\ parity \in {0, 1}

dtb_end == platform.dtb_addr + platform.dtb_size
ram_end == platform.ram_base + platform.ram_size

(* No page handed out overlaps the kernel image, the device tree blob or   *)
(* the world past RAM, and each starts on a page boundary: the reserved    *)
(* bound, the rounding and the end test of physical_alloc_page together.   *)
GivenPagesUsable ==
  \A p \in given :
    /\ is_page_aligned(p)
    /\ p >= platform.kernel_end /\ p >= dtb_end
    /\ p + PageSize <= ram_end

(* physical_alloc_page never hands out a page a second time, nor one that  *)
(* overlaps an earlier one.                                                *)
NeverTwice ==
  [][AllocPage /\ page' # 0 =>
       \A p \in given : p + PageSize <= page']_vars

(* The allocator reports exhaustion (0) only when every whole page between *)
(* the reserved region and the end of RAM has been handed out: it leaks    *)
(* none.                                                                   *)
FailsOnlyWhenFull ==
  page = 0 =>
    \A p \in Frame :
      (p >= platform.kernel_end /\ p >= dtb_end /\ p + PageSize <= ram_end)
        => p \in given

(* Exhaustion is final: a kernel that saw one allocation fail never sees a *)
(* later one succeed.                                                      *)
ExhaustedForGood == [][page = 0 => page' = 0]_vars
=============================================================================
