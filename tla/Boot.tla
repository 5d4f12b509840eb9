------------------------------- MODULE Boot -------------------------------
(***************************************************************************)
(* Boot, from _start to the first instruction of the user program: bss is  *)
(* cleared, the machine build sets the hart up and drops to supervisor     *)
(* mode, supervisor_main builds the allocator and the page tables, writes  *)
(* satp, installs the trap vector, loads the user program and enters it,   *)
(* or the kernel panics.                                                   *)
(*                                                                         *)
(* One hart runs, so the only choice is the platform it boots on.  A loop  *)
(* makes one step per round: a page mapped, a page of the user program     *)
(* allocated, a byte of it copied; the loop that clears bss one per page.  *)
(***************************************************************************)
EXTENDS Sv39, Sequences

CONSTANTS Platforms,       (* device trees, kernel layouts and user images *)
          Garbage,         (* what RAM may hold before it is written       *)
          DirectMapBase,   (* KERNEL_DIRECT_MAP_BASE                       *)
          UserTextStart,   (* USER_TEXT_START                              *)
          UserStackTop,    (* USER_STACK_TOP                               *)
          UserStackSize,   (* USER_STACK_SIZE                              *)
          StackAlignment   (* the 16 of user_context_init                  *)

VARIABLES hart,       (* privilege mode and machine-mode registers       *)
          platform,   (* PlatformInfo, linker symbols and the user image   *)
          phase,      (* the call that boot has reached                    *)
          allocator,  (* the physical page allocator                       *)
          mem,        (* RAM, a page at a time, as page tables             *)
          bytes,      (* RAM as bytes, for the pages of the user program   *)
          root,       (* PageTable *root, a pointer                        *)
          satp,       (* physical address of the active root, 0 for Bare   *)
          fenced,     (* virtual pages mapped when the last sfence_vma ran *)
          traps,      (* stvec and sscratch are set                        *)
          todo,       (* pages the loop at hand has still to do            *)
          copied,     (* bytes of the image copied                         *)
          context     (* UserContext                                       *)

vars == <<hart, platform, phase, allocator, mem, bytes, root, satp, fenced, traps,
          todo, copied, context>>

RamPages(p) == {f \in Frame : p.ram_base <= f /\ f < p.ram_base + p.ram_size}

Junk == "junk"
PageOf(byte) == [i \in 0 .. PageSize - 1 |-> byte]

NoContext == [sp |-> 0, epc |-> 0, spp |-> "S"]

-----------------------------------------------------------------------------
(* Addresses and pointers.                                                 *)

phys_to_virt(pa) == Add(pa, DirectMapBase)

(* What the hart reaches through a pointer: physical memory before satp is *)
(* written, the walk of the active tables afterwards (external).           *)
Reach(va) ==
  IF satp = 0
  THEN [page |-> align_down(va, PageSize), flags |-> {"V", "R", "W", "X"}]
  ELSE HardwareWalk(mem, satp, vpn(va))

Mapped(m, top) == {t \in Vpns : HardwareWalk(m, top, t) # NoEntry}

-----------------------------------------------------------------------------
(* paging_map_range_early and map_region: the pages they map, in order.    *)

Pages(va, pa, size, flags) ==
  [k \in 1 .. align_up(size, PageSize) \div PageSize |->
     [va |-> Add(va, (k - 1) * PageSize),
      pa |-> Add(pa, (k - 1) * PageSize),
      flags |-> flags]]

Section(s, flags) == Pages(s.start, s.start, s.end - s.start, flags)

(* Mutant: the base of the blob is used as it is.                          *)
dtb_pages_unaligned(p) ==
  LET dtb_page_end == align_up(Add(p.dtb_addr, p.dtb_size), PageSize)
  IN  Pages(p.dtb_addr, p.dtb_addr, dtb_page_end - p.dtb_addr, {"R", "W"})

dtb_pages(p) ==
  LET dtb_page_base == align_down(p.dtb_addr, PageSize)
      dtb_page_end == align_up(Add(p.dtb_addr, p.dtb_size), PageSize)
  IN  Pages(dtb_page_base, dtb_page_base, dtb_page_end - dtb_page_base, {"R", "W"})

(* Mutants of direct_map: the last page left out; open to the user.        *)
direct_map_short(p) ==
  Pages(phys_to_virt(p.ram_base), p.ram_base, p.ram_size - PageSize, {"R", "W"})
direct_map_user(p) ==
  Pages(phys_to_virt(p.ram_base), p.ram_base, p.ram_size, {"R", "W", "U"})

direct_map(p) == Pages(phys_to_virt(p.ram_base), p.ram_base, p.ram_size, {"R", "W"})

kernel_pages(p) ==
  LET uart_page == align_down(p.uart_base, PageSize)
  IN  Section(p.text, {"R", "X"})
      \o Section(p.rodata, {"R"})
      \o Section(p.data, {"R", "W"})
      \o Section(p.bss, {"R", "W"})
      \o Pages(uart_page, uart_page, PageSize, {"R", "W"})
      \o dtb_pages(p)
      \o direct_map(p)

(* process_memory_layout_init for the sizes the loader passes: text of the *)
(* image's size, one page of bss, the stack; no rodata or data.            *)
layout(p) ==
  LET text_size == align_up(Len(p.image), PageSize)
      bss_start == Add(UserTextStart, text_size)
      heap_start == Add(bss_start, align_up(PageSize, PageSize))
      stack_size == IF align_up(UserStackSize, PageSize) = 0 THEN PageSize
                    ELSE align_up(UserStackSize, PageSize)
      stack_top == align_down(UserStackTop, PageSize)
  IN  [ok |-> stack_top - stack_size > heap_start,
       entry |-> UserTextStart,
       text_size |-> text_size,
       bss_start |-> bss_start,
       bss_size |-> heap_start - bss_start,
       stack_start |-> stack_top - stack_size,
       stack_size |-> stack_size,
       stack_top |-> stack_top]

(* map_region takes its physical pages from the allocator: pa is unused.   *)
user_pages(p) ==
  LET l == layout(p)
  IN  Pages(l.entry, 0, l.text_size, {"R", "X", "U"})
      \o Pages(l.bss_start, 0, l.bss_size, {"R", "W", "U"})
      \o Pages(l.stack_start, 0, l.stack_size, {"R", "W", "U"})

-----------------------------------------------------------------------------
(* The linker scripts and Constants.hpp align what they place to pages, a  *)
(* word is a whole number of pages and a page of stack alignments.         *)
ASSUME ConstantsAssumption ==
  /\ WordSize % PageSize = 0
  /\ DirectMapBase \in Frame /\ UserTextStart \in Frame
  /\ UserStackTop \in Word /\ UserStackSize \in Word
  /\ StackAlignment \in Nat \ {0} /\ PageSize % StackAlignment = 0
  /\ Garbage \subseteq PTE

(* A kernel linked into RAM; RAM, kernel and device tree away from the top *)
(* of the word, as physical addresses of 56 bits are.                      *)
ASSUME PlatformAssumption ==
  \A p \in Platforms :
    /\ p.ram_base \in Frame /\ p.ram_size \in Word
    /\ p.dtb_addr \in Word /\ p.dtb_size \in Word
    /\ p.uart_base \in Word
    /\ p.kernel_end \in Word \ {0} /\ p.ram_base <= p.kernel_end
    /\ p.ram_base + p.ram_size + 2 * PageSize <= WordSize
    /\ p.dtb_addr + p.dtb_size + 2 * PageSize <= WordSize
    /\ p.kernel_end + 2 * PageSize <= WordSize
    /\ \A s \in {p.text, p.rodata, p.data, p.bss} :
         /\ s.start \in Frame /\ s.end \in Frame
         /\ s.start <= s.end /\ s.end <= p.kernel_end

(* An image that fits below the stack, at addresses which the tables tell  *)
(* from each other and from the kernel's.                                  *)
ASSUME ImageAssumption ==
  \A p \in Platforms :
    /\ p.image \in Seq(0 .. 255) /\ p.image # << >>
    /\ UserTextStart + Len(p.image) + 2 * PageSize <= WordSize
    /\ layout(p).ok
    /\ \A i, j \in DOMAIN user_pages(p) :
         i # j => vpn(user_pages(p)[i].va) # vpn(user_pages(p)[j].va)
    /\ \A i \in DOMAIN user_pages(p), j \in DOMAIN kernel_pages(p) :
         vpn(user_pages(p)[i].va) # vpn(kernel_pages(p)[j].va)

-----------------------------------------------------------------------------
(* Both builds start like this, one in machine mode after a reset, one in  *)
(* supervisor mode where the firmware leaves it (external).  PMP lets a    *)
(* mode below M reach memory only where an entry allows it.                *)
Reset == [mode |-> "M", mpp |-> "U", mepc |-> "unset", mtvec |-> FALSE,
          medeleg |-> {}, pmpaddr |-> 0, pmpcfg |-> {}]
Firmware == [mode |-> "S", mpp |-> "U", mepc |-> "_start", mtvec |-> TRUE,
             medeleg |-> {0, 3, 8, 12, 13, 15}, pmpaddr |-> WordSize - 1,
             pmpcfg |-> {"R", "W", "X", "TOR"}]

Allowed(h) ==
  h.mode = "M" \/ (h.pmpaddr = WordSize - 1 /\ {"R", "W", "X", "TOR"} \subseteq h.pmpcfg)

(* The linker aligns both ends of bss to pages.                            *)
bss_rounds(p) == Pages(p.bss.start, p.bss.start, p.bss.end - p.bss.start, {})

Init ==
  /\ hart \in {Reset, Firmware}
  /\ platform \in Platforms
  /\ phase = "clear_bss"
  /\ allocator = [current |-> 0, end |-> 0]
  /\ \E pte \in Garbage :
       mem = [f \in RamPages(platform) |-> [i \in Idx |-> pte]]
  /\ bytes = [f \in RamPages(platform) |-> PageOf(Junk)]
  /\ root = nullptr
  /\ satp = 0
  /\ fenced = {}
  /\ traps = FALSE
  /\ todo = bss_rounds(platform)
  /\ copied = 0
  /\ context = NoContext

(* Rounds of clear_bss, one page of them.                                  *)
ClearBss ==
  /\ phase = "clear_bss"
  /\ todo # << >>
  /\ mem' = [mem EXCEPT ![Head(todo).pa] = paging_zero_table]
  /\ bytes' = [bytes EXCEPT ![Head(todo).pa] = PageOf(0)]
  /\ todo' = Tail(todo)
  /\ UNCHANGED <<hart, platform, phase, allocator, root, satp, fenced, traps,
                 copied, context>>

(* dispatch, one function in each build.                                   *)
Dispatch ==
  /\ phase = "clear_bss"
  /\ todo = << >>
  /\ phase' = IF hart.mode = "M" THEN "machine" ELSE "allocator"
  /\ UNCHANGED <<hart, platform, allocator, mem, bytes, root, satp, fenced, traps,
                 todo, copied, context>>

delegate_supervisor_exceptions(h) == [h EXCEPT !.medeleg = {1, 3, 8, 9, 12, 13, 15}]

(* Mutant: the entry is left off.                                          *)
pmp_init_off(h) == [h EXCEPT !.pmpaddr = WordSize - 1]
pmp_init_allow_all(h) ==
  [h EXCEPT !.pmpaddr = WordSize - 1, !.pmpcfg = {"R", "W", "X", "TOR"}]

(* Its mret leaves the mode that mpp names in mode and U in mpp.           *)
enter_supervisor_mode(h) ==
  [h EXCEPT !.mepc = "supervisor_main", !.mode = "S", !.mpp = "U"]

(* machine_main up to the mret.  Nothing can interrupt it, so it is one    *)
(* step.  A hart that may not fetch supervisor_main traps to the machine   *)
(* trap handler, which panics.                                             *)
MachineMain ==
  /\ phase = "machine"
  /\ hart' = enter_supervisor_mode(pmp_init_allow_all(delegate_supervisor_exceptions(
                [hart EXCEPT !.mtvec = TRUE])))
  /\ phase' = IF Allowed(hart') THEN "allocator" ELSE "panic"
  /\ UNCHANGED <<platform, allocator, mem, bytes, root, satp, fenced, traps,
                 todo, copied, context>>

(* A failing call makes supervisor_main or user_task_init panic.           *)
GoOnIf(ok, next) == phase' = IF ok THEN next ELSE "panic"

AllocatorInit ==
  /\ phase = "allocator"
  /\ allocator' = initial_allocator(platform)
  /\ GoOnIf(allocator'.current < allocator'.end, "root")
  /\ UNCHANGED <<hart, platform, mem, bytes, root, satp, fenced, traps, todo, copied, context>>

(* paging_init: the root table, and the ranges it goes on to map.          *)
CreateRoot ==
  /\ phase = "root"
  /\ LET answer == physical_alloc_page(allocator)
     IN  /\ allocator' = answer.allocator
         /\ root' = answer.page
         /\ mem' = IF answer.page = 0 THEN mem
                   ELSE [mem EXCEPT ![answer.page] = paging_zero_table]
         /\ GoOnIf(answer.page # 0, "map")
  /\ todo' = kernel_pages(platform)
  /\ UNCHANGED <<hart, platform, bytes, satp, fenced, traps, copied, context>>

(* One round of paging_map_range_early.                                    *)
MapKernelPage ==
  /\ phase = "map"
  /\ todo # << >>
  /\ LET r == Head(todo)
         w == paging_map(mem, allocator, Reach(root).page, r.va, r.pa, r.flags)
     IN  /\ mem' = w.mem
         /\ allocator' = w.allocator
         /\ GoOnIf(w.ok, "map")
  /\ todo' = Tail(todo)
  /\ UNCHANGED <<hart, platform, bytes, root, satp, fenced, traps, copied, context>>

(* The end of paging_init: satp, the fence, and the root seen through the  *)
(* direct map.                                                             *)
ActivatePaging ==
  /\ phase = "map"
  /\ todo = << >>
  /\ satp' = root
  /\ fenced' = Mapped(mem, root)
  /\ root' = phys_to_virt(root)
  /\ phase' = "traps"
  /\ UNCHANGED <<hart, platform, allocator, mem, bytes, traps, todo, copied, context>>

(* supervisor_traps_init, then process_load_initial_user_program up to its *)
(* first map_region.                                                       *)
TrapsInit ==
  /\ phase = "traps"
  /\ traps' = TRUE
  /\ todo' = user_pages(platform)
  /\ GoOnIf(layout(platform).ok, "load")
  /\ UNCHANGED <<hart, platform, allocator, mem, bytes, root, satp, fenced, copied, context>>

(* One round of map_region.  The new page is cleared through the direct    *)
(* map before it is mapped; a failure does not give it back.               *)
MapUserPage ==
  /\ phase = "load"
  /\ todo # << >>
  /\ LET r == Head(todo)
         answer == physical_alloc_page(allocator)
     IN  IF answer.page = 0
         THEN phase' = "panic" /\ UNCHANGED <<allocator, mem, bytes>>
         ELSE \E cleared \in {Reach(phys_to_virt(answer.page)).page} :
              \E w \in {paging_map([mem EXCEPT ![cleared] = paging_zero_table],
                                   answer.allocator, Reach(root).page,
                                   r.va, answer.page, r.flags)} :
                /\ mem' = w.mem
                /\ allocator' = w.allocator
                /\ bytes' = [bytes EXCEPT ![cleared] = PageOf(0)]
                /\ GoOnIf(w.ok, "load")
  /\ todo' = Tail(todo)
  /\ UNCHANGED <<hart, platform, root, satp, fenced, traps, copied, context>>

(* Mutant: the loop does not advance.                                      *)
next_byte_same == copied
next_byte == copied + 1

(* One round of copy_into_region: the user page is found by paging_query   *)
(* and written through the direct map.                                     *)
CopyByte ==
  /\ phase = "load"
  /\ todo = << >>
  /\ copied < Len(platform.image)
  /\ LET found == paging_query(mem, Reach(root).page,
                               Add(layout(platform).entry, copied))
         target == Reach(phys_to_virt(found.pa)).page
     IN  IF found.ok
         THEN /\ bytes' = [bytes EXCEPT ![target][found.pa % PageSize] =
                                          platform.image[copied + 1]]
              /\ UNCHANGED phase
         ELSE phase' = "panic" /\ UNCHANGED bytes
  /\ copied' = next_byte
  /\ UNCHANGED <<hart, platform, allocator, mem, root, satp, fenced, traps, todo, context>>

(* Mutant: no sfence_vma after the user pages are mapped.                  *)
loader_fence_none == fenced
loader_fence == Mapped(mem, satp)

(* The loader's fence, user_context_init, and the sret of user_enter.      *)
EnterUser ==
  /\ phase = "load"
  /\ todo = << >>
  /\ copied = Len(platform.image)
  /\ fenced' = loader_fence
  /\ context' = [sp |-> align_down(layout(platform).stack_top, StackAlignment),
                 epc |-> layout(platform).entry,
                 spp |-> "U"]
  /\ phase' = "user"
  /\ UNCHANGED <<hart, platform, allocator, mem, bytes, root, satp, traps, todo, copied>>

Next ==
  \/ ClearBss \/ Dispatch \/ MachineMain
  \/ AllocatorInit \/ CreateRoot \/ MapKernelPage \/ ActivatePaging
  \/ TrapsInit \/ MapUserPage \/ CopyByte \/ EnterUser

(* The hart keeps executing instructions.                                  *)
Spec == Init /\ [][Next]_vars /\ WF_vars(Next)

-----------------------------------------------------------------------------
(* Properties.                                                             *)

TypeOK ==
  /\ platform \in Platforms
  /\ hart.mode \in {"M", "S"} /\ hart.medeleg \subseteq 0 .. 15
  /\ phase \in {"clear_bss", "machine", "allocator", "root", "map", "traps", "load", "user", "panic"}
  /\ allocator \in Allocator
  /\ DOMAIN mem = RamPages(platform) /\ DOMAIN bytes = RamPages(platform)
  /\ root \in Word /\ satp \in Frame /\ fenced \subseteq Vpns
  /\ copied \in 0 .. Len(platform.image)

Lies(pte, f, flags) == pte.page = f /\ pte.flags \ {"V", "A", "D"} = flags

(* From the write of satp on, the kernel finds everything where it had it  *)
(* before: its sections at the same addresses with their permissions, the  *)
(* console's registers, and all of RAM, so every page table and every page *)
(* it will ever clear, at phys_to_virt.  However far boot came before it   *)
(* stopped, the tables are a tree of the allocator's pages.                *)
SectionMapped(s, flags) ==
  \A f \in Frame : s.start <= f /\ f < s.end => Lies(Reach(f), f, flags)

KernelStaysMapped ==
  /\ TypeOK
  /\ phase \in {"user", "panic"} =>
       IsTree(mem, allocator, IF satp = 0 THEN root ELSE satp)
  /\ satp # 0 =>
       /\ SectionMapped(platform.text, {"R", "X"})
       /\ SectionMapped(platform.rodata, {"R"})
       /\ SectionMapped(platform.data, {"R", "W"})
       /\ SectionMapped(platform.bss, {"R", "W"})
       /\ Lies(Reach(platform.uart_base),
               align_down(platform.uart_base, PageSize), {"R", "W"})
       /\ \A f \in RamPages(platform) : Lies(Reach(phys_to_virt(f)), f, {"R", "W"})
       /\ root = phys_to_virt(satp)

UserMapped ==
  IF satp = 0 THEN {} ELSE {t \in Vpns : "U" \in HardwareWalk(mem, satp, t).flags}

InKernel(p, f) == f < p.kernel_end
InBlob(p, f) == f + PageSize > p.dtb_addr /\ f < p.dtb_addr + p.dtb_size

(* What the user can reach is private: each of its pages is one of the     *)
(* allocator's, is no page table, holds no part of the kernel or of the    *)
(* device tree, and is mapped at one user address.                         *)
UserPagesPrivate ==
  LET user == UserMapped
      tables == Tables(mem, satp)
      frame(t) == HardwareWalk(mem, satp, t).page
  IN  \A t \in user :
        /\ frame(t) \in RamPages(platform) \ tables
        /\ ~InKernel(platform, frame(t)) /\ ~InBlob(platform, frame(t))
        /\ frame(t) < allocator.current
        /\ \A u \in user \ {t} : frame(u) # frame(t)

UserByte(va) == bytes[Reach(va).page][va % PageSize]

(* What the kernel's static variables hold before it first uses them.      *)
BssCleared ==
  phase \in {"machine", "allocator"} =>
    \A f \in RamPages(platform) :
      platform.bss.start <= f /\ f < platform.bss.end => bytes[f] = PageOf(0)

(* The kernel's variables start as zeros, whatever RAM held at reset.      *)
(* The program the user starts is the image, followed by zeros up to the   *)
(* end of its last page; bss and stack are all zeros: nothing that RAM     *)
(* held before shows through.                                              *)
ImageLoaded ==
  /\ BssCleared
  /\ phase = "user" =>
       LET l == layout(platform)
       IN  /\ \A k \in 0 .. l.text_size - 1 :
                UserByte(l.entry + k) =
                  IF k < Len(platform.image) THEN platform.image[k + 1] ELSE 0
           /\ \A k \in 0 .. l.bss_size - 1 : UserByte(l.bss_start + k) = 0
           /\ \A k \in 0 .. l.stack_size - 1 : UserByte(l.stack_start + k) = 0

(* The first user instruction can be fetched, the first push can be made,  *)
(* neither through a translation younger than the last fence; a system     *)
(* call, a breakpoint or a page fault from there goes to supervisor mode   *)
(* and finds its vector.                                                   *)
UserCanStart ==
  phase = "user" =>
    /\ hart.mode = "S" /\ Allowed(hart) /\ {3, 8, 12, 13, 15} \subseteq hart.medeleg
    /\ context.spp = "U" /\ traps
    /\ Reach(context.epc).flags \cap {"U", "X", "W"} = {"U", "X"}
    /\ Reach(context.sp - 1).flags \cap {"U", "X", "W"} = {"U", "W"}
    /\ \A t \in UserMapped : t \in fenced

(* The kernel and the device tree stay as they were: boot writes only to   *)
(* other pages, but for the kernel's own bss before it has called anything.*)
ReservedMemoryUntouched ==
  [][\A f \in RamPages(platform) :
       \/ mem'[f] = mem[f] /\ bytes'[f] = bytes[f]
       \/ ~InKernel(platform, f) /\ ~InBlob(platform, f)
       \/ phase = "clear_bss" /\ platform.bss.start <= f /\ f < platform.bss.end]_vars

(* Boot gives up only for a reason: memory has run out, or the ranges it   *)
(* was told to map overlap; never because supervisor mode was entered      *)
(* without the right to fetch from memory.                                 *)
Overlap(p) ==
  LET pages == kernel_pages(p)
      vpns == [i \in DOMAIN pages |-> vpn(pages[i].va)]
  IN  \E i, j \in DOMAIN pages : i # j /\ vpns[i] = vpns[j]

PanicsForAReason ==
  phase = "panic" =>
    /\ Allowed(hart)
    /\ ~has_page(allocator) \/ allocator.current >= allocator.end \/ Overlap(platform)

(* Boot comes to an end: no loop runs forever.                             *)
BootEnds == <>(phase \in {"user", "panic"})
=============================================================================
