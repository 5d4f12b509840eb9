---------------------------- MODULE PageTables ----------------------------
(***************************************************************************)
(* The page tables as their callers use them: a root is created, then      *)
(* pages are mapped one at a time, in any order, until memory runs out and *)
(* after it has.                                                           *)
(***************************************************************************)
EXTENDS Sv39

CONSTANTS Garbage,     (* what RAM may hold before it is first written     *)
          Allocators,  (* allocators the tables may be built from          *)
          Requests     (* map requests: [va, pa, flags]                    *)

ASSUME PageTableAssumption ==
  /\ Garbage \subseteq PTE
  /\ \A a \in Allocators :
       /\ a \in Allocator
       /\ is_page_aligned(a.current) /\ a.current # 0 /\ a.current <= a.end
       /\ a.end + 2 * PageSize <= WordSize
  /\ \A r \in Requests :
       /\ r.va \in Word /\ r.pa \in Word
       /\ r.flags \subseteq Flags /\ r.flags \cap Permissions # {}

VARIABLES allocator,   (* the physical page allocator                      *)
          mem,         (* physical memory, a page at a time                *)
          root,        (* the root table, 0 for nullptr                    *)
          result       (* what the last map request returned               *)

vars == <<allocator, mem, root, result>>

-----------------------------------------------------------------------------
(* The callers: paging_init and map_region make one call at a time.        *)

Init ==
  /\ allocator \in Allocators
  /\ \E pte \in Garbage : mem = [f \in Frame |-> [i \in Idx |-> pte]]
  /\ root = nullptr
  /\ result = "none"

(* paging_create_root_table                                                *)
CreateRoot ==
  /\ root = nullptr
  /\ LET answer == physical_alloc_page(allocator)
     IN  /\ root' = answer.page
         /\ allocator' = answer.allocator
         /\ mem' = IF answer.page = 0 THEN mem
                   ELSE [mem EXCEPT ![answer.page] = paging_zero_table]
  /\ UNCHANGED result

Answer(w) ==
  /\ mem' = w.mem
  /\ allocator' = w.allocator
  /\ result' = IF w.ok THEN "mapped" ELSE "refused"

(* One call of paging_map (or paging_map_early).                           *)
MapPage(r) ==
  /\ Answer(paging_map(mem, allocator, root, r.va, r.pa, r.flags))
  /\ UNCHANGED root

(* One round of map_region's loop: a fresh page, zeroed, then mapped.  The *)
(* page is not given back when paging_map fails.                           *)
MapFreshPage(va, flags) ==
  /\ root # nullptr
  /\ LET answer == physical_alloc_page(allocator)
         zeroed == [mem EXCEPT ![answer.page] = paging_zero_table]
     IN  IF answer.page = 0
         THEN result' = "refused" /\ UNCHANGED <<mem, allocator>>
         ELSE Answer(paging_map(zeroed, answer.allocator, root, va, answer.page, flags))
  /\ UNCHANGED root

Next ==
  \/ CreateRoot
  \/ \E r \in Requests : MapPage(r)
  \/ \E r \in Requests : MapFreshPage(r.va, r.flags)

Spec == Init /\ [][Next]_vars

-----------------------------------------------------------------------------
(* Properties.                                                             *)

TypeOK ==
  /\ allocator \in Allocator
  /\ mem \in [Frame -> PageTable]
  /\ root \in Frame
  /\ result \in {"none", "mapped", "refused"}

(* The page tables are a well-formed tree, whatever the memory held before *)
(* and wherever a request failed half way (a level allocated, the next one *)
(* not).                                                                   *)
TreeInv == IsTree(mem, allocator, root)

(* A request writes only to tables and to pages taken from the allocator   *)
(* in that very request: whatever else is in memory stays.                 *)
OnlyTablesWritten ==
  [][\A f \in Frame : mem'[f] # mem[f] =>
       \/ f \in Tables(mem, root)
       \/ allocator.current <= f /\ f < allocator'.current]_vars

(* A request that succeeds maps its page to the address and with the       *)
(* permissions it was asked for.                                           *)
MapEstablishes ==
  [][\A r \in Requests :
       MapPage(r) /\ result' = "mapped" =>
         paging_query(mem', root, r.va) =
           [ok |-> TRUE, pa |-> r.pa, flags |-> r.flags \cup {"V", "A", "D"}]]_vars

(* paging_query tells what the hardware will do, for every virtual page.   *)
QueryAgreesWithHardware ==
  root # nullptr =>
    \A t \in Vpns :
      HardwareWalk(mem, root, t) =
        IF is_mapped(mem, root, t) THEN entry0(mem, root, t) ELSE NoEntry

(* The address space the tables stand for.                                 *)
Space ==
  [t \in {u \in Vpns : is_mapped(mem, root, u)} |-> entry0(mem, root, t)]

Abstract == INSTANCE AddressSpace WITH space <- Space, Mappings <- PTE

(* The tables implement an address space: a request that reports success   *)
(* adds exactly the mapping it was asked for, any other changes no         *)
(* translation at all, even when it allocated tables before it failed.     *)
ImplementsAddressSpace == Abstract!Spec
=============================================================================
