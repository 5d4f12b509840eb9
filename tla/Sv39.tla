------------------------------- MODULE Sv39 -------------------------------
(***************************************************************************)
(* The Sv39 page tables of Paging.cpp as operators on values: three levels *)
(* of tables in physical pages taken from the allocator, built by          *)
(* paging_map, read back by paging_query and walked by the hardware.       *)
(*                                                                         *)
(* paging_map_early and paging_map differ only in how they turn the        *)
(* physical address of a table into a pointer, so one definition stands    *)
(* for both; that the pointers are good in each phase of boot is a         *)
(* property of module Boot.                                                *)
(***************************************************************************)
EXTENDS PhysicalMemory

CONSTANT Entries     (* entries in a table (512)                           *)

ASSUME EntriesAssumption == Entries \in Nat \ {0}

Idx == 0 .. Entries - 1

Vpns == Idx \X Idx \X Idx

(* The low ten bits of an entry as the set of its flags (G is never set).  *)
Permissions == {"R", "W", "X"}
Flags == Permissions \cup {"V", "U", "A", "D"}

PTE == [page : Frame, flags : SUBSET Flags]

NoEntry == [page |-> 0, flags |-> {}]

PageTable == [Idx -> PTE]

nullptr == 0

-----------------------------------------------------------------------------
(* Entries and virtual page numbers.                                       *)

sv39_vpn2(va) == (va \div (PageSize * Entries * Entries)) % Entries
sv39_vpn1(va) == (va \div (PageSize * Entries)) % Entries
sv39_vpn0(va) == (va \div PageSize) % Entries

vpn(va) == <<sv39_vpn2(va), sv39_vpn1(va), sv39_vpn0(va)>>

pte_from_phys_addr(pa, flags) == [page |-> align_down(pa, PageSize), flags |-> flags]

pte_is_valid(pte) == "V" \in pte.flags
pte_is_leaf(pte) == pte.flags \cap Permissions # {}

(* Mutant: the loop stops one entry early.                                 *)
paging_zero_table_short == [i \in 0 .. Entries - 2 |-> NoEntry]

paging_zero_table == [i \in Idx |-> NoEntry]

-----------------------------------------------------------------------------
(* paging_map threads a walk through the levels: the table it has reached, *)
(* the memory and allocator so far, and whether it has failed.             *)

Walk(table, m, a) == [ok |-> TRUE, table |-> table, mem |-> m, allocator |-> a]

Failed(w) == [w EXCEPT !.ok = FALSE]

store(m, table, i, pte) == [m EXCEPT ![table] = [m[table] EXCEPT ![i] = pte]]

(* Mutants of add_table: not zeroed; a failed allocation not noticed.      *)
add_table_dirty(w, i) ==
  LET answer == physical_alloc_page(w.allocator)
  IN  IF answer.page = 0 THEN Failed(w)
      ELSE [ok |-> TRUE,
            table |-> answer.page,
            mem |-> store(w.mem, w.table, i, pte_from_phys_addr(answer.page, {"V"})),
            allocator |-> answer.allocator]

add_table_unchecked(w, i) ==
  LET answer == physical_alloc_page(w.allocator)
      zeroed == [w.mem EXCEPT ![answer.page] = paging_zero_table]
  IN  [ok |-> TRUE,
       table |-> answer.page,
       mem |-> store(zeroed, w.table, i, pte_from_phys_addr(answer.page, {"V"})),
       allocator |-> answer.allocator]

(* A missing table is allocated, zeroed and linked under entry i.          *)
add_table(w, i) ==
  LET answer == physical_alloc_page(w.allocator)
      zeroed == [w.mem EXCEPT ![answer.page] = paging_zero_table]
  IN  IF answer.page = 0 THEN Failed(w)
      ELSE [ok |-> TRUE,
            table |-> answer.page,
            mem |-> store(zeroed, w.table, i, pte_from_phys_addr(answer.page, {"V"})),
            allocator |-> answer.allocator]

descend(w, i) ==
  LET entry == w.mem[w.table][i]
  IN  IF ~w.ok THEN w
      ELSE IF ~pte_is_valid(entry) THEN add_table(w, i)
      ELSE IF pte_is_leaf(entry) THEN Failed(w)
      ELSE [w EXCEPT !.table = entry.page]

(* Mutants of install: the entry in use overwritten; A and D left out.     *)
install_over(w, i, pa, flags) ==
  IF ~w.ok THEN w
  ELSE [w EXCEPT !.mem = store(w.mem, w.table, i,
                               pte_from_phys_addr(pa, flags \cup {"V", "A", "D"}))]

install_bare(w, i, pa, flags) ==
  IF ~w.ok \/ pte_is_valid(w.mem[w.table][i]) THEN Failed(w)
  ELSE [w EXCEPT !.mem = store(w.mem, w.table, i,
                               pte_from_phys_addr(pa, flags \cup {"V"}))]

install(w, i, pa, flags) ==
  IF ~w.ok \/ pte_is_valid(w.mem[w.table][i]) THEN Failed(w)
  ELSE [w EXCEPT !.mem = store(w.mem, w.table, i,
                               pte_from_phys_addr(pa, flags \cup {"V", "A", "D"}))]

paging_map(m, a, top, va, pa, flags) ==
  IF top = nullptr \/ ~is_page_aligned(va) \/ ~is_page_aligned(pa)
  THEN Failed(Walk(top, m, a))
  ELSE install(descend(descend(Walk(top, m, a), sv39_vpn2(va)), sv39_vpn1(va)),
               sv39_vpn0(va), pa, flags)

-----------------------------------------------------------------------------
(* paging_query: the entry of each level on the way to a virtual page.     *)

entry2(m, top, t) == m[top][t[1]]
entry1(m, top, t) == m[entry2(m, top, t).page][t[2]]
entry0(m, top, t) == m[entry1(m, top, t).page][t[3]]

is_table_pointer(pte) == pte_is_valid(pte) /\ ~pte_is_leaf(pte)

(* Mutant: the middle level is not looked at.                              *)
is_mapped_blind(m, top, t) ==
  /\ top # nullptr
  /\ is_table_pointer(entry2(m, top, t))
  /\ pte_is_valid(entry0(m, top, t)) /\ pte_is_leaf(entry0(m, top, t))

is_mapped(m, top, t) ==
  /\ top # nullptr
  /\ is_table_pointer(entry2(m, top, t))
  /\ is_table_pointer(entry1(m, top, t))
  /\ pte_is_valid(entry0(m, top, t)) /\ pte_is_leaf(entry0(m, top, t))

(* Mutant: the offset in the page is lost.                                 *)
paging_query_page(m, top, va) ==
  IF is_mapped(m, top, vpn(va))
  THEN [ok |-> TRUE,
        pa |-> entry0(m, top, vpn(va)).page,
        flags |-> entry0(m, top, vpn(va)).flags]
  ELSE [ok |-> FALSE, pa |-> 0, flags |-> {}]

paging_query(m, top, va) ==
  IF is_mapped(m, top, vpn(va))
  THEN [ok |-> TRUE,
        pa |-> entry0(m, top, vpn(va)).page + (va % PageSize),
        flags |-> entry0(m, top, vpn(va)).flags]
  ELSE [ok |-> FALSE, pa |-> 0, flags |-> {}]

-----------------------------------------------------------------------------
(* The tables reachable from a root in a memory.                           *)
has1(m, top, i) == top # nullptr /\ pte_is_valid(m[top][i])
table1(m, top, i) == m[top][i].page
has0(m, top, i, j) == has1(m, top, i) /\ pte_is_valid(m[table1(m, top, i)][j])
table0(m, top, i, j) == m[table1(m, top, i)][j].page

Tables(m, top) ==
  { f \in Frame :
      \/ top # nullptr /\ f = top
      \/ \E i \in Idx : has1(m, top, i) /\ f = table1(m, top, i)
      \/ \E i, j \in Idx : has0(m, top, i, j) /\ f = table0(m, top, i, j) }

(* Every valid entry above the last level points to a table: it has no     *)
(* permission bit, which would make it a superpage to the hardware and a   *)
(* dead end to paging_map.                                                 *)
InteriorEntries(m, top) ==
  /\ \A i \in Idx : has1(m, top, i) => m[top][i].flags = {"V"}
  /\ \A i, j \in Idx :
       has0(m, top, i, j) => m[table1(m, top, i)][j].flags = {"V"}

(* Every valid entry of the last level is a leaf with A and D set.         *)
LeafEntries(m, top) ==
  \A i, j, k \in Idx :
    LET pte == m[table0(m, top, i, j)][k]
    IN  has0(m, top, i, j) /\ pte_is_valid(pte) =>
          pte_is_leaf(pte) /\ {"A", "D"} \subseteq pte.flags

(* Tables are pages the allocator has handed out, and no two links lead to *)
(* the same one: the tables form a tree.                                   *)
IsOwned(a, f) == f # 0 /\ f + PageSize <= a.current

TablesOwned(m, a, top) == \A f \in Tables(m, top) : IsOwned(a, f)

TablesDistinct(m, top) ==
  /\ \A i \in Idx : has1(m, top, i) => table1(m, top, i) # top
  /\ \A i, j \in Idx : has0(m, top, i, j) => table0(m, top, i, j) # top
  /\ \A i, k, l \in Idx :
       has1(m, top, i) /\ has0(m, top, k, l)
         => table1(m, top, i) # table0(m, top, k, l)
  /\ \A i, k \in Idx :
       has1(m, top, i) /\ has1(m, top, k) /\ table1(m, top, i) = table1(m, top, k)
         => i = k
  /\ \A i, j, k, l \in Idx :
       has0(m, top, i, j) /\ has0(m, top, k, l)
         => (table0(m, top, i, j) = table0(m, top, k, l) => i = k /\ j = l)

IsTree(m, a, top) ==
  /\ InteriorEntries(m, top)
  /\ LeafEntries(m, top)
  /\ TablesOwned(m, a, top)
  /\ TablesDistinct(m, top)

-----------------------------------------------------------------------------
(* The walk the Sv39 hardware makes (external): at each level an invalid   *)
(* entry faults and an entry with a permission bit ends the walk, mapping  *)
(* all the pages below it.                                                 *)
HardwareWalk(m, top, t) ==
  LET superpage(pte, pages, offset) ==
        IF (pte.page \div PageSize) % pages # 0 THEN NoEntry
        ELSE [pte EXCEPT !.page = @ + offset * PageSize]
      e2 == entry2(m, top, t)
      e1 == entry1(m, top, t)
      e0 == entry0(m, top, t)
  IN  IF ~pte_is_valid(e2) THEN NoEntry
      ELSE IF pte_is_leaf(e2)
           THEN superpage(e2, Entries * Entries, t[2] * Entries + t[3])
      ELSE IF ~pte_is_valid(e1) THEN NoEntry
      ELSE IF pte_is_leaf(e1) THEN superpage(e1, Entries, t[3])
      ELSE IF pte_is_valid(e0) /\ pte_is_leaf(e0) THEN e0 ELSE NoEntry
============================================================================
