---------------------------- MODULE Sv39_proofs ----------------------------
(***************************************************************************)
(* The operators of Sv39, for every page size, table size, memory, root    *)
(* and request: a call of paging_map keeps the tables a tree, writes only  *)
(* tables and pages it has taken, and adds the mapping it was asked for or *)
(* changes no translation.                                                 *)
(*                                                                         *)
(* A call makes at most three writes: a new level-1 table linked in the    *)
(* root, a new level-0 table linked in a level-1 table, a leaf stored in a *)
(* level-0 table.  There is a lemma for each about the tree, and one about *)
(* what the tables translate; the walk of paging_map composes them.        *)
(***************************************************************************)
EXTENDS Sv39, PhysicalMemory_proofs

Memory == [Frame -> PageTable]

AllocatorOK(a) ==
  /\ a \in Allocator
  /\ is_page_aligned(a.current) /\ a.current # 0 /\ a.current <= a.end
  /\ a.end + 2 * PageSize <= WordSize

-----------------------------------------------------------------------------
(* Memory.                                                                 *)

LEMMA NoEntryType == NoEntry \in PTE /\ ~pte_is_valid(NoEntry) /\ 0 \in Frame
<1>1. 0 \in Word /\ 0 % PageSize = 0
  BY SizeAssumption DEF Word
<1>2. QED
  BY <1>1 DEF NoEntry, PTE, Frame, is_page_aligned, pte_is_valid

LEMMA Store ==
  ASSUME NEW m \in Memory, NEW t \in Frame, NEW i \in Idx, NEW pte \in PTE
  PROVE  /\ store(m, t, i, pte) \in Memory
         /\ \A f \in Frame, k \in Idx :
              store(m, t, i, pte)[f][k] = IF f = t /\ k = i THEN pte ELSE m[f][k]
  BY DEF Memory, PageTable, store

LEMMA Zero ==
  ASSUME NEW m \in Memory, NEW p \in Frame
  PROVE  /\ [m EXCEPT ![p] = paging_zero_table] \in Memory
         /\ \A f \in Frame, k \in Idx :
              [m EXCEPT ![p] = paging_zero_table][f][k] =
                IF f = p THEN NoEntry ELSE m[f][k]
  BY NoEntryType DEF Memory, PageTable, paging_zero_table

LEMMA EntryType ==
  ASSUME NEW m \in Memory, NEW f \in Frame, NEW k \in Idx
  PROVE  m[f][k] \in PTE /\ m[f][k].page \in Frame /\ m[f][k].flags \subseteq Flags
  BY DEF Memory, PageTable, PTE

(* One allocation: nothing, or a page no table lives in.                   *)
LEMMA Fresh ==
  ASSUME NEW a \in Allocator, AllocatorOK(a)
  PROVE  LET answer == physical_alloc_page(a)
         IN  /\ AllocatorOK(answer.allocator)
             /\ answer.page = 0 => answer.allocator = a
             /\ answer.page # 0 =>
                  /\ answer.page \in Frame
                  /\ IsOwned(answer.allocator, answer.page)
                  /\ \A f \in Frame : IsOwned(a, f) =>
                       f # answer.page /\ IsOwned(answer.allocator, f)
<1> DEFINE answer == physical_alloc_page(a)
<1>1. a.current \in Nat /\ a.end \in Nat
  BY SizeAssumption DEF Allocator, Word
<1>2. CASE /\ answer = [page |-> a.current,
                        allocator |-> [a EXCEPT !.current = a.current + PageSize]]
           /\ a.current + PageSize <= a.end
  <2>1. /\ a.current \in Frame
        /\ a.current + PageSize \in Word
        /\ is_page_aligned(a.current + PageSize)
    BY <1>1, <1>2, NextPageAligned, SizeAssumption DEF AllocatorOK, Frame, Word
  <2>2. /\ answer.page = a.current
        /\ answer.allocator = [a EXCEPT !.current = a.current + PageSize]
        /\ answer.allocator.current = a.current + PageSize
        /\ answer.allocator.end = a.end
        /\ answer.allocator \in Allocator
    BY <1>2, <2>1 DEF Allocator
  <2>3. AllocatorOK(answer.allocator)
    BY <1>1, <1>2, <2>1, <2>2, SizeAssumption DEF AllocatorOK
  <2>4. \A f \in Frame : f \in Nat
    BY SizeAssumption DEF Frame, Word
  <2>5. QED
    BY <1>1, <2>1, <2>2, <2>3, <2>4, SizeAssumption DEF AllocatorOK, IsOwned
<1>3. CASE answer = [page |-> 0, allocator |-> a]
  BY <1>3
<1>4. QED
  BY <1>2, <1>3, AllocOnePage DEF AllocatorOK

-----------------------------------------------------------------------------
(* The writes.                                                             *)

(* A page in which no table lives can be filled with anything.             *)
LEMMA WriteOutside ==
  ASSUME NEW m \in Memory, NEW n \in Memory, NEW a, NEW b,
         NEW top \in Frame, NEW p \in Frame, IsTree(m, a, top),
         \A f \in Frame \ {p}, k \in Idx : n[f][k] = m[f][k],
         p \notin Tables(m, top),
         \A f \in Frame : IsOwned(a, f) => IsOwned(b, f)
  PROVE  IsTree(n, b, top) /\ Tables(n, top) = Tables(m, top)
<1>1. \A i \in Idx : has1(m, top, i) => table1(m, top, i) \in Frame
  BY EntryType DEF has1, table1
<1>2. \A i, j \in Idx : has0(m, top, i, j) => table0(m, top, i, j) \in Frame
  BY <1>1, EntryType DEF has0, table0
<1>3. /\ top # nullptr => top # p
      /\ \A i \in Idx : has1(m, top, i) => table1(m, top, i) # p
      /\ \A i, j \in Idx : has0(m, top, i, j) => table0(m, top, i, j) # p
  BY <1>1, <1>2 DEF Tables
<1>4. \A i \in Idx : /\ has1(n, top, i) <=> has1(m, top, i)
                     /\ has1(m, top, i) => n[top][i] = m[top][i]
                     /\ has1(m, top, i) => table1(n, top, i) = table1(m, top, i)
  BY <1>3 DEF has1, table1
<1>5. \A i, j \in Idx :
         /\ has0(n, top, i, j) <=> has0(m, top, i, j)
         /\ has0(m, top, i, j) =>
              n[table1(n, top, i)][j] = m[table1(m, top, i)][j]
         /\ has0(m, top, i, j) => table0(n, top, i, j) = table0(m, top, i, j)
  BY <1>1, <1>3, <1>4 DEF has0, table0
<1>6. \A i, j, k \in Idx :
         has0(m, top, i, j) =>
           n[table0(n, top, i, j)][k] = m[table0(m, top, i, j)][k]
  BY <1>2, <1>3, <1>5
<1>7. InteriorEntries(n, top)
  BY <1>4, <1>5 DEF IsTree, InteriorEntries, has0
<1>8. LeafEntries(n, top)
  BY <1>5, <1>6 DEF IsTree, LeafEntries
<1>9. Tables(n, top) = Tables(m, top)
  BY <1>4, <1>5 DEF Tables
<1>10. TablesOwned(n, b, top)
  BY <1>9 DEF IsTree, TablesOwned, Tables
<1>11. TablesDistinct(n, top)
  BY <1>4, <1>5 DEF IsTree, TablesDistinct
<1>12. QED
  BY <1>7, <1>8, <1>9, <1>10, <1>11 DEF IsTree

(* Before there is a root, and when the root is a zeroed page.             *)
LEMMA NoTables ==
  ASSUME NEW m, NEW a
  PROVE  /\ IsTree(m, a, nullptr) /\ Tables(m, nullptr) = {}
         /\ \A t : ~is_mapped(m, nullptr, t)
<1>1. /\ \A i : ~has1(m, nullptr, i)
      /\ \A i, j : ~has0(m, nullptr, i, j)
  BY DEF has1, has0
<1>2. Tables(m, nullptr) = {}
  BY <1>1 DEF Tables
<1>3. QED
  BY <1>1, <1>2 DEF IsTree, InteriorEntries, LeafEntries, TablesOwned, TablesDistinct,
                    is_mapped

LEMMA EmptyRoot ==
  ASSUME NEW m, NEW a, NEW top \in Frame \ {0}, IsOwned(a, top),
         \A k \in Idx : m[top][k] = NoEntry
  PROVE  /\ IsTree(m, a, top) /\ Tables(m, top) = {top}
         /\ \A t \in Vpns : ~is_mapped(m, top, t)
<1>1. /\ \A i \in Idx : ~has1(m, top, i)
      /\ \A i, j \in Idx : ~has0(m, top, i, j)
  BY NoEntryType DEF has1, has0
<1>2. Tables(m, top) = {top}
  BY <1>1 DEF Tables, nullptr
<1>3. ASSUME NEW t \in Vpns PROVE ~is_mapped(m, top, t)
  <2>1. t[1] \in Idx
    BY DEF Vpns
  <2>2. QED
    BY <2>1, NoEntryType DEF is_mapped, is_table_pointer, entry2
<1>4. QED
  BY <1>1, <1>2, <1>3
     DEF IsTree, InteriorEntries, LeafEntries, TablesOwned, TablesDistinct

Link(p) == [page |-> p, flags |-> {"V"}]

(* What add_table does to memory when it succeeds.                         *)
Linked(m, n, t, i, p) ==
  \A f \in Frame, k \in Idx :
    n[f][k] = IF f = t /\ k = i THEN Link(p)
              ELSE IF f = p THEN NoEntry ELSE m[f][k]

(* A fresh page p for a new table.                                         *)
IsFresh(m, a, b, top, p) ==
  /\ p \in Frame \ {0} /\ p \notin Tables(m, top) /\ IsOwned(b, p)
  /\ \A f \in Frame : IsOwned(a, f) => IsOwned(b, f)

LEMMA LinkType ==
  ASSUME NEW p \in Frame
  PROVE  /\ Link(p) \in PTE /\ Link(p).page = p /\ Link(p).flags = {"V"}
         /\ pte_is_valid(Link(p)) /\ ~pte_is_leaf(Link(p))
         /\ pte_from_phys_addr(p, {"V"}) = Link(p)
<1>1. p \in Nat /\ p % PageSize = 0
  BY SizeAssumption DEF Frame, Word, is_page_aligned
<1>2. align_down(p, PageSize) = p
  BY <1>1 DEF align_down
<1>3. QED
  BY <1>2 DEF Link, PTE, Flags, Permissions, pte_is_valid, pte_is_leaf,
              pte_from_phys_addr

(* A level-1 table linked in the root.                                     *)
LEMMA NewLevel1 ==
  ASSUME NEW m \in Memory, NEW n \in Memory, NEW a, NEW b,
         NEW top \in Frame \ {0}, NEW p, NEW x \in Idx,
         IsTree(m, a, top), ~pte_is_valid(m[top][x]),
         IsFresh(m, a, b, top, p), Linked(m, n, top, x, p)
  PROVE  IsTree(n, b, top) /\ has1(n, top, x) /\ table1(n, top, x) = p
<1>1. \A i \in Idx : has1(m, top, i) => table1(m, top, i) \in Frame
  BY EntryType DEF has1, table1
<1>2. \A i, j \in Idx : has0(m, top, i, j) => table0(m, top, i, j) \in Frame
  BY <1>1, EntryType DEF has0, table0
<1>3. /\ top # p /\ p \in Frame /\ p # nullptr /\ top # nullptr
      /\ \A i \in Idx : has1(m, top, i) => table1(m, top, i) # p
      /\ \A i, j \in Idx : has0(m, top, i, j) => table0(m, top, i, j) # p
  BY <1>1, <1>2 DEF Tables, IsFresh, nullptr
<1>4. /\ n[top][x] = Link(p) /\ ~has1(m, top, x)
      /\ has1(n, top, x) /\ table1(n, top, x) = p
  BY <1>3, LinkType DEF Linked, has1, table1
<1>5. \A i \in Idx \ {x} :
         /\ n[top][i] = m[top][i]
         /\ has1(n, top, i) <=> has1(m, top, i)
         /\ table1(n, top, i) = table1(m, top, i)
  BY <1>3 DEF Linked, has1, table1
<1>6. \A j \in Idx : ~has0(n, top, x, j) /\ ~has0(m, top, x, j)
  BY <1>3, <1>4, NoEntryType DEF Linked, has0
<1>7. \A i \in Idx \ {x}, j \in Idx :
         has1(m, top, i) =>
           /\ n[table1(n, top, i)][j] = m[table1(m, top, i)][j]
           /\ has0(n, top, i, j) <=> has0(m, top, i, j)
           /\ table0(n, top, i, j) = table0(m, top, i, j)
  <2> SUFFICES ASSUME NEW i \in Idx \ {x}, NEW j \in Idx, has1(m, top, i)
               PROVE  /\ n[table1(n, top, i)][j] = m[table1(m, top, i)][j]
                      /\ has0(n, top, i, j) <=> has0(m, top, i, j)
                      /\ table0(n, top, i, j) = table0(m, top, i, j)
    OBVIOUS
  <2>1. table1(m, top, i) # top
    BY DEF IsTree, TablesDistinct
  <2>2. n[table1(n, top, i)][j] = m[table1(m, top, i)][j]
    BY <1>1, <1>3, <1>5, <2>1 DEF Linked
  <2>3. QED
    BY <1>5, <2>2 DEF has0, table0
<1>8. \A i, j \in Idx :
         /\ has0(n, top, i, j) <=> has0(m, top, i, j)
         /\ has0(m, top, i, j) =>
              /\ i # x /\ has1(m, top, i)
              /\ n[table1(n, top, i)][j] = m[table1(m, top, i)][j]
              /\ table0(n, top, i, j) = table0(m, top, i, j)
  BY <1>5, <1>6, <1>7 DEF has0
<1>9. \A i, j, k \in Idx :
         has0(m, top, i, j) =>
           n[table0(n, top, i, j)][k] = m[table0(m, top, i, j)][k]
  <2> SUFFICES ASSUME NEW i \in Idx, NEW j \in Idx, NEW k \in Idx,
                      has0(m, top, i, j)
               PROVE  n[table0(n, top, i, j)][k] = m[table0(m, top, i, j)][k]
    OBVIOUS
  <2>1. table0(m, top, i, j) # top
    BY DEF IsTree, TablesDistinct
  <2>2. QED
    BY <1>2, <1>3, <1>8, <2>1 DEF Linked
<1>10. InteriorEntries(n, top)
  BY <1>3, <1>4, <1>5, <1>8, LinkType DEF IsTree, InteriorEntries
<1>11. LeafEntries(n, top)
  BY <1>8, <1>9 DEF IsTree, LeafEntries
<1>12. Tables(n, top) \subseteq Tables(m, top) \cup {p}
  BY <1>4, <1>5, <1>8 DEF Tables
<1>13. TablesOwned(n, b, top)
  BY <1>12 DEF IsTree, TablesOwned, Tables, IsFresh
<1>14. TablesDistinct(n, top)
  <2>1. \A i \in Idx : has1(n, top, i) => table1(n, top, i) # top
    BY <1>3, <1>4, <1>5 DEF IsTree, TablesDistinct
  <2>2. \A i, j \in Idx : has0(n, top, i, j) => table0(n, top, i, j) # top
    BY <1>8 DEF IsTree, TablesDistinct
  <2>3. \A i, k, l \in Idx :
          has1(n, top, i) /\ has0(n, top, k, l)
            => table1(n, top, i) # table0(n, top, k, l)
    BY <1>3, <1>4, <1>5, <1>8 DEF IsTree, TablesDistinct
  <2>4. \A i, k \in Idx :
          has1(n, top, i) /\ has1(n, top, k) /\ table1(n, top, i) = table1(n, top, k)
            => i = k
    BY <1>3, <1>4, <1>5 DEF IsTree, TablesDistinct
  <2>5. \A i, j, k, l \in Idx :
          has0(n, top, i, j) /\ has0(n, top, k, l)
            => (table0(n, top, i, j) = table0(n, top, k, l) => i = k /\ j = l)
    BY <1>8 DEF IsTree, TablesDistinct
  <2>6. QED
    BY <2>1, <2>2, <2>3, <2>4, <2>5 DEF TablesDistinct
<1>15. QED
  BY <1>4, <1>10, <1>11, <1>13, <1>14 DEF IsTree

(* A level-0 table linked in a level-1 table.                              *)
LEMMA NewLevel0 ==
  ASSUME NEW m \in Memory, NEW n \in Memory, NEW a, NEW b,
         NEW top \in Frame, NEW p, NEW x \in Idx, NEW y \in Idx,
         IsTree(m, a, top), has1(m, top, x), ~has0(m, top, x, y),
         IsFresh(m, a, b, top, p), Linked(m, n, table1(m, top, x), y, p)
  PROVE  /\ IsTree(n, b, top) /\ has0(n, top, x, y)
         /\ table0(n, top, x, y) = p /\ table1(n, top, x) = table1(m, top, x)
<1> DEFINE t == table1(m, top, x)
<1>1. \A i \in Idx : has1(m, top, i) => table1(m, top, i) \in Frame
  BY EntryType DEF has1, table1
<1>2. \A i, j \in Idx : has0(m, top, i, j) => table0(m, top, i, j) \in Frame
  BY <1>1, EntryType DEF has0, table0
<1>3. /\ top # p /\ p \in Frame /\ p # nullptr /\ top # nullptr
      /\ \A i \in Idx : has1(m, top, i) => table1(m, top, i) # p
      /\ \A i, j \in Idx : has0(m, top, i, j) => table0(m, top, i, j) # p
  BY <1>1, <1>2 DEF Tables, IsFresh, nullptr, has1
<1>4. t \in Frame /\ t # top /\ t # p
  BY <1>1, <1>3 DEF IsTree, TablesDistinct
<1>5. \A i \in Idx : /\ n[top][i] = m[top][i]
                     /\ has1(n, top, i) <=> has1(m, top, i)
                     /\ table1(n, top, i) = table1(m, top, i)
  BY <1>3, <1>4 DEF Linked, has1, table1
<1>6. n[t][y] = Link(p) /\ has0(n, top, x, y) /\ table0(n, top, x, y) = p
  BY <1>3, <1>4, <1>5, LinkType DEF Linked, has0, table0
<1>7. \A i, j \in Idx :
         has1(m, top, i) /\ ~(i = x /\ j = y) =>
           /\ n[table1(n, top, i)][j] = m[table1(m, top, i)][j]
           /\ has0(n, top, i, j) <=> has0(m, top, i, j)
           /\ table0(n, top, i, j) = table0(m, top, i, j)
  <2> SUFFICES ASSUME NEW i \in Idx, NEW j \in Idx,
                      has1(m, top, i), ~(i = x /\ j = y)
               PROVE  /\ n[table1(n, top, i)][j] = m[table1(m, top, i)][j]
                      /\ has0(n, top, i, j) <=> has0(m, top, i, j)
                      /\ table0(n, top, i, j) = table0(m, top, i, j)
    OBVIOUS
  <2>1. ~(table1(m, top, i) = t /\ j = y)
    BY DEF IsTree, TablesDistinct
  <2>2. n[table1(n, top, i)][j] = m[table1(m, top, i)][j]
    BY <1>1, <1>3, <1>5, <2>1 DEF Linked
  <2>3. QED
    BY <1>5, <2>2 DEF has0, table0
<1>8. \A i, j \in Idx :
         has0(n, top, i, j) /\ ~(i = x /\ j = y) =>
           /\ has1(m, top, i) /\ has0(m, top, i, j)
           /\ n[table1(n, top, i)][j] = m[table1(m, top, i)][j]
           /\ table0(n, top, i, j) = table0(m, top, i, j)
  BY <1>5, <1>7 DEF has0
<1>9. \A i, j, k \in Idx :
         has0(m, top, i, j) =>
           n[table0(m, top, i, j)][k] = m[table0(m, top, i, j)][k]
  <2> SUFFICES ASSUME NEW i \in Idx, NEW j \in Idx, NEW k \in Idx,
                      has0(m, top, i, j)
               PROVE  n[table0(m, top, i, j)][k] = m[table0(m, top, i, j)][k]
    OBVIOUS
  <2>1. table0(m, top, i, j) # t
    BY DEF IsTree, TablesDistinct
  <2>2. QED
    BY <1>2, <1>3, <2>1 DEF Linked
<1>10. InteriorEntries(n, top)
  <2>1. \A i \in Idx : has1(n, top, i) => n[top][i].flags = {"V"}
    BY <1>5 DEF IsTree, InteriorEntries
  <2>2. n[table1(n, top, x)][y].flags = {"V"}
    BY <1>3, <1>5, <1>6, LinkType DEF IsFresh
  <2>3. ASSUME NEW i \in Idx, NEW j \in Idx, has0(n, top, i, j),
               ~(i = x /\ j = y)
        PROVE  n[table1(n, top, i)][j].flags = {"V"}
    BY <1>8, <2>3 DEF IsTree, InteriorEntries
  <2>4. QED
    BY <2>1, <2>2, <2>3 DEF InteriorEntries
<1>11. LeafEntries(n, top)
  <2>1. \A k \in Idx : ~pte_is_valid(n[table0(n, top, x, y)][k])
    BY <1>3, <1>4, <1>6, NoEntryType DEF Linked
  <2>2. QED
    BY <1>8, <1>9, <2>1 DEF IsTree, LeafEntries
<1>12. Tables(n, top) \subseteq Tables(m, top) \cup {p}
  BY <1>5, <1>6, <1>8 DEF Tables
<1>13. TablesOwned(n, b, top)
  BY <1>12 DEF IsTree, TablesOwned, Tables, IsFresh
<1>14. TablesDistinct(n, top)
  <2>1. \A i \in Idx : has1(n, top, i) => table1(n, top, i) # top
    BY <1>5 DEF IsTree, TablesDistinct
  <2>2. \A i, j \in Idx : has0(n, top, i, j) => table0(n, top, i, j) # top
    BY <1>3, <1>6, <1>8 DEF IsTree, TablesDistinct
  <2>3. \A i, k, l \in Idx :
          has1(n, top, i) /\ has0(n, top, k, l)
            => table1(n, top, i) # table0(n, top, k, l)
    BY <1>3, <1>5, <1>6, <1>8 DEF IsTree, TablesDistinct
  <2>4. \A i, k \in Idx :
          has1(n, top, i) /\ has1(n, top, k) /\ table1(n, top, i) = table1(n, top, k)
            => i = k
    BY <1>5 DEF IsTree, TablesDistinct
  <2>5. \A i, j, k, l \in Idx :
          has0(n, top, i, j) /\ has0(n, top, k, l)
            => (table0(n, top, i, j) = table0(n, top, k, l) => i = k /\ j = l)
    BY <1>3, <1>6, <1>8 DEF IsTree, TablesDistinct
  <2>6. QED
    BY <2>1, <2>2, <2>3, <2>4, <2>5 DEF TablesDistinct
<1>15. QED
  BY <1>5, <1>6, <1>10, <1>11, <1>13, <1>14 DEF IsTree

(* A leaf stored in a level-0 table.                                       *)
LEMMA NewLeaf ==
  ASSUME NEW m \in Memory, NEW a, NEW top \in Frame,
         NEW x \in Idx, NEW y \in Idx, NEW z \in Idx, NEW pte \in PTE,
         IsTree(m, a, top), has0(m, top, x, y),
         pte_is_leaf(pte), {"A", "D"} \subseteq pte.flags
  PROVE  /\ IsTree(store(m, table0(m, top, x, y), z, pte), a, top)
         /\ Tables(store(m, table0(m, top, x, y), z, pte), top) = Tables(m, top)
<1> DEFINE t == table0(m, top, x, y)
           n == store(m, t, z, pte)
<1>1. \A i \in Idx : has1(m, top, i) => table1(m, top, i) \in Frame
  BY EntryType DEF has1, table1
<1>2. \A i, j \in Idx : has0(m, top, i, j) => table0(m, top, i, j) \in Frame
  BY <1>1, EntryType DEF has0, table0
<1>3. \A f \in Frame, k \in Idx :
         n[f][k] = IF f = t /\ k = z THEN pte ELSE m[f][k]
  BY <1>2, Store
<1> HIDE DEF n
<1>4. \A i \in Idx : /\ has1(n, top, i) <=> has1(m, top, i)
                     /\ n[top][i] = m[top][i]
                     /\ table1(n, top, i) = table1(m, top, i)
  <2>1. top # t
    BY DEF IsTree, TablesDistinct
  <2>2. QED
    BY <1>3, <2>1 DEF has1, table1
<1>5. \A i, j \in Idx :
         has1(m, top, i) =>
           /\ has0(n, top, i, j) <=> has0(m, top, i, j)
           /\ n[table1(n, top, i)][j] = m[table1(m, top, i)][j]
           /\ table0(n, top, i, j) = table0(m, top, i, j)
  <2>1. \A i \in Idx : has1(m, top, i) => table1(m, top, i) # t
    BY DEF IsTree, TablesDistinct
  <2>2. QED
    BY <1>1, <1>3, <1>4, <2>1 DEF has0, table0
<1>6. \A i, j \in Idx :
         /\ has0(n, top, i, j) <=> has0(m, top, i, j)
         /\ has0(m, top, i, j) =>
              /\ n[table1(n, top, i)][j] = m[table1(m, top, i)][j]
              /\ table0(n, top, i, j) = table0(m, top, i, j)
  BY <1>4, <1>5 DEF has0
<1>7. InteriorEntries(n, top)
  BY <1>4, <1>6 DEF IsTree, InteriorEntries
<1>8. LeafEntries(n, top)
  BY <1>2, <1>3, <1>6 DEF IsTree, LeafEntries
<1>9. Tables(n, top) = Tables(m, top)
  BY <1>4, <1>6 DEF Tables
<1>10. TablesOwned(n, a, top)
  BY <1>9 DEF IsTree, TablesOwned
<1>11. TablesDistinct(n, top)
  BY <1>4, <1>6 DEF IsTree, TablesDistinct
<1>12. QED
  BY <1>7, <1>8, <1>9, <1>10, <1>11 DEF IsTree, n

-----------------------------------------------------------------------------
(* The walk of paging_map.                                                 *)

WalkState == [ok : BOOLEAN, table : Frame, mem : Memory, allocator : Allocator]

WalkInv(w, top) ==
  /\ w \in WalkState
  /\ AllocatorOK(w.allocator)
  /\ IsTree(w.mem, w.allocator, top)

LEMMA VpnType ==
  ASSUME NEW va \in Word
  PROVE  sv39_vpn2(va) \in Idx /\ sv39_vpn1(va) \in Idx /\ sv39_vpn0(va) \in Idx
<1>1. va \in Nat /\ PageSize \in Nat \ {0} /\ Entries \in Nat \ {0}
  BY SizeAssumption, EntriesAssumption DEF Word
<1>2. PageSize * Entries \in Nat \ {0}
  BY <1>1
<1>3. PageSize * Entries * Entries \in Nat \ {0}
  BY <1>1, <1>2
<1>4. \A d \in Nat \ {0} : (va \div d) % Entries \in Idx
  BY <1>1, DivisionWithRemainder DEF Idx
<1>5. QED
  BY <1>1, <1>2, <1>3, <1>4 DEF sv39_vpn2, sv39_vpn1, sv39_vpn0

LEMMA FailedWalk ==
  ASSUME NEW top, NEW w, WalkInv(w, top)
  PROVE  WalkInv(Failed(w), top) /\ ~Failed(w).ok
  BY DEF WalkInv, WalkState, Failed

(* add_table fails and changes nothing, or links a fresh zeroed page.      *)
LEMMA AddTable ==
  ASSUME NEW top \in Frame, NEW w, WalkInv(w, top), NEW i \in Idx,
         w.ok, w.table \in Tables(w.mem, top)
  PROVE  LET v == add_table(w, i)
         IN  /\ v \in WalkState
             /\ AllocatorOK(v.allocator)
             /\ ~v.ok => WalkInv(v, top)
             /\ v.ok => /\ IsFresh(w.mem, w.allocator, v.allocator, top, v.table)
                        /\ Linked(w.mem, v.mem, w.table, i, v.table)
<1> DEFINE answer == physical_alloc_page(w.allocator)
           p == answer.page
           zeroed == [w.mem EXCEPT ![p] = paging_zero_table]
           v == add_table(w, i)
<1>1. /\ w.allocator \in Allocator /\ AllocatorOK(w.allocator)
      /\ w.mem \in Memory /\ w.table \in Frame
  BY DEF WalkInv, WalkState
<1>2. CASE p = 0
  BY <1>2, FailedWalk DEF add_table, WalkInv, Failed
<1>3. CASE p # 0
  <2>1. /\ p \in Frame /\ IsOwned(answer.allocator, p)
        /\ AllocatorOK(answer.allocator)
        /\ \A f \in Frame : IsOwned(w.allocator, f) =>
             f # p /\ IsOwned(answer.allocator, f)
    BY <1>1, <1>3, Fresh
  <2>2. \A f \in Tables(w.mem, top) : f \in Frame /\ IsOwned(w.allocator, f)
    BY DEF WalkInv, IsTree, TablesOwned, Tables
  <2>3. w.table # p /\ p \notin Tables(w.mem, top)
    BY <2>1, <2>2
  <2>4. /\ zeroed \in Memory
        /\ \A f \in Frame, k \in Idx :
             zeroed[f][k] = IF f = p THEN NoEntry ELSE w.mem[f][k]
    BY <1>1, <2>1, Zero
  <2>5. v = [ok |-> TRUE, table |-> p,
             mem |-> store(zeroed, w.table, i, Link(p)),
             allocator |-> answer.allocator]
    BY <1>3, <2>1, LinkType DEF add_table
  <2> HIDE DEF zeroed, v, answer
  <2>6. /\ v.mem \in Memory
        /\ \A f \in Frame, k \in Idx :
             v.mem[f][k] = IF f = w.table /\ k = i THEN Link(p) ELSE zeroed[f][k]
    <3>1. Link(p) \in PTE
      BY <2>1, LinkType
    <3>2. v.mem = store(zeroed, w.table, i, Link(p))
      BY <2>5
    <3>3. QED
      BY <1>1, <2>4, <3>1, <3>2, Store
  <2>7. Linked(w.mem, v.mem, w.table, i, p)
    BY <2>4, <2>6 DEF Linked
  <2>8. IsFresh(w.mem, w.allocator, answer.allocator, top, p)
    BY <1>3, <2>1, <2>3 DEF IsFresh
  <2>9. v \in WalkState
    BY <2>1, <2>5, <2>6 DEF WalkState, AllocatorOK
  <2>10. QED
    BY <2>1, <2>5, <2>7, <2>8, <2>9 DEF v
<1>4. QED
  BY <1>2, <1>3

(* The step from the root to a level-1 table.                              *)
LEMMA Descend1 ==
  ASSUME NEW top \in Frame \ {0}, NEW w, WalkInv(w, top), NEW i \in Idx,
         w.ok => w.table = top
  PROVE  LET v == descend(w, i)
         IN  /\ WalkInv(v, top)
             /\ v.ok => has1(v.mem, top, i) /\ v.table = table1(v.mem, top, i)
<1> DEFINE v == descend(w, i)
<1>1. CASE ~w.ok
  BY <1>1 DEF descend
<1>2. CASE w.ok /\ ~pte_is_valid(w.mem[top][i])
  <2>1. v = add_table(w, i) /\ w.table = top
    BY <1>2 DEF descend
  <2>2. top \in Tables(w.mem, top)
    BY DEF Tables, nullptr
  <2>3. /\ v \in WalkState /\ AllocatorOK(v.allocator)
        /\ ~v.ok => WalkInv(v, top)
        /\ v.ok => /\ IsFresh(w.mem, w.allocator, v.allocator, top, v.table)
                   /\ Linked(w.mem, v.mem, top, i, v.table)
    BY <1>2, <2>1, <2>2, AddTable
  <2>4. CASE v.ok
    <3>1. w.mem \in Memory /\ v.mem \in Memory /\ IsTree(w.mem, w.allocator, top)
      BY <2>3 DEF WalkInv, WalkState
    <3>2. /\ IsTree(v.mem, v.allocator, top) /\ has1(v.mem, top, i)
          /\ table1(v.mem, top, i) = v.table
      <4>1. ~pte_is_valid(w.mem[top][i])
        BY <1>2
      <4> HIDE DEF v
      <4>2. QED
        BY <2>3, <2>4, <3>1, <4>1, NewLevel1
    <3>3. QED
      BY <2>3, <3>2 DEF WalkInv
  <2>5. QED
    BY <2>3, <2>4
<1>3. CASE w.ok /\ pte_is_valid(w.mem[top][i])
  <2>1. w.mem \in Memory /\ has1(w.mem, top, i)
    BY <1>3 DEF WalkInv, WalkState, has1, nullptr
  <2>2. table1(w.mem, top, i) \in Frame
    BY <2>1, EntryType DEF table1
  <2>3. v = Failed(w) \/ v = [w EXCEPT !.table = table1(w.mem, top, i)]
    BY <1>3 DEF descend, table1
  <2>4. QED
    BY <2>1, <2>2, <2>3, FailedWalk DEF WalkInv, WalkState
<1>4. QED
  BY <1>1, <1>2, <1>3

(* The step from a level-1 table to a level-0 table.                       *)
LEMMA Descend0 ==
  ASSUME NEW top \in Frame \ {0}, NEW w, WalkInv(w, top),
         NEW i \in Idx, NEW j \in Idx,
         w.ok => has1(w.mem, top, i) /\ w.table = table1(w.mem, top, i)
  PROVE  LET v == descend(w, j)
         IN  /\ WalkInv(v, top)
             /\ v.ok => has0(v.mem, top, i, j) /\ v.table = table0(v.mem, top, i, j)
<1> DEFINE v == descend(w, j)
<1>1. CASE ~w.ok
  BY <1>1 DEF descend
<1>2. w.ok => pte_is_valid(w.mem[w.table][j]) <=> has0(w.mem, top, i, j)
  BY DEF has0
<1>3. CASE w.ok /\ ~pte_is_valid(w.mem[w.table][j])
  <2>1. v = add_table(w, j) /\ w.table = table1(w.mem, top, i)
    BY <1>3 DEF descend
  <2>2. w.table \in Tables(w.mem, top)
    BY <1>3, <2>1 DEF Tables, WalkInv, WalkState
  <2>3. /\ v \in WalkState /\ AllocatorOK(v.allocator)
        /\ ~v.ok => WalkInv(v, top)
        /\ v.ok => /\ IsFresh(w.mem, w.allocator, v.allocator, top, v.table)
                   /\ Linked(w.mem, v.mem, w.table, j, v.table)
    BY <1>3, <2>1, <2>2, AddTable
  <2>4. CASE v.ok
    <3>1. w.mem \in Memory /\ v.mem \in Memory /\ IsTree(w.mem, w.allocator, top)
      BY <2>3 DEF WalkInv, WalkState
    <3>2. has1(w.mem, top, i) /\ ~has0(w.mem, top, i, j)
      BY <1>3, <2>1 DEF has0
    <3>3. /\ IsTree(v.mem, v.allocator, top) /\ has0(v.mem, top, i, j)
          /\ table0(v.mem, top, i, j) = v.table
      <4>1. w.table = table1(w.mem, top, i)
        BY <2>1
      <4> HIDE DEF v
      <4>2. QED
        BY <2>3, <2>4, <3>1, <3>2, <4>1, NewLevel0
    <3>4. QED
      BY <2>3, <3>3 DEF WalkInv
  <2>5. QED
    BY <2>3, <2>4
<1>4. CASE w.ok /\ pte_is_valid(w.mem[w.table][j])
  <2>1. w.mem \in Memory /\ w.table \in Frame /\ has0(w.mem, top, i, j)
    BY <1>4 DEF WalkInv, WalkState, has0
  <2>2. table0(w.mem, top, i, j) \in Frame
    BY <1>4, <2>1, EntryType DEF table0
  <2>3. v = Failed(w) \/ v = [w EXCEPT !.table = table0(w.mem, top, i, j)]
    BY <1>4 DEF descend, table0
  <2>4. QED
    BY <2>1, <2>2, <2>3, FailedWalk DEF WalkInv, WalkState
<1>5. QED
  BY <1>1, <1>3, <1>4

(* The last step of paging_map.                                            *)
LEMMA Install ==
  ASSUME NEW top \in Frame \ {0}, NEW w, WalkInv(w, top),
         NEW i \in Idx, NEW j \in Idx, NEW k \in Idx,
         w.ok => has0(w.mem, top, i, j) /\ w.table = table0(w.mem, top, i, j),
         NEW pa \in Word, is_page_aligned(pa),
         NEW flags \in SUBSET Flags, flags \cap Permissions # {}
  PROVE  WalkInv(install(w, k, pa, flags), top)
<1> DEFINE pte == pte_from_phys_addr(pa, flags \cup {"V", "A", "D"})
           n == store(w.mem, w.table, k, pte)
<1>1. CASE ~w.ok \/ pte_is_valid(w.mem[w.table][k])
  BY <1>1, FailedWalk DEF install
<1>2. CASE w.ok /\ ~pte_is_valid(w.mem[w.table][k])
  <2>1. w.mem \in Memory /\ w.table \in Frame /\ IsTree(w.mem, w.allocator, top)
    BY DEF WalkInv, WalkState
  <2>2. /\ pte \in PTE /\ pte_is_leaf(pte) /\ {"A", "D"} \subseteq pte.flags
    <3>1. pa \in Nat /\ align_down(pa, PageSize) = pa
      BY SizeAssumption DEF Word, is_page_aligned, align_down
    <3>2. QED
      BY <3>1 DEF pte_from_phys_addr, PTE, Frame, Flags, Permissions, pte_is_leaf
  <2> HIDE DEF pte
  <2>3. n \in Memory
    BY <2>1, <2>2, Store
  <2>4. IsTree(n, w.allocator, top)
    BY <1>2, <2>1, <2>2, NewLeaf
  <2>5. install(w, k, pa, flags) = [w EXCEPT !.mem = n]
    BY <1>2 DEF install, pte
  <2>6. QED
    BY <2>3, <2>4, <2>5 DEF WalkInv, WalkState
<1>3. QED
  BY <1>1, <1>2

(* A whole call of paging_map, successful or not.                          *)
LEMMA PagingMap ==
  ASSUME NEW m \in Memory, NEW a \in Allocator, NEW top \in Frame,
         AllocatorOK(a), IsTree(m, a, top),
         NEW va \in Word, NEW pa \in Word,
         NEW flags \in SUBSET Flags, flags \cap Permissions # {}
  PROVE  WalkInv(paging_map(m, a, top, va, pa, flags), top)
<1> DEFINE start == Walk(top, m, a)
           w1 == descend(start, sv39_vpn2(va))
           w0 == descend(w1, sv39_vpn1(va))
<1>1. WalkInv(start, top) /\ start.ok /\ start.table = top
  BY DEF Walk, WalkInv, WalkState
<1> HIDE DEF start
<1>2. CASE top = nullptr \/ ~is_page_aligned(va) \/ ~is_page_aligned(pa)
  BY <1>1, <1>2, FailedWalk DEF paging_map, start
<1>3. CASE top # nullptr /\ is_page_aligned(va) /\ is_page_aligned(pa)
  <2>1. top \in Frame \ {0}
    BY <1>3 DEF nullptr
  <2>2. /\ WalkInv(w1, top)
        /\ w1.ok => /\ has1(w1.mem, top, sv39_vpn2(va))
                    /\ w1.table = table1(w1.mem, top, sv39_vpn2(va))
    BY <1>1, <2>1, Descend1, VpnType
  <2> HIDE DEF w1
  <2>3. /\ WalkInv(w0, top)
        /\ w0.ok => /\ has0(w0.mem, top, sv39_vpn2(va), sv39_vpn1(va))
                    /\ w0.table = table0(w0.mem, top, sv39_vpn2(va), sv39_vpn1(va))
    BY <2>1, <2>2, Descend0, VpnType
  <2> HIDE DEF w0
  <2>4. WalkInv(install(w0, sv39_vpn0(va), pa, flags), top)
    BY <1>3, <2>1, <2>3, Install, VpnType
  <2>5. QED
    BY <1>3, <2>4 DEF paging_map, start, w1, w0
<1>4. QED
  BY <1>2, <1>3

-----------------------------------------------------------------------------
(* What the tables translate.                                              *)

(* In a tree no entry above the last level ends the hardware's walk, and   *)
(* every valid entry of the last level does.                               *)
LEMMA WalkOfTree ==
  ASSUME NEW m, NEW a, NEW top, top # nullptr, IsTree(m, a, top), NEW t \in Vpns
  PROVE  HardwareWalk(m, top, t) =
           IF is_mapped(m, top, t) THEN entry0(m, top, t) ELSE NoEntry
<1>1. t[1] \in Idx /\ t[2] \in Idx /\ t[3] \in Idx
  BY DEF Vpns
<1>2. pte_is_valid(entry2(m, top, t)) <=> has1(m, top, t[1])
  BY DEF entry2, has1
<1>3. has1(m, top, t[1]) =>
        /\ ~pte_is_leaf(entry2(m, top, t))
        /\ pte_is_valid(entry1(m, top, t)) <=> has0(m, top, t[1], t[2])
  BY <1>1 DEF IsTree, InteriorEntries, entry1, entry2, has0, table1,
              pte_is_leaf, Permissions
<1>4. has0(m, top, t[1], t[2]) =>
        /\ ~pte_is_leaf(entry1(m, top, t))
        /\ pte_is_valid(entry0(m, top, t)) => pte_is_leaf(entry0(m, top, t))
  BY <1>1 DEF IsTree, InteriorEntries, LeafEntries, entry0, entry1, entry2,
              table1, table0, pte_is_leaf, Permissions
<1>5. QED
  BY <1>2, <1>3, <1>4 DEF HardwareWalk, is_mapped, is_table_pointer

(* Every virtual page is translated alike.                                 *)
SameAt(m, n, top, t) ==
  /\ is_mapped(n, top, t) <=> is_mapped(m, top, t)
  /\ is_mapped(m, top, t) => entry0(n, top, t) = entry0(m, top, t)

SameTranslations(m, n, top) == \A t \in Vpns : SameAt(m, n, top, t)

Adds(m, n, top, t, pte) ==
  /\ ~is_mapped(m, top, t)
  /\ is_mapped(n, top, t) /\ entry0(n, top, t) = pte
  /\ \A u \in Vpns \ {t} : SameAt(m, n, top, u)

(* Pages handed out between two states of the allocator.                   *)
Taken(a, b, f) == a.current <= f /\ f < b.current

(* A walk that began with memory m and allocator a has written to tables   *)
(* and taken pages only, has made no other page a table, and stands on one *)
(* of them.                                                                *)
Confined(m, a, top, w) ==
  /\ a.current <= w.allocator.current
  /\ \A f \in Frame : w.mem[f] # m[f] =>
       f \in Tables(m, top) \/ Taken(a, w.allocator, f)
  /\ \A f \in Tables(w.mem, top) :
       f \in Tables(m, top) \/ Taken(a, w.allocator, f)
  /\ w.ok => w.table \in Tables(m, top) \/ Taken(a, w.allocator, w.table)

-----------------------------------------------------------------------------
(* Translations.                                                           *)

LEMMA TreeFacts ==
  ASSUME NEW m \in Memory, NEW a, NEW top \in Frame \ {0}, IsTree(m, a, top),
         NEW t \in Vpns
  PROVE  /\ t[1] \in Idx /\ t[2] \in Idx /\ t[3] \in Idx
         /\ top \in Tables(m, top)
         /\ is_table_pointer(entry2(m, top, t)) =>
              /\ has1(m, top, t[1]) /\ entry2(m, top, t).page \in Tables(m, top)
              /\ entry2(m, top, t).page \in Frame /\ entry2(m, top, t).page # top
         /\ is_table_pointer(entry2(m, top, t)) /\ is_table_pointer(entry1(m, top, t)) =>
              /\ has0(m, top, t[1], t[2]) /\ entry1(m, top, t).page \in Tables(m, top)
              /\ entry1(m, top, t).page \in Frame /\ entry1(m, top, t).page # top
              /\ \A i \in Idx : has1(m, top, i) => entry1(m, top, t).page # table1(m, top, i)
<1>1. t[1] \in Idx /\ t[2] \in Idx /\ t[3] \in Idx
  BY DEF Vpns
<1>2. top \in Tables(m, top)
  BY DEF Tables, nullptr
<1>3. ASSUME is_table_pointer(entry2(m, top, t))
      PROVE  /\ has1(m, top, t[1]) /\ entry2(m, top, t).page \in Tables(m, top)
             /\ entry2(m, top, t).page \in Frame /\ entry2(m, top, t).page # top
             /\ entry2(m, top, t).page = table1(m, top, t[1])
  <2>1. has1(m, top, t[1]) /\ entry2(m, top, t).page = table1(m, top, t[1])
    BY <1>3 DEF is_table_pointer, entry2, has1, table1, nullptr
  <2>2. table1(m, top, t[1]) \in Frame
    BY <1>1, EntryType DEF table1
  <2>3. QED
    BY <1>1, <2>1, <2>2 DEF Tables, IsTree, TablesDistinct
<1>4. ASSUME is_table_pointer(entry2(m, top, t)), is_table_pointer(entry1(m, top, t))
      PROVE  /\ has0(m, top, t[1], t[2]) /\ entry1(m, top, t).page \in Tables(m, top)
             /\ entry1(m, top, t).page \in Frame /\ entry1(m, top, t).page # top
             /\ \A i \in Idx : has1(m, top, i) => entry1(m, top, t).page # table1(m, top, i)
  <2>1. /\ has0(m, top, t[1], t[2])
        /\ entry1(m, top, t).page = table0(m, top, t[1], t[2])
    BY <1>3, <1>4 DEF is_table_pointer, entry1, has0, table0
  <2>2. table0(m, top, t[1], t[2]) \in Frame
    BY <1>1, <1>3, <1>4, EntryType DEF table0, table1, entry2
  <2>3. QED
    BY <1>1, <2>1, <2>2 DEF Tables, IsTree, TablesDistinct
<1>5. QED
  BY <1>1, <1>2, <1>3, <1>4

(* A page in which no table lives translates nothing.                      *)
LEMMA OutsideTranslatesNothing ==
  ASSUME NEW m \in Memory, NEW n \in Memory, NEW a, NEW top \in Frame \ {0},
         NEW p \in Frame, IsTree(m, a, top), p \notin Tables(m, top),
         \A f \in Frame \ {p}, k \in Idx : n[f][k] = m[f][k]
  PROVE  SameTranslations(m, n, top)
<1> SUFFICES ASSUME NEW t \in Vpns PROVE SameAt(m, n, top, t)
  BY DEF SameTranslations
<1>1. entry2(n, top, t) = entry2(m, top, t)
  BY TreeFacts DEF entry2
<1>2. is_table_pointer(entry2(m, top, t)) => entry1(n, top, t) = entry1(m, top, t)
  BY <1>1, TreeFacts DEF entry1
<1>3. is_table_pointer(entry2(m, top, t)) /\ is_table_pointer(entry1(m, top, t))
        => entry0(n, top, t) = entry0(m, top, t)
  BY <1>1, <1>2, TreeFacts DEF entry0
<1>4. QED
  BY <1>1, <1>2, <1>3 DEF SameAt, is_mapped

(* A new level-1 table is empty, and what was under its entry unmapped.    *)
LEMMA NewLevel1TranslatesNothing ==
  ASSUME NEW m \in Memory, NEW n \in Memory, NEW a, NEW b,
         NEW top \in Frame \ {0}, NEW p, NEW x \in Idx,
         IsTree(m, a, top), ~pte_is_valid(m[top][x]),
         IsFresh(m, a, b, top, p), Linked(m, n, top, x, p)
  PROVE  SameTranslations(m, n, top)
<1> SUFFICES ASSUME NEW t \in Vpns PROVE SameAt(m, n, top, t)
  BY DEF SameTranslations
<1>0. p \in Frame \ {0} /\ p \notin Tables(m, top) /\ p # top
  BY TreeFacts DEF IsFresh
<1>1. CASE t[1] = x
  <2>1. ~is_mapped(m, top, t)
    BY <1>1 DEF is_mapped, is_table_pointer, entry2
  <2>2. entry2(n, top, t) = Link(p)
    BY <1>1, TreeFacts DEF entry2, Linked
  <2>3. entry1(n, top, t) = NoEntry
    BY <1>0, <2>2, TreeFacts, LinkType DEF entry1, Linked
  <2>4. ~is_mapped(n, top, t)
    BY <2>3, NoEntryType DEF is_mapped, is_table_pointer
  <2>5. QED
    BY <2>1, <2>4 DEF SameAt
<1>2. CASE t[1] # x
  <2>1. entry2(n, top, t) = entry2(m, top, t)
    BY <1>0, <1>2, TreeFacts DEF entry2, Linked
  <2>2. is_table_pointer(entry2(m, top, t)) => entry1(n, top, t) = entry1(m, top, t)
    BY <1>0, <2>1, TreeFacts DEF entry1, Linked
  <2>3. is_table_pointer(entry2(m, top, t)) /\ is_table_pointer(entry1(m, top, t))
          => entry0(n, top, t) = entry0(m, top, t)
    BY <1>0, <2>1, <2>2, TreeFacts DEF entry0, Linked
  <2>4. QED
    BY <2>1, <2>2, <2>3 DEF SameAt, is_mapped
<1>3. QED
  BY <1>1, <1>2

(* So is a new level-0 table.                                              *)
LEMMA NewLevel0TranslatesNothing ==
  ASSUME NEW m \in Memory, NEW n \in Memory, NEW a, NEW b,
         NEW top \in Frame \ {0}, NEW p, NEW x \in Idx, NEW y \in Idx,
         IsTree(m, a, top), has1(m, top, x), ~has0(m, top, x, y),
         IsFresh(m, a, b, top, p), Linked(m, n, table1(m, top, x), y, p)
  PROVE  SameTranslations(m, n, top)
<1> DEFINE T == table1(m, top, x)
<1> SUFFICES ASSUME NEW t \in Vpns PROVE SameAt(m, n, top, t)
  BY DEF SameTranslations
<1>0. /\ p \in Frame \ {0} /\ p \notin Tables(m, top) /\ p # top
      /\ T \in Frame /\ T # top /\ T \in Tables(m, top) /\ T # p
  <2>1. T \in Frame
    BY EntryType DEF table1
  <2>2. QED
    BY <2>1, TreeFacts DEF IsFresh, IsTree, TablesDistinct, Tables
<1>1. /\ \A k \in Idx : n[top][k] = m[top][k]
      /\ \A k \in Idx : n[p][k] = NoEntry
      /\ \A k \in Idx : n[T][k] = IF k = y THEN Link(p) ELSE m[T][k]
      /\ \A f \in Frame \ {p, T}, k \in Idx : n[f][k] = m[f][k]
  BY <1>0 DEF Linked
<1>2. entry2(n, top, t) = entry2(m, top, t)
  BY <1>1, TreeFacts DEF entry2
<1>3. CASE is_table_pointer(entry2(m, top, t)) /\ entry2(m, top, t).page = T /\ t[2] = y
  <2>1. t[1] = x
    BY <1>3, TreeFacts DEF IsTree, TablesDistinct, entry2, table1
  <2>2. ~is_mapped(m, top, t)
    BY <1>3, <2>1 DEF is_mapped, is_table_pointer, entry1, has0
  <2>3. entry1(n, top, t) = Link(p)
    BY <1>1, <1>2, <1>3, TreeFacts DEF entry1
  <2>4. entry0(n, top, t) = NoEntry
    BY <1>0, <1>1, <2>3, TreeFacts, LinkType DEF entry0
  <2>5. ~is_mapped(n, top, t)
    BY <2>4, NoEntryType DEF is_mapped
  <2>6. QED
    BY <2>2, <2>5 DEF SameAt
<1>4. CASE ~(is_table_pointer(entry2(m, top, t)) /\ entry2(m, top, t).page = T /\ t[2] = y)
  <2>1. is_table_pointer(entry2(m, top, t)) => entry1(n, top, t) = entry1(m, top, t)
    <3>1. ASSUME is_table_pointer(entry2(m, top, t))
          PROVE  /\ entry2(m, top, t).page \in Frame \ {p} /\ t[2] \in Idx
                 /\ entry2(m, top, t).page # T \/ t[2] # y
      BY <1>0, <1>4, <3>1, TreeFacts
    <3>2. QED
      BY <1>1, <1>2, <3>1 DEF entry1
  <2>2. is_table_pointer(entry2(m, top, t)) /\ is_table_pointer(entry1(m, top, t))
          => entry0(n, top, t) = entry0(m, top, t)
    <3>1. ASSUME is_table_pointer(entry2(m, top, t)), is_table_pointer(entry1(m, top, t))
          PROVE  entry1(m, top, t).page \in Frame \ {p, T} /\ t[3] \in Idx
      BY <1>0, <3>1, TreeFacts
    <3>2. QED
      BY <1>1, <2>1, <3>1 DEF entry0
  <2>3. QED
    BY <1>2, <2>1, <2>2 DEF SameAt, is_mapped
<1>5. QED
  BY <1>3, <1>4

(* A leaf stored in a level-0 table maps its page and no other.            *)
LEMMA NewLeafAdds ==
  ASSUME NEW m \in Memory, NEW a, NEW top \in Frame \ {0},
         NEW t \in Vpns, NEW pte \in PTE, IsTree(m, a, top),
         has0(m, top, t[1], t[2]), ~pte_is_valid(m[table0(m, top, t[1], t[2])][t[3]]),
         pte_is_valid(pte), pte_is_leaf(pte)
  PROVE  Adds(m, store(m, table0(m, top, t[1], t[2]), t[3], pte), top, t, pte)
<1> DEFINE T1 == table1(m, top, t[1])
           T  == table0(m, top, t[1], t[2])
           n  == store(m, T, t[3], pte)
<1>0. t[1] \in Idx /\ t[2] \in Idx /\ t[3] \in Idx
  BY TreeFacts
<1>1. /\ T1 \in Frame /\ T \in Frame /\ T # top /\ T # T1
      /\ has1(m, top, t[1])
  <2>1. has1(m, top, t[1]) /\ T1 \in Frame
    BY <1>0, EntryType DEF has0, table1
  <2>2. T \in Frame
    BY <1>0, <2>1, EntryType DEF table0
  <2>3. QED
    BY <1>0, <2>1, <2>2 DEF IsTree, TablesDistinct
<1>2. /\ n \in Memory
      /\ \A f \in Frame, k \in Idx : n[f][k] = IF f = T /\ k = t[3] THEN pte ELSE m[f][k]
  BY <1>0, <1>1, Store
<1>3. /\ is_table_pointer(entry2(m, top, t)) /\ entry2(m, top, t).page = T1
      /\ is_table_pointer(entry1(m, top, t)) /\ entry1(m, top, t).page = T
      /\ entry0(m, top, t) = m[T][t[3]]
  <2>1. /\ entry2(m, top, t) = m[top][t[1]] /\ entry1(m, top, t) = m[T1][t[2]]
        /\ entry2(m, top, t).page = T1 /\ entry1(m, top, t).page = T
        /\ entry0(m, top, t) = m[T][t[3]]
    BY DEF entry2, entry1, entry0, table1, table0
  <2>2. /\ pte_is_valid(m[top][t[1]]) /\ m[top][t[1]].flags = {"V"}
        /\ pte_is_valid(m[T1][t[2]]) /\ m[T1][t[2]].flags = {"V"}
    BY <1>0, <1>1 DEF IsTree, InteriorEntries, has1, has0
  <2>3. QED
    BY <2>1, <2>2 DEF is_table_pointer, pte_is_leaf, Permissions
<1> HIDE DEF n, T, T1
<1>4. /\ entry2(n, top, t) = entry2(m, top, t) /\ entry1(n, top, t) = entry1(m, top, t)
      /\ entry0(n, top, t) = pte
  <2>1. entry2(n, top, t) = entry2(m, top, t)
    BY <1>0, <1>1, <1>2 DEF entry2
  <2>2. entry1(n, top, t) = entry1(m, top, t)
    BY <1>0, <1>1, <1>2, <1>3, <2>1 DEF entry1
  <2>3. QED
    BY <1>0, <1>1, <1>2, <1>3, <2>1, <2>2 DEF entry0
<1>5. ~is_mapped(m, top, t) /\ is_mapped(n, top, t) /\ entry0(n, top, t) = pte
  BY <1>3, <1>4 DEF is_mapped, nullptr, T
<1>6. ASSUME NEW u \in Vpns, u # t
      PROVE  SameAt(m, n, top, u)
  <2>1. entry2(n, top, u) = entry2(m, top, u)
    BY <1>1, <1>2, TreeFacts DEF entry2
  <2>2. ASSUME is_table_pointer(entry2(m, top, u))
        PROVE  entry1(n, top, u) = entry1(m, top, u)
    <3>1. entry2(m, top, u).page \in Frame /\ entry2(m, top, u).page # T /\ u[2] \in Idx
      <4>1. has1(m, top, u[1]) /\ u[1] \in Idx /\ entry2(m, top, u).page = table1(m, top, u[1])
        BY <2>2, TreeFacts DEF entry2, table1
      <4>2. QED
        BY <1>0, <2>2, <4>1, TreeFacts DEF IsTree, TablesDistinct, T
    <3>2. QED
      BY <1>2, <2>1, <3>1 DEF entry1
  <2>3. ASSUME is_table_pointer(entry2(m, top, u)), is_table_pointer(entry1(m, top, u))
        PROVE  entry0(n, top, u) = entry0(m, top, u)
    <3>1. /\ entry1(m, top, u).page \in Frame /\ u[1] \in Idx /\ u[2] \in Idx /\ u[3] \in Idx
          /\ has0(m, top, u[1], u[2]) /\ entry1(m, top, u).page = table0(m, top, u[1], u[2])
      BY <2>3, TreeFacts DEF entry1, entry2, table0, table1
    <3>2. entry1(m, top, u).page # T \/ u[3] # t[3]
      <4>1. u = <<u[1], u[2], u[3]>> /\ t = <<t[1], t[2], t[3]>>
        BY DEF Vpns
      <4>2. u[1] = t[1] /\ u[2] = t[2] => u[3] # t[3]
        BY <1>6, <4>1
      <4>3. QED
        BY <1>0, <3>1, <4>2 DEF IsTree, TablesDistinct, T
    <3>3. QED
      BY <1>2, <2>2, <2>3, <3>1, <3>2 DEF entry0
  <2>4. QED
    BY <2>1, <2>2, <2>3 DEF SameAt, is_mapped
<1>7. QED
  BY <1>5, <1>6 DEF Adds, n, T

-----------------------------------------------------------------------------
(* The walk of paging_map.                                                 *)

LEMMA Transitive ==
  ASSUME NEW m, NEW n, NEW o, NEW top,
         SameTranslations(m, n, top), SameTranslations(n, o, top)
  PROVE  SameTranslations(m, o, top)
BY DEF SameTranslations, SameAt

(* Linking a page makes no other page a table.                             *)
LEMMA LinkedTables ==
  ASSUME NEW m \in Memory, NEW n \in Memory, NEW a, NEW b,
         NEW top \in Frame \ {0}, NEW t \in Tables(m, top), NEW x \in Idx, NEW p,
         IsTree(m, a, top), IsFresh(m, a, b, top, p), Linked(m, n, t, x, p)
  PROVE  \A f \in Tables(n, top) : f \in Tables(m, top) \/ f = p
<1>1. top \in Tables(m, top) /\ top # p /\ t # p /\ p \in Frame
  BY DEF Tables, nullptr, IsFresh
<1>2. \A i \in Idx : has1(n, top, i) =>
         \/ table1(n, top, i) = p
         \/ has1(m, top, i) /\ table1(n, top, i) = table1(m, top, i)
  BY <1>1, LinkType DEF Linked, has1, table1
<1>3. ASSUME NEW i \in Idx, NEW j \in Idx, has0(n, top, i, j)
      PROVE  \/ table0(n, top, i, j) = p
             \/ has0(m, top, i, j) /\ table0(n, top, i, j) = table0(m, top, i, j)
  <2>1. has1(n, top, i) /\ pte_is_valid(n[table1(n, top, i)][j])
    BY <1>3 DEF has0
  <2>2. table1(n, top, i) # p
    BY <1>1, <2>1, NoEntryType DEF Linked
  <2>3. has1(m, top, i) /\ table1(n, top, i) = table1(m, top, i)
    BY <1>2, <2>1, <2>2
  <2>4. table1(m, top, i) \in Frame
    BY <2>3, EntryType DEF table1
  <2>5. \/ n[table1(m, top, i)][j] = Link(p)
        \/ n[table1(m, top, i)][j] = m[table1(m, top, i)][j]
    BY <2>2, <2>3, <2>4 DEF Linked
  <2>6. QED
    BY <1>1, <2>1, <2>3, <2>5, LinkType DEF has0, table0
<1>4. QED
  BY <1>1, <1>2, <1>3 DEF Tables

(* add_table writes to the page it takes and to the table it stands on; it *)
(* moves to an empty table or fails without a trace.                       *)
LEMMA AddTableConfined ==
  ASSUME NEW m \in Memory, NEW a \in Allocator, NEW top \in Frame \ {0},
         NEW w, WalkInv(w, top), w.ok, w.table \in Tables(w.mem, top), NEW i \in Idx,
         Confined(m, a, top, w)
  PROVE  LET v == add_table(w, i)
         IN  /\ Confined(m, a, top, v)
             /\ v.ok => \A k \in Idx : ~pte_is_valid(v.mem[v.table][k])
             /\ ~v.ok => v.mem = w.mem
<1> DEFINE answer == physical_alloc_page(w.allocator)
           p == answer.page
           zeroed == [w.mem EXCEPT ![p] = paging_zero_table]
           v == add_table(w, i)
<1>1. /\ w \in WalkState /\ w.allocator \in Allocator /\ AllocatorOK(w.allocator)
      /\ w.mem \in Memory /\ w.table \in Frame
      /\ w.allocator.current \in Nat /\ a.current \in Nat
      /\ PageSize \in Nat \ {0}
  BY SizeAssumption DEF WalkInv, WalkState, Allocator, Word
<1>2. CASE p = 0
  <2>1. v = Failed(w)
    BY <1>2 DEF add_table
  <2>2. v.mem = w.mem /\ v.allocator = w.allocator /\ v.ok = FALSE
    BY <1>1, <2>1 DEF Failed, WalkState
  <2> HIDE DEF v
  <2>3. QED
    BY <2>2 DEF Confined, Taken, v
<1>3. CASE p # 0
  <2>1. /\ p = w.allocator.current /\ answer.allocator.current = w.allocator.current + PageSize
    BY <1>1, <1>3, AllocOnePage DEF AllocatorOK, Allocator
  <2>2. v = [ok |-> TRUE, table |-> p,
             mem |-> store(zeroed, w.table, i, pte_from_phys_addr(p, {"V"})),
             allocator |-> answer.allocator]
    BY <1>3 DEF add_table
  <2>3. /\ IsFresh(w.mem, w.allocator, v.allocator, top, p)
        /\ Linked(w.mem, v.mem, w.table, i, p)
    <3>1. v.ok /\ v.table = p
      BY <2>2
    <3>2. QED
      BY <3>1, AddTable
  <2>4. p \in Frame /\ w.table # p
    BY <2>3 DEF IsFresh
  <2>5. \A k \in Idx : v.mem[p][k] = NoEntry
    BY <2>3, <2>4 DEF Linked
  <2>6. ASSUME NEW f \in Frame, f # p, f # w.table
        PROVE  v.mem[f] = w.mem[f]
    BY <1>1, <2>2, <2>6 DEF store, Memory
  <2>7. /\ v.ok /\ v.table = p /\ v.allocator.current = w.allocator.current + PageSize
    BY <2>1, <2>2
  <2>8. v \in WalkState
    BY AddTable
  <2> HIDE DEF v, answer, zeroed
  <2>9. a.current <= v.allocator.current /\ Taken(a, v.allocator, p)
    BY <1>1, <2>1, <2>7 DEF Taken, Confined
  <2>10. \A f : Taken(a, w.allocator, f) /\ f \in Frame => Taken(a, v.allocator, f)
    BY <1>1, <2>7, SizeAssumption DEF Taken, Frame, Word
  <2>11. Confined(m, a, top, v)
    <3>1. ASSUME NEW f \in Frame, v.mem[f] # m[f]
          PROVE  f \in Tables(m, top) \/ Taken(a, v.allocator, f)
      <4>1. CASE f = p
        BY <2>9, <4>1
      <4>2. CASE f = w.table
        BY <1>1, <2>10, <4>2 DEF Confined
      <4>3. CASE f # p /\ f # w.table
        BY <2>6, <2>10, <3>1, <4>3 DEF Confined
      <4>4. QED
        BY <4>1, <4>2, <4>3
    <3>2. ASSUME NEW f \in Tables(v.mem, top)
          PROVE  f \in Tables(m, top) \/ Taken(a, v.allocator, f)
      <4>1. f \in Frame /\ v.mem \in Memory /\ IsTree(w.mem, w.allocator, top)
        BY <2>8 DEF Tables, WalkState, WalkInv
      <4>2. f \in Tables(w.mem, top) \/ f = p
        BY <1>1, <2>3, <4>1, LinkedTables
      <4>3. QED
        BY <2>9, <2>10, <4>1, <4>2 DEF Confined
    <3>3. QED
      BY <2>7, <2>9, <3>1, <3>2 DEF Confined
  <2>12. QED
    BY <2>5, <2>7, <2>11, NoEntryType DEF v
<1>4. QED
  BY <1>2, <1>3

(* What the walk has done so far: it has translated nothing, and stands    *)
(* where it has started or on an empty table, or its memory is unchanged.  *)
Unnoticed(m, a, top, w) ==
  /\ Confined(m, a, top, w)
  /\ SameTranslations(m, w.mem, top)
  /\ w.ok => \/ w.mem = m
             \/ \A k \in Idx : ~pte_is_valid(w.mem[w.table][k])

LEMMA FailedUnnoticed ==
  ASSUME NEW m, NEW a, NEW top, NEW w, w \in WalkState, Unnoticed(m, a, top, w)
  PROVE  Unnoticed(m, a, top, Failed(w))
<1>1. /\ Failed(w).mem = w.mem /\ Failed(w).allocator = w.allocator /\ ~Failed(w).ok
  BY DEF Failed, WalkState
<1>2. QED
  BY <1>1 DEF Unnoticed, Confined

LEMMA StartUnnoticed ==
  ASSUME NEW m \in Memory, NEW a \in Allocator, NEW top \in Frame \ {0}
  PROVE  Unnoticed(m, a, top, Walk(top, m, a))
<1>1. a.current \in Nat /\ top \in Tables(m, top)
  BY SizeAssumption DEF Allocator, Word, Tables, nullptr
<1>2. QED
  BY <1>1 DEF Unnoticed, Confined, SameTranslations, SameAt, Walk

(* The step from the root to a level-1 table.                              *)
LEMMA Descend1Unnoticed ==
  ASSUME NEW m \in Memory, NEW a \in Allocator, NEW top \in Frame \ {0},
         NEW w, WalkInv(w, top), w.ok => w.table = top, NEW i \in Idx,
         Unnoticed(m, a, top, w), w.mem = m
  PROVE  Unnoticed(m, a, top, descend(w, i))
<1> DEFINE v == descend(w, i)
<1>0. w \in WalkState /\ IsTree(m, w.allocator, top) /\ top \in Tables(m, top)
  BY DEF WalkInv, Tables, nullptr
<1>1. CASE ~w.ok
  BY <1>1 DEF descend
<1>2. CASE w.ok /\ ~pte_is_valid(m[top][i])
  <2>1. v = add_table(w, i) /\ w.table = top
    BY <1>2 DEF descend
  <2>2. /\ Confined(m, a, top, v)
        /\ v.ok => \A k \in Idx : ~pte_is_valid(v.mem[v.table][k])
        /\ ~v.ok => v.mem = w.mem
    BY <1>0, <1>2, <2>1, AddTableConfined DEF Unnoticed
  <2>3. /\ v \in WalkState
        /\ v.ok => /\ IsFresh(m, w.allocator, v.allocator, top, v.table)
                   /\ Linked(m, v.mem, top, i, v.table)
    BY <1>0, <1>2, <2>1, AddTable
  <2> HIDE DEF v
  <2>4. CASE v.ok
    <3>1. v.mem \in Memory
      BY <2>3 DEF WalkState
    <3>2. SameTranslations(m, v.mem, top)
      BY <1>0, <1>2, <2>3, <2>4, <3>1, NewLevel1TranslatesNothing
    <3>3. QED
      BY <2>2, <3>2 DEF Unnoticed, v
  <2>5. CASE ~v.ok
    BY <2>2, <2>5 DEF Unnoticed, v
  <2>6. QED
    BY <2>4, <2>5
<1>3. CASE w.ok /\ pte_is_valid(m[top][i])
  <2>1. has1(m, top, i)
    BY <1>3 DEF has1, nullptr
  <2>2. table1(m, top, i) \in Tables(m, top)
    BY <2>1, EntryType DEF table1, Tables
  <2>3. v = Failed(w) \/ v = [w EXCEPT !.table = table1(m, top, i)]
    BY <1>3 DEF descend, table1
  <2>4. CASE v = Failed(w)
    BY <1>0, <2>4, FailedUnnoticed
  <2>5. CASE v = [w EXCEPT !.table = table1(m, top, i)]
    <3>1. /\ v.mem = m /\ v.allocator = w.allocator /\ v.ok = w.ok
          /\ v.table = table1(m, top, i)
      BY <1>0, <2>5 DEF WalkState
    <3> HIDE DEF v
    <3>2. QED
      BY <2>2, <3>1 DEF Unnoticed, Confined, v
  <2>6. QED
    BY <2>3, <2>4, <2>5
<1>4. QED
  BY <1>1, <1>2, <1>3

(* The step from a level-1 table to a level-0 table.  An entry in use was  *)
(* there when the call began: the tables it has added are empty.           *)
LEMMA Descend0Unnoticed ==
  ASSUME NEW m \in Memory, NEW a \in Allocator, NEW top \in Frame \ {0},
         NEW w, WalkInv(w, top), NEW i \in Idx, NEW j \in Idx,
         w.ok => has1(w.mem, top, i) /\ w.table = table1(w.mem, top, i),
         Unnoticed(m, a, top, w)
  PROVE  Unnoticed(m, a, top, descend(w, j))
<1> DEFINE v == descend(w, j)
<1>0. w \in WalkState /\ w.mem \in Memory /\ IsTree(w.mem, w.allocator, top)
  BY DEF WalkInv, WalkState
<1>1. CASE ~w.ok
  BY <1>1 DEF descend
<1>2. CASE w.ok /\ ~pte_is_valid(w.mem[w.table][j])
  <2>1. v = add_table(w, j) /\ w.table = table1(w.mem, top, i)
    BY <1>2 DEF descend
  <2>2. w.table \in Tables(w.mem, top)
    BY <1>0, <1>2, <2>1 DEF Tables, WalkState
  <2>3. /\ Confined(m, a, top, v)
        /\ v.ok => \A k \in Idx : ~pte_is_valid(v.mem[v.table][k])
        /\ ~v.ok => v.mem = w.mem
    BY <1>2, <2>1, <2>2, AddTableConfined DEF Unnoticed
  <2>4. /\ v \in WalkState
        /\ v.ok => /\ IsFresh(w.mem, w.allocator, v.allocator, top, v.table)
                   /\ Linked(w.mem, v.mem, w.table, j, v.table)
    BY <1>2, <2>1, <2>2, AddTable
  <2>5. has1(w.mem, top, i) /\ ~has0(w.mem, top, i, j)
    BY <1>2, <2>1 DEF has0
  <2> HIDE DEF v
  <2>6. CASE v.ok
    <3>1. v.mem \in Memory
      BY <2>4 DEF WalkState
    <3>2. Linked(w.mem, v.mem, table1(w.mem, top, i), j, v.table)
      BY <2>1, <2>4, <2>6
    <3>3. SameTranslations(w.mem, v.mem, top)
      BY <1>0, <2>4, <2>5, <2>6, <3>1, <3>2, NewLevel0TranslatesNothing
    <3>4. SameTranslations(m, v.mem, top)
      BY <3>3, Transitive DEF Unnoticed
    <3>5. QED
      BY <2>3, <2>6, <3>4 DEF Unnoticed, v
  <2>7. CASE ~v.ok
    BY <2>3, <2>7 DEF Unnoticed, v
  <2>8. QED
    BY <2>6, <2>7
<1>3. CASE w.ok /\ pte_is_valid(w.mem[w.table][j])
  <2>1. w.mem = m /\ has0(m, top, i, j)
    BY <1>3 DEF Unnoticed, has0
  <2>2. table0(m, top, i, j) \in Tables(m, top)
    <3>1. table1(m, top, i) \in Frame
      BY EntryType DEF table1
    <3>2. table0(m, top, i, j) \in Frame
      BY <3>1, EntryType DEF table0
    <3>3. QED
      BY <2>1, <3>2 DEF Tables
  <2>3. v = Failed(w) \/ v = [w EXCEPT !.table = table0(m, top, i, j)]
    BY <1>3, <2>1 DEF descend, table0
  <2>4. CASE v = Failed(w)
    BY <1>0, <2>4, FailedUnnoticed
  <2>5. CASE v = [w EXCEPT !.table = table0(m, top, i, j)]
    <3>1. /\ v.mem = m /\ v.allocator = w.allocator /\ v.ok = w.ok
          /\ v.table = table0(m, top, i, j)
      BY <1>0, <2>1, <2>5 DEF WalkState
    <3> HIDE DEF v
    <3>2. QED
      BY <2>1, <2>2, <3>1 DEF Unnoticed, Confined, v
  <2>6. QED
    BY <2>3, <2>4, <2>5
<1>4. QED
  BY <1>1, <1>2, <1>3

(* What a whole call does: it writes to tables and pages it has taken, and *)
(* maps what it was asked to or nothing.                                   *)
Leaf(pa, flags) == [page |-> pa, flags |-> flags \cup {"V", "A", "D"}]

Effect(m, a, top, va, pa, flags, w) ==
  /\ a.current <= w.allocator.current
  /\ \A f \in Frame : w.mem[f] # m[f] =>
       f \in Tables(m, top) \/ Taken(a, w.allocator, f)
  /\ \A f \in Tables(w.mem, top) :
       f \in Tables(m, top) \/ Taken(a, w.allocator, f)
  /\ IF w.ok
     THEN /\ top # nullptr /\ is_page_aligned(va) /\ is_page_aligned(pa)
          /\ Adds(m, w.mem, top, vpn(va), Leaf(pa, flags))
     ELSE /\ SameTranslations(m, w.mem, top)
          /\ \/ top = nullptr \/ ~is_page_aligned(va) \/ ~is_page_aligned(pa)
             \/ is_mapped(m, top, vpn(va))
             \/ ~has_page(w.allocator)

(* No page is the answer only when there is none.                          *)
LEMMA NoPageLeft ==
  ASSUME NEW a \in Allocator, AllocatorOK(a)
  PROVE  physical_alloc_page(a).page = 0 <=> ~has_page(a)
<1>1. a.current \in Nat /\ a.end \in Nat
  BY SizeAssumption DEF Allocator, Word
<1>2. next_page(a) = a.current /\ a.current # 0
  BY <1>1, AlignUpFixpoint, SizeAssumption DEF AllocatorOK, next_page
<1>3. QED
  BY <1>2 DEF physical_alloc_page

(* The walk stops above the last level only for want of a page: in a tree  *)
(* no entry there is a leaf.                                               *)
Stuck(w) == ~w.ok => ~has_page(w.allocator)

LEMMA DescendStuck ==
  ASSUME NEW top \in Frame \ {0}, NEW w, WalkInv(w, top), NEW k \in Idx, Stuck(w),
         w.ok => \/ w.table = top
                 \/ \E i \in Idx : has1(w.mem, top, i) /\ w.table = table1(w.mem, top, i)
  PROVE  Stuck(descend(w, k))
<1> DEFINE entry == w.mem[w.table][k]
<1>1. w \in WalkState /\ w.allocator \in Allocator /\ AllocatorOK(w.allocator)
  BY DEF WalkInv, WalkState
<1>2. CASE ~w.ok
  BY <1>2 DEF descend
<1>3. CASE w.ok /\ ~pte_is_valid(entry)
  <2>1. descend(w, k) = add_table(w, k)
    BY <1>3 DEF descend
  <2>2. CASE physical_alloc_page(w.allocator).page = 0
    <3>1. add_table(w, k) = Failed(w) /\ ~has_page(w.allocator)
      BY <1>1, <2>2, NoPageLeft DEF add_table
    <3>2. QED
      BY <1>1, <2>1, <3>1 DEF Stuck, Failed, WalkState
  <2>3. CASE physical_alloc_page(w.allocator).page # 0
    BY <2>1, <2>3 DEF add_table, Stuck
  <2>4. QED
    BY <2>2, <2>3
<1>4. CASE w.ok /\ pte_is_valid(entry)
  <2>1. entry.flags = {"V"}
    BY <1>4 DEF WalkInv, IsTree, InteriorEntries, has1, has0, nullptr
  <2>2. descend(w, k) = [w EXCEPT !.table = entry.page]
    BY <1>4, <2>1 DEF descend, pte_is_leaf, Permissions
  <2>3. QED
    BY <1>1, <1>4, <2>2 DEF Stuck, WalkState
<1>5. QED
  BY <1>2, <1>3, <1>4

LEMMA LeafType ==
  ASSUME NEW pa \in Word, is_page_aligned(pa),
         NEW flags \in SUBSET Flags, flags \cap Permissions # {}
  PROVE  /\ Leaf(pa, flags) \in PTE
         /\ pte_is_valid(Leaf(pa, flags)) /\ pte_is_leaf(Leaf(pa, flags))
         /\ pte_from_phys_addr(pa, flags \cup {"V", "A", "D"}) = Leaf(pa, flags)
<1>1. pa \in Nat /\ align_down(pa, PageSize) = pa
  BY SizeAssumption DEF Word, is_page_aligned, align_down
<1>2. QED
  BY <1>1 DEF Leaf, pte_from_phys_addr, PTE, Frame, Flags, Permissions,
              pte_is_leaf, pte_is_valid

(* In a tree a valid entry of the last level translates its page.          *)
LEMMA ValidMeansMapped ==
  ASSUME NEW m, NEW a, NEW top \in Frame \ {0}, IsTree(m, a, top),
         NEW i \in Idx, NEW j \in Idx, NEW k \in Idx, has0(m, top, i, j),
         pte_is_valid(m[table0(m, top, i, j)][k])
  PROVE  is_mapped(m, top, <<i, j, k>>)
<1>1. /\ m[top][i].flags = {"V"} /\ m[table1(m, top, i)][j].flags = {"V"}
      /\ pte_is_leaf(m[table0(m, top, i, j)][k])
  BY DEF IsTree, InteriorEntries, LeafEntries, has0
<1>2. QED
  BY <1>1 DEF is_mapped, is_table_pointer, pte_is_valid, pte_is_leaf, Permissions,
              entry2, entry1, entry0, table1, table0, nullptr

LEMMA PagingMapEffect ==
  ASSUME NEW m \in Memory, NEW a \in Allocator, NEW top \in Frame,
         AllocatorOK(a), IsTree(m, a, top),
         NEW va \in Word, NEW pa \in Word,
         NEW flags \in SUBSET Flags, flags \cap Permissions # {}
  PROVE  Effect(m, a, top, va, pa, flags, paging_map(m, a, top, va, pa, flags))
<1> DEFINE start == Walk(top, m, a)
           w1 == descend(start, sv39_vpn2(va))
           w0 == descend(w1, sv39_vpn1(va))
           k  == sv39_vpn0(va)
           w  == paging_map(m, a, top, va, pa, flags)
<1>0. /\ WalkInv(start, top) /\ start.ok /\ start.table = top
      /\ start.mem = m /\ start.allocator = a /\ start \in WalkState
  BY DEF Walk, WalkInv, WalkState
<1>1. CASE top = nullptr \/ ~is_page_aligned(va) \/ ~is_page_aligned(pa)
  <2>1. w = Failed(start)
    BY <1>1 DEF paging_map
  <2>2. w.mem = m /\ w.allocator = a /\ ~w.ok
    BY <1>0, <2>1 DEF Failed, WalkState
  <2>3. a.current \in Nat
    BY SizeAssumption DEF Allocator, Word
  <2> HIDE DEF w
  <2>4. QED
    BY <1>1, <2>2, <2>3 DEF Effect, SameTranslations, SameAt, w
<1>2. CASE top # nullptr /\ is_page_aligned(va) /\ is_page_aligned(pa)
  <2>1. /\ top \in Frame \ {0}
        /\ sv39_vpn2(va) \in Idx /\ sv39_vpn1(va) \in Idx /\ k \in Idx
        /\ vpn(va) = <<sv39_vpn2(va), sv39_vpn1(va), k>> /\ vpn(va) \in Vpns
    BY <1>2, VpnType DEF nullptr, vpn, Vpns
  <2>2. w = install(w0, k, pa, flags)
    BY <1>2 DEF paging_map
  <2>3. Unnoticed(m, a, top, start) /\ Stuck(start)
    BY <1>0, <2>1, StartUnnoticed DEF Stuck
  <2> HIDE DEF start, k
  <2>4. /\ WalkInv(w1, top) /\ Unnoticed(m, a, top, w1) /\ Stuck(w1)
        /\ w1.ok => /\ has1(w1.mem, top, sv39_vpn2(va))
                    /\ w1.table = table1(w1.mem, top, sv39_vpn2(va))
    <3>1. /\ WalkInv(w1, top)
          /\ w1.ok => /\ has1(w1.mem, top, sv39_vpn2(va))
                      /\ w1.table = table1(w1.mem, top, sv39_vpn2(va))
      BY <1>0, <2>1, Descend1
    <3>2. Unnoticed(m, a, top, w1)
      BY <1>0, <2>1, <2>3, Descend1Unnoticed
    <3>3. Stuck(w1)
      BY <1>0, <2>1, <2>3, DescendStuck
    <3>4. QED
      BY <3>1, <3>2, <3>3
  <2> HIDE DEF w1
  <2>5. /\ WalkInv(w0, top) /\ Unnoticed(m, a, top, w0) /\ Stuck(w0)
        /\ w0.ok => /\ has0(w0.mem, top, sv39_vpn2(va), sv39_vpn1(va))
                    /\ w0.table = table0(w0.mem, top, sv39_vpn2(va), sv39_vpn1(va))
    <3>1. /\ WalkInv(w0, top)
          /\ w0.ok => /\ has0(w0.mem, top, sv39_vpn2(va), sv39_vpn1(va))
                      /\ w0.table = table0(w0.mem, top, sv39_vpn2(va), sv39_vpn1(va))
      BY <2>1, <2>4, Descend0
    <3>2. Unnoticed(m, a, top, w0)
      BY <2>1, <2>4, Descend0Unnoticed
    <3>3. Stuck(w0)
      BY <2>1, <2>4, DescendStuck
    <3>4. QED
      BY <3>1, <3>2, <3>3
  <2> HIDE DEF w0
  <2>6. CASE ~w0.ok \/ pte_is_valid(w0.mem[w0.table][k])
    <3>1. w = Failed(w0)
      BY <2>2, <2>6 DEF install
    <3>2. Unnoticed(m, a, top, w) /\ ~w.ok
      BY <2>5, <3>1, FailedUnnoticed, FailedWalk DEF WalkInv
    <3>3. w.allocator = w0.allocator
      BY <2>5, <3>1 DEF Failed, WalkInv, WalkState
    <3>4. CASE ~w0.ok
      <4>1. ~has_page(w.allocator)
        BY <2>5, <3>3, <3>4 DEF Stuck
      <4> HIDE DEF w
      <4>2. QED
        BY <3>2, <4>1 DEF Effect, Unnoticed, Confined, w
    <3>5. CASE w0.ok
      <4>1. /\ w0.mem = m /\ has0(m, top, sv39_vpn2(va), sv39_vpn1(va))
            /\ w0.table = table0(m, top, sv39_vpn2(va), sv39_vpn1(va))
            /\ pte_is_valid(m[w0.table][k])
        BY <2>1, <2>5, <2>6, <3>5 DEF Unnoticed
      <4>2. is_mapped(m, top, vpn(va))
        BY <2>1, <4>1, ValidMeansMapped
      <4> HIDE DEF w
      <4>3. QED
        BY <3>2, <4>2 DEF Effect, Unnoticed, Confined, w
    <3>6. QED
      BY <3>4, <3>5
  <2>7. CASE w0.ok /\ ~pte_is_valid(w0.mem[w0.table][k])
    <3> DEFINE n == store(w0.mem, w0.table, k, Leaf(pa, flags))
    <3>1. /\ w0 \in WalkState /\ w0.mem \in Memory /\ w0.table \in Frame
          /\ IsTree(w0.mem, w0.allocator, top)
      BY <2>5 DEF WalkInv, WalkState
    <3>2. w = [w0 EXCEPT !.mem = n]
      BY <1>2, <2>2, <2>7, LeafType DEF install
    <3>3. w.mem = n /\ w.allocator = w0.allocator /\ w.ok
      BY <2>7, <3>1, <3>2 DEF WalkState
    <3> HIDE DEF w
    <3>4. \A f \in Frame : f # w0.table => n[f] = w0.mem[f]
      BY <3>1 DEF store, Memory
    <3>5. Adds(w0.mem, n, top, vpn(va), Leaf(pa, flags))
      <4>1. /\ w0.table = table0(w0.mem, top, vpn(va)[1], vpn(va)[2])
            /\ has0(w0.mem, top, vpn(va)[1], vpn(va)[2]) /\ vpn(va)[3] = k
        BY <2>1, <2>5, <2>7
      <4>2. /\ Leaf(pa, flags) \in PTE
            /\ pte_is_valid(Leaf(pa, flags)) /\ pte_is_leaf(Leaf(pa, flags))
        BY <1>2, LeafType
      <4>3. QED
        BY <2>1, <2>7, <3>1, <4>1, <4>2, NewLeafAdds
    <3>6. Tables(n, top) = Tables(w0.mem, top)
      <4>1. /\ w0.table = table0(w0.mem, top, sv39_vpn2(va), sv39_vpn1(va))
            /\ has0(w0.mem, top, sv39_vpn2(va), sv39_vpn1(va))
        BY <2>5, <2>7
      <4>2. /\ Leaf(pa, flags) \in PTE /\ pte_is_leaf(Leaf(pa, flags))
            /\ {"A", "D"} \subseteq Leaf(pa, flags).flags
        BY <1>2, LeafType DEF Leaf
      <4>3. QED
        BY <2>1, <3>1, <4>1, <4>2, NewLeaf
    <3> HIDE DEF n
    <3>7. Adds(m, n, top, vpn(va), Leaf(pa, flags))
      BY <2>1, <2>5, <3>5 DEF Unnoticed, SameTranslations, SameAt, Adds
    <3>8. QED
      BY <1>2, <2>5, <2>7, <3>3, <3>4, <3>6, <3>7
         DEF Effect, Unnoticed, Confined, w
  <2>8. QED
    BY <2>6, <2>7
<1>3. QED
  BY <1>1, <1>2

(* A page taken for the request itself, as map_region does: the            *)
(* allocator's next page is zeroed first, which no table notices.          *)
LEMMA FreshPageEffect ==
  ASSUME NEW m \in Memory, NEW a \in Allocator, NEW top \in Frame \ {0},
         AllocatorOK(a), IsTree(m, a, top), NEW va \in Word,
         NEW flags \in SUBSET Flags, flags \cap Permissions # {},
         physical_alloc_page(a).page # 0
  PROVE  LET answer == physical_alloc_page(a)
             p == answer.page
             w == paging_map([m EXCEPT ![p] = paging_zero_table],
                             answer.allocator, top, va, p, flags)
         IN  /\ p \in Frame /\ p = a.current /\ p < w.allocator.current
             /\ WalkInv(w, top) /\ Effect(m, a, top, va, p, flags, w)
             /\ p \notin Tables(w.mem, top)
<1> DEFINE answer == physical_alloc_page(a)
           p == answer.page
           zeroed == [m EXCEPT ![p] = paging_zero_table]
           w == paging_map(zeroed, answer.allocator, top, va, p, flags)
<1>1. /\ p \in Frame /\ AllocatorOK(answer.allocator) /\ answer.allocator \in Allocator
      /\ \A f \in Frame : IsOwned(a, f) =>
           f # p /\ IsOwned(answer.allocator, f)
  BY Fresh DEF AllocatorOK
<1>2. /\ p = a.current
      /\ answer.allocator.current = a.current + PageSize
  BY AllocOnePage DEF AllocatorOK, Allocator
<1>3. p \notin Tables(m, top)
  BY <1>1 DEF IsTree, TablesOwned, Tables
<1>4. /\ zeroed \in Memory
      /\ \A f \in Frame \ {p}, k \in Idx : zeroed[f][k] = m[f][k]
      /\ \A f \in Frame \ {p} : zeroed[f] = m[f]
  BY <1>1, Zero
<1> HIDE DEF zeroed
<1>5. IsTree(zeroed, answer.allocator, top)
  BY <1>1, <1>3, <1>4, WriteOutside
<1>6. p \in Word
  BY <1>1 DEF Frame
<1>7. /\ Effect(zeroed, answer.allocator, top, va, p, flags, w)
      /\ WalkInv(w, top)
  BY <1>1, <1>4, <1>5, <1>6, PagingMapEffect, PagingMap
<1> HIDE DEF w
<1>8. SameTranslations(m, zeroed, top)
  BY <1>1, <1>3, <1>4, OutsideTranslatesNothing
<1>9. Tables(zeroed, top) = Tables(m, top)
  BY <1>1, <1>3, <1>4, WriteOutside
<1>10. Effect(m, a, top, va, p, flags, w)
  <2>1. a.current \in Nat /\ PageSize \in Nat \ {0} /\ Frame \subseteq Nat
    BY SizeAssumption DEF Allocator, Word, Frame
  <2>2. ASSUME NEW f \in Frame, Taken(answer.allocator, w.allocator, f)
        PROVE  Taken(a, w.allocator, f)
    <3>1. f \in Nat /\ f >= a.current + PageSize
      BY <1>2, <2>1, <2>2 DEF Taken
    <3>2. QED
      BY <2>1, <2>2, <3>1 DEF Taken
  <2>3. answer.allocator.current <= w.allocator.current
    BY <1>7 DEF Effect
  <2>4. w.allocator.current \in Int
    BY <1>7, SizeAssumption DEF WalkInv, WalkState, Allocator, Word
  <2>5. a.current <= w.allocator.current /\ Taken(a, w.allocator, p)
    BY <1>2, <2>1, <2>3, <2>4 DEF Taken
  <2>6. ASSUME NEW f \in Frame, w.mem[f] # m[f]
        PROVE  f \in Tables(m, top) \/ Taken(a, w.allocator, f)
    <3>1. CASE f = p
      BY <2>5, <3>1
    <3>2. CASE f # p
      BY <1>4, <1>7, <1>9, <2>2, <2>6, <3>2 DEF Effect
    <3>3. QED
      BY <3>1, <3>2
  <2>7. ASSUME NEW f \in Tables(w.mem, top)
        PROVE  f \in Tables(m, top) \/ Taken(a, w.allocator, f)
    BY <1>7, <1>9, <2>2, <2>7 DEF Effect, Tables
  <2>8. CASE w.ok
    <3>1. vpn(va) \in Vpns
      BY VpnType DEF vpn, Vpns
    <3>2. Adds(m, w.mem, top, vpn(va), Leaf(p, flags))
      BY <1>7, <1>8, <2>8, <3>1 DEF Effect, Adds, SameTranslations, SameAt
    <3>3. QED
      BY <1>7, <2>5, <2>6, <2>7, <2>8, <3>2 DEF Effect
  <2>9. CASE ~w.ok
    <3>1. SameTranslations(m, w.mem, top)
      BY <1>7, <1>8, <2>9, Transitive DEF Effect
    <3>2. is_mapped(zeroed, top, vpn(va)) => is_mapped(m, top, vpn(va))
      BY <1>8, VpnType DEF SameTranslations, SameAt, vpn, Vpns
    <3>3. QED
      BY <1>7, <2>5, <2>6, <2>7, <2>9, <3>1, <3>2 DEF Effect
  <2>10. QED
    BY <1>7, <2>8, <2>9
<1>11. p \notin Tables(w.mem, top) /\ p < w.allocator.current
  <2>1. a.current \in Nat /\ PageSize \in Nat \ {0} /\ w.allocator.current \in Nat
    BY <1>7, SizeAssumption DEF Allocator, Word, WalkInv, WalkState
  <2>2. ~Taken(answer.allocator, w.allocator, p)
    BY <1>2, <2>1 DEF Taken
  <2>3. answer.allocator.current <= w.allocator.current
    BY <1>7 DEF Effect
  <2>4. QED
    BY <1>2, <1>3, <1>7, <1>9, <2>1, <2>2, <2>3 DEF Effect
<1>12. QED
  BY <1>1, <1>2, <1>7, <1>10, <1>11 DEF w, zeroed

-----------------------------------------------------------------------------
(* A machine has RAM at some frames only.  What is said above of memory    *)
(* with a page at every frame holds of it, as long as the tables and the   *)
(* allocator's pages are in RAM: imagine empty pages everywhere else.      *)

Full(m) == [f \in Frame |-> IF f \in DOMAIN m THEN m[f] ELSE paging_zero_table]

Lift(w) == [ok |-> w.ok, table |-> w.table, mem |-> Full(w.mem),
            allocator |-> w.allocator]

WalkIn(R) == [ok : BOOLEAN, table : Frame, mem : [R -> PageTable], allocator : Allocator]

LEMMA FullType ==
  ASSUME NEW R \in SUBSET Frame, NEW m \in [R -> PageTable]
  PROVE  Full(m) \in Memory /\ \A f \in R : Full(m)[f] = m[f]
<1>1. paging_zero_table \in PageTable
  BY NoEntryType DEF paging_zero_table, PageTable
<1>2. QED
  BY <1>1 DEF Full, Memory

LEMMA FullStore ==
  ASSUME NEW R \in SUBSET Frame, NEW m \in [R -> PageTable],
         NEW p \in R, NEW i \in Idx, NEW pte \in PTE
  PROVE  /\ store(m, p, i, pte) \in [R -> PageTable]
         /\ Full(store(m, p, i, pte)) = store(Full(m), p, i, pte)
<1> DEFINE page == [m[p] EXCEPT ![i] = pte]
<1>1. page \in PageTable
  BY DEF PageTable
<1>2. Full(m)[p] = m[p]
  BY FullType
<1>3. store(m, p, i, pte) = [m EXCEPT ![p] = page]
  BY DEF store
<1>4. store(Full(m), p, i, pte) = [Full(m) EXCEPT ![p] = page]
  BY <1>2 DEF store
<1> HIDE DEF page
<1>5. /\ [m EXCEPT ![p] = page] \in [R -> PageTable]
      /\ Full([m EXCEPT ![p] = page]) = [Full(m) EXCEPT ![p] = page]
  BY <1>1 DEF Full
<1>6. QED
  BY <1>3, <1>4, <1>5

LEMMA SameWalk ==
  ASSUME NEW u \in WalkState, NEW v \in WalkState, u.ok = v.ok, u.table = v.table,
         u.mem = v.mem, u.allocator = v.allocator
  PROVE  u = v
BY DEF WalkState

LEMMA LiftFields ==
  ASSUME NEW R \in SUBSET Frame, NEW w \in WalkIn(R)
  PROVE  /\ Lift(w).ok = w.ok /\ Lift(w).table = w.table
         /\ Lift(w).mem = Full(w.mem) /\ Lift(w).allocator = w.allocator
         /\ Lift(w) \in WalkState /\ Lift(Failed(w)) = Failed(Lift(w))
         /\ Failed(w) \in WalkIn(R)
<1>1. w.mem \in [R -> PageTable]
  BY DEF WalkIn
<1>2. Full(w.mem) \in Memory
  BY <1>1, FullType
<1>3. Lift(w) \in WalkState
  BY <1>2 DEF Lift, WalkIn, WalkState
<1>4. Failed(w) \in WalkIn(R) /\ Failed(w).ok = FALSE /\ Failed(w).table = w.table
      /\ Failed(w).mem = w.mem /\ Failed(w).allocator = w.allocator
  BY DEF Failed, WalkIn
<1>5. Lift(Failed(w)) \in WalkState /\ Failed(Lift(w)) \in WalkState
  BY <1>2, <1>3, <1>4 DEF Lift, WalkIn, WalkState, Failed
<1>6. Lift(Failed(w)) = Failed(Lift(w))
  <2>1. /\ Failed(Lift(w)).ok = FALSE /\ Failed(Lift(w)).table = w.table
        /\ Failed(Lift(w)).mem = Full(w.mem) /\ Failed(Lift(w)).allocator = w.allocator
    BY <1>3 DEF Lift, Failed, WalkState
  <2>2. /\ Lift(Failed(w)).ok = FALSE /\ Lift(Failed(w)).table = w.table
        /\ Lift(Failed(w)).mem = Full(w.mem) /\ Lift(Failed(w)).allocator = w.allocator
    BY <1>4 DEF Lift
  <2>3. QED
    BY <1>5, <2>1, <2>2, SameWalk
<1>7. QED
  BY <1>3, <1>4, <1>6 DEF Lift

LEMMA LiftAddTable ==
  ASSUME NEW R \in SUBSET Frame, NEW w \in WalkIn(R), w.table \in R, NEW i \in Idx,
         AllocatorOK(w.allocator), physical_alloc_page(w.allocator).page \in R \cup {0}
  PROVE  /\ add_table(w, i) \in WalkIn(R)
         /\ Lift(add_table(w, i)) = add_table(Lift(w), i)
         /\ add_table(w, i).allocator.end = w.allocator.end
<1> DEFINE answer == physical_alloc_page(w.allocator)
           p == answer.page
           zeroed == [w.mem EXCEPT ![p] = paging_zero_table]
           linked == store(zeroed, w.table, i, pte_from_phys_addr(p, {"V"}))
<1>1. w.mem \in [R -> PageTable] /\ w.allocator \in Allocator
  BY DEF WalkIn
<1>2. answer.allocator \in Allocator /\ answer.allocator.end = w.allocator.end
  BY <1>1, Fresh DEF AllocatorOK, physical_alloc_page, Allocator
<1>3. CASE p = 0
  BY <1>3, LiftFields DEF add_table, Failed, WalkIn
<1>4. CASE p # 0
  <2>1. p \in R /\ p \in Frame
    BY <1>4
  <2>2. /\ paging_zero_table \in PageTable
        /\ pte_from_phys_addr(p, {"V"}) \in PTE
    BY <2>1, NoEntryType, LinkType DEF paging_zero_table, PageTable
  <2>3. /\ zeroed \in [R -> PageTable]
        /\ Full(zeroed) = [Full(w.mem) EXCEPT ![p] = paging_zero_table]
    BY <1>1, <2>1, <2>2 DEF Full
  <2> HIDE DEF zeroed
  <2>4. /\ linked \in [R -> PageTable]
        /\ Full(linked) = store(Full(zeroed), w.table, i, pte_from_phys_addr(p, {"V"}))
    BY <2>2, <2>3, FullStore
  <2> HIDE DEF linked
  <2>5. add_table(w, i) = [ok |-> TRUE, table |-> p, mem |-> linked,
                           allocator |-> answer.allocator]
    BY <1>4 DEF add_table, linked, zeroed
  <2>6. add_table(Lift(w), i) = [ok |-> TRUE, table |-> p, mem |-> Full(linked),
                                 allocator |-> answer.allocator]
    BY <1>4, <2>3, <2>4, LiftFields DEF add_table
  <2> HIDE DEF answer, p
  <2>7. add_table(w, i) \in WalkIn(R) /\ add_table(w, i).mem = linked
    BY <1>2, <2>1, <2>4, <2>5 DEF WalkIn
  <2>8. Lift(add_table(w, i)) = add_table(Lift(w), i)
    BY <2>5, <2>6 DEF Lift
  <2>9. QED
    BY <1>2, <2>5, <2>7, <2>8
<1>5. QED
  BY <1>3, <1>4

LEMMA LiftDescend ==
  ASSUME NEW R \in SUBSET Frame, NEW w \in WalkIn(R), w.ok => w.table \in R,
         NEW i \in Idx, AllocatorOK(w.allocator),
         physical_alloc_page(w.allocator).page \in R \cup {0}
  PROVE  /\ descend(w, i) \in WalkIn(R)
         /\ Lift(descend(w, i)) = descend(Lift(w), i)
         /\ descend(w, i).allocator.end = w.allocator.end
<1> DEFINE entry == w.mem[w.table][i]
<1>1. CASE ~w.ok
  BY <1>1, LiftFields DEF descend
<1>2. CASE w.ok
  <2>1. w.mem \in [R -> PageTable] /\ w.table \in R
    BY <1>2 DEF WalkIn
  <2>2. Lift(w).mem[Lift(w).table][i] = entry /\ entry \in PTE
    <3>1. Full(w.mem)[w.table] = w.mem[w.table]
      BY <2>1, FullType
    <3>2. QED
      BY <2>1, <3>1, LiftFields DEF PageTable
  <2> HIDE DEF entry
  <2>3. CASE ~pte_is_valid(entry)
    BY <1>2, <2>1, <2>2, <2>3, LiftFields, LiftAddTable DEF descend, entry
  <2>4. CASE pte_is_valid(entry) /\ pte_is_leaf(entry)
    <3>1. descend(w, i) = Failed(w) /\ descend(Lift(w), i) = Failed(Lift(w))
      BY <1>2, <2>2, <2>4, LiftFields DEF descend, entry
    <3>2. Failed(w).allocator = w.allocator
      BY DEF Failed, WalkIn
    <3>3. QED
      BY <3>1, <3>2, LiftFields
  <2>5. CASE pte_is_valid(entry) /\ ~pte_is_leaf(entry)
    <3>1. /\ descend(w, i) = [w EXCEPT !.table = entry.page]
          /\ descend(Lift(w), i) = [Lift(w) EXCEPT !.table = entry.page]
      BY <1>2, <2>2, <2>5, LiftFields DEF descend, entry
    <3>2. entry.page \in Frame
      BY <2>2 DEF PTE
    <3>3. QED
      BY <3>1, <3>2 DEF Lift, WalkIn
  <2>6. QED
    BY <2>3, <2>4, <2>5
<1>3. QED
  BY <1>1, <1>2

LEMMA LiftInstall ==
  ASSUME NEW R \in SUBSET Frame, NEW w \in WalkIn(R), w.ok => w.table \in R,
         NEW i \in Idx, NEW pa \in Word, is_page_aligned(pa),
         NEW flags \in SUBSET Flags, flags \cap Permissions # {}
  PROVE  /\ install(w, i, pa, flags) \in WalkIn(R)
         /\ Lift(install(w, i, pa, flags)) = install(Lift(w), i, pa, flags)
         /\ install(w, i, pa, flags).allocator.end = w.allocator.end
<1> DEFINE stored == store(w.mem, w.table, i, Leaf(pa, flags))
<1>1. CASE ~w.ok
  <2>1. install(w, i, pa, flags) = Failed(w) /\ install(Lift(w), i, pa, flags) = Failed(Lift(w))
    BY <1>1, LiftFields DEF install
  <2>2. Failed(w).allocator = w.allocator
    BY DEF Failed, WalkIn
  <2>3. QED
    BY <2>1, <2>2, LiftFields
<1>2. CASE w.ok
  <2>1. w.mem \in [R -> PageTable] /\ w.table \in R
    BY <1>2 DEF WalkIn
  <2>2. Lift(w).mem[Lift(w).table][i] = w.mem[w.table][i]
    <3>1. Full(w.mem)[w.table] = w.mem[w.table]
      BY <2>1, FullType
    <3>2. QED
      BY <3>1, LiftFields
  <2>3. CASE pte_is_valid(w.mem[w.table][i])
    <3>1. /\ install(w, i, pa, flags) = Failed(w)
          /\ install(Lift(w), i, pa, flags) = Failed(Lift(w))
      BY <2>2, <2>3 DEF install
    <3>2. Failed(w).allocator = w.allocator
      BY DEF Failed, WalkIn
    <3>3. QED
      BY <3>1, <3>2, LiftFields
  <2>4. CASE ~pte_is_valid(w.mem[w.table][i])
    <3>1. /\ stored \in [R -> PageTable]
          /\ Full(stored) = store(Full(w.mem), w.table, i, Leaf(pa, flags))
      <4>1. Leaf(pa, flags) \in PTE
        BY LeafType
      <4> DEFINE m == w.mem
                 pte == Leaf(pa, flags)
                 t == w.table
      <4>2. m \in [R -> PageTable] /\ pte \in PTE /\ t \in R
        BY <2>1, <4>1
      <4> HIDE DEF m, pte, t
      <4>3. store(m, t, i, pte) \in [R -> PageTable]
        BY <4>2, FullStore
      <4>4. Full(store(m, t, i, pte)) = store(Full(m), t, i, pte)
        BY <4>2, FullStore
      <4>5. QED
        BY <4>3, <4>4 DEF m, pte, t
    <3>2. /\ install(w, i, pa, flags) = [w EXCEPT !.mem = stored]
          /\ install(Lift(w), i, pa, flags) = [Lift(w) EXCEPT !.mem = Full(stored)]
      BY <1>2, <2>2, <2>4, <3>1, LeafType, LiftFields DEF install
    <3> HIDE DEF stored
    <3>3. QED
      BY <3>1, <3>2 DEF Lift, WalkIn
  <2>5. QED
    BY <2>3, <2>4
<1>3. QED
  BY <1>1, <1>2

LEMMA LiftPagingMap ==
  ASSUME NEW R \in SUBSET Frame, NEW m \in [R -> PageTable], NEW a \in Allocator,
         AllocatorOK(a), NEW top \in R \ {0},
         IsTree(Full(m), a, top), Tables(Full(m), top) \subseteq R,
         \A f \in Frame : a.current <= f /\ f < a.end => f \in R,
         NEW va \in Word, NEW pa \in Word,
         NEW flags \in SUBSET Flags, flags \cap Permissions # {}
  PROVE  LET w == paging_map(m, a, top, va, pa, flags)
         IN  /\ w \in WalkIn(R)
             /\ Lift(w) = paging_map(Full(m), a, top, va, pa, flags)
             /\ w.allocator.end = a.end
<1> DEFINE M     == Full(m)
           start == Walk(top, m, a)
           w1 == descend(start, sv39_vpn2(va))
           w0 == descend(w1, sv39_vpn1(va))
           Start == Walk(top, M, a)
           W1 == descend(Start, sv39_vpn2(va))
           W0 == descend(W1, sv39_vpn1(va))
           w  == paging_map(m, a, top, va, pa, flags)
<1>0. /\ M \in Memory /\ top \in Frame
      /\ start \in WalkIn(R) /\ Lift(start) = Start /\ start.allocator = a
      /\ start.ok /\ start.table = top
      /\ Start \in WalkState /\ WalkInv(Start, top) /\ Start.ok /\ Start.table = top
      /\ Start.mem = M
  <2>1. M \in Memory /\ top \in Frame
    BY FullType
  <2>2. start \in WalkIn(R) /\ start.allocator = a /\ start.ok /\ start.table = top
    BY DEF Walk, WalkIn
  <2>3. Lift(start) = Start
    BY DEF Walk, Lift
  <2>4. /\ Start \in WalkState /\ Start.ok /\ Start.table = top
        /\ Start.mem = M /\ Start.allocator = a
    BY <2>1 DEF Walk, WalkState
  <2>5. QED
    BY <2>1, <2>2, <2>3, <2>4 DEF WalkInv
<1>1. CASE ~is_page_aligned(va) \/ ~is_page_aligned(pa)
  <2>1. w = Failed(start) /\ paging_map(M, a, top, va, pa, flags) = Failed(Start)
    BY <1>1 DEF paging_map
  <2>2. Failed(start).allocator = start.allocator
    BY <1>0 DEF Failed, WalkIn
  <2> HIDE DEF start, Start, w
  <2>3. QED
    BY <1>0, <2>1, <2>2, LiftFields DEF w
<1>2. CASE is_page_aligned(va) /\ is_page_aligned(pa)
  <2>1. /\ sv39_vpn2(va) \in Idx /\ sv39_vpn1(va) \in Idx /\ sv39_vpn0(va) \in Idx
    BY VpnType
  <2>2. /\ w = install(w0, sv39_vpn0(va), pa, flags)
        /\ paging_map(M, a, top, va, pa, flags) = install(W0, sv39_vpn0(va), pa, flags)
    BY <1>2 DEF paging_map, nullptr
  <2>3. Unnoticed(M, a, top, Start)
    BY <1>0, StartUnnoticed
  <2>4. ASSUME NEW v, v \in WalkState, AllocatorOK(v.allocator),
               v.allocator.end = a.end, Confined(M, a, top, v)
        PROVE  /\ physical_alloc_page(v.allocator).page \in R \cup {0}
               /\ v.ok => v.table \in R
    <3>1. /\ a.current \in Nat /\ a.end \in Nat
          /\ v.allocator.current \in Nat /\ v.allocator.current <= a.end
          /\ a.current <= v.allocator.current
      BY <2>4, SizeAssumption DEF AllocatorOK, Allocator, Word, Confined
    <3>2. \A f \in Frame : Taken(a, v.allocator, f) => f \in R
      BY <3>1, SizeAssumption DEF Taken, Frame, Word
    <3>3. v.ok => v.table \in R
      BY <2>4, <3>2 DEF Confined, WalkState
    <3>4. physical_alloc_page(v.allocator).page # 0 =>
            /\ physical_alloc_page(v.allocator).page = v.allocator.current
            /\ v.allocator.current + PageSize <= a.end
            /\ physical_alloc_page(v.allocator).page \in Frame
      BY <2>4, AllocOnePage, Fresh DEF AllocatorOK
    <3>5. QED
      BY <3>1, <3>3, <3>4, SizeAssumption
  <2> HIDE DEF start, Start, M
  <2>5. /\ w1 \in WalkIn(R) /\ Lift(w1) = W1 /\ w1.allocator.end = a.end
    <3>1. physical_alloc_page(Start.allocator).page \in R \cup {0}
      BY <1>0, <2>3, <2>4, LiftFields DEF WalkInv, Unnoticed
    <3>2. start.allocator = Start.allocator /\ AllocatorOK(start.allocator)
      BY <1>0, LiftFields DEF WalkInv
    <3>3. QED
      BY <1>0, <2>1, <3>1, <3>2, LiftDescend
  <2>6. /\ WalkInv(W1, top) /\ Unnoticed(M, a, top, W1)
        /\ W1.ok => /\ has1(W1.mem, top, sv39_vpn2(va))
                    /\ W1.table = table1(W1.mem, top, sv39_vpn2(va))
    <3>1. /\ WalkInv(W1, top)
          /\ W1.ok => /\ has1(W1.mem, top, sv39_vpn2(va))
                      /\ W1.table = table1(W1.mem, top, sv39_vpn2(va))
      BY <1>0, <2>1, Descend1
    <3>2. Unnoticed(M, a, top, W1)
      BY <1>0, <2>1, <2>3, Descend1Unnoticed
    <3>3. QED
      BY <3>1, <3>2
  <2> HIDE DEF w1, W1
  <2>7. /\ w1.allocator = W1.allocator /\ w1.ok = W1.ok /\ w1.table = W1.table
    BY <2>5, LiftFields
  <2>8. /\ w0 \in WalkIn(R) /\ Lift(w0) = W0 /\ w0.allocator.end = a.end
    <3>1. /\ physical_alloc_page(w1.allocator).page \in R \cup {0}
          /\ w1.ok => w1.table \in R
          /\ AllocatorOK(w1.allocator)
      BY <2>4, <2>5, <2>6, <2>7 DEF WalkInv, Unnoticed
    <3>2. QED
      BY <2>1, <2>5, <3>1, LiftDescend
  <2>9. /\ WalkInv(W0, top) /\ Unnoticed(M, a, top, W0)
    BY <2>1, <2>6, Descend0, Descend0Unnoticed, <1>0
  <2> HIDE DEF w0, W0
  <2>10. w0.ok => w0.table \in R
    BY <2>4, <2>8, <2>9, LiftFields DEF WalkInv, Unnoticed
  <2>11. QED
    BY <1>2, <2>1, <2>2, <2>8, <2>10, LiftInstall DEF M
<1>3. QED
  BY <1>1, <1>2

(* Reading tables in RAM does not depend on what is imagined elsewhere.    *)
InRam(R, m, top) == Tables(m, top) \subseteq R

LEMMA FullReads ==
  ASSUME NEW R \in SUBSET Frame, NEW m \in [R -> PageTable], NEW top \in R \ {0},
         InRam(R, m, top) \/ InRam(R, Full(m), top)
  PROVE  /\ Tables(Full(m), top) = Tables(m, top)
         /\ \A a : IsTree(Full(m), a, top) <=> IsTree(m, a, top)
         /\ \A t \in Vpns : /\ HardwareWalk(Full(m), top, t) = HardwareWalk(m, top, t)
                            /\ SameAt(m, Full(m), top, t)
<1> DEFINE M == Full(m)
<1>1. M \in Memory /\ (\A f \in R : M[f] = m[f]) /\ top \in Frame
  BY FullType
<1> HIDE DEF M
<1>2. /\ \A i \in Idx : has1(M, top, i) <=> has1(m, top, i)
      /\ \A i \in Idx : table1(M, top, i) = table1(m, top, i)
      /\ \A i \in Idx : table1(m, top, i) \in Frame
  <2>1. \A i \in Idx : m[top][i].page \in Frame
    BY DEF PageTable, PTE
  <2>2. QED
    BY <1>1, <2>1 DEF has1, table1
<1>3. ASSUME NEW i \in Idx, has1(m, top, i) PROVE table1(m, top, i) \in R
  <2>1. table1(m, top, i) \in Tables(m, top) /\ table1(m, top, i) \in Tables(M, top)
    BY <1>2, <1>3 DEF Tables
  <2>2. QED
    BY <2>1 DEF InRam, M
<1>4. ASSUME NEW i \in Idx, NEW j \in Idx
      PROVE  /\ has0(M, top, i, j) <=> has0(m, top, i, j)
             /\ has1(m, top, i) => /\ table0(M, top, i, j) = table0(m, top, i, j)
                                   /\ table0(m, top, i, j) \in Frame
                                   /\ M[table1(m, top, i)] = m[table1(m, top, i)]
  <2>1. CASE has1(m, top, i)
    <3> DEFINE t == table1(m, top, i)
    <3>1. t \in R /\ M[t] = m[t] /\ m[t] \in PageTable /\ table1(M, top, i) = t
      BY <1>1, <1>2, <1>3, <2>1
    <3>2. m[t][j] \in PTE
      BY <3>1 DEF PageTable
    <3>3. table0(M, top, i, j) = m[t][j].page /\ table0(m, top, i, j) = m[t][j].page
      BY <3>1 DEF table0
    <3>4. has0(M, top, i, j) <=> has0(m, top, i, j)
      BY <1>2, <3>1 DEF has0
    <3> HIDE DEF t
    <3>5. QED
      BY <3>1, <3>2, <3>3, <3>4 DEF PTE, t
  <2>2. CASE ~has1(m, top, i)
    BY <1>2, <2>2 DEF has0
  <2>3. QED
    BY <2>1, <2>2
<1>5. \A i \in Idx, j \in Idx : has0(m, top, i, j) => has1(m, top, i)
  BY DEF has0
<1>6. ASSUME NEW i \in Idx, NEW j \in Idx, has0(m, top, i, j)
      PROVE  table0(m, top, i, j) \in R /\ M[table0(m, top, i, j)] = m[table0(m, top, i, j)]
  <2>1. /\ table0(m, top, i, j) \in Frame /\ table0(M, top, i, j) = table0(m, top, i, j)
        /\ has0(M, top, i, j)
    BY <1>4, <1>5, <1>6
  <2>2. table0(m, top, i, j) \in Tables(m, top) /\ table0(m, top, i, j) \in Tables(M, top)
    BY <1>6, <2>1 DEF Tables
  <2>3. QED
    BY <1>1, <2>2 DEF InRam, M
<1>7. Tables(M, top) = Tables(m, top)
  BY <1>2, <1>4, <1>5 DEF Tables
<1>8. InteriorEntries(M, top) <=> InteriorEntries(m, top)
  BY <1>1, <1>2, <1>4, <1>5 DEF InteriorEntries
<1>9. LeafEntries(M, top) <=> LeafEntries(m, top)
  <2>1. ASSUME NEW i \in Idx, NEW j \in Idx, has0(m, top, i, j)
        PROVE  M[table0(M, top, i, j)] = m[table0(m, top, i, j)]
    BY <1>4, <1>5, <1>6, <2>1
  <2>2. QED
    BY <1>4, <2>1 DEF LeafEntries
<1>10. TablesDistinct(M, top) <=> TablesDistinct(m, top)
  BY <1>2, <1>4, <1>5 DEF TablesDistinct
<1>11. \A a : IsTree(M, a, top) <=> IsTree(m, a, top)
  BY <1>7, <1>8, <1>9, <1>10 DEF IsTree, TablesOwned
<1>12. ASSUME NEW t \in Vpns
       PROVE  HardwareWalk(M, top, t) = HardwareWalk(m, top, t) /\ SameAt(m, M, top, t)
  <2>1. t[1] \in Idx /\ t[2] \in Idx /\ t[3] \in Idx
    BY DEF Vpns
  <2>2. entry2(M, top, t) = entry2(m, top, t)
    BY <1>1, <2>1 DEF entry2
  <2>3. pte_is_valid(entry2(m, top, t)) => entry1(M, top, t) = entry1(m, top, t)
    BY <1>1, <1>3, <2>1, <2>2 DEF entry1, entry2, has1, table1, nullptr
  <2>4. pte_is_valid(entry2(m, top, t)) /\ pte_is_valid(entry1(m, top, t))
          => entry0(M, top, t) = entry0(m, top, t)
    <3>1. SUFFICES ASSUME pte_is_valid(entry2(m, top, t)), pte_is_valid(entry1(m, top, t))
                   PROVE  entry0(M, top, t) = entry0(m, top, t)
      OBVIOUS
    <3>2. has0(m, top, t[1], t[2]) /\ entry1(m, top, t).page = table0(m, top, t[1], t[2])
      BY <2>1, <3>1 DEF has0, has1, table0, table1, entry1, entry2, nullptr
    <3>3. M[entry1(m, top, t).page] = m[entry1(m, top, t).page]
      BY <1>6, <2>1, <3>2
    <3>4. QED
      BY <2>3, <3>1, <3>3 DEF entry0
  <2>5. HardwareWalk(M, top, t) = HardwareWalk(m, top, t)
    BY <2>2, <2>3, <2>4 DEF HardwareWalk
  <2>6. SameAt(m, M, top, t)
    BY <2>2, <2>3, <2>4 DEF SameAt, is_mapped, is_table_pointer
  <2>7. QED
    BY <2>5, <2>6
<1>13. QED
  BY <1>7, <1>11, <1>12 DEF M

(* A call of paging_map on tables in RAM, which leaves tables in RAM.      *)
RamEffect(R, m, a, top, va, pa, flags, w) ==
  /\ w.mem \in [R -> PageTable] /\ AllocatorOK(w.allocator)
  /\ w.allocator.end = a.end /\ a.current <= w.allocator.current
  /\ IsTree(w.mem, w.allocator, top) /\ InRam(R, w.mem, top)
  /\ \A f \in R : w.mem[f] # m[f] => f \in Tables(m, top) \/ Taken(a, w.allocator, f)
  /\ \A f \in Tables(w.mem, top) : f \in Tables(m, top) \/ Taken(a, w.allocator, f)
  /\ IF w.ok THEN Adds(m, w.mem, top, vpn(va), Leaf(pa, flags))
     ELSE /\ SameTranslations(m, w.mem, top)
          /\ \/ ~is_page_aligned(va) \/ ~is_page_aligned(pa)
             \/ is_mapped(m, top, vpn(va))
             \/ ~has_page(w.allocator)

(* RAM reaches from the allocator's next page to its end.                  *)
CanTake(R, a) == \A f \in Frame : a.current <= f /\ f < a.end => f \in R

LEMMA Unlift ==
  ASSUME NEW R \in SUBSET Frame, NEW m \in [R -> PageTable], NEW a \in Allocator,
         NEW top \in R \ {0}, InRam(R, m, top), CanTake(R, a),
         NEW va \in Word, NEW pa, NEW flags, NEW w \in WalkIn(R), w.allocator.end = a.end,
         WalkInv(Lift(w), top), Effect(Full(m), a, top, va, pa, flags, Lift(w))
  PROVE  RamEffect(R, m, a, top, va, pa, flags, w)
<1> DEFINE M == Full(m)
           W == Lift(w)
           N == Full(w.mem)
<1>1. /\ w.mem \in [R -> PageTable] /\ W.mem = N /\ W.allocator = w.allocator /\ W.ok = w.ok
  BY LiftFields DEF WalkIn
<1>2. /\ \A f \in R : M[f] = m[f] /\ N[f] = w.mem[f]
  BY <1>1, FullType
<1>3. /\ AllocatorOK(w.allocator) /\ IsTree(N, w.allocator, top)
  BY <1>1 DEF WalkInv
<1>4. /\ Tables(M, top) = Tables(m, top)
      /\ \A t \in Vpns : SameAt(m, M, top, t)
  BY FullReads
<1> HIDE DEF M, W, N
<1>5. /\ a.current <= w.allocator.current
      /\ \A f \in Frame : N[f] # M[f] => f \in Tables(m, top) \/ Taken(a, w.allocator, f)
      /\ \A f \in Tables(N, top) : f \in Tables(m, top) \/ Taken(a, w.allocator, f)
  BY <1>1, <1>4 DEF Effect, M, W
<1>6. \A f \in Frame : Taken(a, w.allocator, f) => f \in R
  <2>1. w.allocator.current \in Nat /\ w.allocator.current <= a.end /\ a.end \in Nat
    BY <1>3, SizeAssumption DEF AllocatorOK, Allocator, Word
  <2>2. QED
    BY <2>1, SizeAssumption DEF Taken, CanTake, Frame, Word
<1>7. InRam(R, N, top)
  BY <1>5, <1>6 DEF InRam, Tables
<1>8. /\ Tables(N, top) = Tables(w.mem, top)
      /\ IsTree(w.mem, w.allocator, top)
      /\ \A t \in Vpns : SameAt(w.mem, N, top, t)
  BY <1>1, <1>3, <1>7, FullReads DEF N
<1>9. vpn(va) \in Vpns
  BY VpnType DEF vpn, Vpns
<1>10. ASSUME w.ok PROVE Adds(m, w.mem, top, vpn(va), Leaf(pa, flags))
  <2>1. Adds(M, N, top, vpn(va), Leaf(pa, flags))
    BY <1>1, <1>10 DEF Effect, M, W
  <2>2. QED
    BY <1>4, <1>8, <1>9, <2>1 DEF Adds, SameAt
<1>11. ASSUME ~w.ok
       PROVE  /\ SameTranslations(m, w.mem, top)
              /\ \/ ~is_page_aligned(va) \/ ~is_page_aligned(pa)
                 \/ is_mapped(m, top, vpn(va))
                 \/ ~has_page(w.allocator)
  <2>1. /\ SameTranslations(M, N, top)
        /\ \/ ~is_page_aligned(va) \/ ~is_page_aligned(pa)
           \/ is_mapped(M, top, vpn(va))
           \/ ~has_page(w.allocator)
    BY <1>1, <1>11 DEF Effect, M, W, nullptr
  <2>2. QED
    BY <1>4, <1>8, <1>9, <2>1 DEF SameTranslations, SameAt
<1>12. \A f \in R : w.mem[f] # m[f] => f \in Tables(m, top) \/ Taken(a, w.allocator, f)
  BY <1>2, <1>5
<1>13. InRam(R, w.mem, top)
  BY <1>7, <1>8 DEF InRam
<1>14. QED
  BY <1>1, <1>3, <1>5, <1>8, <1>10, <1>11, <1>12, <1>13 DEF RamEffect

LEMMA RamMap ==
  ASSUME NEW R \in SUBSET Frame, NEW m \in [R -> PageTable], NEW a \in Allocator,
         AllocatorOK(a), NEW top \in R \ {0}, IsTree(m, a, top), InRam(R, m, top),
         CanTake(R, a), NEW va \in Word, NEW pa \in Word,
         NEW flags \in SUBSET Flags, flags \cap Permissions # {}
  PROVE  RamEffect(R, m, a, top, va, pa, flags, paging_map(m, a, top, va, pa, flags))
<1> DEFINE M == Full(m)
           w == paging_map(m, a, top, va, pa, flags)
<1>1. /\ M \in Memory /\ IsTree(M, a, top) /\ Tables(M, top) \subseteq R /\ top \in Frame
  BY FullType, FullReads DEF InRam
<1>2. /\ w \in WalkIn(R) /\ w.allocator.end = a.end
      /\ Lift(w) = paging_map(M, a, top, va, pa, flags)
  BY <1>1, LiftPagingMap DEF CanTake
<1>3. /\ WalkInv(paging_map(M, a, top, va, pa, flags), top)
      /\ Effect(M, a, top, va, pa, flags, paging_map(M, a, top, va, pa, flags))
  BY <1>1, PagingMap, PagingMapEffect
<1> HIDE DEF w
<1>4. QED
  BY <1>2, <1>3, Unlift DEF w

(* The same for a page taken and zeroed for the request itself.            *)
LEMMA RamFresh ==
  ASSUME NEW R \in SUBSET Frame, NEW m \in [R -> PageTable], NEW a \in Allocator,
         AllocatorOK(a), NEW top \in R \ {0}, IsTree(m, a, top), InRam(R, m, top),
         CanTake(R, a), NEW va \in Word,
         NEW flags \in SUBSET Flags, flags \cap Permissions # {},
         physical_alloc_page(a).page # 0
  PROVE  LET answer == physical_alloc_page(a)
             p == answer.page
             w == paging_map([m EXCEPT ![p] = paging_zero_table],
                             answer.allocator, top, va, p, flags)
         IN  /\ p \in R /\ p = a.current /\ p < w.allocator.current
             /\ RamEffect(R, m, a, top, va, p, flags, w)
             /\ p \notin Tables(w.mem, top)
<1> DEFINE answer == physical_alloc_page(a)
           p == answer.page
           zeroed == [m EXCEPT ![p] = paging_zero_table]
           w == paging_map(zeroed, answer.allocator, top, va, p, flags)
           M == Full(m)
           Z == [M EXCEPT ![p] = paging_zero_table]
           W == paging_map(Z, answer.allocator, top, va, p, flags)
<1>1. /\ M \in Memory /\ IsTree(M, a, top) /\ Tables(M, top) \subseteq R /\ top \in Frame
  BY FullType, FullReads DEF InRam
<1>2. /\ p \in Frame /\ p = a.current /\ p < W.allocator.current
      /\ WalkInv(W, top) /\ Effect(M, a, top, va, p, flags, W)
      /\ p \notin Tables(W.mem, top)
  BY <1>1, FreshPageEffect
<1>3. /\ AllocatorOK(answer.allocator) /\ answer.allocator \in Allocator
      /\ answer.allocator.current = a.current + PageSize
      /\ answer.allocator.end = a.end /\ a.current + PageSize <= a.end
      /\ \A f \in Frame : IsOwned(a, f) =>
           f # p /\ IsOwned(answer.allocator, f)
  BY Fresh, AllocOnePage DEF AllocatorOK, Allocator
<1>4. p \in R /\ CanTake(R, answer.allocator)
  BY <1>2, <1>3, SizeAssumption DEF CanTake, Allocator, Frame, Word
<1>5. zeroed \in [R -> PageTable] /\ Full(zeroed) = Z
  <2>1. paging_zero_table \in PageTable
    BY NoEntryType DEF paging_zero_table, PageTable
  <2>2. QED
    BY <1>4, <2>1 DEF Full
<1>6. IsTree(Z, answer.allocator, top) /\ Tables(Z, top) = Tables(M, top)
  <2>1. p \notin Tables(M, top)
    BY <1>1, <1>3 DEF IsTree, TablesOwned, Tables
  <2>2. Z \in Memory /\ \A f \in Frame \ {p}, k \in Idx : Z[f][k] = M[f][k]
    BY <1>1, <1>2, Zero
  <2>3. \A f \in Frame : IsOwned(a, f) => IsOwned(answer.allocator, f)
    BY <1>3
  <2>4. p \in Frame
    BY <1>2
  <2> HIDE DEF Z, M, answer, p
  <2>5. QED
    BY <1>1, <2>1, <2>2, <2>3, <2>4, WriteOutside
<1>7. p \in Word
  BY <1>2 DEF Frame
<1> HIDE DEF zeroed, Z, M, answer, p
<1>8. w \in WalkIn(R) /\ Lift(w) = W /\ w.allocator.end = a.end
  BY <1>1, <1>3, <1>4, <1>5, <1>6, <1>7, LiftPagingMap DEF CanTake
<1> HIDE DEF w, W
<1>9. RamEffect(R, m, a, top, va, p, flags, w)
  BY <1>2, <1>8, Unlift DEF M
<1>10. w.allocator = W.allocator /\ Full(w.mem) = W.mem /\ w.mem \in [R -> PageTable]
  BY <1>8, LiftFields DEF WalkIn
<1>11. p \notin Tables(w.mem, top)
  <2>1. InRam(R, w.mem, top)
    BY <1>9 DEF RamEffect
  <2>2. Tables(Full(w.mem), top) = Tables(w.mem, top)
    BY <1>10, <2>1, FullReads
  <2>3. QED
    BY <1>2, <1>10, <2>2
<1>12. QED
  BY <1>2, <1>4, <1>9, <1>10, <1>11 DEF w, zeroed, answer, p
=============================================================================
