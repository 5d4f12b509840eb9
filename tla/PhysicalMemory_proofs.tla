---------------------- MODULE PhysicalMemory_proofs ----------------------
(***************************************************************************)
(* Facts about alignment and about one allocation, for every page size     *)
(* and word size.  The proofs about the allocator and about page tables    *)
(* cite them.                                                              *)
(***************************************************************************)
EXTENDS PhysicalMemory, TLAPS

(* Division with remainder, in the form the other lemmas use it.           *)
LEMMA DivisionWithRemainder ==
  ASSUME NEW s \in Nat, NEW a \in Nat \ {0}
  PROVE  /\ s \div a \in Nat
         /\ s = a * (s \div a) + (s % a)
         /\ s % a \in 0 .. a - 1
  OBVIOUS

LEMMA MultipleIsAligned ==
  ASSUME NEW q \in Nat, NEW a \in Nat \ {0}
  PROVE  (a * q) % a = 0
  OBVIOUS

(* What & ~(alignment - 1) computes: the multiple at or below value.       *)
LEMMA AlignDown ==
  ASSUME NEW value \in Nat, NEW a \in Nat \ {0}
  PROVE  /\ align_down(value, a) \in 0 .. value
         /\ align_down(value, a) > value - a
         /\ align_down(value, a) % a = 0
<1>1. align_down(value, a) = a * (value \div a)
  BY DivisionWithRemainder DEF align_down
<1>2. align_down(value, a) % a = 0
  BY <1>1, DivisionWithRemainder, MultipleIsAligned
<1>3. QED
  BY <1>2, DivisionWithRemainder DEF align_down

(* align_up without wrap-around: the multiple at or above value.           *)
LEMMA AlignUp ==
  ASSUME NEW value \in Nat, value + PageSize <= WordSize
  PROVE  /\ align_up(value, PageSize) \in Nat
         /\ align_up(value, PageSize) >= value
         /\ align_up(value, PageSize) < value + PageSize
         /\ is_page_aligned(align_up(value, PageSize))
<1> DEFINE s == value + PageSize - 1
<1>1. s \in Nat /\ s < WordSize
  BY SizeAssumption
<1>2. Add(value, PageSize - 1) = s
  BY <1>1, SizeAssumption DEF Add
<1>3. QED
  BY <1>1, <1>2, AlignDown, SizeAssumption DEF align_up, is_page_aligned

(* Two different page boundaries are at least a page apart.                *)
LEMMA PagesApart ==
  ASSUME NEW p \in Nat, NEW q \in Nat,
         is_page_aligned(p), is_page_aligned(q), p < q
  PROVE  p + PageSize <= q
<1> DEFINE i == p \div PageSize
           j == q \div PageSize
<1>1. i \in Nat /\ j \in Nat /\ p = PageSize * i /\ q = PageSize * j
  BY DivisionWithRemainder, SizeAssumption DEF is_page_aligned
<1> HIDE DEF i, j
<1>2. i < j
  BY <1>1, SizeAssumption
<1>3. PageSize * (i + 1) <= PageSize * j
  BY <1>1, <1>2, SizeAssumption
<1>4. PageSize * (i + 1) = p + PageSize
  BY <1>1, SizeAssumption
<1>5. QED
  BY <1>1, <1>3, <1>4

LEMMA NextPageAligned ==
  ASSUME NEW p \in Nat, is_page_aligned(p)
  PROVE  is_page_aligned(p + PageSize)
<1> DEFINE i == p \div PageSize
<1>1. i \in Nat /\ p = PageSize * i
  BY DivisionWithRemainder, SizeAssumption DEF is_page_aligned
<1> HIDE DEF i
<1>2. p + PageSize = PageSize * (i + 1)
  BY <1>1, SizeAssumption
<1>3. QED
  BY <1>1, <1>2, MultipleIsAligned, SizeAssumption DEF is_page_aligned

(* Rounding up leaves a page boundary where it is.                         *)
LEMMA AlignUpFixpoint ==
  ASSUME NEW p \in Nat, is_page_aligned(p), p + PageSize <= WordSize
  PROVE  align_up(p, PageSize) = p
<1> DEFINE u == align_up(p, PageSize)
<1>1. u \in Nat /\ u >= p /\ u < p + PageSize /\ is_page_aligned(u)
  BY AlignUp
<1> HIDE DEF u
<1>2. ASSUME p < u PROVE FALSE
  <2>1. p + PageSize <= u
    BY <1>1, <1>2, PagesApart
  <2>2. QED
    BY <1>1, <2>1, SizeAssumption
<1>3. QED
  BY <1>1, <1>2 DEF u

(* One call of physical_alloc_page on an allocator that is page-aligned    *)
(* and does not end within two pages of the top of the word.               *)
LEMMA AllocOnePage ==
  ASSUME NEW alloc \in Allocator,
         is_page_aligned(alloc.current), alloc.current <= alloc.end,
         alloc.end + 2 * PageSize <= WordSize
  PROVE  LET answer == physical_alloc_page(alloc)
         IN  \/ /\ answer = [page |-> alloc.current,
                             allocator |-> [alloc EXCEPT !.current =
                                              alloc.current + PageSize]]
                /\ alloc.current + PageSize <= alloc.end
             \/ /\ answer = [page |-> 0, allocator |-> alloc]
                /\ alloc.current + PageSize > alloc.end
<1>1. alloc.current \in Nat /\ alloc.end \in Nat
  BY SizeAssumption DEF Allocator, Word
<1>2. next_page(alloc) = alloc.current
  BY <1>1, AlignUpFixpoint, SizeAssumption DEF next_page
<1>3. Add(next_page(alloc), PageSize) = alloc.current + PageSize
  BY <1>1, <1>2, SizeAssumption DEF Add
<1>4. QED
  BY <1>1, <1>2, <1>3, SizeAssumption DEF physical_alloc_page, has_page
=============================================================================
