---------------------------- MODULE Boot_proofs ----------------------------
(***************************************************************************)
(* Boot, for every page size, word size, table size, platform, image and   *)
(* content of RAM that the assumptions of Boot allow.                      *)
(***************************************************************************)
EXTENDS Boot, Sv39_proofs

-----------------------------------------------------------------------------
(* Arithmetic of addresses.                                                *)

LEMMA AddWord ==
  ASSUME NEW a \in Word, NEW b \in Word
  PROVE  /\ Add(a, b) \in Word
         /\ Add(a, b) = IF a + b < WordSize THEN a + b ELSE a + b - WordSize
<1>1. a \in Nat /\ b \in Nat /\ a < WordSize /\ b < WordSize /\ WordSize \in Nat \ {0}
  BY SizeAssumption DEF Word
<1>2. CASE a + b < WordSize
  BY <1>1, <1>2 DEF Add, Word
<1>3. CASE a + b >= WordSize
  <2>1. (a + b) % WordSize = (a + b - WordSize) % WordSize
    BY <1>1, <1>3
  <2>2. QED
    BY <1>1, <1>3, <2>1 DEF Add, Word
<1>4. QED
  BY <1>1, <1>2, <1>3

LEMMA PageNumber ==
  ASSUME NEW x \in Nat, is_page_aligned(x)
  PROVE  x \div PageSize \in Nat /\ x = PageSize * (x \div PageSize)
BY DivisionWithRemainder, SizeAssumption DEF is_page_aligned

LEMMA AlignedSum ==
  ASSUME NEW a \in Nat, NEW b \in Nat, is_page_aligned(a), is_page_aligned(b)
  PROVE  is_page_aligned(a + b) /\ (b <= a => is_page_aligned(a - b))
<1> DEFINE i == a \div PageSize
           j == b \div PageSize
<1>1. i \in Nat /\ j \in Nat /\ a = PageSize * i /\ b = PageSize * j
  BY DivisionWithRemainder, SizeAssumption DEF is_page_aligned
<1> HIDE DEF i, j
<1>2. a + b = PageSize * (i + j)
  BY <1>1, SizeAssumption
<1>3. is_page_aligned(a + b)
  BY <1>1, <1>2, MultipleIsAligned, SizeAssumption DEF is_page_aligned
<1>4. ASSUME b <= a PROVE is_page_aligned(a - b)
  <2>1. ~(i < j)
    <3>1. SUFFICES ASSUME i < j PROVE FALSE
      OBVIOUS
    <3>2. PageSize * (i + 1) <= PageSize * j
      BY <1>1, <3>1, SizeAssumption
    <3>3. PageSize * (i + 1) = PageSize * i + PageSize
      BY <1>1, SizeAssumption
    <3>4. QED
      BY <1>1, <1>4, <3>2, <3>3, SizeAssumption
  <2>2. i - j \in Nat
    BY <1>1, <2>1
  <2>3. a - b = PageSize * (i - j)
    BY <1>1, SizeAssumption
  <2>4. QED
    BY <2>2, <2>3, MultipleIsAligned, SizeAssumption DEF is_page_aligned
<1>5. QED
  BY <1>3, <1>4

LEMMA WordAligned == WordSize \in Nat /\ is_page_aligned(WordSize)
BY SizeAssumption, ConstantsAssumption DEF is_page_aligned

LEMMA AddFrame ==
  ASSUME NEW a \in Frame, NEW b \in Frame
  PROVE  Add(a, b) \in Frame
<1>1. /\ a \in Word /\ b \in Word /\ a \in Nat /\ b \in Nat
      /\ is_page_aligned(a) /\ is_page_aligned(b)
  BY SizeAssumption DEF Frame, Word
<1>2. is_page_aligned(a + b) /\ a + b \in Nat
  BY <1>1, AlignedSum
<1>3. a + b >= WordSize => is_page_aligned((a + b) - WordSize)
  <2> DEFINE c == a + b
  <2>1. c \in Nat /\ is_page_aligned(c)
    BY <1>2
  <2> HIDE DEF c
  <2>2. c >= WordSize => is_page_aligned(c - WordSize)
    BY <2>1, AlignedSum, WordAligned
  <2>3. QED
    BY <2>2 DEF c
<1>4. /\ Add(a, b) \in Word
      /\ Add(a, b) = IF a + b < WordSize THEN a + b ELSE a + b - WordSize
  BY <1>1, AddWord
<1>5. is_page_aligned(Add(a, b))
  <2>1. CASE a + b < WordSize
    BY <1>2, <1>4, <2>1
  <2>2. CASE a + b >= WordSize
    BY <1>1, <1>3, <1>4, <2>2, WordAligned
  <2>3. QED
    BY <1>1, <2>1, <2>2, WordAligned
<1>6. QED
  BY <1>4, <1>5 DEF Frame

(* A frame ends before the word does.                                      *)
LEMMA FrameEnd ==
  ASSUME NEW f \in Frame
  PROVE  f \in Nat /\ f + PageSize <= WordSize
<1>1. f \in Nat /\ is_page_aligned(f) /\ f < WordSize
  BY SizeAssumption DEF Frame, Word
<1>2. QED
  BY <1>1, PagesApart, WordAligned

LEMMA DivUnique ==
  ASSUME NEW d \in Nat \ {0}, NEW u \in Nat, NEW s \in 0 .. d - 1
  PROVE  (d * u + s) \div d = u /\ (d * u + s) % d = s
<1> DEFINE n == d * u + s
           q == n \div d
           r == n % d
<1>1. n \in Nat
  OBVIOUS
<1>2. n \in Nat /\ q \in Nat /\ r \in 0 .. d - 1 /\ n = d * q + r
  <2> HIDE DEF n
  <2>1. QED
    BY <1>1, DivisionWithRemainder
<1>3. d * u + s = d * q + r
  BY <1>2
<1> HIDE DEF q, r, n
<1>4. ~(u < q)
  <2>1. SUFFICES ASSUME u < q PROVE FALSE
    OBVIOUS
  <2>2. d * (u + 1) <= d * q /\ d * (u + 1) = d * u + d
    BY <1>2, <2>1
  <2>3. QED
    BY <1>2, <1>3, <2>2
<1>5. ~(q < u)
  <2>1. SUFFICES ASSUME q < u PROVE FALSE
    OBVIOUS
  <2>2. d * (q + 1) <= d * u /\ d * (q + 1) = d * q + d
    BY <1>2, <2>1
  <2>3. QED
    BY <1>2, <1>3, <2>2
<1>6. q = u
  BY <1>2, <1>4, <1>5
<1>7. QED
  BY <1>2, <1>3, <1>6 DEF q, r, n

(* Division of a number of pages and a part of a page.                     *)
LEMMA DivPages ==
  ASSUME NEW q \in Nat, NEW r \in 0 .. PageSize - 1, NEW n \in Nat \ {0}
  PROVE  (PageSize * q + r) \div (PageSize * n) = q \div n
<1> DEFINE u == q \div n
           v == q % n
<1>1. u \in Nat /\ v \in 0 .. n - 1 /\ q = n * u + v
  BY DivisionWithRemainder
<1> HIDE DEF u, v
<1> DEFINE d == PageSize * n
           s == PageSize * v + r
<1>2. d \in Nat \ {0}
  BY SizeAssumption
<1>3. s \in 0 .. d - 1
  <2>1. PageSize * (v + 1) <= PageSize * n /\ PageSize * (v + 1) = PageSize * v + PageSize
    BY <1>1, SizeAssumption
  <2>2. s \in Nat /\ s < PageSize * v + PageSize
    BY <1>1, SizeAssumption
  <2>3. s < d
    BY <2>1, <2>2, <1>1, <1>2, SizeAssumption
  <2> HIDE DEF s, d
  <2>4. QED
    BY <1>2, <2>2, <2>3
<1>4. PageSize * q + r = d * u + s
  <2>1. PageSize * q = PageSize * (n * u) + PageSize * v
    BY <1>1, SizeAssumption
  <2>2. PageSize * (n * u) = (PageSize * n) * u
    BY <1>1, SizeAssumption
  <2>3. QED
    BY <1>1, <2>1, <2>2, SizeAssumption
<1> HIDE DEF d, s
<1>5. (d * u + s) \div d = u
  BY <1>1, <1>2, <1>3, DivUnique
<1>6. QED
  BY <1>4, <1>5 DEF d, u

(* A byte has the virtual page number of its page.                         *)
LEMMA VpnOfPage ==
  ASSUME NEW x \in Nat, is_page_aligned(x), NEW r \in 0 .. PageSize - 1
  PROVE  /\ vpn(x + r) = vpn(x)
         /\ (x + r) % PageSize = r /\ align_down(x + r, PageSize) = x
<1> DEFINE q == x \div PageSize
<1>1. q \in Nat /\ x = PageSize * q
  BY DivisionWithRemainder, SizeAssumption DEF is_page_aligned
<1> HIDE DEF q
<1>2. /\ 0 \in 0 .. PageSize - 1 /\ r \in Nat
      /\ Entries \in Nat \ {0} /\ Entries * Entries \in Nat \ {0} /\ 1 \in Nat \ {0}
  BY SizeAssumption, EntriesAssumption
<1>3. ASSUME NEW n \in Nat \ {0}
      PROVE  (x + r) \div (PageSize * n) = x \div (PageSize * n)
  <2>1. (PageSize * q + r) \div (PageSize * n) = q \div n
    BY <1>1, DivPages
  <2>2. (PageSize * q + 0) \div (PageSize * n) = q \div n
    BY <1>1, <1>2, DivPages
  <2>3. QED
    BY <1>1, <2>1, <2>2, SizeAssumption
<1>4. (x + r) \div (PageSize * Entries) = x \div (PageSize * Entries)
  BY <1>2, <1>3
<1>5. (x + r) \div (PageSize * (Entries * Entries)) = x \div (PageSize * (Entries * Entries))
  BY <1>2, <1>3
<1>6. PageSize * (Entries * Entries) = PageSize * Entries * Entries
  BY SizeAssumption, EntriesAssumption
<1>7. (x + r) \div PageSize = x \div PageSize /\ (x + r) % PageSize = r
  <2>1. (PageSize * q + r) \div PageSize = q /\ (PageSize * q + r) % PageSize = r
    BY <1>1, DivUnique, SizeAssumption
  <2>2. (PageSize * q + 0) \div PageSize = q
    BY <1>1, <1>2, DivUnique, SizeAssumption
  <2>3. QED
    BY <1>1, <2>1, <2>2, SizeAssumption
<1>8. vpn(x + r) = vpn(x)
  BY <1>4, <1>5, <1>6, <1>7 DEF vpn, sv39_vpn2, sv39_vpn1, sv39_vpn0
<1>9. QED
  BY <1>2, <1>7, <1>8 DEF align_down

(* The direct map keeps the place in the page.                             *)
LEMMA DirectMapShift ==
  ASSUME NEW f \in Frame, NEW r \in 0 .. PageSize - 1
  PROVE  /\ phys_to_virt(f) \in Frame
         /\ phys_to_virt(f + r) = phys_to_virt(f) + r
<1>1. phys_to_virt(f) \in Frame /\ DirectMapBase \in Frame
  BY AddFrame, ConstantsAssumption DEF phys_to_virt
<1>2. /\ phys_to_virt(f) \in Nat /\ phys_to_virt(f) + PageSize <= WordSize
      /\ f \in Nat /\ f + PageSize <= WordSize
      /\ DirectMapBase \in Nat /\ DirectMapBase < WordSize
  BY <1>1, FrameEnd, SizeAssumption
<1>3. f + r \in Word /\ f \in Word /\ DirectMapBase \in Word /\ r \in Nat /\ r < PageSize
  BY <1>1, <1>2, SizeAssumption DEF Word
<1>4. QED
  BY <1>1, <1>2, <1>3, AddWord, SizeAssumption DEF phys_to_virt

-----------------------------------------------------------------------------
(* The pages a loop maps.                                                  *)

Mappings(F) == [va : Frame, pa : Frame, flags : F]

Page(va, pa, d, flags) == [va |-> Add(va, d), pa |-> Add(pa, d), flags |-> flags]

Has(s, r) == \E k \in DOMAIN s : s[k] = r

LEMMA PagesElements ==
  ASSUME NEW va \in Frame, NEW pa \in Frame, NEW size \in Nat,
         size + PageSize <= WordSize, NEW F, NEW flags \in F
  PROVE  /\ Pages(va, pa, size, flags) \in Seq(Mappings(F))
         /\ \A k \in DOMAIN Pages(va, pa, size, flags) :
              \E d \in Frame : d < size /\ Pages(va, pa, size, flags)[k] = Page(va, pa, d, flags)
         /\ \A d \in Frame : d < size => Has(Pages(va, pa, size, flags), Page(va, pa, d, flags))
<1> DEFINE n == align_up(size, PageSize) \div PageSize
           s == Pages(va, pa, size, flags)
<1>1. /\ align_up(size, PageSize) \in Nat /\ align_up(size, PageSize) >= size
      /\ align_up(size, PageSize) < size + PageSize
      /\ is_page_aligned(align_up(size, PageSize))
  BY AlignUp
<1>2. n \in Nat /\ align_up(size, PageSize) = PageSize * n
  BY <1>1, PageNumber
<1> HIDE DEF n
<1>3. ASSUME NEW k \in 1 .. n
      PROVE  (k - 1) * PageSize \in Frame /\ (k - 1) * PageSize < size
  <2>1. PageSize * ((k - 1) + 1) <= PageSize * n
    BY <1>2, SizeAssumption
  <2>2. /\ PageSize * ((k - 1) + 1) = PageSize * (k - 1) + PageSize
        /\ (k - 1) * PageSize = PageSize * (k - 1) /\ PageSize * (k - 1) \in Nat
    BY SizeAssumption
  <2>3. is_page_aligned(PageSize * (k - 1))
    BY MultipleIsAligned, SizeAssumption DEF is_page_aligned
  <2>4. PageSize * (k - 1) < size
    BY <1>1, <1>2, <2>1, <2>2, SizeAssumption
  <2>5. QED
    BY <2>2, <2>3, <2>4, SizeAssumption DEF Frame, Word
<1>4. s = [k \in 1 .. n |-> Page(va, pa, (k - 1) * PageSize, flags)]
  BY DEF Pages, Page, n
<1>5. \A k \in 1 .. n : Page(va, pa, (k - 1) * PageSize, flags) \in Mappings(F)
  BY <1>3, AddFrame DEF Page, Mappings
<1>6. s \in Seq(Mappings(F)) /\ DOMAIN s = 1 .. n
  BY <1>2, <1>4, <1>5
<1>7. \A k \in DOMAIN s : \E d \in Frame : d < size /\ s[k] = Page(va, pa, d, flags)
  BY <1>3, <1>4
<1>8. ASSUME NEW d \in Frame, d < size PROVE Has(s, Page(va, pa, d, flags))
  <2> DEFINE q == d \div PageSize
  <2>1. q \in Nat /\ d = PageSize * q
    <3>1. d \in Nat /\ is_page_aligned(d)
      BY FrameEnd DEF Frame
    <3>2. QED
      BY <3>1, PageNumber
  <2> HIDE DEF q
  <2>2. q < n
    <3>1. SUFFICES ASSUME n <= q PROVE FALSE
      BY <1>2, <2>1
    <3>2. PageSize * n <= PageSize * q
      BY <1>2, <2>1, <3>1, SizeAssumption
    <3>3. QED
      BY <1>1, <1>2, <1>8, <2>1, <3>2
  <2>3. q + 1 \in 1 .. n /\ ((q + 1) - 1) * PageSize = d
    BY <1>2, <2>1, <2>2, SizeAssumption
  <2>4. s[q + 1] = Page(va, pa, ((q + 1) - 1) * PageSize, flags)
    BY <1>4, <2>3
  <2>5. QED
    BY <1>6, <2>3, <2>4 DEF Has
<1>9. QED
  BY <1>6, <1>7, <1>8

LEMMA HasConcat ==
  ASSUME NEW F, NEW s \in Seq(Mappings(F)), NEW t \in Seq(Mappings(F))
  PROVE  /\ s \o t \in Seq(Mappings(F))
         /\ \A r : Has(s \o t, r) <=> Has(s, r) \/ Has(t, r)
<1>1. /\ s \o t \in Seq(Mappings(F)) /\ DOMAIN (s \o t) = 1 .. Len(s) + Len(t)
      /\ Len(s) \in Nat /\ Len(t) \in Nat /\ DOMAIN s = 1 .. Len(s) /\ DOMAIN t = 1 .. Len(t)
      /\ \A k \in 1 .. Len(s) + Len(t) :
           (s \o t)[k] = IF k <= Len(s) THEN s[k] ELSE t[k - Len(s)]
  OBVIOUS
<1>2. ASSUME NEW r, Has(s \o t, r) PROVE Has(s, r) \/ Has(t, r)
  <2>1. PICK k \in 1 .. Len(s) + Len(t) : (s \o t)[k] = r
    BY <1>1, <1>2 DEF Has
  <2>2. CASE k <= Len(s)
    BY <1>1, <2>1, <2>2 DEF Has
  <2>3. CASE k > Len(s)
    <3>1. k - Len(s) \in 1 .. Len(t) /\ t[k - Len(s)] = r
      BY <1>1, <2>1, <2>3
    <3>2. QED
      BY <1>1, <3>1 DEF Has
  <2>4. QED
    BY <1>1, <2>2, <2>3
<1>3. ASSUME NEW r, Has(s, r) PROVE Has(s \o t, r)
  <2>1. PICK k \in 1 .. Len(s) : s[k] = r
    BY <1>1, <1>3 DEF Has
  <2>2. k \in 1 .. Len(s) + Len(t) /\ (s \o t)[k] = r
    BY <1>1, <2>1
  <2>3. QED
    BY <1>1, <2>2 DEF Has
<1>4. ASSUME NEW r, Has(t, r) PROVE Has(s \o t, r)
  <2>1. PICK k \in 1 .. Len(t) : t[k] = r
    BY <1>1, <1>4 DEF Has
  <2>2. /\ Len(s) + k \in 1 .. Len(s) + Len(t) /\ ~(Len(s) + k <= Len(s))
        /\ (Len(s) + k) - Len(s) = k
    BY <1>1
  <2>3. (s \o t)[Len(s) + k] = r
    BY <1>1, <2>1, <2>2
  <2>4. QED
    BY <1>1, <2>2, <2>3 DEF Has
<1>5. QED
  BY <1>1, <1>2, <1>3, <1>4

(* Where kernel and device tree end, and where the allocator starts.       *)
LEMMA ReservedEnd ==
  ASSUME NEW p \in Platforms
  PROVE  /\ reserved_end(p) \in Nat
         /\ p.kernel_end <= reserved_end(p) /\ p.dtb_addr + p.dtb_size <= reserved_end(p)
         /\ p.kernel_end \in Nat \ {0} /\ p.ram_base \in Nat /\ p.ram_size \in Nat
         /\ p.dtb_addr \in Nat /\ p.dtb_size \in Nat
         /\ p.ram_base <= p.kernel_end
         /\ reserved_end(p) + 2 * PageSize <= WordSize
<1>1. /\ p.kernel_end \in Nat \ {0} /\ p.ram_base \in Nat /\ p.ram_size \in Nat
      /\ p.dtb_addr \in Nat /\ p.dtb_size \in Nat
      /\ p.ram_base <= p.kernel_end
      /\ p.dtb_addr + p.dtb_size + 2 * PageSize <= WordSize
      /\ p.kernel_end + 2 * PageSize <= WordSize
  BY PlatformAssumption, SizeAssumption DEF Frame, Word
<1>2. Add(p.dtb_addr, p.dtb_size) = p.dtb_addr + p.dtb_size
  BY <1>1, SizeAssumption DEF Add
<1>3. QED
  BY <1>1, <1>2, SizeAssumption DEF reserved_end, max_u64

LEMMA InitialAllocator ==
  ASSUME NEW p \in Platforms
  PROVE  LET a == initial_allocator(p)
         IN  /\ a \in Allocator /\ a.end = p.ram_base + p.ram_size
             /\ reserved_end(p) <= a.current
             /\ a.current < a.end => AllocatorOK(a)
<1> DEFINE first == align_up(reserved_end(p), PageSize)
<1>1. /\ reserved_end(p) \in Nat \ {0} /\ reserved_end(p) + 2 * PageSize <= WordSize
      /\ p.ram_base \in Nat /\ p.ram_size \in Nat
      /\ p.ram_base + p.ram_size + 2 * PageSize <= WordSize
  BY ReservedEnd, PlatformAssumption
<1>2. /\ first \in Nat /\ first >= reserved_end(p)
      /\ first < reserved_end(p) + PageSize /\ is_page_aligned(first)
  BY <1>1, AlignUp, SizeAssumption
<1>3. Add(p.ram_base, p.ram_size) = p.ram_base + p.ram_size
  BY <1>1, SizeAssumption DEF Add
<1>4. initial_allocator(p) = [current |-> first, end |-> p.ram_base + p.ram_size]
  BY <1>3 DEF initial_allocator
<1> HIDE DEF first
<1>5. QED
  BY <1>1, <1>2, <1>4, SizeAssumption DEF AllocatorOK, Allocator, Word

(* What is left of RAM for the allocator is RAM.                           *)
LEMMA RamIsLeft ==
  ASSUME NEW p \in Platforms, NEW a \in Allocator,
         a.end = p.ram_base + p.ram_size, reserved_end(p) <= a.current
  PROVE  CanTake(RamPages(p), a)
BY ReservedEnd, SizeAssumption DEF CanTake, RamPages, Allocator, Frame, Word

(* A frame past the reserved ones holds nothing of kernel or device tree.  *)
LEMMA NotReserved ==
  ASSUME NEW p \in Platforms, NEW f \in Frame, reserved_end(p) <= f
  PROVE  ~InKernel(p, f) /\ ~InBlob(p, f)
BY ReservedEnd, FrameEnd DEF InKernel, InBlob

KernelFlags == (SUBSET Permissions) \ {{}}

Same(f, flags) == [va |-> f, pa |-> f, flags |-> flags]

LEMMA SectionPages ==
  ASSUME NEW s, s.start \in Frame, s.end \in Frame, s.start <= s.end,
         s.end + PageSize <= WordSize, NEW F, NEW flags \in F
  PROVE  /\ Section(s, flags) \in Seq(Mappings(F))
         /\ \A f \in Frame : s.start <= f /\ f < s.end => Has(Section(s, flags), Same(f, flags))
         /\ \A k \in DOMAIN Section(s, flags) : \E d \in Frame :
              d < s.end - s.start /\ Section(s, flags)[k] = Page(s.start, s.start, d, flags)
<1> DEFINE size == s.end - s.start
<1>1. /\ s.start \in Nat /\ s.end \in Nat /\ is_page_aligned(s.start)
      /\ s.start \in Word
  BY FrameEnd DEF Frame
<1>2. size \in Nat /\ size + PageSize <= WordSize
  BY <1>1, SizeAssumption
<1>3. Section(s, flags) = Pages(s.start, s.start, size, flags)
  BY DEF Section
<1> HIDE DEF size
<1>4. /\ Pages(s.start, s.start, size, flags) \in Seq(Mappings(F))
      /\ \A d \in Frame : d < size =>
           Has(Pages(s.start, s.start, size, flags), Page(s.start, s.start, d, flags))
  BY <1>2, PagesElements
<1>5. ASSUME NEW k \in DOMAIN Section(s, flags)
      PROVE  \E d \in Frame : d < size /\ Section(s, flags)[k] = Page(s.start, s.start, d, flags)
  <2> DEFINE a == s.start
  <2>1. a \in Frame /\ k \in DOMAIN Pages(a, a, size, flags)
    BY <1>3, <1>5
  <2>2. s.start = a
    OBVIOUS
  <2> HIDE DEF a
  <2>3. \E d \in Frame : d < size /\ Pages(a, a, size, flags)[k] = Page(a, a, d, flags)
    BY <1>2, <2>1, PagesElements
  <2>4. QED
    BY <1>3, <2>2, <2>3
<1>6. ASSUME NEW f \in Frame, s.start <= f, f < s.end
      PROVE  Has(Section(s, flags), Same(f, flags))
  <2> DEFINE d == f - s.start
  <2>1. f \in Nat /\ is_page_aligned(f) /\ f \in Word
    BY FrameEnd DEF Frame
  <2>2. d \in Nat /\ is_page_aligned(d)
    BY <1>1, <1>6, <2>1, AlignedSum
  <2>3. d \in Frame /\ d < size
    BY <1>1, <1>6, <2>1, <2>2, SizeAssumption DEF Frame, Word, size
  <2>4. Add(s.start, d) = f
    BY <1>1, <2>1, <2>2, SizeAssumption DEF Add, Word
  <2> HIDE DEF d
  <2>5. Page(s.start, s.start, d, flags) = Same(f, flags)
    BY <2>4 DEF Page, Same
  <2>6. QED
    BY <1>3, <1>4, <2>3, <2>5
<1>7. QED
  BY <1>3, <1>4, <1>6, <1>5 DEF size

LEMMA AlignDownFrame ==
  ASSUME NEW x \in Word
  PROVE  /\ align_down(x, PageSize) \in Frame
         /\ x - align_down(x, PageSize) \in 0 .. PageSize - 1
         /\ align_down(x, PageSize) \in Nat /\ x \in Nat
<1>1. x \in Nat /\ x < WordSize
  BY SizeAssumption DEF Word
<1>2. /\ align_down(x, PageSize) \in 0 .. x
      /\ align_down(x, PageSize) > x - PageSize
      /\ is_page_aligned(align_down(x, PageSize))
  BY <1>1, AlignDown, SizeAssumption DEF is_page_aligned
<1>3. QED
  BY <1>1, <1>2, SizeAssumption DEF Frame, Word

LEMMA DirectMapPages ==
  ASSUME NEW p \in Platforms, NEW F, {"R", "W"} \in F
  PROVE  /\ direct_map(p) \in Seq(Mappings(F))
         /\ \A f \in RamPages(p) :
              Has(direct_map(p), [va |-> phys_to_virt(f), pa |-> f, flags |-> {"R", "W"}])
<1> DEFINE v == phys_to_virt(p.ram_base)
           b == p.ram_base
           size == p.ram_size
           flags == {"R", "W"}
<1>1. b \in Frame /\ size \in Nat /\ size + PageSize <= WordSize /\ b + size < WordSize
  BY PlatformAssumption, ReservedEnd, SizeAssumption
<1>2. v \in Frame /\ DirectMapBase \in Frame
  BY <1>1, AddFrame, ConstantsAssumption DEF phys_to_virt
<1>3. direct_map(p) = Pages(v, b, size, flags)
  BY DEF direct_map
<1> HIDE DEF v
<1>4. /\ Pages(v, b, size, flags) \in Seq(Mappings(F))
      /\ \A d \in Frame : d < size => Has(Pages(v, b, size, flags), Page(v, b, d, flags))
  BY <1>1, <1>2, PagesElements
<1>5. ASSUME NEW f \in RamPages(p)
      PROVE  Has(direct_map(p), [va |-> phys_to_virt(f), pa |-> f, flags |-> flags])
  <2> DEFINE d == f - b
  <2>1. /\ f \in Frame /\ f \in Nat /\ is_page_aligned(f) /\ f \in Word /\ f < WordSize
        /\ b \in Nat /\ is_page_aligned(b) /\ b \in Word
        /\ b <= f /\ f < b + size
    BY <1>1, FrameEnd, SizeAssumption DEF Frame, RamPages, Word
  <2>2. d \in Nat /\ is_page_aligned(d)
    BY <2>1, AlignedSum
  <2>3. d \in Frame /\ d < size /\ d \in Word
    BY <1>1, <2>1, <2>2, SizeAssumption DEF Frame, Word
  <2>4. b + d = f
    BY <1>1, <2>1
  <2> HIDE DEF d
  <2>5. Add(b, d) = f
    BY <2>1, <2>3, <2>4, AddWord
  <2>6. Add(v, d) = phys_to_virt(f)
    <3> DEFINE D == DirectMapBase
    <3>1. /\ v = IF b + D < WordSize THEN b + D ELSE b + D - WordSize
          /\ phys_to_virt(f) = IF f + D < WordSize THEN f + D ELSE f + D - WordSize
          /\ D \in Word /\ v \in Word
      BY <1>2, <2>1, AddWord DEF phys_to_virt, v, Frame
    <3>2. Add(v, d) = IF v + d < WordSize THEN v + d ELSE v + d - WordSize
      BY <2>3, <3>1, AddWord
    <3> HIDE DEF D
    <3>3. QED
      BY <2>1, <2>3, <2>4, <3>1, <3>2, SizeAssumption DEF Word
  <2>7. Page(v, b, d, flags) = [va |-> phys_to_virt(f), pa |-> f, flags |-> flags]
    BY <2>5, <2>6 DEF Page
  <2>8. QED
    BY <1>3, <1>4, <2>3, <2>7
<1>6. QED
  BY <1>3, <1>4, <1>5

(* What paging_init maps.                                                  *)
LEMMA KernelPages ==
  ASSUME NEW p \in Platforms
  PROVE  LET pages == kernel_pages(p)
             uart == align_down(p.uart_base, PageSize)
         IN  /\ pages \in Seq(Mappings(KernelFlags))
             /\ \A f \in Frame :
                  /\ p.text.start <= f /\ f < p.text.end => Has(pages, Same(f, {"R", "X"}))
                  /\ p.rodata.start <= f /\ f < p.rodata.end => Has(pages, Same(f, {"R"}))
                  /\ p.data.start <= f /\ f < p.data.end => Has(pages, Same(f, {"R", "W"}))
                  /\ p.bss.start <= f /\ f < p.bss.end => Has(pages, Same(f, {"R", "W"}))
             /\ Has(pages, Same(uart, {"R", "W"}))
             /\ \A f \in RamPages(p) :
                  Has(pages, [va |-> phys_to_virt(f), pa |-> f, flags |-> {"R", "W"}])
<1> DEFINE F == KernelFlags
           S == Seq(Mappings(F))
           uart == align_down(p.uart_base, PageSize)
           text == Section(p.text, {"R", "X"})
           rodata == Section(p.rodata, {"R"})
           data == Section(p.data, {"R", "W"})
           bss == Section(p.bss, {"R", "W"})
           console == Pages(uart, uart, PageSize, {"R", "W"})
           blob == dtb_pages(p)
           ram == direct_map(p)
<1>1. {"R", "X"} \in F /\ {"R"} \in F /\ {"R", "W"} \in F
  BY DEF KernelFlags, Permissions
<1>2. /\ p.kernel_end \in Nat /\ p.kernel_end + 2 * PageSize <= WordSize
      /\ p.dtb_addr \in Word /\ p.uart_base \in Word
  BY PlatformAssumption, ReservedEnd
<1>3. ASSUME NEW s \in {p.text, p.rodata, p.data, p.bss}
      PROVE  /\ s.start \in Frame /\ s.end \in Frame /\ s.start <= s.end
             /\ s.end + PageSize <= WordSize
  <2>1. s.start \in Frame /\ s.end \in Frame /\ s.start <= s.end /\ s.end <= p.kernel_end
    BY PlatformAssumption
  <2>2. QED
    BY <1>2, <2>1, FrameEnd, SizeAssumption
<1> HIDE DEF F
<1>4. /\ text \in S
      /\ \A f \in Frame : p.text.start <= f /\ f < p.text.end => Has(text, Same(f, {"R", "X"}))
  BY <1>1, <1>3, SectionPages
<1>5. /\ rodata \in S
      /\ \A f \in Frame : p.rodata.start <= f /\ f < p.rodata.end => Has(rodata, Same(f, {"R"}))
  BY <1>1, <1>3, SectionPages
<1>6. /\ data \in S
      /\ \A f \in Frame : p.data.start <= f /\ f < p.data.end => Has(data, Same(f, {"R", "W"}))
  BY <1>1, <1>3, SectionPages
<1>7. /\ bss \in S
      /\ \A f \in Frame : p.bss.start <= f /\ f < p.bss.end => Has(bss, Same(f, {"R", "W"}))
  BY <1>1, <1>3, SectionPages
<1>8. console \in S /\ Has(console, Same(uart, {"R", "W"}))
  <2>1. uart \in Frame /\ uart \in Nat /\ uart < WordSize
    BY <1>2, AlignDownFrame, FrameEnd, SizeAssumption
  <2>2. PageSize \in Nat /\ PageSize + PageSize <= WordSize
    BY <1>2, SizeAssumption
  <2>3. 0 \in Frame /\ 0 < PageSize
    BY NoEntryType, SizeAssumption
  <2> HIDE DEF uart
  <2>4. /\ console \in S
        /\ \A d \in Frame : d < PageSize => Has(console, Page(uart, uart, d, {"R", "W"}))
    BY <1>1, <2>1, <2>2, PagesElements
  <2>5. Page(uart, uart, 0, {"R", "W"}) = Same(uart, {"R", "W"})
    BY <2>1, SizeAssumption DEF Page, Same, Add
  <2>6. QED
    BY <2>3, <2>4, <2>5
<1>9. blob \in S
  <2> DEFINE base == align_down(p.dtb_addr, PageSize)
             end == align_up(p.dtb_addr + p.dtb_size, PageSize)
  <2>1. /\ base \in Frame /\ base \in Nat /\ base <= p.dtb_addr
        /\ p.dtb_addr \in Nat /\ p.dtb_size \in Nat
        /\ p.dtb_addr + p.dtb_size + 2 * PageSize <= WordSize
    BY <1>2, AlignDownFrame, PlatformAssumption, ReservedEnd
  <2>2. /\ end \in Nat /\ end >= p.dtb_addr + p.dtb_size
        /\ end < p.dtb_addr + p.dtb_size + PageSize
    BY <2>1, AlignUp, SizeAssumption
  <2>3. Add(p.dtb_addr, p.dtb_size) = p.dtb_addr + p.dtb_size
    <3>1. /\ p.dtb_addr + p.dtb_size \in Nat /\ p.dtb_addr + p.dtb_size < WordSize
      BY <2>1, SizeAssumption
    <3>2. QED
      BY <3>1, SizeAssumption DEF Add
  <2>4. blob = Pages(base, base, end - base, {"R", "W"})
    BY <2>3 DEF dtb_pages
  <2> HIDE DEF base, end
  <2>5. end - base \in Nat /\ (end - base) + PageSize <= WordSize
    BY <2>1, <2>2, SizeAssumption
  <2>6. QED
    BY <1>1, <2>1, <2>4, <2>5, PagesElements
<1>10. /\ ram \in S
       /\ \A f \in RamPages(p) :
            Has(ram, [va |-> phys_to_virt(f), pa |-> f, flags |-> {"R", "W"}])
  BY <1>1, DirectMapPages
<1>11. kernel_pages(p) = text \o rodata \o data \o bss \o console \o blob \o ram
  BY DEF kernel_pages
<1> HIDE DEF text, rodata, data, bss, console, blob, ram, uart
<1> DEFINE s2 == text \o rodata
           s3 == s2 \o data
           s4 == s3 \o bss
           s5 == s4 \o console
           s6 == s5 \o blob
           s7 == s6 \o ram
<1>12. s2 \in S /\ \A r : Has(s2, r) <=> Has(text, r) \/ Has(rodata, r)
  BY <1>4, <1>5, HasConcat
<1> HIDE DEF s2
<1>13. s3 \in S /\ \A r : Has(s3, r) <=> Has(s2, r) \/ Has(data, r)
  BY <1>6, <1>12, HasConcat
<1> HIDE DEF s3
<1>14. s4 \in S /\ \A r : Has(s4, r) <=> Has(s3, r) \/ Has(bss, r)
  BY <1>7, <1>13, HasConcat
<1> HIDE DEF s4
<1>15. s5 \in S /\ \A r : Has(s5, r) <=> Has(s4, r) \/ Has(console, r)
  BY <1>8, <1>14, HasConcat
<1> HIDE DEF s5
<1>16. s6 \in S /\ \A r : Has(s6, r) <=> Has(s5, r) \/ Has(blob, r)
  BY <1>9, <1>15, HasConcat
<1> HIDE DEF s6
<1>17. s7 \in S /\ \A r : Has(s7, r) <=> Has(s6, r) \/ Has(ram, r)
  BY <1>10, <1>16, HasConcat
<1> HIDE DEF s7, S
<1>18. kernel_pages(p) = s7
  BY <1>11 DEF s2, s3, s4, s5, s6, s7
<1>19. \A r : Has(s7, r) <=> \/ Has(text, r) \/ Has(rodata, r) \/ Has(data, r)
                             \/ Has(bss, r) \/ Has(console, r) \/ Has(blob, r)
                             \/ Has(ram, r)
  BY <1>12, <1>13, <1>14, <1>15, <1>16, <1>17
<1>20. s7 \in Seq(Mappings(KernelFlags))
  BY <1>17 DEF S, F
<1>21. QED
  BY <1>4, <1>5, <1>6, <1>7, <1>8, <1>10, <1>18, <1>19, <1>20 DEF uart

(* The user's address space: text, one page of bss, and past them a stack. *)
LEMMA LayoutFacts ==
  ASSUME NEW p \in Platforms
  PROVE  LET l == layout(p)
         IN  /\ l.entry = UserTextStart /\ UserTextStart \in Frame
             /\ Len(p.image) \in Nat \ {0} /\ Len(p.image) <= l.text_size
             /\ l.text_size \in Frame /\ l.bss_size = PageSize
             /\ l.bss_start = UserTextStart + l.text_size /\ l.bss_start \in Frame
             /\ l.bss_start + PageSize \in Frame
             /\ l.stack_start \in Frame /\ l.stack_start > l.bss_start + PageSize
             /\ l.stack_size \in Frame \ {0}
             /\ l.stack_top \in Frame /\ l.stack_top = l.stack_start + l.stack_size
             /\ 2 * PageSize <= WordSize
<1> DEFINE l == layout(p)
           E == UserTextStart
           n == Len(p.image)
           text == align_up(n, PageSize)
           top == align_down(UserStackTop, PageSize)
           up == align_up(UserStackSize, PageSize)
           size == IF up = 0 THEN PageSize ELSE up
<1>1. /\ n \in Nat \ {0} /\ E + n + 2 * PageSize <= WordSize /\ l.ok
      /\ p.image \in Seq(0 .. 255)
  <2>1. p.image \in Seq(0 .. 255) /\ p.image # << >> /\ E + n + 2 * PageSize <= WordSize /\ l.ok
    BY ImageAssumption
  <2>2. QED
    BY <2>1
<1>2. E \in Frame /\ E \in Nat /\ is_page_aligned(E)
  BY ConstantsAssumption, FrameEnd DEF Frame
<1>3. PageSize \in Nat \ {0} /\ WordSize \in Nat /\ is_page_aligned(PageSize)
  BY SizeAssumption DEF is_page_aligned
<1> HIDE DEF n
<1>4. /\ text \in Nat /\ text >= n /\ text < n + PageSize /\ is_page_aligned(text)
  BY <1>1, <1>2, <1>3, AlignUp
<1>5. align_up(PageSize, PageSize) = PageSize
  <2>1. PageSize + PageSize <= WordSize
    BY <1>1, <1>2, <1>3
  <2>2. QED
    BY <1>3, <2>1, AlignUpFixpoint
<1> HIDE DEF text
<1>6. is_page_aligned(E + text) /\ is_page_aligned(E + text + PageSize)
  <2>1. is_page_aligned(E + text) /\ E + text \in Nat
    BY <1>2, <1>4, AlignedSum
  <2>2. QED
    BY <2>1, NextPageAligned
<1>7. /\ Add(E, text) = E + text /\ Add(E + text, PageSize) = E + text + PageSize
      /\ E + text + PageSize < WordSize
  <2>1. /\ E + text \in Nat /\ E + text + PageSize \in Nat
        /\ E + text + PageSize < WordSize /\ E + text < WordSize
    BY <1>1, <1>2, <1>3, <1>4
  <2>2. Add(E, text) = E + text
    BY <2>1, <1>3 DEF Add
  <2>3. Add(E + text, PageSize) = E + text + PageSize
    BY <2>1, <1>3 DEF Add
  <2>4. QED
    BY <2>1, <2>2, <2>3
<1>8. /\ l.entry = E /\ l.text_size = text /\ l.bss_start = E + text
      /\ l.bss_size = PageSize
      /\ l.ok = (top - size > E + text + PageSize)
      /\ l.stack_start = top - size /\ l.stack_size = size /\ l.stack_top = top
  <2>1. /\ l.entry = E /\ l.text_size = text /\ l.bss_start = Add(E, text)
        /\ l.bss_size = Add(Add(E, text), PageSize) - Add(E, text)
        /\ l.ok = (top - size > Add(Add(E, text), PageSize))
        /\ l.stack_start = top - size /\ l.stack_size = size /\ l.stack_top = top
    BY <1>5 DEF layout, text, n
  <2>2. (E + text + PageSize) - (E + text) = PageSize
    BY <1>2, <1>3, <1>4
  <2>3. /\ Add(E, text) = E + text
        /\ Add(Add(E, text), PageSize) = E + text + PageSize
    BY <1>7
  <2>4. l.bss_size = PageSize
    BY <2>1, <2>2, <2>3
  <2>5. l.ok = (top - size > E + text + PageSize)
    BY <2>1, <2>3
  <2> HIDE DEF l, top, size
  <2>6. QED
    BY <2>1, <2>3, <2>4, <2>5
<1>9. top \in Frame /\ top \in Nat /\ is_page_aligned(top)
  BY ConstantsAssumption, AlignDownFrame DEF Frame
<1>10. up \in Nat /\ is_page_aligned(up)
  <2>1. Add(UserStackSize, PageSize - 1) \in Nat
    BY ConstantsAssumption, SizeAssumption DEF Add, Word
  <2>2. QED
    BY <1>3, <2>1, AlignDown DEF align_up, is_page_aligned
<1> HIDE DEF top, up, l
<1>11. size \in Nat \ {0} /\ is_page_aligned(size)
  BY <1>3, <1>10
<1> HIDE DEF size
<1>12. top - size > E + text + PageSize
  BY <1>1, <1>8
<1>13. is_page_aligned(top - size) /\ size <= top
  <2>1. size <= top
    BY <1>2, <1>3, <1>4, <1>9, <1>11, <1>12
  <2>2. QED
    BY <1>9, <1>11, <2>1, AlignedSum
<1>14. top < WordSize
  BY <1>3, <1>9, FrameEnd
<1>15. /\ text \in Frame /\ E + text \in Frame /\ E + text + PageSize \in Frame
       /\ top - size \in Frame /\ size \in Frame
  BY <1>2, <1>3, <1>4, <1>6, <1>7, <1>9, <1>11, <1>12, <1>13, <1>14 DEF Frame, Word
<1>16. 2 * PageSize <= WordSize /\ (top - size) + size = top
  BY <1>1, <1>2, <1>3, <1>9, <1>11
<1>17. QED
  BY <1>1, <1>2, <1>4, <1>8, <1>9, <1>11, <1>12, <1>15, <1>16 DEF l, n

UserFlags == { {"R", "X", "U"}, {"R", "W", "U"} }

(* The pages of one region that does not wrap around.                      *)
LEMMA RegionPages ==
  ASSUME NEW va \in Frame, NEW size \in Frame, va + size < WordSize,
         NEW flags \in UserFlags
  PROVE  LET s == Pages(va, 0, size, flags)
         IN  /\ s \in Seq(Mappings(UserFlags))
             /\ \A r : Has(s, r) => va <= r.va
             /\ \A d \in Frame : d < size =>
                  \E r : Has(s, r) /\ r.va = va + d /\ r.flags = flags
<1> DEFINE s == Pages(va, 0, size, flags)
<1>1. /\ va \in Nat /\ size \in Nat /\ size + PageSize <= WordSize /\ 0 \in Frame
      /\ va \in Word
  BY FrameEnd, NoEntryType DEF Frame
<1>2. /\ s \in Seq(Mappings(UserFlags))
      /\ \A k \in DOMAIN s : \E d \in Frame : d < size /\ s[k] = Page(va, 0, d, flags)
      /\ \A d \in Frame : d < size => Has(s, Page(va, 0, d, flags))
  BY <1>1, PagesElements
<1> HIDE DEF s
<1>3. ASSUME NEW d \in Frame, d < size
      PROVE  /\ Page(va, 0, d, flags).va = va + d /\ Page(va, 0, d, flags).flags = flags
             /\ d \in Nat
  <2>1. d \in Nat
    BY FrameEnd
  <2>2. Add(va, d) = va + d
    BY <1>1, <1>3, <2>1, SizeAssumption DEF Add
  <2>3. QED
    BY <2>1, <2>2 DEF Page
<1>4. ASSUME NEW r, Has(s, r) PROVE va <= r.va
  <2>1. PICK k \in DOMAIN s : s[k] = r
    BY <1>4 DEF Has
  <2>2. PICK d \in Frame : d < size /\ r = Page(va, 0, d, flags)
    BY <1>2, <2>1
  <2>3. r.va = va + d /\ d \in Nat
    BY <1>3, <2>2
  <2>4. QED
    BY <1>1, <2>3
<1>5. ASSUME NEW d \in Frame, d < size
      PROVE  \E r : Has(s, r) /\ r.va = va + d /\ r.flags = flags
  <2>1. Has(s, Page(va, 0, d, flags))
    BY <1>2, <1>5
  <2>2. QED
    BY <1>3, <1>5, <2>1
<1>6. QED
  BY <1>2, <1>4, <1>5 DEF s

(* What the loader maps.                                                   *)
LEMMA UserPages ==
  ASSUME NEW p \in Platforms
  PROVE  LET pages == user_pages(p)
             l == layout(p)
         IN  /\ pages \in Seq(Mappings(UserFlags))
             /\ \A k \in DOMAIN pages : UserTextStart <= pages[k].va
             /\ \A d \in Frame : d < l.text_size =>
                  \E k \in DOMAIN pages : /\ pages[k].va = l.entry + d
                                          /\ pages[k].flags = {"R", "X", "U"}
             /\ \A d \in Frame : d < l.bss_size =>
                  \E k \in DOMAIN pages : pages[k].va = l.bss_start + d
             /\ \A d \in Frame : d < l.stack_size =>
                  \E k \in DOMAIN pages : /\ pages[k].va = l.stack_start + d
                                          /\ pages[k].flags = {"R", "W", "U"}
<1> DEFINE l == layout(p)
           S == Seq(Mappings(UserFlags))
           E == UserTextStart
           text == Pages(E, 0, l.text_size, {"R", "X", "U"})
           bss == Pages(l.bss_start, 0, PageSize, {"R", "W", "U"})
           stack == Pages(l.stack_start, 0, l.stack_size, {"R", "W", "U"})
<1>1. /\ l.entry = E /\ E \in Frame /\ l.text_size \in Frame /\ l.bss_size = PageSize
      /\ l.bss_start = E + l.text_size /\ l.bss_start \in Frame
      /\ l.bss_start + PageSize \in Frame
      /\ l.stack_start \in Frame /\ l.stack_start > l.bss_start + PageSize
      /\ l.stack_size \in Frame
      /\ l.stack_top \in Frame /\ l.stack_top = l.stack_start + l.stack_size
      /\ 2 * PageSize <= WordSize
  BY LayoutFacts
<1>2. {"R", "X", "U"} \in UserFlags /\ {"R", "W", "U"} \in UserFlags
  BY DEF UserFlags
<1>3. user_pages(p) = text \o bss \o stack
  BY <1>1 DEF user_pages
<1> HIDE DEF l
<1>4. \A f \in Frame : f \in Nat /\ f < WordSize
  BY FrameEnd, SizeAssumption
<1>5. PageSize \in Frame /\ PageSize \in Nat
  BY <1>1, SizeAssumption DEF Frame, Word, is_page_aligned
<1>6. /\ text \in S /\ \A r : Has(text, r) => E <= r.va
      /\ \A d \in Frame : d < l.text_size =>
           \E r : Has(text, r) /\ r.va = E + d /\ r.flags = {"R", "X", "U"}
  <2>1. E + l.text_size < WordSize
    BY <1>1, <1>4
  <2>2. QED
    BY <1>1, <1>2, <2>1, RegionPages
<1>7. /\ bss \in S /\ \A r : Has(bss, r) => l.bss_start <= r.va
      /\ \A d \in Frame : d < PageSize => \E r : Has(bss, r) /\ r.va = l.bss_start + d
  <2>1. l.bss_start + PageSize < WordSize
    BY <1>1, <1>4
  <2>2. \A d \in Frame : d < PageSize =>
          \E r : Has(bss, r) /\ r.va = l.bss_start + d /\ r.flags = {"R", "W", "U"}
    <3> DEFINE b == l.bss_start
               size == PageSize
               flags == {"R", "W", "U"}
    <3>1. b \in Frame /\ size \in Frame /\ b + size < WordSize /\ flags \in UserFlags
      BY <1>1, <1>2, <1>5, <2>1
    <3> HIDE DEF b, size, flags
    <3>2. \A d \in Frame : d < size =>
            \E r : Has(Pages(b, 0, size, flags), r) /\ r.va = b + d /\ r.flags = flags
      BY <3>1, RegionPages
    <3>3. QED
      BY <3>2 DEF b, size, flags
  <2>3. bss \in S /\ \A r : Has(bss, r) => l.bss_start <= r.va
    BY <1>1, <1>2, <1>5, <2>1, RegionPages
  <2>4. QED
    BY <2>2, <2>3
<1>8. /\ stack \in S /\ \A r : Has(stack, r) => l.stack_start <= r.va
      /\ \A d \in Frame : d < l.stack_size =>
           \E r : Has(stack, r) /\ r.va = l.stack_start + d /\ r.flags = {"R", "W", "U"}
  <2>1. l.stack_start + l.stack_size < WordSize
    BY <1>1, <1>4
  <2>2. QED
    BY <1>1, <1>2, <2>1, RegionPages
<1> HIDE DEF text, bss, stack
<1> DEFINE low == text \o bss
           all == low \o stack
<1>9. low \in S /\ \A r : Has(low, r) <=> Has(text, r) \/ Has(bss, r)
  BY <1>6, <1>7, HasConcat
<1> HIDE DEF low
<1>10. all \in S /\ \A r : Has(all, r) <=> Has(low, r) \/ Has(stack, r)
  BY <1>8, <1>9, HasConcat
<1>11. user_pages(p) = all
  BY <1>3 DEF low
<1> HIDE DEF all
<1>12. \A r : Has(all, r) <=> Has(text, r) \/ Has(bss, r) \/ Has(stack, r)
  BY <1>9, <1>10
<1>13. ASSUME NEW k \in DOMAIN all PROVE E <= all[k].va
  <2>1. Has(all, all[k])
    BY DEF Has
  <2>2. all[k] \in Mappings(UserFlags)
    BY <1>10
  <2>3. all[k].va \in Nat /\ E \in Nat /\ l.bss_start \in Nat /\ l.stack_start \in Nat
    BY <1>1, <1>4, <2>2 DEF Mappings
  <2>4. E <= l.bss_start /\ E <= l.stack_start
    <3>1. l.text_size \in Nat
      BY <1>1, <1>4
    <3>2. QED
      BY <1>1, <1>5, <2>3, <3>1
  <2>5. E <= all[k].va \/ l.bss_start <= all[k].va \/ l.stack_start <= all[k].va
    BY <1>6, <1>7, <1>8, <1>12, <2>1
  <2>6. QED
    BY <2>3, <2>4, <2>5
<1>14. ASSUME NEW d \in Frame, d < l.text_size
       PROVE  \E k \in DOMAIN all : all[k].va = l.entry + d /\ all[k].flags = {"R", "X", "U"}
  <2>1. PICK r : Has(text, r) /\ r.va = E + d /\ r.flags = {"R", "X", "U"}
    BY <1>6, <1>14
  <2>2. Has(all, r)
    BY <1>12, <2>1
  <2>3. QED
    BY <1>1, <2>1, <2>2 DEF Has
<1>15. ASSUME NEW d \in Frame, d < l.bss_size
       PROVE  \E k \in DOMAIN all : all[k].va = l.bss_start + d
  <2>1. PICK r : Has(bss, r) /\ r.va = l.bss_start + d
    BY <1>1, <1>7, <1>15
  <2>2. Has(all, r)
    BY <1>12, <2>1
  <2>3. QED
    BY <2>1, <2>2 DEF Has
<1>16. ASSUME NEW d \in Frame, d < l.stack_size
       PROVE  \E k \in DOMAIN all : /\ all[k].va = l.stack_start + d
                                   /\ all[k].flags = {"R", "W", "U"}
  <2>1. PICK r : Has(stack, r) /\ r.va = l.stack_start + d /\ r.flags = {"R", "W", "U"}
    BY <1>8, <1>16
  <2>2. Has(all, r)
    BY <1>12, <2>1
  <2>3. QED
    BY <2>1, <2>2 DEF Has
<1>17. QED
  BY <1>10, <1>11, <1>13, <1>14, <1>15, <1>16 DEF l

-----------------------------------------------------------------------------
(* The inductive invariant.                                                *)

(* What a loop has still to do is the end of what it had to do.            *)
Suffix(s, t) ==
  /\ Len(s) <= Len(t)
  /\ \A i \in 1 .. Len(s) : s[i] = t[Len(t) - Len(s) + i]

Done(s, t) == 1 .. Len(t) - Len(s)

Ram == RamPages(platform)
Kernel == kernel_pages(platform)
User == user_pages(platform)

(* The tables that exist: under construction, then active.                 *)
Top == IF satp = 0 THEN root ELSE satp

At(t) == entry0(mem, Top, t)
Maps(t) == is_mapped(mem, Top, t)

Started == enter_supervisor_mode(pmp_init_allow_all(delegate_supervisor_exceptions(
             [Reset EXCEPT !.mtvec = TRUE])))

Types ==
  /\ TypeOK
  /\ mem \in [Ram -> PageTable]
  /\ \A f \in Ram : DOMAIN bytes[f] = 0 .. PageSize - 1

HartInv ==
  /\ hart \in {Reset, Firmware, Started}
  /\ phase = "machine" => hart = Reset
  /\ phase \notin {"clear_bss", "machine"} => hart # Reset

(* Before there are tables.                                                *)
EarlyInv ==
  /\ phase \in {"clear_bss", "machine", "allocator", "root"} => root = 0 /\ satp = 0
  /\ phase \notin {"load", "user", "panic"} => copied = 0
  /\ phase = "clear_bss" =>
       /\ todo \in Seq(Mappings({{}})) /\ Suffix(todo, bss_rounds(platform))
       /\ \A k \in Done(todo, bss_rounds(platform)) :
            bss_rounds(platform)[k].pa \in Ram =>
              bytes[bss_rounds(platform)[k].pa] = PageOf(0)
  /\ BssCleared

(* Every page the allocator has given lies past kernel and device tree.    *)
AllocatorInv ==
  phase = "root" \/ Top # 0 =>
    /\ AllocatorOK(allocator)
    /\ allocator.end = platform.ram_base + platform.ram_size
    /\ reserved_end(platform) <= allocator.current

TablesInv ==
  /\ phase \in {"map", "traps", "load", "user"} => Top # 0
  /\ phase = "map" => satp = 0
  /\ phase \in {"traps", "load", "user"} => satp # 0
  /\ satp # 0 => root = phys_to_virt(satp)
  /\ Top # 0 =>
       /\ Top \in Ram
       /\ IsTree(mem, allocator, Top)
       /\ InRam(Ram, mem, Top)
       /\ \A f \in Tables(mem, Top) : reserved_end(platform) <= f

KernelPage(k) ==
  /\ Maps(vpn(Kernel[k].va))
  /\ At(vpn(Kernel[k].va)) = Leaf(Kernel[k].pa, Kernel[k].flags)

(* During paging_init exactly the pages done are mapped, later all are.    *)
KernelInv ==
  /\ phase = "map" =>
       /\ todo \in Seq(Mappings(KernelFlags)) /\ Suffix(todo, Kernel)
       /\ \A k \in Done(todo, Kernel) : KernelPage(k)
       /\ \A t \in Vpns : Maps(t) => \E k \in Done(todo, Kernel) : t = vpn(Kernel[k].va)
  /\ satp # 0 => \A k \in DOMAIN Kernel : KernelPage(k)

Frames(k) == At(vpn(User[k].va)).page

UserInv ==
  satp # 0 =>
    /\ \A t \in Vpns : Maps(t) =>
         \/ \E k \in DOMAIN Kernel : t = vpn(Kernel[k].va)
         \/ \E k \in DOMAIN User : t = vpn(User[k].va)
    /\ \A k \in DOMAIN User : Maps(vpn(User[k].va)) =>
         /\ Frames(k) \in Ram \ Tables(mem, Top)
         /\ reserved_end(platform) <= Frames(k) /\ Frames(k) < allocator.current
    /\ \A k, l \in DOMAIN User :
         Maps(vpn(User[k].va)) /\ Maps(vpn(User[l].va)) /\ Frames(k) = Frames(l) => k = l

(* The user's pages are mapped one after the other, all before a byte is   *)
(* copied.                                                                 *)
LoadInv ==
  /\ phase = "traps" => \A k \in DOMAIN User : ~Maps(vpn(User[k].va))
  /\ phase \in {"load", "user"} =>
       /\ traps /\ todo \in Seq(Mappings(UserFlags)) /\ Suffix(todo, User)
       /\ copied # 0 => todo = << >>
       /\ \A k \in DOMAIN User : Maps(vpn(User[k].va)) <=> k \in Done(todo, User)
       /\ \A k \in Done(todo, User) :
            At(vpn(User[k].va)).flags = User[k].flags \cup {"V", "A", "D"}

(* The bytes of user page k: the image as far as it is copied, then zeros. *)
BytesInv ==
  phase \in {"load", "user"} =>
    \A k \in Done(todo, User), i \in 0 .. PageSize - 1 :
      LET at == User[k].va + i - UserTextStart
      IN  bytes[Frames(k)][i] = IF at < copied THEN platform.image[at + 1] ELSE 0

EndInv ==
  phase = "user" =>
    /\ todo = << >> /\ copied = Len(platform.image)
    /\ fenced = Mapped(mem, satp)
    /\ context = [sp |-> align_down(layout(platform).stack_top, StackAlignment),
                  epc |-> layout(platform).entry,
                  spp |-> "U"]

IInv ==
  /\ Types /\ HartInv /\ EarlyInv /\ AllocatorInv /\ TablesInv /\ KernelInv
  /\ UserInv /\ LoadInv /\ BytesInv /\ EndInv /\ PanicsForAReason


-----------------------------------------------------------------------------
(* Loops over pages.                                                       *)

LEMMA Rest ==
  ASSUME NEW S, NEW s \in Seq(S), NEW t \in Seq(S), Suffix(s, t), s # << >>
  PROVE  LET n == Len(t) - Len(s) + 1
         IN  /\ Tail(s) \in Seq(S) /\ Suffix(Tail(s), t)
             /\ n \in DOMAIN t /\ Head(s) = t[n] /\ Head(s) \in S
             /\ n \notin Done(s, t) /\ Done(Tail(s), t) = Done(s, t) \cup {n}
             /\ Done(s, t) \subseteq DOMAIN t
<1> DEFINE n == Len(t) - Len(s) + 1
<1>1. /\ Len(s) \in Nat \ {0} /\ Len(t) \in Nat /\ DOMAIN t = 1 .. Len(t)
      /\ DOMAIN s = 1 .. Len(s) /\ Len(s) <= Len(t)
      /\ \A i \in 1 .. Len(s) : s[i] = t[Len(t) - Len(s) + i]
  BY DEF Suffix
<1>2. /\ Tail(s) \in Seq(S) /\ Len(Tail(s)) = Len(s) - 1 /\ Head(s) = s[1]
      /\ \A i \in 1 .. Len(s) - 1 : Tail(s)[i] = s[i + 1]
  BY <1>1
<1>3. n \in DOMAIN t /\ Head(s) = t[n] /\ Head(s) \in S
  BY <1>1, <1>2
<1>4. Suffix(Tail(s), t)
  <2>1. ASSUME NEW i \in 1 .. Len(s) - 1
        PROVE  Tail(s)[i] = t[Len(t) - (Len(s) - 1) + i]
    <3>1. i + 1 \in 1 .. Len(s) /\ Len(t) - Len(s) + (i + 1) = Len(t) - (Len(s) - 1) + i
      BY <1>1
    <3>2. s[i + 1] = t[Len(t) - Len(s) + (i + 1)]
      BY <1>1, <3>1
    <3>3. QED
      BY <1>2, <3>1, <3>2
  <2>2. QED
    BY <1>1, <1>2, <2>1 DEF Suffix
<1>5. n \notin Done(s, t) /\ Done(Tail(s), t) = Done(s, t) \cup {n}
  BY <1>1, <1>2 DEF Done
<1>6. Done(s, t) \subseteq DOMAIN t
  BY <1>1 DEF Done
<1>7. QED
  BY <1>2, <1>3, <1>4, <1>5, <1>6

LEMMA Whole ==
  ASSUME NEW S, NEW t \in Seq(S)
  PROVE  /\ Suffix(t, t) /\ Done(t, t) = {}
         /\ Done(<< >>, t) = DOMAIN t
<1>1. Len(t) \in Nat /\ DOMAIN t = 1 .. Len(t)
  OBVIOUS
<1>2. Suffix(t, t)
  BY <1>1 DEF Suffix
<1>3. Done(t, t) = {}
  BY <1>1 DEF Done
<1>4. Done(<< >>, t) = DOMAIN t
  <2>1. Len(<< >>) = 0
    OBVIOUS
  <2>2. QED
    BY <1>1, <2>1 DEF Done
<1>5. QED
  BY <1>2, <1>3, <1>4

-----------------------------------------------------------------------------
(* The hart.                                                               *)

LEMMA HartFacts ==
  /\ Reset.mode = "M"
  /\ \A h \in {Reset, Firmware, Started} :
       h.mode \in {"M", "S"} /\ h.medeleg \subseteq 0 .. 15
  /\ \A h \in {Firmware, Started} :
       /\ h # Reset /\ h.mode = "S" /\ Allowed(h)
       /\ {3, 8, 12, 13, 15} \subseteq h.medeleg
<1>1. /\ Started.mode = "S" /\ Started.medeleg = {1, 3, 8, 9, 12, 13, 15}
      /\ Started.pmpaddr = WordSize - 1 /\ Started.pmpcfg = {"R", "W", "X", "TOR"}
  BY DEF Started, enter_supervisor_mode, pmp_init_allow_all,
         delegate_supervisor_exceptions, Reset
<1>2. /\ Reset.mode = "M" /\ Reset.medeleg = {}
      /\ Firmware.mode = "S" /\ Firmware.medeleg = {0, 3, 8, 12, 13, 15}
      /\ Firmware.pmpaddr = WordSize - 1 /\ Firmware.pmpcfg = {"R", "W", "X", "TOR"}
  BY DEF Reset, Firmware
<1>3. Allowed(Firmware) /\ Allowed(Started)
  BY <1>1, <1>2 DEF Allowed
<1> HIDE DEF Started
<1>4. QED
  BY <1>1, <1>2, <1>3

LEMMA StartedFields ==
  /\ Reset \in {Reset, Firmware, Started}
  /\ enter_supervisor_mode(pmp_init_allow_all(delegate_supervisor_exceptions(
       [Reset EXCEPT !.mtvec = TRUE]))) = Started
BY DEF Started

-----------------------------------------------------------------------------
(* What the invariant says of the state as a whole.                        *)

LEMMA Basics ==
  ASSUME IInv
  PROVE  /\ platform \in Platforms /\ Ram \in SUBSET Frame
         /\ mem \in [Ram -> PageTable] /\ allocator \in Allocator
         /\ root \in Word /\ satp \in Frame
         /\ Kernel \in Seq(Mappings(KernelFlags)) /\ User \in Seq(Mappings(UserFlags))
<1>1. platform \in Platforms /\ allocator \in Allocator /\ root \in Word /\ satp \in Frame
  BY DEF IInv, Types, TypeOK
<1>2. Ram \in SUBSET Frame /\ mem \in [Ram -> PageTable]
  BY DEF IInv, Types, Ram, RamPages
<1>3. Kernel \in Seq(Mappings(KernelFlags)) /\ User \in Seq(Mappings(UserFlags))
  BY <1>1, KernelPages, UserPages DEF Kernel, User
<1>4. QED
  BY <1>1, <1>2, <1>3

(* There are tables, in RAM, and room for more.                            *)
LEMMA Rooted ==
  ASSUME IInv, Top # 0
  PROVE  /\ Top \in Ram \ {0} /\ IsTree(mem, allocator, Top) /\ InRam(Ram, mem, Top)
         /\ AllocatorOK(allocator) /\ CanTake(Ram, allocator)
<1>1. /\ AllocatorOK(allocator) /\ reserved_end(platform) <= allocator.current
      /\ allocator.end = platform.ram_base + platform.ram_size
  BY DEF IInv, AllocatorInv
<1>2. CanTake(Ram, allocator)
  BY <1>1, Basics, RamIsLeft DEF Ram
<1>3. QED
  BY <1>1, <1>2 DEF IInv, TablesInv

LEMMA FrameDown ==
  ASSUME NEW f \in Frame
  PROVE  align_down(f, PageSize) = f /\ f \in Word /\ f \in Nat
<1>1. f % PageSize = 0 /\ f \in Word /\ f \in Nat
  BY SizeAssumption DEF Frame, Word, is_page_aligned
<1>2. QED
  BY <1>1 DEF align_down

LEMMA VpnInVpns ==
  ASSUME NEW va \in Word
  PROVE  vpn(va) \in Vpns
BY VpnType DEF vpn, Vpns

LEMMA ListedPages ==
  ASSUME IInv
  PROVE  /\ \A k \in DOMAIN Kernel : /\ Kernel[k] \in Mappings(KernelFlags)
                                    /\ Kernel[k].va \in Frame /\ vpn(Kernel[k].va) \in Vpns
         /\ \A k \in DOMAIN User : /\ User[k] \in Mappings(UserFlags)
                                  /\ User[k].va \in Frame /\ vpn(User[k].va) \in Vpns
<1>1. ASSUME NEW F, NEW r \in Mappings(F)
      PROVE  r.va \in Frame /\ vpn(r.va) \in Vpns
  BY FrameDown, VpnInVpns DEF Mappings
<1>2. /\ \A k \in DOMAIN Kernel : Kernel[k] \in Mappings(KernelFlags)
      /\ \A k \in DOMAIN User : User[k] \in Mappings(UserFlags)
  BY Basics
<1>3. QED
  BY <1>1, <1>2

(* The pages of the user's address space have numbers of their own.        *)
LEMMA UserApart ==
  ASSUME IInv, NEW k \in DOMAIN User
  PROVE  /\ \A l \in DOMAIN User : vpn(User[l].va) = vpn(User[k].va) => l = k
         /\ \A l \in DOMAIN Kernel : vpn(Kernel[l].va) # vpn(User[k].va)
<1>1. platform \in Platforms
  BY Basics
<1>2. QED
  BY <1>1, ImageAssumption DEF User, Kernel

(* What the hart reaches once the tables are active.                       *)
LEMMA ReachActive ==
  ASSUME IInv, satp # 0, NEW va \in Word
  PROVE  Reach(va) = IF Maps(vpn(va)) THEN At(vpn(va)) ELSE NoEntry
<1>1. Top = satp /\ Top # nullptr /\ IsTree(mem, allocator, Top)
  BY Rooted DEF Top, nullptr
<1>2. vpn(va) \in Vpns
  BY VpnInVpns
<1>3. HardwareWalk(mem, Top, vpn(va)) =
        IF is_mapped(mem, Top, vpn(va)) THEN entry0(mem, Top, vpn(va)) ELSE NoEntry
  BY <1>1, <1>2, WalkOfTree
<1>4. QED
  BY <1>1, <1>3 DEF Reach, Maps, At

LEMMA OnePage ==
  ASSUME NEW f \in Frame, NEW i \in 0 .. PageSize - 1
  PROVE  /\ f + i \in Word /\ vpn(f + i) = vpn(f)
         /\ (f + i) % PageSize = i /\ align_down(f + i, PageSize) = f
<1>1. f \in Nat /\ f + PageSize <= WordSize /\ is_page_aligned(f)
  BY FrameEnd DEF Frame
<1>2. f + i \in Word
  BY <1>1, SizeAssumption DEF Word
<1>3. QED
  BY <1>1, <1>2, VpnOfPage

LEMMA ReachKernel ==
  ASSUME IInv, satp # 0, NEW r, Has(Kernel, r), NEW i \in 0 .. PageSize - 1
  PROVE  r \in Mappings(KernelFlags) /\ Reach(r.va + i) = Leaf(r.pa, r.flags)
<1>1. PICK k \in DOMAIN Kernel : Kernel[k] = r
  BY DEF Has
<1>2. r \in Mappings(KernelFlags)
  BY <1>1, Basics
<1>3. r.va \in Frame
  BY <1>2 DEF Mappings
<1>4. r.va + i \in Word /\ vpn(r.va + i) = vpn(r.va)
  BY <1>3, OnePage
<1>5. Maps(vpn(r.va)) /\ At(vpn(r.va)) = Leaf(r.pa, r.flags)
  BY <1>1 DEF IInv, KernelInv, KernelPage
<1> DEFINE va == r.va + i
<1> HIDE DEF va
<1>6. va \in Word /\ vpn(va) = vpn(r.va)
  BY <1>4 DEF va
<1>7. Reach(va) = Leaf(r.pa, r.flags)
  BY <1>5, <1>6, ReachActive
<1>8. QED
  BY <1>2, <1>7 DEF va

LEMMA ReachDirect ==
  ASSUME IInv, satp # 0, NEW f \in Ram, NEW i \in 0 .. PageSize - 1
  PROVE  Reach(phys_to_virt(f + i)) = Leaf(f, {"R", "W"})
<1> DEFINE r == [va |-> phys_to_virt(f), pa |-> f, flags |-> {"R", "W"}]
<1>1. Has(Kernel, r)
  BY Basics, KernelPages DEF Kernel, Ram
<1>2. Reach(r.va + i) = Leaf(r.pa, r.flags)
  <2> HIDE DEF r
  <2>1. QED
    BY <1>1, ReachKernel
<1>3. f \in Frame
  BY Basics
<1>4. phys_to_virt(f + i) = phys_to_virt(f) + i
  BY <1>3, DirectMapShift
<1>5. QED
  BY <1>2, <1>4

(* The pointer to the root is good before and after satp is written.       *)
LEMMA ReachRoot ==
  ASSUME IInv, Top # 0
  PROVE  Reach(root).page = Top
<1>1. Top \in Ram /\ Top \in Frame
  BY Rooted, Basics
<1>2. CASE satp = 0
  BY <1>1, <1>2, FrameDown DEF Reach, Top
<1>3. CASE satp # 0
  <2>1. root = phys_to_virt(satp) /\ Top = satp
    BY <1>3 DEF IInv, TablesInv, Top
  <2>2. 0 \in 0 .. PageSize - 1 /\ satp + 0 = satp
    BY Basics, FrameDown, SizeAssumption
  <2>3. Reach(phys_to_virt(satp + 0)) = Leaf(satp, {"R", "W"})
    BY <1>1, <1>3, <2>1, <2>2, ReachDirect
  <2>4. QED
    BY <2>1, <2>2, <2>3 DEF Leaf
<1>4. QED
  BY <1>2, <1>3

-----------------------------------------------------------------------------
(* The beginning, before there are tables.                                 *)

LEMMA BssRounds ==
  ASSUME NEW p \in Platforms
  PROVE  /\ bss_rounds(p) \in Seq(Mappings({{}}))
         /\ \A k \in DOMAIN bss_rounds(p) :
              p.bss.start <= bss_rounds(p)[k].pa /\ bss_rounds(p)[k].pa < p.bss.end
         /\ \A f \in RamPages(p) : p.bss.start <= f /\ f < p.bss.end =>
              \E k \in DOMAIN bss_rounds(p) : bss_rounds(p)[k].pa = f
<1> DEFINE s == p.bss
<1>1. /\ s.start \in Frame /\ s.end \in Frame /\ s.start <= s.end /\ s.end <= p.kernel_end
      /\ p.kernel_end \in Word /\ p.kernel_end + 2 * PageSize <= WordSize
  BY PlatformAssumption
<1> HIDE DEF s
<1>2. /\ s.start \in Nat /\ s.end \in Nat /\ p.kernel_end \in Nat /\ PageSize \in Nat
      /\ s.end + PageSize <= WordSize /\ WordSize \in Nat /\ s.start \in Word
      /\ {} \in {{}} /\ s.end - s.start \in Nat /\ s.end - s.start + PageSize <= WordSize
  BY <1>1, SizeAssumption DEF Frame, Word
<1>3. Section(s, {}) = bss_rounds(p)
  BY DEF Section, bss_rounds, s
<1>4. /\ Section(s, {}) \in Seq(Mappings({{}}))
      /\ \A f \in Frame : s.start <= f /\ f < s.end => Has(Section(s, {}), Same(f, {}))
  BY <1>1, <1>2, SectionPages
<1>5. \A k \in DOMAIN Section(s, {}) :
        \E d \in Frame : d < s.end - s.start /\ Section(s, {})[k] = Page(s.start, s.start, d, {})
  BY <1>1, <1>2, SectionPages
<1>6. ASSUME NEW k \in DOMAIN Section(s, {})
      PROVE  s.start <= Section(s, {})[k].pa /\ Section(s, {})[k].pa < s.end
  <2>1. PICK d \in Frame : d < s.end - s.start
                          /\ Section(s, {})[k] = Page(s.start, s.start, d, {})
    BY <1>5, <1>6
  <2>2. d \in Nat /\ d \in Word /\ s.start + d < WordSize
    BY <1>2, <2>1, FrameDown
  <2>3. Add(s.start, d) = s.start + d
    BY <1>2, <2>2, AddWord
  <2>4. Section(s, {})[k].pa = s.start + d
    BY <2>1, <2>3 DEF Page
  <2>5. QED
    BY <1>2, <2>1, <2>2, <2>4
<1>7. ASSUME NEW f \in RamPages(p), s.start <= f, f < s.end
      PROVE  \E k \in DOMAIN bss_rounds(p) : bss_rounds(p)[k].pa = f
  BY <1>3, <1>4, <1>7 DEF RamPages, Has, Same
<1>8. QED
  BY <1>3, <1>4, <1>6, <1>7 DEF s

LEMMA ZeroTable == paging_zero_table \in PageTable
BY NoEntryType DEF paging_zero_table, PageTable

LEMMA ZeroWord == 0 \in Word /\ 0 \in Nat /\ 0 \in Frame
BY NoEntryType, SizeAssumption DEF Frame

LEMMA InitInvariant == Init => IInv
<1> SUFFICES ASSUME Init PROVE IInv
  OBVIOUS
<1> USE DEF Init
<1>1. Types
  <2>1. PICK pte \in Garbage : mem = [f \in RamPages(platform) |-> [i \in Idx |-> pte]]
    OBVIOUS
  <2>2. pte \in PTE
    BY ConstantsAssumption
  <2>3. mem \in [Ram -> PageTable]
    BY <2>1, <2>2 DEF Ram, PageTable
  <2>4. \A f \in Ram : DOMAIN bytes[f] = 0 .. PageSize - 1
    BY DEF Ram, PageOf
  <2>5. Len(platform.image) \in Nat
    BY LayoutFacts
  <2>6. TypeOK
    <3>1. hart.mode \in {"M", "S"} /\ hart.medeleg \subseteq 0 .. 15
      BY HartFacts
    <3>2. allocator \in Allocator
      BY ZeroWord DEF Allocator
    <3>3. DOMAIN mem = RamPages(platform) /\ DOMAIN bytes = RamPages(platform)
      BY <2>1
    <3>4. QED
      BY <2>5, <3>1, <3>2, <3>3, ZeroWord DEF TypeOK, nullptr
  <2>7. QED
    BY <2>3, <2>4, <2>6 DEF Types
<1>2. HartInv
  BY DEF HartInv
<1>3. EarlyInv
  BY BssRounds, Whole DEF EarlyInv, BssCleared, nullptr
<1>4. AllocatorInv /\ TablesInv /\ KernelInv /\ UserInv
  BY DEF AllocatorInv, TablesInv, KernelInv, UserInv, Top, nullptr
<1>5. LoadInv /\ BytesInv /\ EndInv /\ PanicsForAReason
  BY DEF LoadInv, BytesInv, EndInv, PanicsForAReason
<1>6. QED
  BY <1>1, <1>2, <1>3, <1>4, <1>5 DEF IInv

LEMMA ClearBssInvariant ==
  ASSUME IInv, ClearBss
  PROVE  IInv'
<1> USE DEF ClearBss
<1> DEFINE rounds == bss_rounds(platform)
           n == Len(rounds) - Len(todo) + 1
<1>1. /\ phase = "clear_bss" /\ root = 0 /\ satp = 0 /\ copied = 0
      /\ todo \in Seq(Mappings({{}})) /\ Suffix(todo, rounds)
      /\ \A k \in Done(todo, rounds) :
           rounds[k].pa \in Ram => bytes[rounds[k].pa] = PageOf(0)
  BY DEF IInv, EarlyInv
<1>2. rounds \in Seq(Mappings({{}}))
  BY Basics, BssRounds
<1> HIDE DEF rounds
<1>3. /\ Tail(todo) \in Seq(Mappings({{}})) /\ Suffix(Tail(todo), rounds)
      /\ Head(todo) = rounds[n] /\ Done(Tail(todo), rounds) = Done(todo, rounds) \cup {n}
  BY <1>1, <1>2, Rest
<1> HIDE DEF n
<1>4. Types'
  <2>1. mem' \in [Ram -> PageTable]
    BY Basics, ZeroTable
  <2>2. /\ DOMAIN bytes' = RamPages(platform)
        /\ \A f \in Ram : DOMAIN bytes'[f] = 0 .. PageSize - 1
    BY DEF IInv, Types, TypeOK, PageOf, Ram
  <2>3. DOMAIN mem' = RamPages(platform)
    BY <2>1 DEF Ram
  <2>4. TypeOK'
    BY <2>2, <2>3 DEF IInv, Types, TypeOK
  <2>5. QED
    BY <2>1, <2>2, <2>4 DEF Types, Ram
<1>5. HartInv'
  BY DEF IInv, HartInv
<1>6. EarlyInv'
  <2>1. ASSUME NEW k \in Done(todo, rounds) \cup {n}, rounds[k].pa \in Ram
        PROVE  bytes'[rounds[k].pa] = PageOf(0)
    BY <1>1, <1>3, <2>1 DEF IInv, Types, TypeOK, Ram
  <2>2. BssCleared'
    BY <1>1 DEF BssCleared
  <2>3. QED
    BY <1>1, <1>3, <2>1, <2>2 DEF EarlyInv, rounds, Ram
<1>7. AllocatorInv' /\ TablesInv' /\ KernelInv' /\ UserInv'
  BY <1>1 DEF AllocatorInv, TablesInv, KernelInv, UserInv, Top
<1>8. LoadInv' /\ BytesInv' /\ EndInv' /\ PanicsForAReason'
  BY <1>1 DEF LoadInv, BytesInv, EndInv, PanicsForAReason
<1>9. QED
  BY <1>4, <1>5, <1>6, <1>7, <1>8 DEF IInv

LEMMA DispatchInvariant ==
  ASSUME IInv, Dispatch
  PROVE  IInv'
<1> USE DEF Dispatch
<1> DEFINE rounds == bss_rounds(platform)
<1>1. /\ phase = "clear_bss" /\ root = 0 /\ satp = 0 /\ copied = 0
      /\ \A k \in Done(todo, rounds) :
           rounds[k].pa \in Ram => bytes[rounds[k].pa] = PageOf(0)
      /\ phase' \in {"machine", "allocator"}
  BY DEF IInv, EarlyInv
<1>2. Done(todo, rounds) = DOMAIN rounds
  BY Basics, BssRounds, Whole
<1>3. Types'
  BY <1>1 DEF IInv, Types, TypeOK, Ram
<1>4. HartInv'
  BY HartFacts DEF IInv, HartInv
<1>5. BssCleared'
  <2>1. ASSUME NEW f \in RamPages(platform), platform.bss.start <= f, f < platform.bss.end
        PROVE  bytes[f] = PageOf(0)
    BY <1>1, <1>2, <2>1, Basics, BssRounds DEF Ram
  <2>2. QED
    BY <2>1 DEF BssCleared
<1>6. EarlyInv'
  BY <1>1, <1>5 DEF EarlyInv
<1>7. AllocatorInv' /\ TablesInv' /\ KernelInv' /\ UserInv'
  BY <1>1 DEF AllocatorInv, TablesInv, KernelInv, UserInv, Top
<1>8. LoadInv' /\ BytesInv' /\ EndInv' /\ PanicsForAReason'
  BY <1>1 DEF LoadInv, BytesInv, EndInv, PanicsForAReason
<1>9. QED
  BY <1>3, <1>4, <1>6, <1>7, <1>8 DEF IInv

LEMMA MachineMainInvariant ==
  ASSUME IInv, MachineMain
  PROVE  IInv'
<1> USE DEF MachineMain
<1>1. phase = "machine" /\ root = 0 /\ satp = 0 /\ copied = 0 /\ hart = Reset
  BY DEF IInv, EarlyInv, HartInv
<1>2. hart' = Started /\ phase' = "allocator"
  BY <1>1, StartedFields, HartFacts
<1>3. Types'
  BY <1>1, <1>2, HartFacts DEF IInv, Types, TypeOK, Ram
<1>4. HartInv'
  BY <1>2, HartFacts DEF HartInv
<1>5. BssCleared'
  BY <1>1, <1>2 DEF IInv, EarlyInv, BssCleared
<1>6. EarlyInv'
  BY <1>1, <1>2, <1>5 DEF EarlyInv
<1>7. AllocatorInv' /\ TablesInv' /\ KernelInv' /\ UserInv'
  BY <1>1, <1>2 DEF AllocatorInv, TablesInv, KernelInv, UserInv, Top
<1>8. LoadInv' /\ BytesInv' /\ EndInv' /\ PanicsForAReason'
  BY <1>1, <1>2 DEF LoadInv, BytesInv, EndInv, PanicsForAReason
<1>9. QED
  BY <1>3, <1>4, <1>6, <1>7, <1>8 DEF IInv

(* Past the machine build the hart may fetch from memory.                  *)
LEMMA MayFetch ==
  ASSUME IInv, phase \notin {"clear_bss", "machine"}
  PROVE  /\ hart \in {Firmware, Started} /\ Allowed(hart)
         /\ hart.mode = "S" /\ {3, 8, 12, 13, 15} \subseteq hart.medeleg
<1>1. hart \in {Firmware, Started}
  BY DEF IInv, HartInv
<1>2. QED
  BY <1>1, HartFacts

LEMMA AllocatorInitInvariant ==
  ASSUME IInv, AllocatorInit
  PROVE  IInv'
<1> USE DEF AllocatorInit, GoOnIf
<1>1. phase = "allocator" /\ root = 0 /\ satp = 0 /\ copied = 0
  BY DEF IInv, EarlyInv
<1>2. /\ allocator' \in Allocator /\ allocator'.end = platform.ram_base + platform.ram_size
      /\ reserved_end(platform) <= allocator'.current
      /\ allocator'.current < allocator'.end => AllocatorOK(allocator')
  BY Basics, InitialAllocator
<1>3. phase' \in {"root", "panic"}
  OBVIOUS
<1>4. Types'
  BY <1>1, <1>2, <1>3 DEF IInv, Types, TypeOK, Ram
<1>5. HartInv'
  BY <1>1, <1>3 DEF IInv, HartInv
<1>6. EarlyInv'
  BY <1>1, <1>3 DEF EarlyInv, BssCleared
<1>7. AllocatorInv'
  BY <1>1, <1>2 DEF AllocatorInv, Top
<1>8. TablesInv' /\ KernelInv' /\ UserInv'
  BY <1>1, <1>3 DEF TablesInv, KernelInv, UserInv, Top
<1>9. PanicsForAReason'
  <2>1. Allowed(hart)
    BY <1>1, MayFetch
  <2>2. phase' = "panic" => allocator'.current >= allocator'.end
    BY <1>2 DEF Allocator, Word
  <2>3. QED
    BY <2>1, <2>2 DEF PanicsForAReason, Allowed
<1>10. LoadInv' /\ BytesInv' /\ EndInv'
  BY <1>1, <1>3 DEF LoadInv, BytesInv, EndInv
<1>11. QED
  BY <1>4, <1>5, <1>6, <1>7, <1>8, <1>9, <1>10 DEF IInv

-----------------------------------------------------------------------------
(* The construction of the kernel's tables.                                *)

LEMMA CurrentIsNat ==
  ASSUME NEW a, AllocatorOK(a)
  PROVE  a \in Allocator /\ a.current \in Nat /\ a.end \in Nat
BY SizeAssumption DEF AllocatorOK, Allocator, Word

LEMMA TakePage ==
  ASSUME NEW a \in Allocator, AllocatorOK(a), physical_alloc_page(a).page # 0
  PROVE  LET answer == physical_alloc_page(a)
         IN  /\ answer.page = a.current /\ answer.page \in Frame \ {0}
             /\ answer.page < a.end /\ a.current <= answer.allocator.current
             /\ AllocatorOK(answer.allocator) /\ answer.allocator.end = a.end
             /\ IsOwned(answer.allocator, answer.page)
<1> DEFINE answer == physical_alloc_page(a)
<1>1. /\ is_page_aligned(a.current) /\ a.current <= a.end /\ a.end + 2 * PageSize <= WordSize
      /\ a.current \in Nat /\ a.end \in Nat /\ PageSize \in Nat \ {0}
  BY SizeAssumption DEF AllocatorOK, Allocator, Word
<1>2. \/ answer = [page |-> a.current, allocator |-> [a EXCEPT !.current = a.current + PageSize]]
         /\ a.current + PageSize <= a.end
      \/ answer.page = 0
  BY <1>1, AllocOnePage
<1>3. /\ answer.page = a.current /\ a.current + PageSize <= a.end
      /\ answer.allocator = [a EXCEPT !.current = a.current + PageSize]
  BY <1>2
<1>4. answer.allocator.end = a.end /\ answer.allocator.current = a.current + PageSize
  BY <1>3 DEF Allocator
<1>5. /\ AllocatorOK(answer.allocator) /\ answer.page \in Frame \ {0}
      /\ IsOwned(answer.allocator, answer.page)
  BY Fresh
<1> HIDE DEF answer
<1>6. QED
  BY <1>1, <1>3, <1>4, <1>5 DEF answer

LEMMA CreateRootInvariant ==
  ASSUME IInv, CreateRoot
  PROVE  IInv'
<1> USE DEF CreateRoot, GoOnIf
<1> DEFINE answer == physical_alloc_page(allocator)
           p == answer.page
<1>1. phase = "root" /\ root = 0 /\ satp = 0 /\ copied = 0
  BY DEF IInv, EarlyInv
<1>2. /\ AllocatorOK(allocator) /\ reserved_end(platform) <= allocator.current
      /\ allocator.end = platform.ram_base + platform.ram_size
      /\ allocator \in Allocator /\ Allowed(hart)
  BY <1>1, Basics, MayFetch DEF IInv, AllocatorInv
<1>3. /\ allocator' = answer.allocator /\ root' = p /\ satp' = 0 /\ Top' = p
      /\ mem' = IF p = 0 THEN mem ELSE [mem EXCEPT ![p] = paging_zero_table]
      /\ phase' = IF p # 0 THEN "map" ELSE "panic"
      /\ todo' = Kernel /\ Kernel' = Kernel /\ Ram' = Ram
  BY <1>1 DEF Kernel, Ram, Top
<1>4. /\ p # 0 =>
           /\ p = allocator.current /\ p \in Ram \ {0} /\ p \in Frame
           /\ AllocatorOK(allocator') /\ allocator'.end = allocator.end
           /\ allocator.current <= allocator'.current /\ IsOwned(allocator', p)
      /\ p = 0 => allocator' = allocator /\ ~has_page(allocator)
  <2>1. CASE p = 0
    BY <1>2, <1>3, <2>1, Fresh, NoPageLeft
  <2>2. CASE p # 0
    <3>1. /\ p = allocator.current /\ p \in Frame \ {0} /\ p < allocator.end
          /\ AllocatorOK(allocator') /\ allocator'.end = allocator.end
          /\ allocator.current <= allocator'.current /\ IsOwned(allocator', p)
      BY <1>2, <1>3, <2>2, TakePage
    <3>2. CanTake(Ram, allocator)
      BY <1>2, Basics, RamIsLeft DEF Ram
    <3>3. p \in Ram
      BY <3>1, <3>2, FrameDown DEF CanTake
    <3>4. QED
      BY <2>2, <3>1, <3>3
  <2>3. QED
    BY <2>1, <2>2
<1> HIDE DEF answer, p
<1>5. mem' \in [Ram -> PageTable] /\ (p # 0 => \A k \in Idx : mem'[p][k] = NoEntry)
  BY <1>3, <1>4, Basics, ZeroTable DEF paging_zero_table
<1>6. Types'
  <2>1. allocator' \in Allocator /\ root' \in Word /\ DOMAIN mem' = RamPages(platform)
    BY <1>2, <1>3, <1>4, <1>5, FrameDown, ZeroWord DEF AllocatorOK, Ram
  <2>2. QED
    BY <1>3, <1>5, <2>1 DEF IInv, Types, TypeOK, Ram
<1>7. HartInv'
  BY <1>1, <1>3 DEF IInv, HartInv
<1>8. EarlyInv'
  BY <1>1, <1>3 DEF EarlyInv, BssCleared
<1>9. AllocatorInv'
  <2>1. p # 0 => /\ reserved_end(platform) \in Nat /\ allocator.current \in Nat
                 /\ allocator'.current \in Nat
    BY <1>2, <1>4, Basics, ReservedEnd, CurrentIsNat
  <2>2. p # 0 => reserved_end(platform) <= allocator'.current
    BY <1>2, <1>4, <2>1
  <2>3. QED
    BY <1>2, <1>3, <1>4, <2>2 DEF AllocatorInv
<1>10. p # 0 => /\ IsTree(mem', allocator', p) /\ Tables(mem', p) = {p}
                /\ \A t \in Vpns : ~is_mapped(mem', p, t)
  BY <1>4, <1>5, EmptyRoot
<1>11. TablesInv'
  <2>1. p # 0 => /\ p \in Ram /\ InRam(Ram, mem', p)
                 /\ \A f \in Tables(mem', p) : reserved_end(platform) <= f
    BY <1>2, <1>4, <1>10 DEF InRam
  <2>2. QED
    BY <1>1, <1>3, <1>10, <2>1 DEF TablesInv
<1>12. KernelInv'
  <2>1. Suffix(Kernel, Kernel) /\ Done(Kernel, Kernel) = {}
    BY Basics, Whole
  <2>2. QED
    BY <1>3, <1>10, <2>1, Basics DEF KernelInv, Maps
<1>13. UserInv' /\ LoadInv' /\ BytesInv' /\ EndInv'
  BY <1>3 DEF UserInv, LoadInv, BytesInv, EndInv
<1>14. PanicsForAReason'
  BY <1>2, <1>3, <1>4 DEF PanicsForAReason, Allowed
<1>15. QED
  BY <1>6, <1>7, <1>8, <1>9, <1>11, <1>12, <1>13, <1>14 DEF IInv

(* What a call of paging_map leaves of the invariant's view of the tables. *)
LEMMA TablesGrow ==
  ASSUME IInv, Top # 0, NEW va, NEW pa, NEW flags, NEW w,
         RamEffect(Ram, mem, allocator, Top, va, pa, flags, w)
  PROVE  /\ w.mem \in [Ram -> PageTable] /\ w.allocator \in Allocator
         /\ AllocatorOK(w.allocator) /\ w.allocator.end = allocator.end
         /\ allocator.current <= w.allocator.current
         /\ reserved_end(platform) <= w.allocator.current
         /\ IsTree(w.mem, w.allocator, Top) /\ InRam(Ram, w.mem, Top)
         /\ \A f \in Tables(w.mem, Top) : reserved_end(platform) <= f
         /\ \A f \in Ram : w.mem[f] # mem[f] => reserved_end(platform) <= f
<1>1. /\ AllocatorOK(allocator) /\ reserved_end(platform) <= allocator.current
      /\ \A f \in Tables(mem, Top) : reserved_end(platform) <= f
  BY DEF IInv, AllocatorInv, TablesInv
<1>2. /\ w.mem \in [Ram -> PageTable]
      /\ AllocatorOK(w.allocator) /\ w.allocator.end = allocator.end
      /\ allocator.current <= w.allocator.current
      /\ IsTree(w.mem, w.allocator, Top) /\ InRam(Ram, w.mem, Top)
      /\ \A f \in Ram : w.mem[f] # mem[f] =>
           f \in Tables(mem, Top) \/ Taken(allocator, w.allocator, f)
      /\ \A f \in Tables(w.mem, Top) :
           f \in Tables(mem, Top) \/ Taken(allocator, w.allocator, f)
  BY DEF RamEffect
<1>3. /\ w.allocator \in Allocator /\ w.allocator.current \in Nat /\ allocator.current \in Nat
      /\ reserved_end(platform) \in Nat
  BY <1>1, <1>2, CurrentIsNat, Basics, ReservedEnd
<1>4. \A f \in Frame : Taken(allocator, w.allocator, f) => reserved_end(platform) <= f
  BY <1>1, <1>3, FrameDown DEF Taken
<1>5. \A f \in Tables(w.mem, Top) : reserved_end(platform) <= f
  BY <1>1, <1>2, <1>4 DEF Tables
<1>6. \A f \in Ram : w.mem[f] # mem[f] => reserved_end(platform) <= f
  BY <1>1, <1>2, <1>4, Basics
<1>7. QED
  BY <1>1, <1>2, <1>3, <1>5, <1>6

LEMMA KernelFlagsAreFlags ==
  ASSUME NEW flags \in KernelFlags
  PROVE  flags \in SUBSET Flags /\ flags \cap Permissions # {}
BY DEF KernelFlags, Flags

(* One page of the kernel's ranges is mapped.                              *)
LEMMA KernelPageMapped ==
  ASSUME IInv, phase = "map", todo # << >>
  PROVE  LET r == Head(todo)
             n == Len(Kernel) - Len(todo) + 1
         IN  /\ satp = 0 /\ root # 0 /\ Top = root /\ Reach(root).page = Top
             /\ n \in DOMAIN Kernel /\ n \notin Done(todo, Kernel) /\ r = Kernel[n]
             /\ Tail(todo) \in Seq(Mappings(KernelFlags)) /\ Suffix(Tail(todo), Kernel)
             /\ Done(Tail(todo), Kernel) = Done(todo, Kernel) \cup {n}
             /\ Done(todo, Kernel) \subseteq DOMAIN Kernel
             /\ r.va \in Frame /\ r.pa \in Frame /\ vpn(r.va) \in Vpns
             /\ RamEffect(Ram, mem, allocator, Top, r.va, r.pa, r.flags,
                          paging_map(mem, allocator, Top, r.va, r.pa, r.flags))
<1> DEFINE r == Head(todo)
           n == Len(Kernel) - Len(todo) + 1
<1>1. satp = 0 /\ Top # 0 /\ Top = root /\ Reach(root).page = Top
  BY ReachRoot DEF IInv, TablesInv, Top
<1>2. todo \in Seq(Mappings(KernelFlags)) /\ Suffix(todo, Kernel)
  BY DEF IInv, KernelInv
<1>3. /\ n \in DOMAIN Kernel /\ n \notin Done(todo, Kernel) /\ r = Kernel[n]
      /\ Tail(todo) \in Seq(Mappings(KernelFlags)) /\ Suffix(Tail(todo), Kernel)
      /\ Done(Tail(todo), Kernel) = Done(todo, Kernel) \cup {n}
      /\ Done(todo, Kernel) \subseteq DOMAIN Kernel
      /\ r \in Mappings(KernelFlags)
  BY <1>2, Basics, Rest
<1> HIDE DEF r, n
<1>4. r.va \in Frame /\ r.pa \in Frame /\ r.flags \in KernelFlags
  BY <1>3 DEF Mappings
<1>5. /\ r.va \in Word /\ r.pa \in Word /\ vpn(r.va) \in Vpns
      /\ r.flags \in SUBSET Flags /\ r.flags \cap Permissions # {}
  BY <1>4, FrameDown, VpnInVpns, KernelFlagsAreFlags
<1>6. RamEffect(Ram, mem, allocator, Top, r.va, r.pa, r.flags,
                paging_map(mem, allocator, Top, r.va, r.pa, r.flags))
  <2> DEFINE va == r.va
             pa == r.pa
             flags == r.flags
  <2>1. /\ va \in Word /\ pa \in Word
        /\ flags \in SUBSET Flags /\ flags \cap Permissions # {}
    BY <1>5
  <2> HIDE DEF va, pa, flags
  <2>2. RamEffect(Ram, mem, allocator, Top, va, pa, flags,
                  paging_map(mem, allocator, Top, va, pa, flags))
    BY <1>1, <2>1, Basics, Rooted, RamMap
  <2>3. QED
    BY <2>2 DEF va, pa, flags
<1>7. QED
  BY <1>1, <1>3, <1>4, <1>5, <1>6 DEF r, n

LEMMA MapKernelPageInvariant ==
  ASSUME IInv, MapKernelPage
  PROVE  IInv'
<1> USE DEF MapKernelPage, GoOnIf
<1> DEFINE r == Head(todo)
           n == Len(Kernel) - Len(todo) + 1
           w == paging_map(mem, allocator, Top, r.va, r.pa, r.flags)
<1>1. /\ satp = 0 /\ root # 0 /\ Top = root /\ Reach(root).page = Top
      /\ n \in DOMAIN Kernel /\ n \notin Done(todo, Kernel) /\ r = Kernel[n]
      /\ Tail(todo) \in Seq(Mappings(KernelFlags)) /\ Suffix(Tail(todo), Kernel)
      /\ Done(Tail(todo), Kernel) = Done(todo, Kernel) \cup {n}
      /\ Done(todo, Kernel) \subseteq DOMAIN Kernel
      /\ r.va \in Frame /\ r.pa \in Frame /\ vpn(r.va) \in Vpns
      /\ RamEffect(Ram, mem, allocator, Top, r.va, r.pa, r.flags, w)
  BY KernelPageMapped
<1>2. /\ mem' = w.mem /\ allocator' = w.allocator
      /\ phase' = IF w.ok THEN "map" ELSE "panic"
      /\ todo' = Tail(todo) /\ Top' = Top /\ Kernel' = Kernel /\ Ram' = Ram
      /\ phase = "map" /\ copied = 0 /\ Allowed(hart)
  BY <1>1, MayFetch DEF Top, Kernel, Ram, IInv, EarlyInv
<1> HIDE DEF r, n, w
<1>3. /\ w.mem \in [Ram -> PageTable] /\ w.allocator \in Allocator
      /\ AllocatorOK(w.allocator) /\ w.allocator.end = allocator.end
      /\ reserved_end(platform) <= w.allocator.current
      /\ IsTree(w.mem, w.allocator, Top) /\ InRam(Ram, w.mem, Top)
      /\ \A f \in Tables(w.mem, Top) : reserved_end(platform) <= f
  <2> DEFINE va == r.va
             pa == r.pa
             flags == r.flags
  <2>1. RamEffect(Ram, mem, allocator, Top, va, pa, flags, w)
    BY <1>1
  <2> HIDE DEF va, pa, flags
  <2>2. QED
    BY <1>1, <2>1, TablesGrow
<1>4. /\ w.ok => Adds(mem, w.mem, Top, vpn(r.va), Leaf(r.pa, r.flags))
      /\ ~w.ok => \/ ~is_page_aligned(r.va) \/ ~is_page_aligned(r.pa)
                  \/ Maps(vpn(r.va)) \/ ~has_page(w.allocator)
  BY <1>1 DEF RamEffect, Maps
<1>5. Types'
  <2>1. DOMAIN mem' = RamPages(platform)
    BY <1>2, <1>3 DEF Ram
  <2>2. QED
    BY <1>2, <1>3, <2>1 DEF IInv, Types, TypeOK, Ram
<1>6. HartInv' /\ EarlyInv'
  BY <1>2 DEF IInv, HartInv, EarlyInv, BssCleared
<1>7. AllocatorInv'
  BY <1>1, <1>2, <1>3 DEF IInv, AllocatorInv
<1>8. TablesInv'
  BY <1>1, <1>2, <1>3 DEF IInv, TablesInv
<1>9. KernelInv'
  <2>1. ASSUME w.ok, NEW k \in Done(todo, Kernel) \cup {n}
        PROVE  KernelPage(k)'
    <3>1. CASE k = n
      BY <1>1, <1>2, <1>4, <2>1, <3>1 DEF KernelPage, Maps, At, Adds
    <3>2. CASE k \in Done(todo, Kernel)
      <4> DEFINE t == vpn(Kernel[k].va)
      <4>1. KernelPage(k) /\ k \in DOMAIN Kernel
        BY <1>1, <1>2, <3>2 DEF IInv, KernelInv
      <4>2. t \in Vpns /\ Maps(t) /\ At(t) = Leaf(Kernel[k].pa, Kernel[k].flags)
        BY <4>1, ListedPages DEF KernelPage
      <4> HIDE DEF t
      <4>3. is_mapped(w.mem, Top, t) /\ entry0(w.mem, Top, t) = At(t)
        BY <1>4, <2>1, <4>2 DEF Adds, SameAt, Maps, At
      <4>4. QED
        BY <1>2, <4>2, <4>3 DEF KernelPage, Maps, At, t
    <3>3. QED
      BY <2>1, <3>1, <3>2
  <2>2. ASSUME w.ok, NEW t \in Vpns, Maps(t)'
        PROVE  \E k \in Done(todo, Kernel) \cup {n} : t = vpn(Kernel[k].va)
    <3>1. CASE t = vpn(r.va)
      BY <1>1, <3>1
    <3>2. CASE t # vpn(r.va)
      <4>1. Maps(t)
        BY <1>2, <1>4, <2>2, <3>2 DEF Adds, SameAt, Maps
      <4>2. QED
        BY <1>2, <4>1 DEF IInv, KernelInv
    <3>3. QED
      BY <3>1, <3>2
  <2>3. QED
    BY <1>1, <1>2, <2>1, <2>2 DEF KernelInv
<1>10. UserInv' /\ LoadInv' /\ BytesInv' /\ EndInv'
  BY <1>1, <1>2 DEF UserInv, LoadInv, BytesInv, EndInv
<1>11. PanicsForAReason'
  <2>1. ASSUME ~w.ok, has_page(w.allocator)
        PROVE  Overlap(platform)
    <3>1. Maps(vpn(r.va))
      BY <1>1, <1>4, <2>1 DEF Frame
    <3>2. PICK k \in Done(todo, Kernel) : vpn(r.va) = vpn(Kernel[k].va)
      BY <1>1, <1>2, <3>1 DEF IInv, KernelInv
    <3>3. /\ k \in DOMAIN kernel_pages(platform) /\ n \in DOMAIN kernel_pages(platform)
          /\ k # n /\ vpn(kernel_pages(platform)[k].va) = vpn(kernel_pages(platform)[n].va)
      BY <1>1, <3>2 DEF Kernel
    <3>4. QED
      BY <3>3 DEF Overlap
  <2>2. QED
    BY <1>2, <2>1 DEF PanicsForAReason, Allowed
<1>12. QED
  BY <1>5, <1>6, <1>7, <1>8, <1>9, <1>10, <1>11 DEF IInv

LEMMA ActivatePagingInvariant ==
  ASSUME IInv, ActivatePaging
  PROVE  IInv'
<1> USE DEF ActivatePaging
<1>1. /\ phase = "map" /\ phase' = "traps" /\ satp = 0 /\ Top # 0 /\ Top = root
      /\ satp' = root /\ Top' = Top /\ root' = phys_to_virt(root) /\ satp' # 0
      /\ Kernel' = Kernel /\ User' = User /\ Ram' = Ram /\ copied = 0
      /\ UNCHANGED <<mem, allocator>>
  BY DEF IInv, TablesInv, EarlyInv, Top, Kernel, User, Ram
<1>2. \A t : (Maps(t)' <=> Maps(t)) /\ At(t)' = At(t)
  BY <1>1 DEF Maps, At
<1>3. Types'
  <2>1. root \in Frame
    BY <1>1, Rooted, Basics
  <2>2. root' \in Frame
    BY <1>1, <2>1, DirectMapShift, AddFrame, ConstantsAssumption DEF phys_to_virt
  <2>3. root' \in Word /\ satp' \in Frame /\ fenced' \subseteq Vpns
    BY <1>1, <2>1, <2>2, FrameDown DEF Mapped
  <2>4. QED
    BY <1>1, <2>3 DEF IInv, Types, TypeOK, Ram
<1>4. HartInv' /\ EarlyInv'
  BY <1>1 DEF IInv, HartInv, EarlyInv, BssCleared
<1>5. AllocatorInv' /\ TablesInv'
  BY <1>1 DEF IInv, AllocatorInv, TablesInv
<1>6. /\ \A k \in DOMAIN Kernel : KernelPage(k)
      /\ \A t \in Vpns : Maps(t) => \E k \in DOMAIN Kernel : t = vpn(Kernel[k].va)
  <2>1. Done(todo, Kernel) = DOMAIN Kernel
    BY Basics, Whole
  <2>2. QED
    BY <1>1, <2>1 DEF IInv, KernelInv
<1>7. KernelInv'
  BY <1>1, <1>2, <1>6 DEF KernelInv, KernelPage
<1>8. \A k \in DOMAIN User : ~Maps(vpn(User[k].va))
  BY <1>6, UserApart, ListedPages
<1>9. UserInv' /\ LoadInv'
  BY <1>1, <1>2, <1>6, <1>8 DEF UserInv, LoadInv
<1>10. BytesInv' /\ EndInv' /\ PanicsForAReason'
  BY <1>1 DEF BytesInv, EndInv, PanicsForAReason
<1>11. QED
  BY <1>3, <1>4, <1>5, <1>7, <1>9, <1>10 DEF IInv

LEMMA TrapsInitInvariant ==
  ASSUME IInv, TrapsInit
  PROVE  IInv'
<1> USE DEF TrapsInit, GoOnIf
<1>1. layout(platform).ok
  BY Basics, ImageAssumption
<1>2. /\ phase = "traps" /\ phase' = "load" /\ satp # 0 /\ Top' = Top /\ traps'
      /\ todo' = User /\ copied = 0 /\ Kernel' = Kernel /\ User' = User /\ Ram' = Ram
      /\ UNCHANGED <<mem, allocator, bytes, root, satp>>
  BY <1>1 DEF IInv, TablesInv, EarlyInv, Top, Kernel, User, Ram
<1>3. \A t : (Maps(t)' <=> Maps(t)) /\ At(t)' = At(t)
  BY <1>2 DEF Maps, At
<1>4. Suffix(User, User) /\ Done(User, User) = {} /\ User \in Seq(Mappings(UserFlags))
  BY Basics, Whole
<1>5. Types'
  BY <1>2 DEF IInv, Types, TypeOK, Ram
<1>6. HartInv' /\ EarlyInv'
  BY <1>2 DEF IInv, HartInv, EarlyInv, BssCleared
<1>7. AllocatorInv' /\ TablesInv'
  BY <1>2 DEF IInv, AllocatorInv, TablesInv
<1>8. KernelInv' /\ UserInv'
  BY <1>2, <1>3 DEF IInv, KernelInv, KernelPage, UserInv, Frames
<1>9. LoadInv' /\ BytesInv'
  BY <1>2, <1>3, <1>4 DEF IInv, LoadInv, BytesInv
<1>10. EndInv' /\ PanicsForAReason'
  BY <1>2 DEF EndInv, PanicsForAReason
<1>11. QED
  BY <1>5, <1>6, <1>7, <1>8, <1>9, <1>10 DEF IInv

-----------------------------------------------------------------------------
(* The user's pages.                                                       *)

LEMMA UserFlagsAreFlags ==
  ASSUME NEW flags \in UserFlags
  PROVE  flags \in SUBSET Flags /\ flags \cap Permissions # {}
BY DEF UserFlags, Permissions, Flags

LEMMA ReachTaken ==
  ASSUME IInv, satp # 0, NEW p \in Ram
  PROVE  Reach(phys_to_virt(p)).page = p
<1>1. p + 0 = p /\ 0 \in 0 .. PageSize - 1
  BY Basics, FrameDown, SizeAssumption
<1>2. Reach(phys_to_virt(p + 0)) = Leaf(p, {"R", "W"})
  BY <1>1, ReachDirect
<1>3. QED
  BY <1>1, <1>2 DEF Leaf

(* One page of the user's regions is allocated, cleared and mapped.        *)
FreshUserPage(r, answer, w) ==
  /\ answer.page \in Ram /\ Reach(phys_to_virt(answer.page)).page = answer.page
  /\ answer.page = allocator.current /\ answer.page < w.allocator.current
  /\ RamEffect(Ram, mem, allocator, Top, r.va, answer.page, r.flags, w)
  /\ answer.page \notin Tables(w.mem, Top)

LEMMA UserPageMapped ==
  ASSUME IInv, phase = "load", todo # << >>
  PROVE  LET r == Head(todo)
             n == Len(User) - Len(todo) + 1
             answer == physical_alloc_page(allocator)
             w == paging_map([mem EXCEPT ![answer.page] = paging_zero_table],
                             answer.allocator, Top, r.va, answer.page, r.flags)
         IN  /\ satp # 0 /\ Top # 0 /\ Reach(root).page = Top /\ copied = 0
             /\ n \in DOMAIN User /\ n \notin Done(todo, User) /\ r = User[n]
             /\ Tail(todo) \in Seq(Mappings(UserFlags)) /\ Suffix(Tail(todo), User)
             /\ Done(Tail(todo), User) = Done(todo, User) \cup {n}
             /\ Done(todo, User) \subseteq DOMAIN User
             /\ r.va \in Frame /\ vpn(r.va) \in Vpns /\ ~Maps(vpn(r.va))
             /\ answer.page = 0 => ~has_page(allocator)
             /\ answer.page # 0 => FreshUserPage(r, answer, w)
<1> DEFINE r == Head(todo)
           n == Len(User) - Len(todo) + 1
           answer == physical_alloc_page(allocator)
           p == answer.page
           w == paging_map([mem EXCEPT ![p] = paging_zero_table],
                           answer.allocator, Top, r.va, p, r.flags)
<1>1. satp # 0 /\ Top # 0 /\ Reach(root).page = Top
  BY ReachRoot DEF IInv, TablesInv
<1>2. todo \in Seq(Mappings(UserFlags)) /\ Suffix(todo, User) /\ copied = 0
  BY DEF IInv, LoadInv
<1> HIDE DEF r, n
<1>3. /\ n \in DOMAIN User /\ n \notin Done(todo, User) /\ r = User[n]
      /\ Tail(todo) \in Seq(Mappings(UserFlags)) /\ Suffix(Tail(todo), User)
      /\ Done(Tail(todo), User) = Done(todo, User) \cup {n}
      /\ Done(todo, User) \subseteq DOMAIN User
      /\ r \in Mappings(UserFlags)
  BY <1>2, Basics, Rest DEF r, n
<1>4. r.va \in Frame /\ r.flags \in UserFlags
  BY <1>3 DEF Mappings
<1>5. r.va \in Word /\ vpn(r.va) \in Vpns
  BY <1>4, FrameDown, VpnInVpns
<1>6. ~Maps(vpn(r.va))
  BY <1>3 DEF IInv, LoadInv
<1>7. p = 0 => ~has_page(allocator)
  BY <1>1, Rooted, Basics, NoPageLeft
<1>8. ASSUME p # 0
      PROVE  FreshUserPage(r, answer, w)
  <2> DEFINE va == r.va
             flags == r.flags
  <2>1. va \in Word /\ flags \in SUBSET Flags /\ flags \cap Permissions # {}
    BY <1>4, <1>5, UserFlagsAreFlags
  <2>2. /\ Top \in Ram \ {0} /\ AllocatorOK(allocator) /\ CanTake(Ram, allocator)
        /\ IsTree(mem, allocator, Top) /\ InRam(Ram, mem, Top)
        /\ Ram \in SUBSET Frame /\ mem \in [Ram -> PageTable] /\ allocator \in Allocator
    BY <1>1, Rooted, Basics
  <2> DEFINE v == paging_map([mem EXCEPT ![p] = paging_zero_table],
                             answer.allocator, Top, va, p, flags)
  <2>3. v = w
    OBVIOUS
  <2> HIDE DEF va, flags
  <2>4. /\ p \in Ram /\ p = allocator.current /\ p < v.allocator.current
        /\ RamEffect(Ram, mem, allocator, Top, va, p, flags, v)
        /\ p \notin Tables(v.mem, Top)
    BY <1>8, <2>1, <2>2, RamFresh
  <2> HIDE DEF v, w, answer
  <2>5. Reach(phys_to_virt(p)).page = p
    BY <1>1, <2>4, ReachTaken
  <2>6. QED
    BY <2>3, <2>4, <2>5 DEF FreshUserPage, va, flags
<1>9. QED
  BY <1>1, <1>2, <1>3, <1>4, <1>5, <1>6, <1>7, <1>8 DEF r, n

(* Memory has run out: nothing changes but the phase.                      *)
LEMMA NoUserPage ==
  ASSUME IInv, phase = "load", phase' = "panic", ~has_page(allocator),
         UNCHANGED <<hart, platform, allocator, mem, bytes, root, satp, fenced, traps,
                     copied, context>>
  PROVE  IInv'
<1>1. /\ Top' = Top /\ Kernel' = Kernel /\ User' = User /\ Ram' = Ram
      /\ satp # 0 /\ Allowed(hart)
  BY MayFetch DEF IInv, TablesInv, Top, Kernel, User, Ram
<1>2. \A t : (Maps(t)' <=> Maps(t)) /\ At(t)' = At(t)
  BY <1>1 DEF Maps, At
<1>3. Types'
  BY <1>1 DEF IInv, Types, TypeOK
<1>4. HartInv' /\ EarlyInv'
  BY DEF IInv, HartInv, EarlyInv, BssCleared
<1>5. AllocatorInv' /\ TablesInv'
  BY <1>1 DEF IInv, AllocatorInv, TablesInv
<1>6. KernelInv' /\ UserInv'
  BY <1>1, <1>2 DEF IInv, KernelInv, KernelPage, UserInv, Frames
<1>7. LoadInv' /\ BytesInv' /\ EndInv'
  BY DEF LoadInv, BytesInv, EndInv
<1>8. PanicsForAReason'
  BY <1>1 DEF PanicsForAReason, Allowed
<1>9. QED
  BY <1>3, <1>4, <1>5, <1>6, <1>7, <1>8 DEF IInv

(* A page was taken; the mapping was made or the walk ran out of pages.    *)
LEMMA UserPageTaken ==
  ASSUME IInv, phase = "load", todo # << >>, NEW answer, NEW w,
         FreshUserPage(Head(todo), answer, w),
         mem' = w.mem, allocator' = w.allocator,
         bytes' = [bytes EXCEPT ![answer.page] = PageOf(0)],
         phase' = IF w.ok THEN "load" ELSE "panic",
         todo' = Tail(todo),
         UNCHANGED <<hart, platform, root, satp, fenced, traps, copied, context>>
  PROVE  IInv'
<1>1. PICK r, n : r = Head(todo) /\ n = Len(User) - Len(todo) + 1
  OBVIOUS
<1> DEFINE p == answer.page
<1>2. /\ satp # 0 /\ Top # 0 /\ copied = 0
      /\ n \in DOMAIN User /\ n \notin Done(todo, User) /\ r = User[n]
      /\ Tail(todo) \in Seq(Mappings(UserFlags)) /\ Suffix(Tail(todo), User)
      /\ Done(Tail(todo), User) = Done(todo, User) \cup {n}
      /\ Done(todo, User) \subseteq DOMAIN User
      /\ r.va \in Frame /\ vpn(r.va) \in Vpns /\ ~Maps(vpn(r.va))
  BY <1>1, UserPageMapped
<1>3. /\ Top' = Top /\ Kernel' = Kernel /\ User' = User /\ Ram' = Ram /\ Allowed(hart)
  BY MayFetch DEF Top, Kernel, User, Ram
<1>4. /\ p \in Ram /\ p = allocator.current /\ p < w.allocator.current
      /\ RamEffect(Ram, mem, allocator, Top, r.va, p, r.flags, w)
      /\ p \notin Tables(w.mem, Top)
  BY <1>1 DEF FreshUserPage
<1> HIDE DEF p
<1>5. /\ w.mem \in [Ram -> PageTable] /\ w.allocator \in Allocator
      /\ AllocatorOK(w.allocator) /\ w.allocator.end = allocator.end
      /\ allocator.current <= w.allocator.current
      /\ reserved_end(platform) <= w.allocator.current
      /\ IsTree(w.mem, w.allocator, Top) /\ InRam(Ram, w.mem, Top)
      /\ \A f \in Tables(w.mem, Top) : reserved_end(platform) <= f
  <2> DEFINE va == r.va
             flags == r.flags
  <2>1. RamEffect(Ram, mem, allocator, Top, va, p, flags, w)
    BY <1>4
  <2> HIDE DEF va, flags
  <2>2. QED
    BY <1>2, <2>1, TablesGrow
<1>6. /\ w.ok => Adds(mem, w.mem, Top, vpn(r.va), Leaf(p, r.flags))
      /\ ~w.ok => SameTranslations(mem, w.mem, Top) /\ ~has_page(w.allocator)
      /\ \A f \in Tables(w.mem, Top) :
           f \in Tables(mem, Top) \/ Taken(allocator, w.allocator, f)
  <2>1. is_page_aligned(r.va) /\ is_page_aligned(p)
    BY <1>2, <1>4, Basics DEF Frame
  <2>2. QED
    BY <1>2, <1>4, <2>1 DEF RamEffect, Maps
<1>7. Types'
  <2>1. DOMAIN mem' = RamPages(platform)
    BY <1>5 DEF Ram
  <2>2. /\ DOMAIN bytes' = RamPages(platform)
        /\ \A f \in Ram : DOMAIN bytes'[f] = 0 .. PageSize - 1
    BY DEF IInv, Types, TypeOK, PageOf, Ram, p
  <2>3. TypeOK'
    BY <1>5, <2>1, <2>2 DEF IInv, Types, TypeOK
  <2>4. QED
    BY <1>3, <1>5, <2>2, <2>3 DEF Types
<1>8. HartInv' /\ EarlyInv'
  BY <1>2 DEF IInv, HartInv, EarlyInv, BssCleared
<1>9. AllocatorInv'
  BY <1>2, <1>3, <1>5 DEF IInv, AllocatorInv
<1>10. TablesInv'
  BY <1>2, <1>3, <1>5 DEF IInv, TablesInv
(* A page that was mapped is mapped as before; no other but the new one is. *)
<1>11. \A t \in Vpns : Maps(t) => Maps(t)' /\ At(t)' = At(t)
  BY <1>2, <1>3, <1>6 DEF Maps, At, Adds, SameTranslations, SameAt
<1>12. \A t \in Vpns : Maps(t)' => Maps(t) \/ (w.ok /\ t = vpn(r.va))
  BY <1>2, <1>3, <1>6 DEF Maps, At, Adds, SameTranslations, SameAt
<1>13. w.ok => Maps(vpn(r.va))' /\ At(vpn(r.va))' = Leaf(p, r.flags)
  BY <1>2, <1>3, <1>6 DEF Maps, At, Adds
<1>14. KernelInv'
  <2>1. ASSUME NEW k \in DOMAIN Kernel
        PROVE  KernelPage(k)'
    <3>1. KernelPage(k) /\ vpn(Kernel[k].va) \in Vpns
      BY <1>2, ListedPages DEF IInv, KernelInv
    <3>2. QED
      BY <1>3, <1>11, <3>1 DEF KernelPage
  <2>2. QED
    BY <1>3, <2>1 DEF KernelInv
<1>15. \A k \in DOMAIN User : vpn(User[k].va) \in Vpns
  BY ListedPages
<1>16. ASSUME NEW k \in DOMAIN User, Maps(vpn(User[k].va)), k # n
       PROVE  /\ Frames(k)' = Frames(k) /\ Frames(k) # p
              /\ Frames(k) \in Ram \ Tables(w.mem, Top)
              /\ reserved_end(platform) <= Frames(k) /\ Frames(k) < w.allocator.current
  <2>1. /\ Frames(k) \in Ram \ Tables(mem, Top) /\ Frames(k) < allocator.current
        /\ reserved_end(platform) <= Frames(k)
    BY <1>2, <1>16 DEF IInv, UserInv
  <2>2. Frames(k) \in Nat /\ allocator.current \in Nat /\ w.allocator.current \in Nat
    BY <1>2, <1>5, <2>1, Rooted, CurrentIsNat, Basics, FrameDown
  <2>3. Frames(k) \notin Tables(w.mem, Top)
    BY <1>6, <2>1, <2>2 DEF Taken
  <2>4. Frames(k)' = Frames(k)
    BY <1>3, <1>11, <1>15, <1>16 DEF Frames
  <2>5. QED
    BY <1>4, <1>5, <2>1, <2>2, <2>3, <2>4
<1>17. ASSUME w.ok
       PROVE  /\ Frames(n)' = p /\ p \in Ram \ Tables(w.mem, Top)
              /\ reserved_end(platform) <= p /\ p < w.allocator.current
  <2>1. reserved_end(platform) <= allocator.current
    BY <1>2 DEF IInv, AllocatorInv
  <2>2. Frames(n)' = p
    BY <1>2, <1>3, <1>13, <1>17 DEF Frames, Leaf
  <2>3. QED
    BY <1>4, <2>1, <2>2
<1>18. \A k \in DOMAIN User :
         Maps(vpn(User[k].va))' <=> Maps(vpn(User[k].va)) \/ (w.ok /\ k = n)
  BY <1>2, <1>3, <1>11, <1>12, <1>13, <1>15, UserApart
<1>19. ~Maps(vpn(User[n].va))
  BY <1>2
<1>20. UserInv'
  <2>1. ASSUME NEW t \in Vpns, Maps(t)'
        PROVE  \/ \E k \in DOMAIN Kernel : t = vpn(Kernel[k].va)
               \/ \E k \in DOMAIN User : t = vpn(User[k].va)
    BY <1>2, <1>12, <2>1 DEF IInv, UserInv
  <2>2. ASSUME NEW k \in DOMAIN User, Maps(vpn(User[k].va))'
        PROVE  /\ Frames(k)' \in Ram \ Tables(w.mem, Top)
               /\ reserved_end(platform) <= Frames(k)' /\ Frames(k)' < w.allocator.current
    BY <1>16, <1>17, <1>18, <1>19, <2>2
  <2>3. ASSUME NEW k \in DOMAIN User, NEW l \in DOMAIN User,
               Maps(vpn(User[k].va))', Maps(vpn(User[l].va))', Frames(k)' = Frames(l)'
        PROVE  k = l
    <3>1. CASE k = n \/ l = n
      BY <1>16, <1>17, <1>18, <1>19, <2>3, <3>1
    <3>2. CASE k # n /\ l # n
      <4>1. /\ Maps(vpn(User[k].va)) /\ Maps(vpn(User[l].va))
            /\ Frames(k) = Frames(l)
        BY <1>16, <1>18, <2>3, <3>2
      <4>2. QED
        BY <1>2, <4>1 DEF IInv, UserInv
    <3>3. QED
      BY <3>1, <3>2
  <2>4. QED
    BY <1>3, <2>1, <2>2, <2>3 DEF UserInv
<1>21. LoadInv'
  <2>1. /\ traps
        /\ \A k \in DOMAIN User : Maps(vpn(User[k].va)) <=> k \in Done(todo, User)
        /\ \A k \in Done(todo, User) :
             At(vpn(User[k].va)).flags = User[k].flags \cup {"V", "A", "D"}
    BY DEF IInv, LoadInv
  <2>2. ASSUME w.ok, NEW k \in Done(todo, User) \cup {n}
        PROVE  At(vpn(User[k].va))'.flags = User[k].flags \cup {"V", "A", "D"}
    <3>1. CASE k = n
      BY <1>2, <1>3, <1>13, <2>2, <3>1 DEF Leaf
    <3>2. CASE k # n
      BY <1>2, <1>3, <1>11, <1>15, <2>1, <2>2, <3>2
    <3>3. QED
      BY <3>1, <3>2
  <2>3. QED
    BY <1>2, <1>3, <1>18, <2>1, <2>2 DEF LoadInv
<1>22. BytesInv'
  <2>1. ASSUME w.ok, NEW k \in Done(todo, User) \cup {n}, NEW i \in 0 .. PageSize - 1
        PROVE  bytes'[Frames(k)'][i] = 0 /\ ~(User[k].va + i - UserTextStart < 0)
    <3>1. k \in DOMAIN User /\ User[k].va \in Frame /\ UserTextStart <= User[k].va
      BY <1>2, <2>1, Basics, ListedPages, UserPages DEF User
    <3>2. ~(User[k].va + i - UserTextStart < 0)
      <4> DEFINE va == User[k].va
      <4>1. va \in Nat /\ UserTextStart \in Nat /\ UserTextStart <= va /\ i \in Nat
        BY <3>1, FrameDown, ConstantsAssumption, SizeAssumption
      <4> HIDE DEF va
      <4>2. ~(va + i - UserTextStart < 0)
        BY <4>1
      <4>3. QED
        BY <4>2 DEF va
    <3>3. CASE k = n
      <4>1. p \in DOMAIN bytes
        BY <1>4 DEF IInv, Types, TypeOK, Ram
      <4>2. bytes'[p] = PageOf(0) /\ PageOf(0)[i] = 0
        BY <4>1 DEF PageOf, p
      <4>3. QED
        BY <1>17, <2>1, <3>2, <3>3, <4>2
    <3>4. CASE k # n
      <4>1. k \in Done(todo, User) /\ Maps(vpn(User[k].va))
        BY <1>2, <2>1, <3>1, <3>4 DEF IInv, LoadInv
      <4>2. Frames(k)' = Frames(k) /\ Frames(k) # p
        BY <1>16, <3>1, <3>4, <4>1
      <4>3. bytes[Frames(k)][i] = 0
        BY <1>2, <3>2, <4>1 DEF IInv, BytesInv
      <4>4. QED
        BY <3>2, <4>2, <4>3 DEF IInv, Types, TypeOK, p
    <3>5. QED
      BY <3>2, <3>3, <3>4
  <2>2. QED
    BY <1>2, <1>3, <2>1 DEF BytesInv
<1>23. EndInv'
  BY DEF EndInv
<1>24. PanicsForAReason'
  BY <1>3, <1>6 DEF PanicsForAReason, Allowed
<1>25. QED
  BY <1>7, <1>8, <1>9, <1>10, <1>14, <1>20, <1>21, <1>22, <1>23, <1>24 DEF IInv

LEMMA MapUserPageInvariant ==
  ASSUME IInv, MapUserPage
  PROVE  IInv'
<1> USE DEF MapUserPage, GoOnIf
<1> DEFINE r == Head(todo)
           answer == physical_alloc_page(allocator)
           w == paging_map([mem EXCEPT ![answer.page] = paging_zero_table],
                           answer.allocator, Top, r.va, answer.page, r.flags)
<1>1. /\ phase = "load" /\ todo # << >> /\ Reach(root).page = Top
      /\ answer.page = 0 => ~has_page(allocator)
      /\ answer.page # 0 => FreshUserPage(r, answer, w)
  BY UserPageMapped
<1>2. CASE answer.page = 0
  BY <1>1, <1>2, NoUserPage
<1>3. CASE answer.page # 0
  <2>1. Reach(phys_to_virt(answer.page)).page = answer.page /\ FreshUserPage(r, answer, w)
    BY <1>1, <1>3 DEF FreshUserPage
  <2>2. /\ mem' = w.mem /\ allocator' = w.allocator
        /\ bytes' = [bytes EXCEPT ![answer.page] = PageOf(0)]
        /\ phase' = IF w.ok THEN "load" ELSE "panic"
        /\ todo' = Tail(todo)
        /\ UNCHANGED <<hart, platform, root, satp, fenced, traps, copied, context>>
    BY <1>1, <1>3, <2>1
  <2> HIDE DEF answer, w, MapUserPage
  <2>3. QED
    BY <1>1, <2>1, <2>2, UserPageTaken
<1>4. QED
  BY <1>2, <1>3

-----------------------------------------------------------------------------
(* The image.                                                              *)

(* Where the next byte goes: byte i of user page k, found through the      *)
(* tables and reached through the direct map.                              *)
Target(k, i) ==
  /\ k \in DOMAIN User /\ i \in 0 .. PageSize - 1
  /\ User[k].va + i = UserTextStart + copied
  /\ Maps(vpn(User[k].va)) /\ Frames(k) \in Ram
  /\ LET found == paging_query(mem, Reach(root).page, Add(layout(platform).entry, copied))
     IN  /\ found.ok /\ found.pa % PageSize = i
         /\ Reach(phys_to_virt(found.pa)).page = Frames(k)

LEMMA NextByte ==
  ASSUME IInv, phase = "load", todo = << >>, copied < Len(platform.image)
  PROVE  \E k, i : Target(k, i)
<1> DEFINE l == layout(platform)
           d == align_down(copied, PageSize)
           i == copied - d
<1>1. satp # 0 /\ Top # 0 /\ Top = satp /\ Reach(root).page = Top
  BY ReachRoot DEF IInv, TablesInv, Top
<1>2. /\ l.entry = UserTextStart /\ UserTextStart \in Frame
      /\ Len(platform.image) \in Nat /\ Len(platform.image) <= l.text_size
      /\ l.text_size \in Frame
      /\ UserTextStart + Len(platform.image) + 2 * PageSize <= WordSize
  BY Basics, LayoutFacts, ImageAssumption
<1>3. /\ copied \in Nat /\ copied < Len(platform.image)
      /\ UserTextStart \in Nat /\ UserTextStart \in Word /\ l.text_size \in Nat
  BY <1>2, FrameDown DEF IInv, Types, TypeOK
<1> HIDE DEF l
<1>4. copied \in Word /\ copied < l.text_size /\ UserTextStart + copied < WordSize
  <2> DEFINE len == Len(platform.image)
             size == l.text_size
  <2>1. /\ len \in Nat /\ size \in Nat /\ len <= size /\ copied \in Nat /\ copied < len
        /\ UserTextStart \in Nat /\ UserTextStart + len + 2 * PageSize <= WordSize
    BY <1>2, <1>3
  <2> HIDE DEF len, size
  <2>2. copied < size /\ UserTextStart + copied < WordSize /\ copied < WordSize
    BY <2>1, SizeAssumption
  <2>3. QED
    BY <2>1, <2>2, SizeAssumption DEF Word, size
<1>5. d \in Frame /\ i \in 0 .. PageSize - 1 /\ d \in Nat
  BY <1>4, AlignDownFrame
<1>6. d < l.text_size /\ d + i = copied
  BY <1>3, <1>4, <1>5, SizeAssumption
<1> HIDE DEF d, i
<1>7. PICK k \in DOMAIN User : User[k].va = UserTextStart + d
  BY <1>2, <1>5, <1>6, Basics, UserPages DEF User, l
<1> DEFINE f == User[k].va
           va == Add(l.entry, copied)
<1>8. f \in Frame /\ f = UserTextStart + d
  BY <1>7, ListedPages
<1>9. va = UserTextStart + copied /\ va = f + i
  <2>1. Add(UserTextStart, copied) = UserTextStart + copied
    BY <1>3, <1>4, AddWord
  <2>2. UserTextStart + copied = (UserTextStart + d) + i
    BY <1>3, <1>5, <1>6, SizeAssumption
  <2>3. QED
    BY <1>2, <1>8, <2>1, <2>2
<1> HIDE DEF f, va
<1>10. vpn(va) = vpn(f) /\ va % PageSize = i
  BY <1>5, <1>8, <1>9, OnePage
<1>11. Maps(vpn(f)) /\ Frames(k) \in Ram /\ Frames(k) \in Frame
  <2>1. Done(todo, User) = DOMAIN User
    BY Basics, Whole
  <2>2. Maps(vpn(f))
    BY <1>7, <2>1 DEF IInv, LoadInv, f
  <2>3. QED
    BY <1>1, <1>7, <2>2, Basics DEF IInv, UserInv, f
<1> DEFINE found == paging_query(mem, Top, va)
<1>12. found.ok /\ found.pa = Frames(k) + i
  BY <1>10, <1>11 DEF paging_query, Maps, At, Frames, f
<1> HIDE DEF found
<1>13. found.pa % PageSize = i
  BY <1>5, <1>11, <1>12, OnePage
<1>14. Reach(phys_to_virt(found.pa)).page = Frames(k)
  <2>1. Reach(phys_to_virt(Frames(k) + i)) = Leaf(Frames(k), {"R", "W"})
    BY <1>1, <1>5, <1>11, ReachDirect
  <2>2. QED
    BY <1>12, <2>1 DEF Leaf
<1>15. Target(k, i)
  BY <1>1, <1>5, <1>7, <1>9, <1>11, <1>12, <1>13, <1>14 DEF Target, found, va, f, l
<1>16. QED
  BY <1>15

LEMMA CopyByteInvariant ==
  ASSUME IInv, CopyByte
  PROVE  IInv'
<1> DEFINE found == paging_query(mem, Reach(root).page, Add(layout(platform).entry, copied))
           target == Reach(phys_to_virt(found.pa)).page
<1>1. /\ phase = "load" /\ todo = << >> /\ copied < Len(platform.image)
      /\ copied' = copied + 1 /\ copied \in Nat /\ Len(platform.image) \in Nat
      /\ UNCHANGED <<hart, platform, allocator, mem, root, satp, fenced, traps, todo, context>>
  BY Basics, LayoutFacts DEF CopyByte, next_byte, IInv, Types, TypeOK
<1>2. PICK k, i : Target(k, i)
  BY <1>1, NextByte
<1>3. /\ k \in DOMAIN User /\ i \in 0 .. PageSize - 1
      /\ User[k].va + i = UserTextStart + copied
      /\ Maps(vpn(User[k].va)) /\ Frames(k) \in Ram
      /\ found.ok /\ found.pa % PageSize = i /\ target = Frames(k)
  BY <1>2 DEF Target
<1>4. /\ bytes' = [bytes EXCEPT ![Frames(k)][i] = platform.image[copied + 1]]
      /\ phase' = "load"
  BY <1>1, <1>3 DEF CopyByte
<1> HIDE DEF found, target
<1>5. /\ Top' = Top /\ Kernel' = Kernel /\ User' = User /\ Ram' = Ram /\ satp # 0
      /\ Frames(k)' = Frames(k) /\ todo' = << >>
  BY <1>1 DEF Top, Kernel, User, Ram, IInv, TablesInv, Frames, At
<1>6. \A t : (Maps(t)' <=> Maps(t)) /\ At(t)' = At(t)
  BY <1>1, <1>5 DEF Maps, At
<1>7. /\ DOMAIN bytes' = RamPages(platform) /\ DOMAIN bytes = RamPages(platform)
      /\ \A f \in Ram : /\ DOMAIN bytes[f] = 0 .. PageSize - 1
                        /\ DOMAIN bytes'[f] = 0 .. PageSize - 1
  BY <1>4 DEF IInv, Types, TypeOK, Ram
<1>8. \A f \in Ram, j \in 0 .. PageSize - 1 :
        bytes'[f][j] = IF f = Frames(k) /\ j = i THEN platform.image[copied + 1] ELSE bytes[f][j]
  BY <1>3, <1>4, <1>7 DEF Ram
<1>9. Types'
  <2>1. copied' \in 0 .. Len(platform.image)
    BY <1>1
  <2>2. TypeOK'
    BY <1>1, <1>4, <1>7, <2>1 DEF IInv, Types, TypeOK
  <2>3. QED
    BY <1>1, <1>5, <1>7, <2>2 DEF IInv, Types
<1>10. HartInv' /\ EarlyInv'
  BY <1>1, <1>4, <1>5 DEF IInv, HartInv, EarlyInv, BssCleared
<1>11. AllocatorInv' /\ TablesInv'
  BY <1>1, <1>4, <1>5 DEF IInv, AllocatorInv, TablesInv
<1>12. KernelInv' /\ UserInv'
  BY <1>1, <1>4, <1>5, <1>6 DEF IInv, KernelInv, KernelPage, UserInv, Frames
<1>13. LoadInv'
  BY <1>1, <1>4, <1>5, <1>6 DEF IInv, LoadInv
<1>14. Done(todo, User) = DOMAIN User
  BY <1>1, Basics, Whole
<1>15. BytesInv'
  <2>1. ASSUME NEW l \in DOMAIN User, NEW j \in 0 .. PageSize - 1
        PROVE  LET at == User[l].va + j - UserTextStart
               IN  bytes'[Frames(l)][j] =
                     IF at < copied + 1 THEN platform.image[at + 1] ELSE 0
    <3> DEFINE x == User[l].va
               y == User[k].va
               at == x + j - UserTextStart
    <3>1. x \in Frame /\ y \in Frame /\ UserTextStart \in Frame
      BY <1>3, <2>1, ListedPages, ConstantsAssumption
    <3>2. x \in Nat /\ y \in Nat /\ UserTextStart \in Nat /\ j \in Nat /\ i \in Nat
      BY <1>3, <3>1, FrameDown, SizeAssumption
    <3>3. Maps(vpn(x)) /\ Frames(l) \in Ram
      BY <1>1, <1>5, <1>14, <2>1 DEF IInv, LoadInv, UserInv
    <3>4. bytes[Frames(l)][j] = IF at < copied THEN platform.image[at + 1] ELSE 0
      BY <1>1, <1>14, <2>1 DEF IInv, BytesInv
    <3>5. Frames(l) = Frames(k) => l = k
      BY <1>3, <1>5, <2>1, <3>3 DEF IInv, UserInv
    <3>6. at = copied => l = k
      <4>1. at = copied => x + j = y + i
        BY <1>1, <1>3, <3>2
      <4>2. align_down(x + j, PageSize) = x /\ align_down(y + i, PageSize) = y
        BY <1>3, <2>1, <3>1, OnePage
      <4>3. x = y => l = k
        BY <1>3, <2>1, UserApart
      <4>4. QED
        BY <4>1, <4>2, <4>3
    <3>7. l = k => (at = copied <=> j = i)
      BY <1>1, <1>3, <3>2
    <3>8. at \in Int
      BY <3>2
    <3> HIDE DEF at, x, y
    <3>9. bytes'[Frames(l)][j] = IF at < copied + 1 THEN platform.image[at + 1] ELSE 0
      <4>1. CASE at = copied
        <5>1. l = k /\ j = i
          BY <3>6, <3>7, <4>1
        <5>2. bytes'[Frames(l)][j] = platform.image[copied + 1]
          BY <1>3, <1>8, <5>1
        <5>3. QED
          BY <1>1, <4>1, <5>2
      <4>2. CASE at # copied
        <5>1. ~(Frames(l) = Frames(k) /\ j = i)
          BY <3>5, <3>7, <4>2
        <5>2. bytes'[Frames(l)][j] = bytes[Frames(l)][j]
          BY <1>8, <2>1, <3>3, <5>1
        <5>3. at < copied + 1 <=> at < copied
          BY <1>1, <3>8, <4>2
        <5>4. QED
          BY <3>4, <5>2, <5>3
      <4>3. QED
        BY <4>1, <4>2
    <3>10. QED
      BY <3>9 DEF at, x
  <2>2. QED
    BY <1>1, <1>5, <1>6, <1>14, <2>1 DEF BytesInv, Frames
<1>16. EndInv' /\ PanicsForAReason'
  BY <1>4 DEF EndInv, PanicsForAReason
<1>17. QED
  BY <1>9, <1>10, <1>11, <1>12, <1>13, <1>15, <1>16 DEF IInv

LEMMA EnterUserInvariant ==
  ASSUME IInv, EnterUser
  PROVE  IInv'
<1> USE DEF EnterUser
<1>1. /\ phase = "load" /\ phase' = "user" /\ satp # 0 /\ Top' = Top
      /\ Kernel' = Kernel /\ User' = User /\ Ram' = Ram
      /\ UNCHANGED <<mem, allocator, bytes, root, satp, todo, copied>>
  BY DEF IInv, TablesInv, Top, Kernel, User, Ram
<1>2. \A t : (Maps(t)' <=> Maps(t)) /\ At(t)' = At(t)
  BY <1>1 DEF Maps, At
<1>3. Types'
  <2>1. fenced' \subseteq Vpns
    BY DEF loader_fence, Mapped
  <2>2. QED
    BY <1>1, <2>1 DEF IInv, Types, TypeOK, Ram
<1>4. HartInv' /\ EarlyInv'
  BY <1>1 DEF IInv, HartInv, EarlyInv, BssCleared
<1>5. AllocatorInv' /\ TablesInv'
  BY <1>1 DEF IInv, AllocatorInv, TablesInv
<1>6. KernelInv' /\ UserInv'
  BY <1>1, <1>2 DEF IInv, KernelInv, KernelPage, UserInv, Frames
<1>7. LoadInv' /\ BytesInv'
  BY <1>1, <1>2 DEF IInv, LoadInv, BytesInv, Frames
<1>8. EndInv' /\ PanicsForAReason'
  BY <1>1 DEF EndInv, PanicsForAReason, loader_fence
<1>9. QED
  BY <1>3, <1>4, <1>5, <1>6, <1>7, <1>8 DEF IInv

LEMMA Stuttering ==
  ASSUME IInv, UNCHANGED vars
  PROVE  IInv'
<1> USE DEF vars
<1>1. Types' /\ HartInv' /\ EarlyInv' /\ PanicsForAReason'
  BY DEF IInv, Types, TypeOK, Ram, HartInv, EarlyInv, BssCleared, PanicsForAReason, Allowed
<1>2. Top' = Top /\ Kernel' = Kernel /\ User' = User /\ Ram' = Ram
  BY DEF Top, Kernel, User, Ram
<1>3. \A t : (Maps(t)' <=> Maps(t)) /\ At(t)' = At(t)
  BY <1>2 DEF Maps, At
<1>4. AllocatorInv' /\ TablesInv'
  BY <1>2 DEF IInv, AllocatorInv, TablesInv
<1>5. KernelInv' /\ UserInv' /\ LoadInv' /\ BytesInv'
  BY <1>2, <1>3 DEF IInv, KernelInv, KernelPage, UserInv, LoadInv, BytesInv, Frames
<1>6. EndInv'
  BY DEF IInv, EndInv
<1>7. QED
  BY <1>1, <1>4, <1>5, <1>6 DEF IInv

LEMMA Inductive ==
  /\ Init => IInv
  /\ IInv /\ [Next]_vars => IInv'
<1>1. Init => IInv
  BY InitInvariant
<1>2. ASSUME IInv, [Next]_vars
      PROVE  IInv'
  <2>1. CASE Next
    BY <1>2, <2>1, ClearBssInvariant, DispatchInvariant, MachineMainInvariant,
       AllocatorInitInvariant, CreateRootInvariant, MapKernelPageInvariant,
       ActivatePagingInvariant, TrapsInitInvariant, MapUserPageInvariant,
       CopyByteInvariant, EnterUserInvariant DEF Next
  <2>2. CASE UNCHANGED vars
    BY <1>2, <2>2, Stuttering
  <2>3. QED
    BY <1>2, <2>1, <2>2
<1>3. QED
  BY <1>1, <1>2

LEMMA Always == Spec => []IInv
BY Inductive, PTL DEF Spec

-----------------------------------------------------------------------------
(* The theorems.                                                           *)

LEMMA LeafLies ==
  ASSUME NEW f, NEW flags, flags \subseteq Permissions
  PROVE  Lies(Leaf(f, flags), f, flags)
BY DEF Lies, Leaf, Permissions

(* A range the kernel asked to be mapped where it is.                      *)
LEMMA SectionStays ==
  ASSUME IInv, satp # 0, NEW s, NEW flags, flags \subseteq Permissions,
         \A f \in Frame : s.start <= f /\ f < s.end => Has(Kernel, Same(f, flags))
  PROVE  SectionMapped(s, flags)
<1>1. ASSUME NEW f \in Frame, s.start <= f, f < s.end
      PROVE  Lies(Reach(f), f, flags)
  <2> DEFINE r == Same(f, flags)
  <2>1. Has(Kernel, r) /\ r.va = f /\ r.pa = f /\ r.flags = flags
    BY <1>1 DEF Same
  <2> HIDE DEF r
  <2>2. 0 \in 0 .. PageSize - 1 /\ f + 0 = f
    BY FrameDown, SizeAssumption
  <2>3. Reach(r.va + 0) = Leaf(r.pa, r.flags)
    BY <2>1, <2>2, ReachKernel
  <2>4. QED
    BY <2>1, <2>2, <2>3, LeafLies
<1>2. QED
  BY <1>1 DEF SectionMapped

(* From the write of satp on every pointer the kernel has reaches what it  *)
(* reached before, through the sections' own addresses or through          *)
(* phys_to_virt, and the tables are a tree of the allocator's pages however*)
(* boot ended: for every platform, kernel layout and content of RAM.       *)
THEOREM KernelIsStillThere == Spec => []KernelStaysMapped
<1>1. ASSUME IInv PROVE KernelStaysMapped
  <2>1. TypeOK
    BY <1>1 DEF IInv, Types
  <2>2. IsTree(mem, allocator, Top)
    <3>1. CASE Top = 0
      BY <3>1, NoTables DEF nullptr
    <3>2. CASE Top # 0
      BY <1>1, <3>2, Rooted
    <3>3. QED
      BY <3>1, <3>2
  <2>3. ASSUME satp # 0
        PROVE  /\ SectionMapped(platform.text, {"R", "X"})
               /\ SectionMapped(platform.rodata, {"R"})
               /\ SectionMapped(platform.data, {"R", "W"})
               /\ SectionMapped(platform.bss, {"R", "W"})
    <3>1. \A f \in Frame :
            /\ platform.text.start <= f /\ f < platform.text.end
                 => Has(Kernel, Same(f, {"R", "X"}))
            /\ platform.rodata.start <= f /\ f < platform.rodata.end
                 => Has(Kernel, Same(f, {"R"}))
            /\ platform.data.start <= f /\ f < platform.data.end
                 => Has(Kernel, Same(f, {"R", "W"}))
            /\ platform.bss.start <= f /\ f < platform.bss.end
                 => Has(Kernel, Same(f, {"R", "W"}))
      BY <1>1, Basics, KernelPages DEF Kernel
    <3>2. /\ {"R", "X"} \subseteq Permissions /\ {"R"} \subseteq Permissions
          /\ {"R", "W"} \subseteq Permissions
      BY DEF Permissions
    <3>3. SectionMapped(platform.text, {"R", "X"})
      BY <1>1, <2>3, <3>1, <3>2, SectionStays
    <3>4. SectionMapped(platform.rodata, {"R"})
      BY <1>1, <2>3, <3>1, <3>2, SectionStays
    <3>5. SectionMapped(platform.data, {"R", "W"})
      BY <1>1, <2>3, <3>1, <3>2, SectionStays
    <3>6. SectionMapped(platform.bss, {"R", "W"})
      BY <1>1, <2>3, <3>1, <3>2, SectionStays
    <3>7. QED
      BY <3>3, <3>4, <3>5, <3>6
  <2>4. ASSUME satp # 0
        PROVE  Lies(Reach(platform.uart_base),
                    align_down(platform.uart_base, PageSize), {"R", "W"})
    <3> DEFINE uart == align_down(platform.uart_base, PageSize)
               i == platform.uart_base - uart
               r == Same(uart, {"R", "W"})
    <3>1. platform.uart_base \in Word
      BY <1>1, Basics, PlatformAssumption
    <3>2. uart \in Nat /\ i \in 0 .. PageSize - 1 /\ platform.uart_base \in Nat
      BY <3>1, AlignDownFrame
    <3>3. uart + i = platform.uart_base
      BY <3>2
    <3>4. Has(Kernel, r)
      BY <1>1, Basics, KernelPages DEF Kernel
    <3> HIDE DEF uart, i
    <3>5. r.va = uart /\ r.pa = uart /\ r.flags = {"R", "W"} /\ {"R", "W"} \subseteq Permissions
      BY DEF Same, Permissions
    <3> HIDE DEF r
    <3>6. Reach(r.va + i) = Leaf(r.pa, r.flags)
      BY <1>1, <2>4, <3>2, <3>4, ReachKernel
    <3>7. Lies(Reach(platform.uart_base), uart, {"R", "W"})
      BY <3>3, <3>5, <3>6, LeafLies
    <3>8. QED
      BY <3>7 DEF uart
  <2>5. ASSUME satp # 0, NEW f \in RamPages(platform)
        PROVE  Lies(Reach(phys_to_virt(f)), f, {"R", "W"})
    <3>1. f \in Ram /\ f + 0 = f /\ 0 \in 0 .. PageSize - 1 /\ {"R", "W"} \subseteq Permissions
      BY <1>1, Basics, FrameDown, SizeAssumption DEF Ram, Permissions
    <3>2. Reach(phys_to_virt(f + 0)) = Leaf(f, {"R", "W"})
      BY <1>1, <2>5, <3>1, ReachDirect
    <3>3. QED
      BY <3>1, <3>2, LeafLies
  <2>6. satp # 0 => root = phys_to_virt(satp)
    BY <1>1 DEF IInv, TablesInv
  <2>7. QED
    BY <2>1, <2>2, <2>3, <2>4, <2>5, <2>6 DEF KernelStaysMapped, Top
<1>2. QED
  BY <1>1, Always, PTL

(* A page open to the user is one of its own.                              *)
LEMMA OpenToUser ==
  ASSUME IInv, NEW t \in UserMapped
  PROVE  /\ satp # 0 /\ Top = satp /\ t \in Vpns /\ HardwareWalk(mem, satp, t) = At(t)
         /\ HardwareWalk(mem, satp, t) # NoEntry
         /\ \E k \in DOMAIN User : t = vpn(User[k].va) /\ Maps(t) /\ Frames(k) = At(t).page
<1>1. satp # 0 /\ Top = satp /\ t \in Vpns /\ "U" \in HardwareWalk(mem, satp, t).flags
  BY DEF UserMapped, Top
<1>2. HardwareWalk(mem, Top, t) = IF is_mapped(mem, Top, t) THEN entry0(mem, Top, t) ELSE NoEntry
  BY <1>1, Rooted, WalkOfTree DEF nullptr
<1>3. Maps(t) /\ HardwareWalk(mem, satp, t) = At(t) /\ HardwareWalk(mem, satp, t) # NoEntry
  BY <1>1, <1>2 DEF Maps, At, NoEntry
<1>4. ASSUME NEW k \in DOMAIN Kernel, t = vpn(Kernel[k].va) PROVE FALSE
  <2>1. At(t) = Leaf(Kernel[k].pa, Kernel[k].flags)
    BY <1>1, <1>4 DEF IInv, KernelInv, KernelPage
  <2>2. Kernel[k].flags \in KernelFlags
    BY <1>4, ListedPages DEF Mappings
  <2>3. "U" \notin At(t).flags
    BY <2>1, <2>2 DEF Leaf, KernelFlags, Permissions
  <2>4. QED
    BY <1>1, <1>3, <2>3
<1>5. PICK k \in DOMAIN User : t = vpn(User[k].va)
  BY <1>1, <1>3, <1>4 DEF IInv, UserInv
<1>6. QED
  BY <1>1, <1>3, <1>5 DEF Frames

(* The loader gives the user pages that nothing else uses: not the kernel  *)
(* or the device tree, not a page table, and none of them twice.           *)
THEOREM UserPagesAreTheUsers == Spec => []UserPagesPrivate
<1>1. ASSUME IInv PROVE UserPagesPrivate
  <2> DEFINE frame(t) == HardwareWalk(mem, satp, t).page
  <2>1. ASSUME NEW t \in UserMapped
        PROVE  /\ frame(t) \in RamPages(platform) \ Tables(mem, satp)
               /\ ~InKernel(platform, frame(t)) /\ ~InBlob(platform, frame(t))
               /\ frame(t) < allocator.current
    <3>1. PICK k \in DOMAIN User :
            /\ t = vpn(User[k].va) /\ Maps(t) /\ frame(t) = Frames(k)
            /\ satp # 0 /\ Top = satp
      BY <1>1, <2>1, OpenToUser
    <3>2. /\ Frames(k) \in Ram \ Tables(mem, Top) /\ reserved_end(platform) <= Frames(k)
          /\ Frames(k) < allocator.current
      BY <1>1, <3>1 DEF IInv, UserInv
    <3>3. Frames(k) \in Frame
      BY <1>1, <3>2, Basics
    <3>4. ~InKernel(platform, Frames(k)) /\ ~InBlob(platform, Frames(k))
      BY <1>1, <3>2, <3>3, Basics, NotReserved
    <3>5. QED
      BY <3>1, <3>2, <3>4 DEF Ram
  <2>2. ASSUME NEW t \in UserMapped, NEW u \in UserMapped, frame(t) = frame(u)
        PROVE  t = u
    <3>1. PICK k \in DOMAIN User :
            /\ t = vpn(User[k].va) /\ Maps(t) /\ frame(t) = Frames(k) /\ satp # 0
      BY <1>1, <2>2, OpenToUser
    <3>2. PICK l \in DOMAIN User : u = vpn(User[l].va) /\ Maps(u) /\ frame(u) = Frames(l)
      BY <1>1, <2>2, OpenToUser
    <3>3. k = l
      BY <1>1, <2>2, <3>1, <3>2 DEF IInv, UserInv
    <3>4. QED
      BY <3>1, <3>2, <3>3
  <2>3. QED
    BY <2>1, <2>2 DEF UserPagesPrivate
<1>2. QED
  BY <1>1, Always, PTL

(* Boot gives up only for want of memory or because ranges overlap, and    *)
(* never for want of the right to fetch from memory.                       *)
THEOREM OnlyGoodReasons == Spec => []PanicsForAReason
<1>1. IInv => PanicsForAReason
  BY DEF IInv
<1>2. QED
  BY <1>1, Always, PTL

(* What the user program reaches at byte i of its page k.                  *)
LEMMA ReachUser ==
  ASSUME IInv, phase = "user", NEW k \in DOMAIN User, NEW i \in 0 .. PageSize - 1
  PROVE  LET va == User[k].va + i
             at == va - UserTextStart
         IN  /\ Reach(va).flags = User[k].flags \cup {"V", "A", "D"}
             /\ UserByte(va) = IF at < Len(platform.image) THEN platform.image[at + 1] ELSE 0
<1> DEFINE f == User[k].va
           va == f + i
           at == va - UserTextStart
<1>1. satp # 0 /\ todo = << >> /\ copied = Len(platform.image) /\ f \in Frame
  BY ListedPages DEF IInv, TablesInv, EndInv
<1>2. Done(todo, User) = DOMAIN User
  BY <1>1, Basics, Whole
<1>3. /\ Maps(vpn(f)) /\ At(vpn(f)).flags = User[k].flags \cup {"V", "A", "D"}
      /\ bytes[Frames(k)][i] = IF at < copied THEN platform.image[at + 1] ELSE 0
  <2>1. Maps(vpn(f)) /\ At(vpn(f)).flags = User[k].flags \cup {"V", "A", "D"}
    BY <1>2 DEF IInv, LoadInv
  <2>2. BytesInv /\ k \in Done(todo, User)
    BY <1>2 DEF IInv
  <2>3. bytes[Frames(k)][i] = IF f + i - UserTextStart < copied
                              THEN platform.image[f + i - UserTextStart + 1] ELSE 0
    BY <2>2 DEF BytesInv
  <2>4. f \in Nat /\ UserTextStart \in Nat
    BY <1>1, FrameDown, ConstantsAssumption
  <2> HIDE DEF f
  <2>5. f + i - UserTextStart = at /\ f + i - UserTextStart + 1 = at + 1
    BY <2>4
  <2>6. QED
    BY <2>1, <2>3, <2>5
<1> HIDE DEF f
<1>4. va \in Word /\ vpn(va) = vpn(f) /\ va % PageSize = i
  BY <1>1, OnePage
<1> HIDE DEF va, at
<1>5. Reach(va) = At(vpn(f))
  BY <1>1, <1>3, <1>4, ReachActive
<1>6. UserByte(va) = bytes[Frames(k)][i]
  BY <1>4, <1>5 DEF UserByte, Frames, f
<1>7. /\ Reach(va).flags = User[k].flags \cup {"V", "A", "D"}
      /\ UserByte(va) = IF at < Len(platform.image) THEN platform.image[at + 1] ELSE 0
  BY <1>1, <1>3, <1>5, <1>6
<1>8. QED
  BY <1>7 DEF va, at, f

LEMMA StackTop ==
  ASSUME NEW x \in Frame
  PROVE  align_down(x, StackAlignment) = x
<1> DEFINE q == PageSize \div StackAlignment
           n == x \div PageSize
<1>1. StackAlignment \in Nat \ {0} /\ PageSize % StackAlignment = 0 /\ PageSize \in Nat \ {0}
  BY ConstantsAssumption, SizeAssumption
<1>2. q \in Nat /\ PageSize = StackAlignment * q
  BY <1>1, DivisionWithRemainder
<1>3. x \in Nat /\ n \in Nat /\ x = PageSize * n
  BY FrameDown, PageNumber DEF Frame
<1> HIDE DEF q, n
<1>4. x = StackAlignment * (q * n) /\ q * n \in Nat
  BY <1>1, <1>2, <1>3
<1>5. x % StackAlignment = 0
  BY <1>1, <1>4, MultipleIsAligned
<1>6. QED
  BY <1>3, <1>5 DEF align_down

(* The user program's first instruction is there to be fetched and its     *)
(* stack to be pushed on, both fenced; its first trap finds the kernel.    *)
THEOREM TheUserStarts == Spec => []UserCanStart
<1>1. ASSUME IInv, phase = "user"
      PROVE  /\ hart.mode = "S" /\ Allowed(hart) /\ {3, 8, 12, 13, 15} \subseteq hart.medeleg
             /\ context.spp = "U" /\ traps
             /\ Reach(context.epc).flags \cap {"U", "X", "W"} = {"U", "X"}
             /\ Reach(context.sp - 1).flags \cap {"U", "X", "W"} = {"U", "W"}
             /\ \A t \in UserMapped : t \in fenced
  <2> DEFINE l == layout(platform)
  <2>1. /\ hart.mode = "S" /\ Allowed(hart) /\ {3, 8, 12, 13, 15} \subseteq hart.medeleg
        /\ traps /\ fenced = Mapped(mem, satp) /\ context.spp = "U"
        /\ context.epc = l.entry
        /\ context.sp = align_down(l.stack_top, StackAlignment)
    BY <1>1, MayFetch DEF IInv, LoadInv, EndInv
  <2>2. /\ l.entry = UserTextStart /\ UserTextStart \in Frame /\ UserTextStart \in Nat
        /\ l.text_size \in Nat /\ l.text_size > 0
        /\ l.stack_start \in Frame /\ l.stack_size \in Frame \ {0}
        /\ l.stack_top \in Frame /\ l.stack_top = l.stack_start + l.stack_size
    <3>1. /\ l.entry = UserTextStart /\ UserTextStart \in Frame
          /\ Len(platform.image) \in Nat \ {0} /\ Len(platform.image) <= l.text_size
          /\ l.text_size \in Frame /\ l.stack_start \in Frame /\ l.stack_size \in Frame \ {0}
          /\ l.stack_top \in Frame /\ l.stack_top = l.stack_start + l.stack_size
      BY <1>1, Basics, LayoutFacts
    <3>2. UserTextStart \in Nat /\ l.text_size \in Nat
      BY <3>1, FrameDown
    <3> HIDE DEF l
    <3>3. l.text_size > 0
      BY <3>1, <3>2
    <3>4. QED
      BY <3>1, <3>2, <3>3
  <2>3. /\ \A d \in Frame : d < l.text_size =>
             \E k \in DOMAIN User : User[k].va = l.entry + d /\ User[k].flags = {"R", "X", "U"}
        /\ \A d \in Frame : d < l.stack_size =>
             \E k \in DOMAIN User : User[k].va = l.stack_start + d
                                  /\ User[k].flags = {"R", "W", "U"}
    BY <1>1, Basics, UserPages DEF User
  <2> HIDE DEF l
  <2>4. Reach(context.epc).flags \cap {"U", "X", "W"} = {"U", "X"}
    <3>1. PICK k \in DOMAIN User :
            User[k].va = l.entry + 0 /\ User[k].flags = {"R", "X", "U"}
      BY <2>2, <2>3, ZeroWord
    <3>2. User[k].va + 0 = context.epc /\ 0 \in 0 .. PageSize - 1
      BY <2>1, <2>2, <3>1, SizeAssumption
    <3>3. Reach(User[k].va + 0).flags = User[k].flags \cup {"V", "A", "D"}
      BY <1>1, <3>2, ReachUser
    <3>4. QED
      BY <3>1, <3>2, <3>3
  <2>5. Reach(context.sp - 1).flags \cap {"U", "X", "W"} = {"U", "W"}
    <3> DEFINE d == l.stack_size - PageSize
    <3>1. /\ l.stack_size \in Nat \ {0} /\ l.stack_start \in Nat
          /\ is_page_aligned(l.stack_size) /\ l.stack_size \in Word
          /\ is_page_aligned(0) /\ is_page_aligned(PageSize) /\ PageSize \in Nat \ {0}
      <4>1. /\ l.stack_size \in Nat \ {0} /\ l.stack_start \in Nat /\ l.stack_size \in Word
            /\ PageSize \in Nat \ {0}
        BY <2>2, FrameDown, SizeAssumption
      <4>2. is_page_aligned(l.stack_size) /\ is_page_aligned(0)
        BY <2>2, ZeroWord DEF Frame
      <4>3. is_page_aligned(PageSize)
        BY <4>1 DEF is_page_aligned
      <4>4. QED
        BY <4>1, <4>2, <4>3
    <3>2. 0 + PageSize <= l.stack_size
      <4> DEFINE size == l.stack_size
      <4>1. size \in Nat /\ 0 < size /\ is_page_aligned(size) /\ 0 \in Nat
        BY <3>1
      <4> HIDE DEF size
      <4>2. 0 + PageSize <= size
        BY <3>1, <4>1, PagesApart
      <4>3. QED
        BY <4>2 DEF size
    <3>3. is_page_aligned(d)
      BY <3>1, <3>2, AlignedSum
    <3>4. d \in Frame /\ d < l.stack_size
      BY <3>1, <3>2, <3>3, SizeAssumption DEF Frame, Word
    <3>5. PICK k \in DOMAIN User :
            User[k].va = l.stack_start + d /\ User[k].flags = {"R", "W", "U"}
      BY <2>3, <3>4
    <3>6. context.sp = l.stack_start + l.stack_size
      BY <2>1, <2>2, StackTop
    <3>7. User[k].va + (PageSize - 1) = context.sp - 1 /\ PageSize - 1 \in 0 .. PageSize - 1
      BY <3>1, <3>5, <3>6
    <3>8. Reach(User[k].va + (PageSize - 1)).flags = User[k].flags \cup {"V", "A", "D"}
      BY <1>1, <3>7, ReachUser
    <3>9. QED
      BY <3>5, <3>7, <3>8
  <2>6. \A t \in UserMapped : t \in fenced
    BY <1>1, <2>1, OpenToUser DEF Mapped
  <2>7. QED
    BY <2>1, <2>4, <2>5, <2>6
<1>2. IInv => UserCanStart
  BY <1>1 DEF UserCanStart
<1>3. QED
  BY <1>2, Always, PTL

(* The bytes of one of the user's regions.                                 *)
LEMMA UserRegion ==
  ASSUME IInv, phase = "user", NEW start \in Frame, NEW size \in Frame, start + size < WordSize,
         \A d \in Frame : d < size => \E k \in DOMAIN User : User[k].va = start + d,
         NEW x \in 0 .. size - 1
  PROVE  UserByte(start + x) =
           IF start + x - UserTextStart < Len(platform.image)
           THEN platform.image[start + x - UserTextStart + 1] ELSE 0
<1> DEFINE d == align_down(x, PageSize)
           i == x - d
<1>1. start \in Nat /\ size \in Nat /\ x \in Nat /\ x < size /\ size \in Word
  BY FrameDown
<1>2. x \in Word
  BY <1>1, SizeAssumption DEF Word
<1>3. d \in Frame /\ i \in 0 .. PageSize - 1 /\ d \in Nat
  BY <1>2, AlignDownFrame
<1>4. x = d + i /\ d < size
  BY <1>1, <1>3, SizeAssumption
<1> HIDE DEF d, i
<1>5. PICK k \in DOMAIN User : User[k].va = start + d
  BY <1>3, <1>4
<1>6. User[k].va + i = start + x
  BY <1>1, <1>3, <1>4, <1>5, SizeAssumption
<1> DEFINE va == User[k].va + i
<1>7. UserByte(va) = IF va - UserTextStart < Len(platform.image)
                     THEN platform.image[va - UserTextStart + 1] ELSE 0
  BY <1>3, ReachUser
<1> DEFINE y == start + x
<1>8. va = y
  BY <1>6
<1> HIDE DEF va, y
<1>9. UserByte(y) = IF y - UserTextStart < Len(platform.image)
                    THEN platform.image[y - UserTextStart + 1] ELSE 0
  BY <1>7, <1>8
<1>10. y - UserTextStart = start + x - UserTextStart
       /\ y - UserTextStart + 1 = start + x - UserTextStart + 1
  BY <1>1, FrameDown, ConstantsAssumption DEF y
<1>11. QED
  BY <1>9, <1>10 DEF y

(* The program starts from its image and zeros, whatever RAM held before.  *)
THEOREM TheImageIsLoaded == Spec => []ImageLoaded
<1> DEFINE l == layout(platform)
<1>1. ASSUME IInv, phase = "user"
      PROVE  /\ \A k \in 0 .. l.text_size - 1 :
                  UserByte(l.entry + k) =
                    IF k < Len(platform.image) THEN platform.image[k + 1] ELSE 0
             /\ \A k \in 0 .. l.bss_size - 1 : UserByte(l.bss_start + k) = 0
             /\ \A k \in 0 .. l.stack_size - 1 : UserByte(l.stack_start + k) = 0
  <2>1. /\ l.entry = UserTextStart /\ UserTextStart \in Frame
        /\ Len(platform.image) \in Nat /\ Len(platform.image) <= l.text_size
        /\ l.text_size \in Frame /\ l.bss_size = PageSize
        /\ l.bss_start = UserTextStart + l.text_size /\ l.bss_start \in Frame
        /\ l.bss_start + PageSize \in Frame
        /\ l.stack_start \in Frame /\ l.stack_start > l.bss_start + PageSize
        /\ l.stack_size \in Frame
        /\ l.stack_top \in Frame /\ l.stack_top = l.stack_start + l.stack_size
        /\ 2 * PageSize <= WordSize
    BY <1>1, Basics, LayoutFacts
  <2>2. /\ \A d \in Frame : d < l.text_size => \E k \in DOMAIN User : User[k].va = l.entry + d
        /\ \A d \in Frame : d < l.bss_size => \E k \in DOMAIN User : User[k].va = l.bss_start + d
        /\ \A d \in Frame : d < l.stack_size =>
             \E k \in DOMAIN User : User[k].va = l.stack_start + d
    BY <1>1, Basics, UserPages DEF User
  <2> HIDE DEF l
  <2> DEFINE text == l.text_size
             bss == l.bss_start
             stack == l.stack_start
             size == l.stack_size
             len == Len(platform.image)
  <2>3. /\ UserTextStart \in Nat /\ text \in Nat /\ bss \in Nat /\ stack \in Nat
        /\ size \in Nat /\ len \in Nat /\ len <= text /\ PageSize \in Nat \ {0}
        /\ bss = UserTextStart + text /\ bss + PageSize < WordSize /\ WordSize \in Nat
        /\ stack > bss + PageSize /\ stack + size < WordSize
        /\ text \in Frame /\ bss \in Frame /\ stack \in Frame /\ size \in Frame
    BY <2>1, FrameDown, SizeAssumption DEF Word
  <2>4. PageSize \in Frame
    BY <2>3, SizeAssumption DEF Frame, Word, is_page_aligned
  <2>5. /\ \A d \in Frame : d < text => \E k \in DOMAIN User : User[k].va = UserTextStart + d
        /\ \A d \in Frame : d < PageSize => \E k \in DOMAIN User : User[k].va = bss + d
        /\ \A d \in Frame : d < size => \E k \in DOMAIN User : User[k].va = stack + d
    BY <2>1, <2>2
  <2>6. /\ l.entry = UserTextStart /\ l.bss_size = PageSize
    BY <2>1
  <2>7. UserTextStart \in Frame /\ UserTextStart + text < WordSize
    BY <2>1, <2>3
  <2> HIDE DEF text, bss, stack, size
  <2>8. ASSUME NEW k \in 0 .. text - 1
        PROVE  UserByte(UserTextStart + k) = IF k < len THEN platform.image[k + 1] ELSE 0
    <3>1. UserTextStart + k - UserTextStart = k
      BY <2>3
    <3>2. UserByte(UserTextStart + k) =
            IF UserTextStart + k - UserTextStart < Len(platform.image)
            THEN platform.image[UserTextStart + k - UserTextStart + 1] ELSE 0
      BY <1>1, <2>3, <2>5, <2>7, UserRegion
    <3>3. QED
      BY <3>1, <3>2
  <2>9. ASSUME NEW k \in 0 .. PageSize - 1
        PROVE  UserByte(bss + k) = 0
    <3>1. ~(bss + k - UserTextStart < len)
      <4> HIDE DEF len
      <4>1. QED
        BY <2>3
    <3>2. UserByte(bss + k) = IF bss + k - UserTextStart < Len(platform.image)
                              THEN platform.image[bss + k - UserTextStart + 1] ELSE 0
      BY <1>1, <2>3, <2>4, <2>5, UserRegion
    <3>3. QED
      BY <3>1, <3>2
  <2>10. ASSUME NEW k \in 0 .. size - 1
         PROVE  UserByte(stack + k) = 0
    <3>1. ~(stack + k - UserTextStart < len)
      <4> HIDE DEF len
      <4>1. QED
        BY <2>3
    <3>2. UserByte(stack + k) = IF stack + k - UserTextStart < Len(platform.image)
                                THEN platform.image[stack + k - UserTextStart + 1] ELSE 0
      BY <1>1, <2>3, <2>5, UserRegion
    <3>3. QED
      BY <3>1, <3>2
  <2>11. QED
    BY <2>6, <2>8, <2>9, <2>10 DEF text, bss, stack, size
<1>2. IInv => ImageLoaded
  BY <1>1 DEF ImageLoaded, IInv, EarlyInv
<1>3. QED
  BY <1>2, Always, PTL

-----------------------------------------------------------------------------
(* What a step may never write.                                            *)

Spared(f) ==
  \/ mem'[f] = mem[f] /\ bytes'[f] = bytes[f]
  \/ ~InKernel(platform, f) /\ ~InBlob(platform, f)
  \/ phase = "clear_bss" /\ platform.bss.start <= f /\ f < platform.bss.end

LEMMA StepSpares ==
  ASSUME IInv, Next, NEW f \in RamPages(platform)
  PROVE  Spared(f)
<1>1. /\ platform \in Platforms /\ f \in Ram /\ f \in Frame
      /\ DOMAIN mem = Ram /\ DOMAIN bytes = Ram
  BY Basics DEF Ram, IInv, Types, TypeOK
<1>2. reserved_end(platform) <= f => Spared(f)
  BY <1>1, NotReserved DEF Spared
<1>3. CASE ClearBss
  <2> DEFINE rounds == bss_rounds(platform)
             n == Len(rounds) - Len(todo) + 1
  <2>1. todo \in Seq(Mappings({{}})) /\ Suffix(todo, rounds)
    BY <1>3 DEF ClearBss, IInv, EarlyInv
  <2>2. rounds \in Seq(Mappings({{}}))
    BY <1>1, BssRounds
  <2> HIDE DEF rounds
  <2>3. n \in DOMAIN rounds /\ Head(todo) = rounds[n]
    BY <1>3, <2>1, <2>2, Rest DEF ClearBss
  <2> HIDE DEF n
  <2>4. platform.bss.start <= Head(todo).pa /\ Head(todo).pa < platform.bss.end
    BY <1>1, <2>3, BssRounds DEF rounds
  <2>5. CASE f = Head(todo).pa
    BY <1>3, <2>4, <2>5 DEF ClearBss, Spared
  <2>6. CASE f # Head(todo).pa
    BY <1>1, <1>3, <2>6 DEF ClearBss, Spared
  <2>7. QED
    BY <2>5, <2>6
<1>4. CASE CreateRoot
  <2> DEFINE p == physical_alloc_page(allocator).page
  <2>1. /\ AllocatorOK(allocator) /\ reserved_end(platform) <= allocator.current
        /\ allocator \in Allocator
    BY <1>4, Basics DEF CreateRoot, IInv, AllocatorInv
  <2>2. p # 0 => p = allocator.current
    BY <2>1, TakePage
  <2>3. CASE p # 0 /\ f = p
    BY <1>2, <2>1, <2>2, <2>3
  <2>4. CASE ~(p # 0 /\ f = p)
    BY <1>1, <1>4, <2>4 DEF CreateRoot, Spared
  <2>5. QED
    BY <2>3, <2>4
<1>5. CASE MapKernelPage
  <2> DEFINE r == Head(todo)
             w == paging_map(mem, allocator, Top, r.va, r.pa, r.flags)
  <2>1. /\ Top # 0 /\ Reach(root).page = Top
        /\ RamEffect(Ram, mem, allocator, Top, r.va, r.pa, r.flags, w)
    BY <1>5, KernelPageMapped DEF MapKernelPage
  <2>2. mem' = w.mem /\ bytes' = bytes
    BY <1>5, <2>1 DEF MapKernelPage
  <2> HIDE DEF w
  <2>3. w.mem[f] # mem[f] => reserved_end(platform) <= f
    <3> DEFINE va == r.va
               pa == r.pa
               flags == r.flags
    <3>1. RamEffect(Ram, mem, allocator, Top, va, pa, flags, w)
      BY <2>1
    <3> HIDE DEF va, pa, flags
    <3>2. QED
      BY <1>1, <2>1, <3>1, TablesGrow
  <2>4. QED
    BY <1>2, <2>2, <2>3 DEF Spared
<1>6. CASE MapUserPage
  <2> DEFINE r == Head(todo)
             answer == physical_alloc_page(allocator)
             w == paging_map([mem EXCEPT ![answer.page] = paging_zero_table],
                             answer.allocator, Top, r.va, answer.page, r.flags)
  <2>1. /\ Reach(root).page = Top /\ Top # 0 /\ satp # 0
        /\ answer.page # 0 => FreshUserPage(r, answer, w)
    BY <1>6, UserPageMapped DEF MapUserPage
  <2>2. CASE answer.page = 0
    BY <1>6, <2>2 DEF MapUserPage, Spared
  <2>3. CASE answer.page # 0
    <3>1. /\ FreshUserPage(r, answer, w)
          /\ Reach(phys_to_virt(answer.page)).page = answer.page
      BY <2>1, <2>3 DEF FreshUserPage
    <3>2. mem' = w.mem /\ bytes' = [bytes EXCEPT ![answer.page] = PageOf(0)]
      BY <1>6, <2>1, <2>3, <3>1 DEF MapUserPage
    <3>3. reserved_end(platform) <= answer.page
      BY <2>1, <3>1 DEF FreshUserPage, IInv, AllocatorInv
    <3> HIDE DEF w, answer
    <3>4. w.mem[f] # mem[f] => reserved_end(platform) <= f
      <4> DEFINE va == r.va
                 flags == r.flags
                 p == answer.page
      <4>1. RamEffect(Ram, mem, allocator, Top, va, p, flags, w)
        BY <3>1 DEF FreshUserPage
      <4> HIDE DEF va, flags, p
      <4>2. QED
        BY <1>1, <2>1, <4>1, TablesGrow
    <3>5. QED
      BY <1>1, <1>2, <3>2, <3>3, <3>4 DEF Spared
  <2>4. QED
    BY <2>2, <2>3
<1>7. CASE CopyByte
  <2> DEFINE found == paging_query(mem, Reach(root).page, Add(layout(platform).entry, copied))
             target == Reach(phys_to_virt(found.pa)).page
  <2>1. mem' = mem /\ phase = "load" /\ todo = << >> /\ copied < Len(platform.image)
    BY <1>7 DEF CopyByte
  <2>2. PICK k, i : Target(k, i)
    BY <2>1, NextByte
  <2>3. k \in DOMAIN User /\ found.ok /\ target = Frames(k) /\ Maps(vpn(User[k].va))
    BY <2>2 DEF Target
  <2>4. reserved_end(platform) <= Frames(k)
    BY <2>1, <2>3 DEF IInv, TablesInv, UserInv
  <2>5. f # target => bytes'[f] = bytes[f]
    BY <1>1, <1>7, <2>3 DEF CopyByte
  <2>6. QED
    BY <1>2, <2>1, <2>3, <2>4, <2>5 DEF Spared
<1>8. CASE UNCHANGED <<mem, bytes>>
  BY <1>8 DEF Spared
<1>9. QED
  BY <1>3, <1>4, <1>5, <1>6, <1>7, <1>8
  DEF Next, Dispatch, MachineMain, AllocatorInit, ActivatePaging, TrapsInit, EnterUser

(* Whatever RAM held at first, no step of boot writes to the kernel or the *)
(* device tree, but for the bss that is cleared before anything is called. *)
THEOREM KernelAndTreeAreSpared == Spec => ReservedMemoryUntouched
<1>1. IInv /\ [Next]_vars =>
        [\A f \in RamPages(platform) :
           \/ mem'[f] = mem[f] /\ bytes'[f] = bytes[f]
           \/ ~InKernel(platform, f) /\ ~InBlob(platform, f)
           \/ phase = "clear_bss" /\ platform.bss.start <= f /\ f < platform.bss.end]_vars
  BY StepSpares DEF Spared
<1>2. QED
  BY <1>1, Always, PTL DEF Spec, ReservedMemoryUntouched
=============================================================================
