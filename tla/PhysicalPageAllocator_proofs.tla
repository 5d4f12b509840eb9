------------------- MODULE PhysicalPageAllocator_proofs -------------------
(***************************************************************************)
(* The allocator's invariants, for every page size, word size and set of   *)
(* platforms.                                                              *)
(***************************************************************************)
EXTENDS PhysicalPageAllocator, PhysicalMemory_proofs

First == align_up(reserved_end(platform), PageSize)

(* What the allocator's state is after a successful init: the pages handed *)
(* out are exactly the page boundaries between the first free page and     *)
(* current.                                                                *)
Ready ==
  /\ allocator.end = ram_end
  /\ is_page_aligned(allocator.current)
  /\ First <= allocator.current /\ allocator.current <= allocator.end
  /\ given = {p \in Frame : First <= p /\ p < allocator.current}
  /\ page = 0 => allocator.current + PageSize > allocator.end

IInv ==
  /\ TypeOK
  /\ phase # "ready" => given = {} /\ page = NotCalled
  /\ phase = "ready" => Ready

(* Where the first free page lies.                                         *)
LEMMA FirstPage ==
  ASSUME platform \in Platforms
  PROVE  /\ First \in Word \ {0} /\ is_page_aligned(First)
         /\ reserved_end(platform) \in Nat
         /\ First >= reserved_end(platform)
         /\ First < reserved_end(platform) + PageSize
         /\ reserved_end(platform) >= platform.kernel_end
         /\ reserved_end(platform) >= dtb_end
         /\ reserved_end(platform) \in {platform.kernel_end, dtb_end}
         /\ dtb_end \in Nat /\ ram_end \in Nat /\ platform.kernel_end \in Nat
         /\ ram_end + 2 * PageSize <= WordSize
         /\ initial_allocator(platform) = [current |-> First, end |-> ram_end]
<1>1. /\ dtb_end \in Nat /\ ram_end \in Nat /\ platform.kernel_end \in Nat \ {0}
      /\ Add(platform.dtb_addr, platform.dtb_size) = dtb_end
      /\ Add(platform.ram_base, platform.ram_size) = ram_end
      /\ ram_end + 2 * PageSize <= WordSize
  BY PlatformAssumption, SizeAssumption DEF Add, Word, dtb_end, ram_end
<1>2. /\ reserved_end(platform) \in {platform.kernel_end, dtb_end}
      /\ reserved_end(platform) \in Nat
      /\ reserved_end(platform) >= platform.kernel_end
      /\ reserved_end(platform) >= dtb_end
  BY <1>1 DEF reserved_end, max_u64
<1>3. reserved_end(platform) + 2 * PageSize <= WordSize
  BY <1>1, <1>2, PlatformAssumption, SizeAssumption DEF dtb_end, Word
<1>4. /\ First \in Nat /\ First >= reserved_end(platform)
      /\ First < reserved_end(platform) + PageSize /\ is_page_aligned(First)
  BY <1>2, <1>3, AlignUp, SizeAssumption DEF First
<1>5. First \in Word \ {0}
  BY <1>1, <1>2, <1>3, <1>4, SizeAssumption DEF Word
<1>6. QED
  BY <1>1, <1>2, <1>3, <1>4, <1>5 DEF initial_allocator, First

LEMMA InitEstablishes == Init => IInv
  BY SizeAssumption DEF Init, IInv, TypeOK, Allocator, Word, NotCalled

LEMMA AllocatorInitPreserves == IInv /\ AllocatorInit => IInv'
<1> SUFFICES ASSUME IInv, AllocatorInit PROVE IInv'
  OBVIOUS
<1>1. /\ platform \in Platforms /\ platform' = platform
      /\ page' = page /\ given' = given /\ given = {} /\ page = NotCalled
      /\ allocator' = initial_allocator(platform)
      /\ phase' = IF allocator'.current >= allocator'.end
                  THEN "panic" ELSE "ready"
      /\ parity' \in {0, 1}
  BY DEF IInv, TypeOK, AllocatorInit
<1>2. allocator' = [current |-> First, end |-> ram_end]
  BY <1>1, FirstPage
<1>3. /\ First \in Nat /\ First \in Word /\ is_page_aligned(First)
      /\ ram_end \in Nat /\ ram_end \in Word
  BY <1>1, FirstPage, SizeAssumption DEF Word
<1>4. First' = First /\ ram_end' = ram_end
  BY <1>1 DEF First, ram_end
<1>5. TypeOK'
  BY <1>1, <1>2, <1>3, SizeAssumption DEF TypeOK, Allocator, NotCalled
<1>6. ASSUME phase' = "ready" PROVE Ready'
  <2>1. First < ram_end
    BY <1>1, <1>2, <1>3, <1>6
  <2>2. \A p \in Frame : ~(First <= p /\ p < First)
    BY <1>3 DEF Frame, Word
  <2>3. page' # 0
    BY <1>1, SizeAssumption DEF NotCalled
  <2>4. QED
    BY <1>1, <1>2, <1>3, <1>4, <2>1, <2>2, <2>3 DEF Ready
<1>7. QED
  BY <1>1, <1>5, <1>6 DEF IInv, NotCalled

LEMMA AllocPagePreserves == IInv /\ AllocPage => IInv'
<1> SUFFICES ASSUME IInv, AllocPage PROVE IInv'
  OBVIOUS
<1> DEFINE answer == physical_alloc_page(allocator)
<1>1. /\ platform \in Platforms /\ platform' = platform
      /\ phase = "ready" /\ phase' = phase
      /\ allocator \in Allocator /\ Ready
      /\ page' = answer.page /\ allocator' = answer.allocator
      /\ given' = IF answer.page = 0 THEN given ELSE given \cup {answer.page}
      /\ parity' \in {0, 1}
  BY DEF IInv, TypeOK, AllocPage
<1>2. /\ allocator.current \in Nat /\ allocator.end \in Nat
      /\ is_page_aligned(allocator.current) /\ First <= allocator.current
      /\ allocator.current <= allocator.end
      /\ allocator.end + 2 * PageSize <= WordSize
      /\ First \in Nat \ {0}
  BY <1>1, FirstPage DEF Ready, Allocator, Word
<1>3. First' = First /\ ram_end' = ram_end
  BY <1>1 DEF First, ram_end
<1>4. CASE /\ answer = [page |-> allocator.current,
                        allocator |-> [allocator EXCEPT !.current =
                                         allocator.current + PageSize]]
           /\ allocator.current + PageSize <= allocator.end
  <2> DEFINE q == allocator.current
  <2>1. /\ page' = q /\ page' # 0 /\ allocator'.current = q + PageSize
        /\ allocator'.end = allocator.end /\ given' = given \cup {q}
        /\ allocator' = [allocator EXCEPT !.current = q + PageSize]
    BY <1>1, <1>2, <1>4 DEF Allocator
  <2>2. /\ q \in Word /\ q + PageSize \in Word
        /\ q \in Frame /\ is_page_aligned(q + PageSize)
    BY <1>2, <1>4, NextPageAligned, SizeAssumption DEF Word, Frame
  <2>3. TypeOK'
    BY <1>1, <2>1, <2>2 DEF IInv, TypeOK, Allocator
  <2>4. given' = {p \in Frame : First <= p /\ p < q + PageSize}
    <3>1. given = {p \in Frame : First <= p /\ p < q}
      BY <1>1 DEF Ready
    <3>2. ASSUME NEW p \in Frame, p < q + PageSize, ~(p < q) PROVE p = q
      <4>1. p \in Nat /\ is_page_aligned(p)
        BY DEF Frame, Word
      <4>2. ASSUME q < p PROVE FALSE
        <5>1. q + PageSize <= p
          BY <1>2, <4>1, <4>2, PagesApart
        <5>2. QED
          BY <1>2, <3>2, <4>1, <5>1, SizeAssumption
      <4>3. QED
        BY <1>2, <3>2, <4>1, <4>2
    <3>3. ASSUME NEW p \in Frame, p < q PROVE p < q + PageSize
      BY <1>2, <3>3, SizeAssumption DEF Frame, Word
    <3>4. q < q + PageSize
      BY <1>2, SizeAssumption
    <3>5. QED
      BY <1>2, <2>1, <2>2, <3>1, <3>2, <3>3, <3>4
  <2>5. Ready'
    BY <1>1, <1>2, <1>3, <1>4, <2>1, <2>2, <2>4, SizeAssumption DEF Ready
  <2>6. QED
    BY <1>1, <2>3, <2>5 DEF IInv
<1>5. CASE /\ answer = [page |-> 0, allocator |-> allocator]
           /\ allocator.current + PageSize > allocator.end
  <2>1. page' = 0 /\ allocator' = allocator /\ given' = given
    BY <1>1, <1>5
  <2>2. TypeOK'
    BY <1>1, <2>1, SizeAssumption DEF IInv, TypeOK, Word
  <2>3. Ready'
    BY <1>1, <1>3, <1>5, <2>1 DEF Ready
  <2>4. QED
    BY <1>1, <2>2, <2>3 DEF IInv
<1>6. QED
  BY <1>1, <1>2, <1>4, <1>5, AllocOnePage

LEMMA StepPreserves == IInv /\ [Next]_vars => IInv'
<1>1. IInv /\ UNCHANGED vars => IInv'
  BY DEF IInv, TypeOK, Ready, First, ram_end, vars
<1>2. QED
  BY <1>1, AllocatorInitPreserves, AllocPagePreserves DEF Next

LEMMA Inductive == Spec => []IInv
  BY InitEstablishes, StepPreserves, PTL DEF Spec

(* The allocator's fields stay within a 64-bit word and its phases are the *)
(* three of supervisor_main.                                               *)
THEOREM TypeCorrect == Spec => []TypeOK
<1>1. IInv => TypeOK
  BY DEF IInv
<1>2. QED
  BY <1>1, Inductive, PTL

(* Every page physical_alloc_page hands out is whole, aligned, inside RAM  *)
(* and above the kernel image and the device tree blob.                    *)
THEOREM PagesUsable == Spec => []GivenPagesUsable
<1>1. ASSUME IInv PROVE GivenPagesUsable
  <2> SUFFICES ASSUME NEW p \in given
               PROVE /\ is_page_aligned(p)
                     /\ p >= platform.kernel_end /\ p >= dtb_end
                     /\ p + PageSize <= ram_end
    BY DEF GivenPagesUsable
  <2>1. platform \in Platforms /\ Ready
    BY <1>1 DEF IInv, TypeOK
  <2>2. p \in Nat /\ is_page_aligned(p) /\ First <= p /\ p < allocator.current
    BY <2>1 DEF Ready, Frame, Word
  <2>3. allocator.current \in Nat
    BY <1>1 DEF IInv, TypeOK, Allocator, Word
  <2>4. p + PageSize <= allocator.current
    BY <2>1, <2>2, <2>3, PagesApart DEF Ready
  <2>5. QED
    BY <2>1, <2>2, <2>3, <2>4, FirstPage, SizeAssumption DEF Ready, Word
<1>2. QED
  BY <1>1, Inductive, PTL

(* The allocator leaks no page: it fails only when all of them are given.  *)
THEOREM NoPageLeaked == Spec => []FailsOnlyWhenFull
<1>1. ASSUME IInv PROVE FailsOnlyWhenFull
  <2> SUFFICES ASSUME page = 0, NEW p \in Frame,
                      p >= platform.kernel_end, p >= dtb_end,
                      p + PageSize <= ram_end
               PROVE  p \in given
    BY DEF FailsOnlyWhenFull
  <2>1. platform \in Platforms /\ Ready
    BY <1>1, SizeAssumption DEF IInv, TypeOK, NotCalled
  <2>2. p \in Nat /\ is_page_aligned(p)
    BY DEF Frame, Word
  <2>3. p < allocator.current
    BY <1>1, <2>1, <2>2, SizeAssumption, FirstPage
       DEF IInv, TypeOK, Ready, Allocator, Word
  <2>4. ASSUME p < First PROVE FALSE
    <3>1. First \in Nat /\ is_page_aligned(First)
      BY <2>1, FirstPage DEF Word
    <3>2. p + PageSize <= First
      BY <2>2, <2>4, <3>1, PagesApart
    <3>3. QED
      BY <2>1, <2>2, <3>1, <3>2, FirstPage, SizeAssumption
  <2>5. First <= p
    BY <2>1, <2>2, <2>4, FirstPage DEF Word
  <2>6. QED
    BY <2>1, <2>3, <2>5 DEF Ready
<1>2. QED
  BY <1>1, Inductive, PTL

(* No page is handed out twice, and no two overlap.                        *)
THEOREM PagesHandedOutOnce == Spec => NeverTwice
<1>1. ASSUME IInv, AllocPage, page' # 0, NEW p \in given
      PROVE  p + PageSize <= page'
  <2>1. /\ platform \in Platforms /\ Ready /\ allocator \in Allocator
        /\ page' = physical_alloc_page(allocator).page
    BY <1>1 DEF IInv, TypeOK, AllocPage
  <2>2. /\ is_page_aligned(allocator.current)
        /\ allocator.current <= allocator.end
        /\ allocator.end + 2 * PageSize <= WordSize
    BY <2>1, FirstPage DEF Ready
  <2>3. page' = allocator.current
    BY <1>1, <2>1, <2>2, AllocOnePage
  <2>4. p \in Nat /\ is_page_aligned(p) /\ p < allocator.current
    BY <2>1 DEF Ready, Frame, Word
  <2>5. QED
    BY <2>1, <2>2, <2>3, <2>4, PagesApart DEF Allocator, Word
<1>2. IInv => [AllocPage /\ page' # 0 =>
                 \A p \in given : p + PageSize <= page']_vars
  BY <1>1
<1>3. QED
  BY <1>2, Inductive, PTL DEF NeverTwice

(* Once one allocation has failed, every later one fails.                  *)
THEOREM ExhaustionIsFinal == Spec => ExhaustedForGood
<1>1. ASSUME IInv, AllocPage, page = 0 PROVE page' = 0
  <2>1. /\ platform \in Platforms /\ Ready /\ allocator \in Allocator
        /\ page' = physical_alloc_page(allocator).page
    BY <1>1 DEF IInv, TypeOK, AllocPage
  <2>2. /\ is_page_aligned(allocator.current)
        /\ allocator.current <= allocator.end
        /\ allocator.end + 2 * PageSize <= WordSize
        /\ allocator.current + PageSize > allocator.end
    BY <1>1, <2>1, FirstPage DEF Ready
  <2>3. allocator.current \in Nat /\ allocator.end \in Nat
    BY <2>1 DEF Allocator, Word
  <2>4. ~(allocator.current + PageSize <= allocator.end)
    BY <2>2, <2>3, SizeAssumption
  <2>5. QED
    BY <2>1, <2>2, <2>4, AllocOnePage
<1>2. ASSUME IInv, [Next]_vars PROVE [page = 0 => page' = 0]_vars
  <2>1. CASE AllocatorInit
    BY <2>1 DEF AllocatorInit
  <2>2. CASE AllocPage
    BY <1>1, <1>2, <2>2
  <2>3. CASE UNCHANGED vars
    BY <2>3
  <2>4. QED
    BY <1>2, <2>1, <2>2, <2>3 DEF Next
<1>3. QED
  BY <1>2, Inductive, PTL DEF Spec, ExhaustedForGood
=============================================================================
