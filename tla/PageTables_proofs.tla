------------------------- MODULE PageTables_proofs -------------------------
(***************************************************************************)
(* What any sequence of requests makes of the page tables, for every page  *)
(* size, table size, memory contents, allocator and request: they stay a   *)
(* tree, read alike by kernel and hardware, and an address space.  What    *)
(* one call does is Sv39_proofs' matter.                                   *)
(***************************************************************************)
EXTENDS PageTables, Sv39_proofs

IInv == TypeOK /\ AllocatorOK(allocator) /\ TreeInv

-----------------------------------------------------------------------------
(* The specification.                                                      *)

LEMMA InitEstablishes == Init => IInv
<1> SUFFICES ASSUME Init PROVE IInv
  OBVIOUS
<1>1. AllocatorOK(allocator)
  BY PageTableAssumption DEF Init, AllocatorOK
<1>2. mem \in Memory
  BY PageTableAssumption DEF Init, Memory, PageTable
<1>3. TypeOK
  BY <1>1, <1>2, NoEntryType DEF Init, TypeOK, AllocatorOK, Memory, nullptr
<1>4. TreeInv
  BY NoTables DEF Init, TreeInv
<1>5. QED
  BY <1>1, <1>3, <1>4 DEF IInv

LEMMA CreateRootPreserves == IInv /\ CreateRoot => IInv'
<1> SUFFICES ASSUME IInv, CreateRoot PROVE IInv'
  OBVIOUS
<1> DEFINE answer == physical_alloc_page(allocator)
<1>1. /\ allocator \in Allocator /\ AllocatorOK(allocator) /\ mem \in Memory
      /\ result' = result /\ result \in {"none", "mapped", "refused"}
      /\ root' = answer.page /\ allocator' = answer.allocator
      /\ mem' = IF answer.page = 0 THEN mem
                ELSE [mem EXCEPT ![answer.page] = paging_zero_table]
      /\ root = nullptr /\ IsTree(mem, allocator, root)
  BY DEF IInv, TypeOK, CreateRoot, Memory, TreeInv
<1>2. /\ AllocatorOK(allocator')
      /\ answer.page = 0 => allocator' = allocator
      /\ answer.page # 0 => /\ answer.page \in Frame
                            /\ IsOwned(allocator', answer.page)
  BY <1>1, Fresh
<1>3. CASE answer.page = 0
  <2>1. UNCHANGED <<allocator, mem, root, result>>
    BY <1>1, <1>2, <1>3 DEF nullptr
  <2>2. QED
    BY <2>1 DEF IInv, TypeOK, AllocatorOK, TreeInv
<1>4. CASE answer.page # 0
  <2> DEFINE n == [mem EXCEPT ![answer.page] = paging_zero_table]
  <2>1. /\ n \in Memory /\ mem' = n
        /\ \A k \in Idx : n[answer.page][k] = NoEntry
    <3>1. mem' = n /\ answer.page \in Frame /\ mem \in Memory
      BY <1>1, <1>2, <1>4
    <3> HIDE DEF answer
    <3>2. /\ n \in Memory
          /\ \A f \in Frame, k \in Idx :
               n[f][k] = IF f = answer.page THEN NoEntry ELSE mem[f][k]
      BY <3>1, Zero
    <3> HIDE DEF n
    <3>3. QED
      BY <3>1, <3>2
  <2>2. TypeOK'
    BY <1>1, <1>2, <1>4, <2>1 DEF TypeOK, Memory, AllocatorOK
  <2> HIDE DEF n
  <2>3. IsTree(n, allocator', root')
    BY <1>1, <1>2, <1>4, <2>1, EmptyRoot
  <2>4. QED
    BY <1>2, <2>1, <2>2, <2>3 DEF IInv, TreeInv
<1>5. QED
  BY <1>3, <1>4

(* What a call of paging_map leaves in the variables.                      *)
LEMMA AnswerPreserves ==
  ASSUME root \in Frame, root' = root, NEW w, WalkInv(w, root), Answer(w)
  PROVE  IInv'
<1>1. /\ mem' = w.mem /\ allocator' = w.allocator
      /\ result' \in {"none", "mapped", "refused"}
  BY DEF Answer
<1>2. TypeOK' /\ AllocatorOK(allocator')
  BY <1>1 DEF TypeOK, WalkInv, WalkState, Memory
<1>3. TreeInv'
  BY <1>1 DEF TreeInv, WalkInv
<1>4. QED
  BY <1>2, <1>3 DEF IInv

LEMMA RequestType ==
  ASSUME NEW r \in Requests
  PROVE  /\ r.va \in Word /\ r.pa \in Word
         /\ r.flags \in SUBSET Flags /\ r.flags \cap Permissions # {}
  BY PageTableAssumption

LEMMA MapPagePreserves ==
  ASSUME NEW r \in Requests
  PROVE  IInv /\ MapPage(r) => IInv'
<1> SUFFICES ASSUME IInv, MapPage(r) PROVE IInv'
  OBVIOUS
<1> DEFINE w == paging_map(mem, allocator, root, r.va, r.pa, r.flags)
<1>1. /\ root \in Frame /\ root' = root /\ Answer(w)
      /\ mem \in Memory /\ allocator \in Allocator
      /\ AllocatorOK(allocator) /\ IsTree(mem, allocator, root)
  BY DEF IInv, TypeOK, MapPage, Memory, TreeInv
<1>2. WalkInv(w, root)
  BY <1>1, PagingMap, RequestType
<1> HIDE DEF w
<1>3. QED
  BY <1>1, <1>2, AnswerPreserves

LEMMA MapFreshPagePreserves ==
  ASSUME NEW r \in Requests
  PROVE  IInv /\ MapFreshPage(r.va, r.flags) => IInv'
<1> SUFFICES ASSUME IInv, MapFreshPage(r.va, r.flags) PROVE IInv'
  OBVIOUS
<1> DEFINE answer == physical_alloc_page(allocator)
           zeroed == [mem EXCEPT ![answer.page] = paging_zero_table]
           w == paging_map(zeroed, answer.allocator, root, r.va, answer.page, r.flags)
<1>1. /\ root \in Frame \ {0} /\ root' = root
      /\ mem \in Memory /\ allocator \in Allocator
      /\ AllocatorOK(allocator) /\ IsTree(mem, allocator, root)
      /\ IF answer.page = 0
         THEN result' = "refused" /\ UNCHANGED <<mem, allocator>>
         ELSE Answer(w)
  BY DEF IInv, TypeOK, MapFreshPage, Memory, TreeInv, nullptr
<1>2. CASE answer.page = 0
  BY <1>1, <1>2 DEF IInv, TypeOK, AllocatorOK, TreeInv
<1>3. CASE answer.page # 0
  <2>1. WalkInv(w, root)
    BY <1>1, <1>3, FreshPageEffect, RequestType
  <2> HIDE DEF w
  <2>2. QED
    BY <1>1, <1>3, <2>1, AnswerPreserves
<1>4. QED
  BY <1>2, <1>3

LEMMA StepPreserves == IInv /\ [Next]_vars => IInv'
<1>1. IInv /\ UNCHANGED vars => IInv'
  BY DEF IInv, TypeOK, TreeInv, vars
<1>2. QED
  BY <1>1, CreateRootPreserves, MapPagePreserves, MapFreshPagePreserves DEF Next

LEMMA Inductive == Spec => []IInv
  BY InitEstablishes, StepPreserves, PTL DEF Spec

(* Memory holds well-formed entries, every table pointer is page-aligned   *)
(* and a request answers with success or refusal.                          *)
THEOREM TypeCorrect == Spec => []TypeOK
<1>1. IInv => TypeOK
  BY DEF IInv
<1>2. QED
  BY <1>1, Inductive, PTL

(* The tables form a tree of pages the allocator handed out, with pointers *)
(* above the last level and leaves on it, whatever RAM held before, in any *)
(* order of requests and wherever one of them failed.                      *)
THEOREM TablesFormATree == Spec => []TreeInv
<1>1. IInv => TreeInv
  BY DEF IInv
<1>2. QED
  BY <1>1, Inductive, PTL

(* paging_query and the hardware read every virtual page alike, in any     *)
(* tables that paging_map can have built.                                  *)
THEOREM QueryIsTheHardwares == Spec => []QueryAgreesWithHardware
<1>1. IInv => QueryAgreesWithHardware
  BY WalkOfTree DEF IInv, TreeInv, QueryAgreesWithHardware
<1>2. QED
  BY <1>1, Inductive, PTL

-----------------------------------------------------------------------------
(* The specification's steps.                                              *)

(* A request for a page the caller has.                                    *)
LEMMA MapPageEffect ==
  ASSUME IInv, NEW r \in Requests, MapPage(r)
  PROVE  \E w : /\ Answer(w) /\ w.ok \in BOOLEAN /\ root' = root
                /\ Effect(mem, allocator, root, r.va, r.pa, r.flags, w)
<1> DEFINE w == paging_map(mem, allocator, root, r.va, r.pa, r.flags)
<1>1. /\ root \in Frame /\ root' = root /\ Answer(w)
      /\ mem \in Memory /\ allocator \in Allocator
      /\ AllocatorOK(allocator) /\ IsTree(mem, allocator, root)
  BY DEF IInv, TypeOK, MapPage, Memory, TreeInv
<1>2. Effect(mem, allocator, root, r.va, r.pa, r.flags, w)
  BY <1>1, PagingMapEffect, RequestType
<1>3. w.ok \in BOOLEAN
  BY <1>1, PagingMap, RequestType DEF WalkInv, WalkState
<1> HIDE DEF w
<1>4. QED
  BY <1>1, <1>2, <1>3

(* A request for a page taken in the same step.                            *)
LEMMA MapFreshPageEffect ==
  ASSUME IInv, NEW r \in Requests, MapFreshPage(r.va, r.flags)
  PROVE  \/ result' = "refused" /\ UNCHANGED <<mem, allocator, root>>
         \/ \E w, pa : /\ Answer(w) /\ w.ok \in BOOLEAN /\ root' = root
                       /\ pa \in Word
                       /\ Effect(mem, allocator, root, r.va, pa, r.flags, w)
<1> DEFINE answer == physical_alloc_page(allocator)
           p == answer.page
           zeroed == [mem EXCEPT ![p] = paging_zero_table]
           w == paging_map(zeroed, answer.allocator, root, r.va, p, r.flags)
<1>1. /\ root \in Frame \ {0} /\ root' = root
      /\ mem \in Memory /\ allocator \in Allocator
      /\ AllocatorOK(allocator) /\ IsTree(mem, allocator, root)
      /\ IF p = 0 THEN result' = "refused" /\ UNCHANGED <<mem, allocator>>
                  ELSE Answer(w)
  BY DEF IInv, TypeOK, MapFreshPage, Memory, TreeInv, nullptr
<1>2. CASE p = 0
  BY <1>1, <1>2
<1>3. CASE p # 0
  <2>1. /\ p \in Frame /\ WalkInv(w, root)
        /\ Effect(mem, allocator, root, r.va, p, r.flags, w)
    BY <1>1, <1>3, FreshPageEffect, RequestType
  <2> HIDE DEF w, p
  <2>2. w.ok \in BOOLEAN /\ p \in Word
    BY <2>1 DEF WalkInv, WalkState, Frame
  <2>3. QED
    BY <1>1, <1>3, <2>1, <2>2
<1>4. QED
  BY <1>2, <1>3

-----------------------------------------------------------------------------
(* The properties.                                                         *)

OnlyTablesChange ==
  \A f \in Frame : mem'[f] # mem[f] =>
    \/ f \in Tables(mem, root)
    \/ allocator.current <= f /\ f < allocator'.current

LEMMA EffectWritesTables ==
  ASSUME NEW w, NEW va, NEW pa, NEW flags, Answer(w),
         Effect(mem, allocator, root, va, pa, flags, w)
  PROVE  OnlyTablesChange
  BY DEF Effect, Answer, OnlyTablesChange, Taken

LEMMA CreateRootWrites == IInv /\ CreateRoot => OnlyTablesChange
<1> SUFFICES ASSUME IInv, CreateRoot PROVE OnlyTablesChange
  OBVIOUS
<1> DEFINE p == physical_alloc_page(allocator).page
<1>1. /\ allocator \in Allocator /\ AllocatorOK(allocator) /\ mem \in Memory
      /\ allocator' = physical_alloc_page(allocator).allocator
      /\ mem' = IF p = 0 THEN mem ELSE [mem EXCEPT ![p] = paging_zero_table]
  BY DEF IInv, TypeOK, CreateRoot, Memory
<1>2. p # 0 => p = allocator.current /\ allocator'.current = allocator.current + PageSize
  BY <1>1, AllocOnePage DEF AllocatorOK, Allocator
<1>3. allocator.current \in Nat /\ PageSize \in Nat \ {0}
  BY <1>1, SizeAssumption DEF Allocator, Word
<1>4. \A f \in Frame : mem'[f] # mem[f] => p # 0 /\ f = p
  <2> HIDE DEF p
  <2>1. QED
    BY <1>1 DEF Memory
<1>5. QED
  BY <1>2, <1>3, <1>4 DEF OnlyTablesChange

LEMMA StepWrites == IInv /\ [Next]_vars => OnlyTablesChange
<1> SUFFICES ASSUME IInv, [Next]_vars PROVE OnlyTablesChange
  OBVIOUS
<1>1. CASE UNCHANGED vars
  BY <1>1 DEF vars, OnlyTablesChange
<1>2. CASE CreateRoot
  BY <1>2, CreateRootWrites
<1>3. ASSUME NEW r \in Requests, MapPage(r)
      PROVE  OnlyTablesChange
  BY <1>3, MapPageEffect, EffectWritesTables
<1>4. ASSUME NEW r \in Requests, MapFreshPage(r.va, r.flags)
      PROVE  OnlyTablesChange
  <2>1. CASE UNCHANGED <<mem, allocator, root>>
    BY <2>1 DEF OnlyTablesChange
  <2>2. QED
    BY <1>4, <2>1, MapFreshPageEffect, EffectWritesTables
<1>5. QED
  BY <1>1, <1>2, <1>3, <1>4 DEF Next

(* A request writes to page tables and to pages it has itself taken: what  *)
(* the kernel or a program keeps in any other page survives every call of  *)
(* paging_map, and every call that fails.                                  *)
THEOREM RequestsSpareMemory == Spec => OnlyTablesWritten
<1>1. IInv /\ [Next]_vars =>
        [\A f \in Frame : mem'[f] # mem[f] =>
           \/ f \in Tables(mem, root)
           \/ allocator.current <= f /\ f < allocator'.current]_vars
  BY StepWrites DEF OnlyTablesChange
<1>2. QED
  BY <1>1, Inductive, PTL DEF Spec, OnlyTablesWritten

(* The entry that a successful request asked for, as paging_query sees it. *)
LEMMA StepEstablishes ==
  ASSUME IInv, NEW r \in Requests, MapPage(r), result' = "mapped"
  PROVE  paging_query(mem', root, r.va) =
           [ok |-> TRUE, pa |-> r.pa, flags |-> r.flags \cup {"V", "A", "D"}]
<1>1. PICK w : /\ Answer(w) /\ w.ok \in BOOLEAN
               /\ Effect(mem, allocator, root, r.va, r.pa, r.flags, w)
  BY MapPageEffect
<1>2. w.ok /\ mem' = w.mem
  BY <1>1 DEF Answer
<1>3. /\ is_page_aligned(r.va)
      /\ Adds(mem, w.mem, root, vpn(r.va), Leaf(r.pa, r.flags))
  BY <1>1, <1>2 DEF Effect
<1>4. r.va % PageSize = 0 /\ r.pa + 0 = r.pa
  BY <1>3, RequestType, SizeAssumption DEF is_page_aligned, Word
<1>5. /\ is_mapped(mem', root, vpn(r.va))
      /\ entry0(mem', root, vpn(r.va)).page = r.pa
      /\ entry0(mem', root, vpn(r.va)).flags = r.flags \cup {"V", "A", "D"}
  BY <1>2, <1>3 DEF Adds, Leaf
<1>6. QED
  BY <1>4, <1>5 DEF paging_query

(* A request that reports success has mapped its page: a query for the     *)
(* address gives the physical address and the permissions asked for.       *)
THEOREM SuccessMeansMapped == Spec => MapEstablishes
<1>1. IInv /\ [Next]_vars =>
        [\A r \in Requests :
           MapPage(r) /\ result' = "mapped" =>
             paging_query(mem', root, r.va) =
               [ok |-> TRUE, pa |-> r.pa, flags |-> r.flags \cup {"V", "A", "D"}]]_vars
  BY StepEstablishes
<1>2. QED
  BY <1>1, Inductive, PTL DEF Spec, MapEstablishes

-----------------------------------------------------------------------------
(* The refinement of AddressSpace.                                         *)

SpaceOf(m, top) ==
  [t \in {u \in Vpns : is_mapped(m, top, u)} |-> entry0(m, top, t)]

LEMMA SameSpace ==
  ASSUME NEW m, NEW n, NEW top, SameTranslations(m, n, top)
  PROVE  SpaceOf(n, top) = SpaceOf(m, top)
<1>1. {u \in Vpns : is_mapped(n, top, u)} = {u \in Vpns : is_mapped(m, top, u)}
  BY DEF SameTranslations, SameAt
<1>2. \A t \in {u \in Vpns : is_mapped(m, top, u)} : entry0(n, top, t) = entry0(m, top, t)
  BY DEF SameTranslations, SameAt
<1>3. QED
  BY <1>1, <1>2 DEF SpaceOf

LEMMA LargerSpace ==
  ASSUME NEW m, NEW n, NEW top, NEW t \in Vpns, NEW pte, Adds(m, n, top, t, pte)
  PROVE  /\ t \notin DOMAIN SpaceOf(m, top)
         /\ DOMAIN SpaceOf(n, top) = DOMAIN SpaceOf(m, top) \cup {t}
         /\ SpaceOf(n, top)[t] = pte
         /\ \A u \in DOMAIN SpaceOf(m, top) : SpaceOf(n, top)[u] = SpaceOf(m, top)[u]
<1>1. /\ DOMAIN SpaceOf(m, top) = {u \in Vpns : is_mapped(m, top, u)}
      /\ DOMAIN SpaceOf(n, top) = {u \in Vpns : is_mapped(n, top, u)}
      /\ \A u \in Vpns : is_mapped(m, top, u) => SpaceOf(m, top)[u] = entry0(m, top, u)
      /\ \A u \in Vpns : is_mapped(n, top, u) => SpaceOf(n, top)[u] = entry0(n, top, u)
  BY DEF SpaceOf
<1>2. QED
  BY <1>1 DEF Adds, SameAt

(* A call of paging_map is a step of the address space.                    *)
LEMMA EffectIsAbstract ==
  ASSUME NEW w, NEW va \in Word, NEW pa \in Word, NEW flags \in SUBSET Flags,
         flags \cap Permissions # {}, w.ok \in BOOLEAN, Answer(w), root' = root,
         Effect(mem, allocator, root, va, pa, flags, w)
  PROVE  Abstract!Next
<1>1. /\ Space = SpaceOf(mem, root) /\ Space' = SpaceOf(w.mem, root)
      /\ result' = IF w.ok THEN "mapped" ELSE "refused"
  BY DEF Space, SpaceOf, Answer
<1>2. vpn(va) \in Vpns
  BY VpnType DEF vpn, Vpns
<1>3. CASE w.ok
  <2>1. /\ is_page_aligned(pa)
        /\ Adds(mem, w.mem, root, vpn(va), Leaf(pa, flags))
    BY <1>3 DEF Effect
  <2>2. Leaf(pa, flags) \in PTE
    BY <2>1, LeafType
  <2>3. /\ vpn(va) \notin DOMAIN SpaceOf(mem, root)
        /\ DOMAIN SpaceOf(w.mem, root) = DOMAIN SpaceOf(mem, root) \cup {vpn(va)}
        /\ SpaceOf(w.mem, root)[vpn(va)] = Leaf(pa, flags)
        /\ \A u \in DOMAIN SpaceOf(mem, root) :
             SpaceOf(w.mem, root)[u] = SpaceOf(mem, root)[u]
    BY <1>2, <2>1, LargerSpace
  <2>4. Abstract!MapPage(vpn(va))
    BY <1>1, <1>3, <2>2, <2>3 DEF Abstract!MapPage
  <2>5. QED
    BY <1>2, <2>4 DEF Abstract!Next
<1>4. CASE ~w.ok
  <2>1. SameTranslations(mem, w.mem, root)
    BY <1>4 DEF Effect
  <2>2. Abstract!Refuse
    BY <1>1, <1>4, <2>1, SameSpace DEF Abstract!Refuse
  <2>3. QED
    BY <2>2 DEF Abstract!Next
<1>5. QED
  BY <1>3, <1>4

(* Creating the root maps nothing.                                         *)
LEMMA CreateRootIsStutter == IInv /\ CreateRoot => UNCHANGED <<Space, result>>
<1> SUFFICES ASSUME IInv, CreateRoot PROVE UNCHANGED <<Space, result>>
  OBVIOUS
<1> DEFINE p == physical_alloc_page(allocator).page
<1>1. /\ allocator \in Allocator /\ AllocatorOK(allocator) /\ mem \in Memory
      /\ root = nullptr /\ root' = p /\ result' = result
      /\ mem' = IF p = 0 THEN mem ELSE [mem EXCEPT ![p] = paging_zero_table]
  BY DEF IInv, TypeOK, CreateRoot, Memory
<1>2. ASSUME NEW t \in Vpns
      PROVE  ~is_mapped(mem, root, t) /\ ~is_mapped(mem', root', t)
  <2>1. CASE p = 0
    BY <1>1, <2>1, NoTables DEF nullptr
  <2>2. CASE p # 0
    <3>1. p \in Frame \ {0} /\ IsOwned(physical_alloc_page(allocator).allocator, p)
      BY <1>1, <2>2, Fresh
    <3>2. \A k \in Idx : mem'[p][k] = NoEntry
      <4> HIDE DEF p
      <4>1. QED
        BY <1>1, <2>2, <3>1, Zero
    <3>3. QED
      BY <1>1, <3>1, <3>2, NoTables, EmptyRoot
  <2>3. QED
    BY <2>1, <2>2
<1>3. /\ Space = [t \in {} |-> entry0(mem, root, t)]
      /\ Space' = [t \in {} |-> entry0(mem', root', t)]
  <2>1. /\ {u \in Vpns : is_mapped(mem, root, u)} = {}
        /\ {u \in Vpns : is_mapped(mem', root', u)} = {}
    BY <1>2
  <2>2. QED
    BY <2>1 DEF Space
<1>4. QED
  BY <1>1, <1>3

LEMMA StepIsAbstract == IInv /\ [Next]_vars => [Abstract!Next]_(Abstract!avars)
<1> SUFFICES ASSUME IInv, [Next]_vars PROVE [Abstract!Next]_(Abstract!avars)
  OBVIOUS
<1>1. CASE UNCHANGED vars
  BY <1>1 DEF vars, Space, Abstract!avars
<1>2. CASE CreateRoot
  BY <1>2, CreateRootIsStutter DEF Abstract!avars
<1>3. ASSUME NEW r \in Requests, MapPage(r)
      PROVE  Abstract!Next
  BY <1>3, MapPageEffect, EffectIsAbstract, RequestType
<1>4. ASSUME NEW r \in Requests, MapFreshPage(r.va, r.flags)
      PROVE  Abstract!Next
  <2>1. CASE result' = "refused" /\ UNCHANGED <<mem, allocator, root>>
    BY <2>1 DEF Space, Abstract!Next, Abstract!Refuse
  <2>2. QED
    BY <1>4, <2>1, MapFreshPageEffect, EffectIsAbstract, RequestType
<1>5. QED
  BY <1>1, <1>2, <1>3, <1>4 DEF Next

(* The page tables implement an address space: a request that reports      *)
(* success adds exactly one mapping, and any other, one that allocated     *)
(* tables before it failed included, changes no translation.               *)
THEOREM TablesAreAnAddressSpace == Spec => ImplementsAddressSpace
<1>1. Init => Abstract!Init
  <2> SUFFICES ASSUME Init PROVE Abstract!Init
    OBVIOUS
  <2>1. {u \in Vpns : is_mapped(mem, root, u)} = {} /\ result = "none"
    BY DEF Init, is_mapped
  <2>2. QED
    BY <2>1 DEF Space, Abstract!Init
<1>2. QED
  BY <1>1, StepIsAbstract, Inductive, PTL DEF Spec, ImplementsAddressSpace, Abstract!Spec
=============================================================================
