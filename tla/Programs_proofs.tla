--------------------------- MODULE Programs_proofs ---------------------------
EXTENDS FdtWriter, ByteMoves, CheckedBlob, SequenceTheorems, FiniteSetTheorems,
        WellFoundedInduction, TLAPS

(***************************************************************************)
(* The program that moves bytes.                                           *)
(***************************************************************************)
(* The addresses already written.                                          *)
DoneBytes(c) == IF forward(c) THEN c.dest .. c.dest + c.i - 1
              ELSE c.dest + c.i .. c.dest + c.n - 1

Progress(c) ==
  /\ c \in Call /\ InMemory(c) /\ c.i <= c.n
  /\ c.function = "memcpy" => Disjoint(c)
  /\ \A a \in Address :
       c.now[a] = IF a \in DoneBytes(c) THEN c.old[c.src + (a - c.dest)] ELSE c.old[a]

(* The loop has reached nothing when it starts.                            *)
LEMMA ProgressAtFirst == MoveInit => Progress(b)
BY DEF MoveInit, Entered, Progress, DoneBytes, forward, Call, Memory, InMemory, Disjoint

(* One byte more, upwards.                                                 *)
LEMMA ProgressUp == Progress(b) /\ CopyUp => Progress(b)'
<1> SUFFICES ASSUME Progress(b), CopyUp PROVE Progress(b')
  OBVIOUS
<1> DEFINE to == b.dest + b.i
           from == b.src + b.i
<1>1. /\ b \in Call /\ to \in Address /\ from \in Address
      /\ b.i \in Nat /\ b.dest \in Nat /\ b.src \in Nat /\ b.n \in Nat
  BY DEF Progress, CopyUp, Call, InMemory
<1>2. /\ b' = [b EXCEPT !.now = [b.now EXCEPT ![to] = b.now[from]],
                              !.i = b.i + 1]
      /\ forward(b) /\ b.i < b.n
  BY DEF CopyUp, Copied
<1>3. /\ b'.function = b.function /\ b'.old = b.old
      /\ b'.dest = b.dest /\ b'.src = b.src /\ b'.n = b.n
      /\ b'.i = b.i + 1
      /\ b'.now = [b.now EXCEPT ![to] = b.now[from]]
  BY <1>1, <1>2 DEF Call
<1>4. /\ b' \in Call /\ forward(b')
  <2>1. [b.now EXCEPT ![to] = b.now[from]] \in Memory /\ b.i + 1 \in Nat
    BY <1>1 DEF Call, Memory
  <2>2. b' \in Call
    BY <1>1, <1>2, <2>1 DEF Call
  <2>3. forward(b')
    BY <1>2, <1>3 DEF forward
  <2> QED BY <2>2, <2>3
<1>5. from \notin DoneBytes(b)
  BY <1>1, <1>2 DEF Progress, DoneBytes, forward, Disjoint
<1>6. b.now[from] = b.old[from]
  BY <1>1, <1>5 DEF Progress
<1>7. ASSUME NEW a \in Address
      PROVE  b'.now[a] = IF a \in DoneBytes(b') THEN b'.old[b'.src + (a - b'.dest)]
                            ELSE b'.old[a]
  <2>1. CASE a = to
    <3>1. b'.now[a] = b.old[from]
      BY <1>1, <1>3, <1>6, <2>1 DEF Call, Memory
    <3>2. a \in DoneBytes(b') /\ b'.src + (a - b'.dest) = from
      BY <1>1, <1>3, <1>4, <2>1 DEF DoneBytes
    <3> QED BY <1>3, <3>1, <3>2
  <2>2. CASE a # to
    <3>1. b'.now[a] = b.now[a]
      BY <1>1, <1>3, <2>2 DEF Call, Memory
    <3>2. a \in DoneBytes(b') <=> a \in DoneBytes(b)
      BY <1>1, <1>2, <1>3, <1>4, <2>2 DEF DoneBytes
    <3> QED BY <1>3, <3>1, <3>2 DEF Progress
  <2> QED BY <2>1, <2>2
<1> QED
  BY <1>1, <1>2, <1>3, <1>4, <1>7 DEF Progress, InMemory, Disjoint

(* One byte more, downwards.                                              *)
LEMMA ProgressDown == Progress(b) /\ CopyDown => Progress(b)'
<1> SUFFICES ASSUME Progress(b), CopyDown PROVE Progress(b')
  OBVIOUS
<1> DEFINE k == b.i - 1
           to == b.dest + k
           from == b.src + k
<1>1. /\ b \in Call /\ k \in Nat /\ to \in Address /\ from \in Address
      /\ b.i \in Nat /\ b.dest \in Nat /\ b.src \in Nat /\ b.n \in Nat
  BY DEF Progress, CopyDown, Call, InMemory
<1>2. /\ b' = [b EXCEPT !.now = [b.now EXCEPT ![to] = b.now[from]],
                              !.i = b.i - 1]
      /\ ~forward(b) /\ b.i # 0
  BY DEF CopyDown, Copied
<1>3. /\ b'.function = b.function /\ b'.old = b.old
      /\ b'.dest = b.dest /\ b'.src = b.src /\ b'.n = b.n
      /\ b'.i = k
      /\ b'.now = [b.now EXCEPT ![to] = b.now[from]]
  BY <1>1, <1>2 DEF Call
<1>4. /\ b' \in Call /\ ~forward(b')
  <2>1. [b.now EXCEPT ![to] = b.now[from]] \in Memory /\ k \in Nat
    BY <1>1 DEF Call, Memory
  <2>2. b' \in Call
    BY <1>1, <1>2, <2>1 DEF Call
  <2>3. ~forward(b')
    BY <1>2, <1>3 DEF forward
  <2> QED BY <2>2, <2>3
<1>5. from \notin DoneBytes(b)
  BY <1>1, <1>2 DEF Progress, DoneBytes, forward
<1>6. b.now[from] = b.old[from]
  BY <1>1, <1>5 DEF Progress
<1>7. ASSUME NEW a \in Address
      PROVE  b'.now[a] = IF a \in DoneBytes(b') THEN b'.old[b'.src + (a - b'.dest)]
                            ELSE b'.old[a]
  <2>1. CASE a = to
    <3>1. b'.now[a] = b.old[from]
      BY <1>1, <1>3, <1>6, <2>1 DEF Call, Memory
    <3>2. a \in DoneBytes(b') /\ b'.src + (a - b'.dest) = from
      BY <1>1, <1>3, <1>4, <2>1 DEF DoneBytes, Progress
    <3> QED BY <1>3, <3>1, <3>2
  <2>2. CASE a # to
    <3>1. b'.now[a] = b.now[a]
      BY <1>1, <1>3, <2>2 DEF Call, Memory
    <3>2. a \in DoneBytes(b') <=> a \in DoneBytes(b)
      BY <1>1, <1>2, <1>3, <1>4, <2>2 DEF DoneBytes
    <3> QED BY <1>3, <3>1, <3>2 DEF Progress
  <2> QED BY <2>1, <2>2
<1> QED
  BY <1>1, <1>2, <1>3, <1>4, <1>7 DEF Progress, InMemory, Disjoint

(* At the end the loop has reached the whole destination.                  *)
LEMMA ProgressAtLast == Progress(b) => MovesAreExact
<1> SUFFICES ASSUME Progress(b), Returned PROVE Moved(b)
  BY DEF MovesAreExact
<1>1. b.dest \in Nat /\ b.n \in Nat
  BY DEF Progress, Call
<1>2. DoneBytes(b) = b.dest .. b.dest + b.n - 1
  BY <1>1 DEF Returned, DoneBytes
<1> QED
  BY <1>2 DEF Progress, Moved

(* memmove and memcpy leave in the destination what was in the source when *)
(* they were called, and everything else alone, whichever way they copy.   *)
THEOREM MoveIsExact == MoverSpec => []MovesAreExact
<1> DEFINE Inv == Moving => Progress(b)
           Step == /\ Moving => MoveNext /\ UNCHANGED <<program, count>>
                   /\ Moving' => Moving
<1>1. (Moving => MoveInit) => Inv
  BY ProgressAtFirst
<1>2. Inv /\ [Step]_vars => Inv'
  <2>1. Inv /\ UNCHANGED vars => Inv'
    BY DEF vars, Moving
  <2>2. Inv /\ Step => Inv'
    <3> SUFFICES ASSUME Inv, Step, Moving' PROVE Progress(b)'
      OBVIOUS
    <3>1. Progress(b) /\ (CopyUp \/ CopyDown)
      BY DEF MoveNext
    <3> QED BY <3>1, ProgressUp, ProgressDown
  <2> QED BY <2>1, <2>2
<1>3. Inv => MovesAreExact
  BY ProgressAtLast DEF MovesAreExact
<1> HIDE DEF Inv
<1> QED BY <1>1, <1>2, <1>3, PTL DEF MoverSpec

(***************************************************************************)
(* The program that writes a device tree.                                  *)
(***************************************************************************)

(***************************************************************************)
(* Induction, without a predicate as a parameter: a set of numbers that is *)
(* not empty has a least element.                                          *)
(***************************************************************************)
Before == {s \in Nat \X Nat : s[1] < s[2]}

LEMMA BeforeIsWellFounded == IsWellFoundedOn(Before, Nat)
<1>1. OpToRel(<, Nat) = Before
  BY DEF OpToRel, Before
<1> QED BY <1>1, NatLessThanWellFounded

LEMMA Least == ASSUME NEW T \in SUBSET Nat, NEW n \in T
               PROVE  \E m \in T : \A k \in T : m <= k
<1>1. T \subseteq Nat /\ T # {}
  OBVIOUS
<1>2. PICK m \in T : \A k \in T : <<k, m>> \notin Before
  BY <1>1, BeforeIsWellFounded, WFMin
<1>3. \A k \in T : k \in Nat /\ m \in Nat /\ (m <= k \/ <<k, m>> \in Before)
  BY DEF Before
<1> QED BY <1>2, <1>3

(* A definition by recursion over a rank defines a function.  D gives the  *)
(* value at x from the function itself, of which it uses only values of    *)
(* lower rank.                                                             *)
Agree(g, h, S, rank, x) == \A y \in S : rank[y] < rank[x] => g[y] = h[y]

Recurses(S, V, D, N, rank) ==
  /\ D \in [S -> [[S -> V] -> V]] /\ rank \in [S -> 0 .. N]
  /\ \A x \in S : \A g, h \in [S -> V] : Agree(g, h, S, rank, x) => D[x][g] = D[x][h]
Solves(S, V, D, f) == f \in [S -> V] /\ \A x \in S : f[x] = D[x][f]

LEMMA Recursion ==
  ASSUME NEW S, NEW V, NEW v \in V, NEW D, NEW N \in Nat, NEW rank,
         Recurses(S, V, D, N, rank)
  PROVE  \E f : Solves(S, V, D, f)
<1> USE DEF Recurses
<1> DEFINE Good(n) == {f \in [S -> V] : \A x \in S : rank[x] < n => f[x] = D[x][f]}
           T == {n \in Nat : Good(n) = {}}
<1>1. Good(0) # {}
  <2>1. [x \in S |-> v] \in Good(0)
    OBVIOUS
  <2> QED BY <2>1
<1>2. \A n \in Nat : Good(n) # {} => Good(n + 1) # {}
  <2> SUFFICES ASSUME NEW n \in Nat, NEW f \in Good(n) PROVE Good(n + 1) # {}
    OBVIOUS
  <2> DEFINE h == [x \in S |-> D[x][f]]
  <2>1. f \in [S -> V] /\ \A x \in S : rank[x] < n => f[x] = D[x][f]
    OBVIOUS
  <2>2. h \in [S -> V] /\ \A x \in S : h[x] = D[x][f]
    OBVIOUS
  <2> HIDE DEF h, Good
  <2>3. ASSUME NEW x \in S, rank[x] < n + 1 PROVE h[x] = D[x][h]
    <3>1. \A y \in S : rank[y] \in Int
      OBVIOUS
    <3>2. Agree(f, h, S, rank, x)
      BY <2>1, <2>2, <2>3, <3>1 DEF Agree
    <3> QED BY <2>1, <2>2, <3>2
  <2>4. h \in Good(n + 1)
    BY <2>2, <2>3 DEF Good
  <2> QED BY <2>4
<1> HIDE DEF Good
<1>3. T = {}
  <2> SUFFICES ASSUME NEW n \in T PROVE FALSE
    OBVIOUS
  <2>1. PICK m \in T : \A k \in T : m <= k
    <3>1. T \in SUBSET Nat
      OBVIOUS
    <3> HIDE DEF T
    <3> QED BY <3>1, Least
  <2>2. m \in Nat /\ m # 0 /\ Good(m) = {}
    BY <1>1
  <2>3. m - 1 \in Nat /\ m - 1 \notin T
    <3>1. m - 1 \in Nat /\ ~(m <= m - 1)
      BY <2>2
    <3> HIDE DEF T
    <3> QED BY <2>1, <3>1
  <2> QED BY <1>2, <2>2, <2>3
<1>4. PICK f \in Good(N + 1) : TRUE
  <2>1. N + 1 \in Nat
    OBVIOUS
  <2> QED BY <1>3, <2>1
<1>5. f \in [S -> V] /\ \A x \in S : f[x] = D[x][f]
  BY <1>4 DEF Good
<1> QED BY <1>5 DEF Solves

(***************************************************************************)
(* Words, cells and alignment.                                             *)
(***************************************************************************)
Letter == Octet \ {0}

LEMMA OctetIs == ASSUME NEW x \in Int PROVE /\ x \in Octet <=> 0 <= x /\ x <= 255
                                           /\ x \in Letter <=> 0 < x /\ x <= 255
BY DEF Octet, Letter

LEMMA OctetFacts == ASSUME NEW x \in Octet PROVE x \in Int /\ 0 <= x /\ x <= 255
BY DEF Octet

LEMMA WordFacts ==
  /\ Cell \in Nat /\ (Cell = 2 \/ Cell = 4)
  /\ WordSize \in Nat /\ INT_MAX \in Nat /\ WordSize = 2 * INT_MAX + 2 /\ INT_MAX >= 32767
BY CellAssumption DEF WordSize, INT_MAX

LEMMA CellFacts ==
  /\ Cell \in Nat /\ Cell >= 2 /\ Cell <= 4 /\ Cell > 0
  /\ 2 * Cell \in Nat /\ 2 * Cell = Cell + Cell
  /\ 3 * Cell \in Nat /\ 3 * Cell = Cell + Cell + Cell
BY CellAssumption

LEMMA CellPos == Cell \in Nat /\ Cell > 0 /\ Cell >= 2
BY CellAssumption

LEMMA ModFacts ==
  ASSUME NEW x \in Int, NEW w \in Int, w > 0
  PROVE  /\ x % w \in 0 .. w - 1
         /\ x >= 0 /\ x < w => x % w = x
         /\ x < 0 /\ x + w >= 0 => x % w = x + w
         /\ x >= w /\ x < 2 * w => x % w = x - w
BY SMT

LEMMA WrapFacts ==
  ASSUME NEW x \in Int
  PROVE  /\ Wrap(x) \in Word
         /\ x \in Word => Wrap(x) = x
         /\ x < 0 /\ x + WordSize >= 0 => Wrap(x) = x + WordSize
         /\ x >= WordSize /\ x < 2 * WordSize => Wrap(x) = x - WordSize
<1>1. WordSize \in Int /\ WordSize > 0
  BY WordFacts
<1> QED BY <1>1, ModFacts DEF Wrap, Word

LEMMA WordIs == ASSUME NEW x \in Int PROVE x \in Word <=> 0 <= x /\ x < WordSize
BY WordFacts DEF Word

LEMMA SignedFacts ==
  ASSUME NEW x \in -INT_MAX .. INT_MAX PROVE Signed(Wrap(x)) = x
<1>1. x \in Int /\ (x >= 0 => x \in Word) /\ (x < 0 => x + WordSize >= 0)
  BY WordFacts DEF Word
<1>2. x >= 0 => Wrap(x) = x
  BY <1>1, WrapFacts
<1>3. x < 0 => Wrap(x) = x + WordSize
  BY <1>1, WrapFacts
<1> QED BY <1>1, <1>2, <1>3, WordFacts DEF Signed

LEMMA AlignFacts ==
  ASSUME NEW x \in Nat
  PROVE  /\ FDT_TAGALIGN(x) \in Nat /\ FDT_TAGALIGN(x) % Cell = 0
         /\ x <= FDT_TAGALIGN(x) /\ FDT_TAGALIGN(x) < x + Cell
         /\ \A o \in Nat : o % Cell = 0 => FDT_TAGALIGN(o + x) = o + FDT_TAGALIGN(x)
<1>1. CASE Cell = 2
  BY <1>1 DEF FDT_TAGALIGN, FDT_ALIGN
<1>2. CASE Cell = 4
  BY <1>2 DEF FDT_TAGALIGN, FDT_ALIGN
<1> QED BY <1>1, <1>2, CellAssumption

LEMMA CellSums ==
  ASSUME NEW x \in Int, NEW y \in Int, x % Cell = 0, y % Cell = 0
  PROVE  (x + y) % Cell = 0 /\ (x + Cell) % Cell = 0 /\ Cell % Cell = 0
<1>1. CASE Cell = 2
  BY <1>1
<1>2. CASE Cell = 4
  BY <1>2
<1> QED BY <1>1, <1>2, CellAssumption

(* What is stored as a cell is loaded again.                               *)
Low(v) == v % 256
Up(v)  == v \div 256

LEMMA Digits ==
  ASSUME NEW v \in Nat
  PROVE  /\ Low(v) \in Octet /\ Up(v) \in Nat /\ 256 * Up(v) + Low(v) = v
         /\ v < 256 => Low(v) = v
         /\ \A m \in Nat : v < 256 * m => Up(v) < m
<1>1. PICK l \in Nat, u \in Nat : l = Low(v) /\ u = Up(v) /\ 256 * u + l = v /\ l <= 255
  BY DEF Low, Up
<1>2. v < 256 => v % 256 = v
  BY SMT
<1>3. \A m \in Nat : v < 256 * m => u < m
  BY <1>1
<1> QED BY <1>1, <1>2, <1>3 DEF Octet, Low

LEMMA CellBytesAre ==
  ASSUME NEW v
  PROVE  /\ Cell = 2 => CellBytes(v) = <<Low(Up(v)), Low(v)>>
         /\ Cell = 4 => CellBytes(v) = <<Low(Up(Up(Up(v)))), Low(Up(Up(v))), Low(Up(v)), Low(v)>>
<1>1. 4 # 2
  OBVIOUS
<1> QED BY <1>1, ZenonT(40) DEF CellBytes, Low, Up

LEMMA CellSum ==
  ASSUME NEW s
  PROVE  /\ Cell = 2 => CellOf(s) = 256 * s[1] + s[2]
         /\ Cell = 4 => CellOf(s) = 256 * (256 * (256 * s[1] + s[2]) + s[3]) + s[4]
<1>1. 4 # 2
  OBVIOUS
<1> QED BY <1>1, Zenon DEF CellOf

LEMMA WordSizeIs ==
  /\ Cell = 2 => WordSize = 256 * 256
  /\ Cell = 4 => WordSize = 256 * (256 * (256 * 256))
BY SMT DEF WordSize

LEMMA TupleFacts ==
  ASSUME NEW S, NEW p \in S, NEW q \in S, NEW r \in S, NEW s \in S
  PROVE  /\ <<p, q>> \in Seq(S) /\ Len(<<p, q>>) = 2
         /\ <<p, q, r, s>> \in Seq(S) /\ Len(<<p, q, r, s>>) = 4
OBVIOUS

LEMMA CellBytesFacts ==
  ASSUME NEW v \in Nat
  PROVE  CellBytes(v) \in Seq(Octet) /\ Len(CellBytes(v)) = Cell
<1> DEFINE u == Up(v)  w == Up(u)  x == Up(w)
<1>1. u \in Nat /\ w \in Nat /\ x \in Nat
  BY Digits
<1> HIDE DEF u, w, x
<1>2. Low(v) \in Octet /\ Low(u) \in Octet /\ Low(w) \in Octet /\ Low(x) \in Octet
  BY <1>1, Digits
<1>3. CASE Cell = 2
  <2>1. CellBytes(v) = <<Low(u), Low(v)>>
    BY <1>3, CellBytesAre DEF u
  <2> QED BY <1>2, <1>3, <2>1, TupleFacts
<1>4. CASE Cell = 4
  <2>1. CellBytes(v) = <<Low(x), Low(w), Low(u), Low(v)>>
    BY <1>4, CellBytesAre DEF u, w, x
  <2> QED BY <1>2, <1>4, <2>1, TupleFacts
<1> QED BY <1>3, <1>4, CellAssumption

LEMMA CellRead ==
  ASSUME NEW v \in Word PROVE CellOf(CellBytes(v)) = v
<1> DEFINE u == Up(v)  w == Up(u)  x == Up(w)
<1>1. v \in Nat /\ v < WordSize
  BY WordFacts DEF Word
<1>2. u \in Nat /\ w \in Nat /\ x \in Nat
  BY <1>1, Digits
<1>3. /\ 256 * u + Low(v) = v /\ 256 * w + Low(u) = u /\ 256 * x + Low(w) = w
      /\ Low(v) \in Octet /\ Low(u) \in Octet /\ Low(w) \in Octet
  BY <1>1, <1>2, Digits
<1>4. CASE Cell = 2
  <2>1. v < 256 * 256 /\ 256 \in Nat
    BY <1>1, <1>4, WordSizeIs
  <2>2. Low(u) = u
    <3>1. u < 256
      BY <1>1, <2>1, Digits
    <3> QED BY <1>2, <3>1, Digits
  <2>3. CellBytes(v) = <<Low(u), Low(v)>>
    BY <1>4, CellBytesAre
  <2> HIDE DEF u
  <2>4. CellOf(CellBytes(v)) = 256 * u + Low(v)
    BY <1>4, <2>2, <2>3, CellSum
  <2> QED BY <1>3, <2>4
<1>5. CASE Cell = 4
  <2>1. v < 256 * (256 * (256 * 256)) /\ 256 * (256 * 256) \in Nat
    BY <1>1, <1>5, WordSizeIs
  <2>2. u < 256 * (256 * 256) /\ 256 * 256 \in Nat
    BY <1>1, <2>1, Digits
  <2>3. w < 256 * 256 /\ 256 \in Nat
    BY <1>2, <2>2, Digits
  <2>4. x < 256
    BY <1>2, <2>3, Digits
  <2>5. Low(x) = x
    BY <1>2, <2>4, Digits
  <2>6. CellBytes(v) = <<Low(x), Low(w), Low(u), Low(v)>>
    BY <1>5, CellBytesAre
  <2> HIDE DEF u, w, x
  <2>7. CellOf(CellBytes(v)) = 256 * (256 * (256 * x + Low(w)) + Low(u)) + Low(v)
    BY <1>5, <2>5, <2>6, CellSum
  <2> QED BY <1>3, <2>7
<1> QED BY <1>4, <1>5, CellAssumption

LEMMA LoadStored ==
  ASSUME NEW c, NEW p \in Int, NEW v \in Word,
         \A i \in 1 .. Cell : Byte(c, p + i - 1) = CellBytes(v)[i]
  PROVE  LoadCell(c, p) = v
<1>1. CellBytes(v) \in Seq(Octet) /\ Len(CellBytes(v)) = Cell
  BY CellBytesFacts DEF Word
<1>2. Bytes(c, p, Cell) = CellBytes(v)
  BY <1>1 DEF Bytes
<1> QED BY <1>2, CellRead DEF LoadCell

LEMMA LoadSame ==
  ASSUME NEW c, NEW d, NEW p \in Int, NEW q \in Int,
         \A i \in 0 .. Cell - 1 : Byte(d, q + i) = Byte(c, p + i)
  PROVE  LoadCell(d, q) = LoadCell(c, p)
<1>1. \A i \in 1 .. Cell : i - 1 \in 0 .. Cell - 1 /\ q + i - 1 = q + (i - 1) /\ p + i - 1 = p + (i - 1)
  BY WordFacts
<1>2. Bytes(d, q, Cell) = Bytes(c, p, Cell)
  BY <1>1 DEF Bytes
<1> QED BY <1>2 DEF LoadCell

LEMMA LoadIsWord ==
  ASSUME NEW c, NEW p \in Int, \A i \in 0 .. Cell - 1 : Byte(c, p + i) \in Octet
  PROVE  LoadCell(c, p) \in Word
<1> DEFINE s == Bytes(c, p, Cell)
<1>1. \A i \in 1 .. Cell : s[i] \in Octet
  <2> TAKE i \in 1 .. Cell
  <2>1. i - 1 \in 0 .. Cell - 1 /\ p + i - 1 = p + (i - 1)
    BY WordFacts
  <2> QED BY <2>1 DEF Bytes
<1> HIDE DEF s
<1>0. LoadCell(c, p) = CellOf(s)
  BY DEF LoadCell, s
<1>2. CASE Cell = 2
  <2>1. PICK s1 \in Octet, s2 \in Octet : s1 = s[1] /\ s2 = s[2]
    BY <1>1, <1>2
  <2>2. WordSize = 256 * 256 /\ CellOf(s) = 256 * s1 + s2
    BY <1>2, <2>1, CellSum DEF WordSize
  <2>3. 256 * s1 + s2 \in Int /\ 0 <= 256 * s1 + s2 /\ 256 * s1 + s2 < 256 * 256
    BY OctetFacts
  <2> QED BY <1>0, <2>2, <2>3, WordIs
<1>3. CASE Cell = 4
  <2>1. PICK s1 \in Octet, s2 \in Octet, s3 \in Octet, s4 \in Octet :
          s1 = s[1] /\ s2 = s[2] /\ s3 = s[3] /\ s4 = s[4]
    BY <1>1, <1>3
  <2>2. CellOf(s) = 256 * (256 * (256 * s1 + s2) + s3) + s4
    BY <1>3, <2>1, CellSum
  <2> DEFINE v == 256 * (256 * (256 * s1 + s2) + s3) + s4
  <2>3. v \in Int /\ 0 <= v /\ v < 256 * (256 * (256 * 256))
    BY OctetFacts
  <2>4. WordSize = 256 * (256 * (256 * 256))
    BY <1>3, SMT DEF WordSize
  <2>5. LoadCell(c, p) = v
    BY <1>0, <2>2
  <2> HIDE DEF v
  <2> QED BY <2>3, <2>4, <2>5, WordIs
<1> QED BY <1>2, <1>3, CellAssumption

(* A string and its NUL.                                                   *)
HoldsString(c, at, s) ==
  /\ \A i \in 1 .. Len(s) : Byte(c, at + i - 1) = s[i]
  /\ Byte(c, at + Len(s)) = 0

LEMMA StringRead ==
  ASSUME NEW c, NEW at \in Int, NEW s \in Seq(Letter), HoldsString(c, at, s),
         c.totalsize \in Nat, Len(s) <= c.totalsize
  PROVE  CString(c, at) = s
<1> DEFINE IsNul(p) == Byte(c, p) = 0 /\ \A q \in at .. p - 1 : Byte(c, q) # 0
           nul == CHOOSE p \in at .. at + c.totalsize : IsNul(p)
           e == at + Len(s)
<1>1. e \in at .. at + c.totalsize /\ Len(s) \in Nat
  OBVIOUS
<1>2. \A q \in at .. e - 1 : Byte(c, q) # 0
  <2> TAKE q \in at .. e - 1
  <2>1. q - at + 1 \in 1 .. Len(s) /\ at + (q - at + 1) - 1 = q
    OBVIOUS
  <2>2. s[q - at + 1] # 0
    <3>1. s[q - at + 1] \in Letter
      BY <2>1, ElementOfSeq
    <3> QED BY <3>1 DEF Letter
  <2>3. Byte(c, q) = s[q - at + 1]
    BY <2>1 DEF HoldsString
  <2> QED BY <2>2, <2>3
<1>3. IsNul(e)
  BY <1>2 DEF HoldsString
<1>4. nul \in at .. at + c.totalsize /\ IsNul(nul)
  <2> HIDE DEF IsNul
  <2> QED BY <1>1, <1>3
<1>5. nul = e
  BY <1>1, <1>2, <1>3, <1>4
<1>6. CString(c, at) = Bytes(c, at, Len(s))
  <2>1. CString(c, at) = Bytes(c, at, nul - at)
    BY DEF CString
  <2> HIDE DEF nul
  <2> QED BY <1>1, <1>5, <2>1
<1>7. Bytes(c, at, Len(s)) = s
  BY DEF Bytes, HoldsString
<1> QED BY <1>6, <1>7

(***************************************************************************)
(* What a blob holds is defined for every blob whose structure block lies  *)
(* in it.                                                                  *)
(***************************************************************************)
Sound(c, m) ==
  /\ c \in BlobsIn(m) /\ c.off_dt_struct \in Nat /\ c.totalsize \in Nat
  /\ StructStop(c) \in Nat /\ StructStop(c) <= c.totalsize

Kinds == {"begin", "prop", "end", "bad"}
Tokened == [tag : Kinds, name : Seq(Octet), val : Seq(Octet), at : Int]

LEMMA BlobFacts ==
  ASSUME NEW m, NEW c \in BlobsIn(m)
  PROVE  /\ c.addr \in Int /\ c.totalsize \in Nat /\ c.off_dt_struct \in Nat
         /\ c.size_dt_struct \in Nat /\ c.off_dt_strings \in Nat /\ c.size_dt_strings \in Nat
         /\ c.version \in Nat /\ c.last_comp_version \in Nat /\ c.off_mem_rsvmap \in Nat
         /\ c.bytes \in [m -> Octet] /\ MemoryOf(c) = m
         /\ \A i \in 0 .. c.totalsize - 1 : i \in m /\ Byte(c, i) \in Octet
<1>1. c.totalsize \in Word /\ c.bytes \in [m -> Octet] /\ 0 .. c.totalsize - 1 \subseteq m
  BY DEF BlobsIn, BlobsOver
<1>2. \A i \in 0 .. c.totalsize - 1 : i \in m /\ Byte(c, i) \in Octet
  BY <1>1 DEF Byte
<1>3. Word \subseteq Nat
  BY CellFacts DEF Word
<1> QED BY <1>1, <1>2, <1>3 DEF BlobsIn, BlobsOver, MemoryOf

LEMMA BytesTyped ==
  ASSUME NEW m, NEW c \in BlobsIn(m), NEW at \in Nat, NEW n \in Nat, at + n <= c.totalsize
  PROVE  Bytes(c, at, n) \in Seq(Octet) /\ Len(Bytes(c, at, n)) = n
<1>1. ASSUME NEW i \in 1 .. n PROVE Byte(c, at + i - 1) \in Octet
  <2>1. at + i - 1 \in 0 .. c.totalsize - 1
    BY BlobFacts
  <2> QED BY <2>1, BlobFacts
<1> QED BY <1>1 DEF Bytes

LEMMA CStringTyped ==
  ASSUME NEW m, NEW c \in BlobsIn(m), NEW at \in Nat, NEW end \in Nat, end <= c.totalsize,
         HasString(c, at, end)
  PROVE  CString(c, at) \in Seq(Octet)
<1> DEFINE IsNul(p) == Byte(c, p) = 0 /\ \A q \in at .. p - 1 : Byte(c, q) # 0
           nul == CHOOSE p \in at .. at + c.totalsize : IsNul(p)
           T == {p \in Nat : at <= p /\ Byte(c, p) = 0}
<1>1. PICK z \in at .. end - 1 : Byte(c, z) = 0
  BY DEF HasString
<1>2. c.totalsize \in Nat /\ z \in T /\ T \in SUBSET Nat
  BY <1>1, BlobFacts
<1>3. PICK p \in T : \A q \in T : p <= q
  <2> HIDE DEF T
  <2> QED BY <1>2, Least
<1>4. p \in at .. at + c.totalsize /\ p <= z /\ IsNul(p)
  BY <1>1, <1>2, <1>3
<1>5. nul \in at .. at + c.totalsize /\ IsNul(nul)
  <2> HIDE DEF IsNul
  <2> QED BY <1>4
<1>6. nul \in Nat /\ at <= nul /\ nul <= z
  BY <1>1, <1>2, <1>5
<1>7. CString(c, at) = Bytes(c, at, nul - at)
  BY DEF CString
<1> HIDE DEF nul
<1>8. nul - at \in Nat /\ at + (nul - at) <= c.totalsize
  BY <1>1, <1>2, <1>6
<1> QED BY <1>7, <1>8, BytesTyped

LEMMA TokenTyped ==
  ASSUME NEW m, NEW c \in BlobsIn(m), NEW p \in Nat, NEW tag \in Kinds,
         NEW name \in Seq(Octet), NEW val \in Seq(Octet), NEW s \in Seq(Tokened)
  PROVE  Token(c, p, tag, name, val) \o s \in Seq(Tokened) /\ Bad(c) \in Seq(Tokened)
<1>1. c.off_dt_struct \in Nat /\ <<>> \in Seq(Octet)
        /\ "bad" \in Kinds /\ c.off_dt_struct - c.off_dt_struct \in Int
  BY BlobFacts DEF Kinds
<1>2. /\ [tag |-> tag, name |-> name, val |-> val, at |-> p - c.off_dt_struct] \in Tokened
      /\ [tag |-> "bad", name |-> <<>>, val |-> <<>>, at |-> c.off_dt_struct - c.off_dt_struct] \in Tokened
  <2>1. \A x \in Int, k \in Kinds, n, v \in Seq(Octet) :
          [tag |-> k, name |-> n, val |-> v, at |-> x] \in Tokened
    BY DEF Tokened
  <2>2. p - c.off_dt_struct \in Int
    BY <1>1
  <2> QED BY <1>1, <2>1, <2>2
<1>3. Token(c, p, tag, name, val) \in Seq(Tokened) /\ Bad(c) \in Seq(Tokened)
  BY <1>2 DEF Token, Bad
<1> QED BY <1>3, ConcatProperties

LEMMA TagsDiffer ==
  /\ FDT_END # FDT_NOP /\ FDT_END # FDT_BEGIN_NODE /\ FDT_END # FDT_END_NODE /\ FDT_END # FDT_PROP
  /\ FDT_NOP # FDT_BEGIN_NODE /\ FDT_NOP # FDT_END_NODE /\ FDT_NOP # FDT_PROP
  /\ FDT_BEGIN_NODE # FDT_END_NODE /\ FDT_BEGIN_NODE # FDT_PROP /\ FDT_END_NODE # FDT_PROP
BY DEF FDT_END, FDT_NOP, FDT_BEGIN_NODE, FDT_END_NODE, FDT_PROP

LEMMA TagFromIs ==
  ASSUME NEW c, NEW k, NEW p
  PROVE  /\ TagFrom(c, k, p, FDT_END) = <<>>
         /\ TagFrom(c, k, p, FDT_NOP) = k[p + Cell]
         /\ TagFrom(c, k, p, FDT_END_NODE) = Token(c, p, "end", <<>>, <<>>) \o k[p + Cell]
         /\ TagFrom(c, k, p, FDT_BEGIN_NODE) =
              IF HasString(c, p + Cell, StructStop(c))
              THEN BeginFrom(c, k, p, CString(c, p + Cell)) ELSE Bad(c)
         /\ TagFrom(c, k, p, FDT_PROP) =
              IF p + 3 * Cell > StructStop(c) THEN Bad(c)
              ELSE PropFrom(c, k, p, LoadCell(c, p + Cell),
                            c.off_dt_strings + Signed(LoadCell(c, p + 2 * Cell)))
<1>1. TagFrom(c, k, p, FDT_END) = <<>>
  BY TagsDiffer, Zenon DEF TagFrom
<1>2. TagFrom(c, k, p, FDT_NOP) = k[p + Cell]
  BY TagsDiffer, Zenon DEF TagFrom
<1>3. TagFrom(c, k, p, FDT_END_NODE) = Token(c, p, "end", <<>>, <<>>) \o k[p + Cell]
  BY TagsDiffer, Zenon DEF TagFrom
<1>4. TagFrom(c, k, p, FDT_BEGIN_NODE) =
        IF HasString(c, p + Cell, StructStop(c))
        THEN BeginFrom(c, k, p, CString(c, p + Cell)) ELSE Bad(c)
  BY TagsDiffer, Zenon DEF TagFrom
<1>5. TagFrom(c, k, p, FDT_PROP) =
        IF p + 3 * Cell > StructStop(c) THEN Bad(c)
        ELSE PropFrom(c, k, p, LoadCell(c, p + Cell),
                      c.off_dt_strings + Signed(LoadCell(c, p + 2 * Cell)))
  BY TagsDiffer, Zenon DEF TagFrom
<1> QED BY <1>1, <1>2, <1>3, <1>4, <1>5

LEMMA TagFromOther ==
  ASSUME NEW c, NEW k, NEW p, NEW tag,
         tag # FDT_END, tag # FDT_NOP, tag # FDT_BEGIN_NODE, tag # FDT_END_NODE, tag # FDT_PROP
  PROVE  TagFrom(c, k, p, tag) = Bad(c)
BY Zenon DEF TagFrom

(* It depends on what the block holds from later places on.                *)
Readings == [Nat -> Seq(Tokened)]
Later(c, g, h, p) == \A q \in Nat : p < q /\ p < StructStop(c) => g[q] = h[q]

LEMMA StepIsTyped ==
  ASSUME NEW m, NEW c, Sound(c, m), NEW p \in Nat, NEW g \in Readings,
         NEW h \in Readings, Later(c, g, h, p)
  PROVE  TokensFrom(c, g, p) \in Seq(Tokened) /\ TokensFrom(c, g, p) = TokensFrom(c, h, p)
<1>1. /\ c \in BlobsIn(m) /\ c.off_dt_struct \in Nat /\ c.totalsize \in Nat
      /\ StructStop(c) \in Nat /\ StructStop(c) <= c.totalsize
  BY DEF Sound
<1>2. <<>> \in Seq(Octet) /\ <<>> \in Seq(Tokened) /\ Bad(c) \in Seq(Tokened)
  <2>1. <<>> \in Seq(Octet) /\ <<>> \in Seq(Tokened) /\ "bad" \in Kinds
    BY DEF Kinds
  <2> QED BY <1>1, <2>1, TokenTyped
<1>3. CASE ~(p + Cell <= StructStop(c))
  <2>1. p + Cell > StructStop(c)
    BY <1>1, <1>3, CellFacts
  <2> QED BY <1>2, <2>1 DEF TokensFrom
<1>4. CASE p + Cell <= StructStop(c)
  <2>0. p < StructStop(c) /\ ~(p + Cell > StructStop(c)) /\ p # StructStop(c)
    BY <1>1, <1>4, CellFacts
  <2>1. \A q \in Nat : p < q => g[q] = h[q] /\ g[q] \in Seq(Tokened)
    BY <2>0 DEF Later, Readings
  <2> DEFINE tag == LoadCell(c, p)
  <2>2. TokensFrom(c, g, p) = TagFrom(c, g, p, tag) /\ TokensFrom(c, h, p) = TagFrom(c, h, p, tag)
    BY <2>0 DEF TokensFrom
  <2> HIDE DEF tag
  <2>3. p + Cell \in Nat /\ p < p + Cell
    BY CellFacts
  <2>4. CASE tag = FDT_END_NODE
    <3>1. g[p + Cell] \in Seq(Tokened) /\ g[p + Cell] = h[p + Cell]
      BY <2>1, <2>3
    <3>2. Token(c, p, "end", <<>>, <<>>) \o g[p + Cell] \in Seq(Tokened)
      BY <1>1, <1>2, <3>1, TokenTyped DEF Kinds
    <3>3. TagFrom(c, g, p, tag) = Token(c, p, "end", <<>>, <<>>) \o g[p + Cell]
      BY <2>4, TagFromIs
    <3>4. TagFrom(c, h, p, tag) = Token(c, p, "end", <<>>, <<>>) \o h[p + Cell]
      BY <2>4, TagFromIs
    <3> QED BY <2>2, <3>1, <3>2, <3>3, <3>4
  <2>5. CASE tag = FDT_NOP
    BY <2>1, <2>2, <2>3, <2>5, TagFromIs
  <2>6. CASE tag = FDT_END
    BY <1>2, <2>2, <2>6, TagFromIs
  <2>7. CASE tag = FDT_BEGIN_NODE
    <3>1. ASSUME NEW k \in {g, h}
          PROVE  TagFrom(c, k, p, tag) =
                   IF HasString(c, p + Cell, StructStop(c))
                   THEN BeginFrom(c, k, p, CString(c, p + Cell)) ELSE Bad(c)
      BY <2>7, TagFromIs
    <3>2. CASE HasString(c, p + Cell, StructStop(c))
      <4>1. PICK name \in Seq(Octet) : name = CString(c, p + Cell)
        BY <1>1, <2>3, <3>2, CStringTyped
      <4>2. Len(name) + 1 \in Nat
        OBVIOUS
      <4>0. PICK a \in Nat : a = FDT_TAGALIGN(Len(name) + 1)
        BY <4>2, AlignFacts
      <4>3. PICK q \in Nat : q = p + Cell + FDT_TAGALIGN(Len(name) + 1) /\ p < q
        BY <2>3, <4>0
      <4>4. g[q] \in Seq(Tokened) /\ g[q] = h[q]
        BY <2>1, <4>3
      <4>5. Token(c, p, "begin", name, <<>>) \o g[q] \in Seq(Tokened)
        BY <1>1, <1>2, <4>4, TokenTyped DEF Kinds
      <4> QED BY <2>2, <3>1, <3>2, <4>1, <4>3, <4>4, <4>5 DEF BeginFrom
    <3> QED BY <1>2, <2>2, <3>1, <3>2
  <2>8. CASE tag = FDT_PROP
    <3>1. ASSUME NEW k \in {g, h}
          PROVE  TagFrom(c, k, p, tag) =
                   IF p + 3 * Cell > StructStop(c) THEN Bad(c)
                   ELSE PropFrom(c, k, p, LoadCell(c, p + Cell),
                                 c.off_dt_strings + Signed(LoadCell(c, p + 2 * Cell)))
      BY <2>8, TagFromIs
    <3>2. CASE ~(p + 3 * Cell > StructStop(c))
      <4>1. PICK len, at : /\ len = LoadCell(c, p + Cell)
                           /\ at = c.off_dt_strings + Signed(LoadCell(c, p + 2 * Cell))
        OBVIOUS
      <4>2. p + 3 * Cell <= c.totalsize
        BY <1>1, <3>2, CellFacts
      <4>3. len \in Nat
        <5>1. \A i \in 0 .. Cell - 1 : p + Cell + i \in 0 .. c.totalsize - 1
          BY <1>1, <4>2, CellFacts
        <5>2. LoadCell(c, p + Cell) \in Word
          BY <1>1, <2>3, <5>1, BlobFacts, LoadIsWord
        <5> QED BY <4>1, <5>2, CellFacts DEF Word
      <4>4. LoadCell(c, p + 2 * Cell) \in Word
        <5>1. \A i \in 0 .. Cell - 1 : p + 2 * Cell + i \in 0 .. c.totalsize - 1
          BY <1>1, <4>2, CellFacts
        <5>2. p + 2 * Cell \in Int
          BY CellFacts
        <5> QED BY <1>1, <5>1, <5>2, BlobFacts, LoadIsWord
      <4>5. at \in Int
        BY <1>1, <4>1, <4>4, CellFacts, BlobFacts DEF Signed, Word
      <4>6. CASE p + 3 * Cell + len > StructStop(c) \/ ~HasString(c, at, c.totalsize)
        BY <1>2, <2>2, <3>1, <3>2, <4>1, <4>6 DEF PropFrom
      <4>7. CASE ~(p + 3 * Cell + len > StructStop(c)) /\ HasString(c, at, c.totalsize)
        <5>1. at \in Nat /\ CString(c, at) \in Seq(Octet)
          <6>1. at >= 0
            BY <4>7 DEF HasString
          <6> QED BY <1>1, <4>5, <4>7, <6>1, CStringTyped
        <5>2. Bytes(c, p + 3 * Cell, len) \in Seq(Octet)
          <6>1. p + 3 * Cell \in Nat /\ p + 3 * Cell + len <= c.totalsize
            BY <1>1, <4>3, <4>7, CellFacts
          <6> QED BY <1>1, <4>3, <6>1, BytesTyped
        <5>3. PICK q \in Nat : q = p + 3 * Cell + FDT_TAGALIGN(len) /\ p < q
          BY <4>3, AlignFacts, CellFacts
        <5>4. g[q] \in Seq(Tokened) /\ g[q] = h[q]
          BY <2>1, <5>3
        <5>5. Token(c, p, "prop", CString(c, at), Bytes(c, p + 3 * Cell, len)) \o g[q] \in Seq(Tokened)
          BY <1>1, <5>1, <5>2, <5>4, TokenTyped DEF Kinds
        <5>6. ASSUME NEW k \in {g, h}
              PROVE  PropFrom(c, k, p, len, at) =
                       Token(c, p, "prop", CString(c, at), Bytes(c, p + 3 * Cell, len)) \o k[q]
          BY <4>7, <5>3 DEF PropFrom
        <5> QED BY <2>2, <3>1, <3>2, <4>1, <5>4, <5>5, <5>6
      <4> QED BY <4>6, <4>7
    <3> QED BY <1>2, <2>2, <3>1, <3>2
  <2>9. CASE tag \notin {FDT_END, FDT_NOP, FDT_BEGIN_NODE, FDT_END_NODE, FDT_PROP}
    <3>1. TagFrom(c, g, p, tag) = Bad(c) /\ TagFrom(c, h, p, tag) = Bad(c)
      <4>1. \A k : TagFrom(c, k, p, tag) = Bad(c)
        BY <2>9, TagFromOther
      <4> QED BY <4>1
    <3> QED BY <1>2, <2>2, <3>1
  <2> QED BY <2>4, <2>5, <2>6, <2>7, <2>8, <2>9
<1> QED BY <1>3, <1>4

LEMMA TokensAreDefined ==
  ASSUME NEW m, NEW c, Sound(c, m)
  PROVE  \E f : f = [p \in Nat |-> TokensFrom(c, f, p)] /\ Tokens(c) = f[c.off_dt_struct]
<1> DEFINE V == Seq(Tokened)
           stop == StructStop(c)
           rank == [p \in Nat |-> IF p < stop THEN stop - p ELSE 0]
           D == [p \in Nat |-> [g \in [Nat -> V] |-> TokensFrom(c, g, p)]]
<1>1. stop \in Nat
  BY DEF Sound
<1>2. rank \in [Nat -> 0 .. stop]
  BY <1>1
<1>3. ASSUME NEW p \in Nat, NEW g \in [Nat -> V], NEW h \in [Nat -> V], Agree(g, h, Nat, rank, p)
      PROVE  Later(c, g, h, p)
  <2> SUFFICES ASSUME NEW q \in Nat, p < q, p < stop PROVE g[q] = h[q]
    BY DEF Later
  <2> HIDE DEF stop, V
  <2>1. rank[q] < rank[p]
    BY <1>1
  <2> HIDE DEF rank
  <2> QED BY <1>3, <2>1 DEF Agree
<1>4. ASSUME NEW p \in Nat, NEW g \in [Nat -> V] PROVE TokensFrom(c, g, p) \in V
  <2>1. Later(c, g, g, p)
    BY DEF Later
  <2> QED BY <2>1, StepIsTyped DEF Readings
<1>5. D \in [Nat -> [[Nat -> V] -> V]]
  BY <1>4
<1>6. \A p \in Nat : \A g, h \in [Nat -> V] : Agree(g, h, Nat, rank, p) => D[p][g] = D[p][h]
  <2> SUFFICES ASSUME NEW p \in Nat, NEW g \in [Nat -> V], NEW h \in [Nat -> V],
                      Agree(g, h, Nat, rank, p)
               PROVE  D[p][g] = D[p][h]
    OBVIOUS
  <2>1. TokensFrom(c, g, p) = TokensFrom(c, h, p)
    BY <1>3, StepIsTyped DEF Readings
  <2> QED BY <2>1
<1>7. <<>> \in V /\ Recurses(Nat, V, D, stop, rank)
  <2>1. <<>> \in V
    OBVIOUS
  <2> HIDE DEF D, rank, V, stop
  <2> QED BY <1>2, <1>5, <1>6, <2>1 DEF Recurses
<1>8. PICK f : Solves(Nat, V, D, f)
  <2> HIDE DEF D, rank, V, stop
  <2> QED BY <1>1, <1>7, Recursion
<1>9. f = [p \in Nat |-> TokensFrom(c, f, p)]
  <2>1. f \in [Nat -> V] /\ \A p \in Nat : f[p] = D[p][f]
    BY <1>8 DEF Solves
  <2>2. \A p \in Nat : D[p][f] = TokensFrom(c, f, p)
    BY <2>1
  <2> HIDE DEF D
  <2> QED BY <2>1, <2>2
<1> DEFINE from == CHOOSE k : k = [p \in Nat |-> TokensFrom(c, k, p)]
<1>10. from = [p \in Nat |-> TokensFrom(c, from, p)]
  BY <1>9
<1>11. Tokens(c) = from[c.off_dt_struct]
  BY DEF Tokens
<1> HIDE DEF from
<1> QED BY <1>10, <1>11

(***************************************************************************)
(* A sequence of tokens as a blob holds it.                                *)
(***************************************************************************)
NameStrings    == Seq(Letter)
Contents == Seq(Octet)
TreeTokens ==
  {Begin(name) : name \in NameStrings} \union {End} \union {Prop(name, val) : name \in NameStrings, val \in Contents}

TokenSize(t) ==
  CASE t.tag = "begin" -> Cell + FDT_TAGALIGN(Len(t.name) + 1)
    [] t.tag = "end"   -> Cell
    [] t.tag = "prop"  -> 3 * Cell + FDT_TAGALIGN(Len(t.val))

Number(t) == CASE t.tag = "begin" -> FDT_BEGIN_NODE
               [] t.tag = "end"   -> FDT_END_NODE
               [] t.tag = "prop"  -> FDT_PROP

(* The token t stands at p; a property has the cell x for its name.        *)
HoldsToken(c, p, t, x) ==
  /\ LoadCell(c, p) = Number(t)
  /\ t.tag = "begin" => HoldsString(c, p + Cell, t.name)
  /\ t.tag = "prop" => /\ LoadCell(c, p + Cell) = Len(t.val)
                       /\ LoadCell(c, p + 2 * Cell) = x
                       /\ \A i \in 1 .. Len(t.val) : Byte(c, p + 3 * Cell + i - 1) = t.val[i]

(* A name stands at an offset of the blob.                                 *)
HoldsName(c, at, name) ==
  at \in Nat /\ at + Len(name) < c.totalsize /\ HoldsString(c, at, name)

LEMMA TokenCases ==
  ASSUME NEW t \in TreeTokens
  PROVE  /\ t = [tag |-> t.tag, name |-> t.name, val |-> t.val]
         /\ t.name \in NameStrings /\ t.val \in Contents
         /\ \/ t.tag = "begin" /\ t.val = <<>>
            \/ t.tag = "end" /\ t.name = <<>> /\ t.val = <<>>
            \/ t.tag = "prop"
<1>1. <<>> \in NameStrings /\ <<>> \in Contents
  BY DEF NameStrings, Contents
<1>2. CASE t = End
  BY <1>1, <1>2 DEF End
<1>3. CASE \E name \in NameStrings : t = Begin(name)
  BY <1>1, <1>3 DEF Begin
<1>4. CASE \E name \in NameStrings, val \in Contents : t = Prop(name, val)
  BY <1>4 DEF Prop
<1> QED BY <1>2, <1>3, <1>4 DEF TreeTokens

LEMMA AlignBounds ==
  ASSUME NEW x \in Nat PROVE FDT_TAGALIGN(x) \in Nat /\ x <= FDT_TAGALIGN(x)
BY AlignFacts

LEMMA SizeFacts ==
  ASSUME NEW t \in TreeTokens
  PROVE  /\ TokenSize(t) \in Nat /\ Cell <= TokenSize(t)
         /\ t.tag = "begin" => /\ TokenSize(t) = Cell + FDT_TAGALIGN(Len(t.name) + 1)
                               /\ Cell + Len(t.name) + 1 <= TokenSize(t)
         /\ t.tag = "end" => TokenSize(t) = Cell
         /\ t.tag = "prop" => /\ TokenSize(t) = 3 * Cell + FDT_TAGALIGN(Len(t.val))
                              /\ 3 * Cell + Len(t.val) <= TokenSize(t)
         /\ Len(t.name) \in Nat /\ Len(t.val) \in Nat
<1>1. Len(t.name) \in Nat /\ Len(t.val) \in Nat /\ Len(t.name) + 1 \in Nat
  BY TokenCases DEF NameStrings, Contents
<1>2. PICK a \in Nat : a = FDT_TAGALIGN(Len(t.name) + 1) /\ Len(t.name) + 1 <= a
  BY <1>1, AlignBounds
<1>3. PICK z \in Nat : z = FDT_TAGALIGN(Len(t.val)) /\ Len(t.val) <= z
  BY <1>1, AlignBounds
<1>4. CASE t.tag = "begin"
  BY <1>1, <1>2, <1>4, CellFacts, SMTT(40) DEF TokenSize
<1>5. CASE t.tag = "end"
  BY <1>1, <1>5, CellFacts DEF TokenSize
<1>6. CASE t.tag = "prop"
  BY <1>1, <1>3, <1>6, CellFacts, SMTT(40) DEF TokenSize
<1> QED BY <1>4, <1>5, <1>6, TokenCases

LEMMA NumberFacts ==
  ASSUME NEW t
  PROVE  /\ t.tag = "begin" => Number(t) = FDT_BEGIN_NODE
         /\ t.tag = "end" => Number(t) = FDT_END_NODE
         /\ t.tag = "prop" => Number(t) = FDT_PROP
BY Zenon DEF Number

(* Reading one token.                                                      *)
Entry(t, o) == [tag |-> t.tag, name |-> t.name, val |-> t.val, at |-> o]

LEMMA ReadToken ==
  ASSUME NEW m, NEW c, Sound(c, m), NEW f, NEW o \in Nat, NEW t \in TreeTokens, NEW x \in Word,
         HoldsToken(c, c.off_dt_struct + o, t, x),
         t.tag = "prop" => HoldsName(c, c.off_dt_strings + Signed(x), t.name),
         c.off_dt_struct + o + TokenSize(t) <= StructStop(c)
  PROVE  TokensFrom(c, f, c.off_dt_struct + o) =
           <<Entry(t, o)>> \o f[c.off_dt_struct + o + TokenSize(t)]
<1>1. /\ c.off_dt_struct \in Nat /\ c.totalsize \in Nat
      /\ StructStop(c) \in Nat /\ StructStop(c) <= c.totalsize
  BY DEF Sound
<1>2. PICK p \in Nat : p = c.off_dt_struct + o
  BY <1>1
<1>3. PICK s \in Nat : s = TokenSize(t) /\ Cell <= s
  BY SizeFacts
<1>4. PICK stop \in Nat : stop = StructStop(c) /\ stop <= c.totalsize /\ p + s <= stop
  BY <1>1, <1>2, <1>3
<1>5. ~(p + Cell > stop) /\ p # stop
  BY <1>3, <1>4, CellFacts
<1>6. TokensFrom(c, f, p) = TagFrom(c, f, p, Number(t))
  BY <1>2, <1>4, <1>5 DEF TokensFrom, HoldsToken
<1>7. p - c.off_dt_struct = o
  BY <1>1, <1>2
<1>8. t = [tag |-> t.tag, name |-> t.name, val |-> t.val] /\ t.name \in NameStrings /\ t.val \in Contents
      /\ Len(t.name) \in Nat /\ Len(t.val) \in Nat
  BY TokenCases, SizeFacts
<1>9. CASE t.tag = "begin"
  <2>1. HoldsString(c, p + Cell, t.name) /\ Number(t) = FDT_BEGIN_NODE /\ t.val = <<>>
    BY <1>2, <1>9, NumberFacts, TokenCases DEF HoldsToken
  <2>2. s = Cell + FDT_TAGALIGN(Len(t.name) + 1) /\ Cell + Len(t.name) + 1 <= s
    BY <1>3, <1>9, SizeFacts
  <2>0. PICK n \in Nat, v \in Nat : n = Len(t.name) /\ v = c.totalsize /\ stop <= v /\ Cell + n + 1 <= s
    BY <1>1, <1>4, <1>8, <2>2
  <2>3. PICK q : q = p + Cell + n
    OBVIOUS
  <2>31. q \in Nat /\ p + Cell <= q /\ q < stop /\ n <= v
    <3>1. Cell + n + 1 <= s /\ p + s <= stop /\ stop <= v
      BY <1>4, <2>0
    <3>2. p + Cell + n \in Nat /\ p + Cell <= p + Cell + n
      BY CellPos
    <3>3. p + Cell + n < stop /\ n <= v
      BY <3>1, CellPos
    <3> QED BY <2>3, <3>2, <3>3
  <2>4. HasString(c, p + Cell, stop)
    <3>1. Byte(c, q) = 0
      BY <2>0, <2>1, <2>3 DEF HoldsString
    <3>2. p + Cell \in Nat
      BY CellFacts
    <3>3. q \in p + Cell .. stop - 1 /\ p + Cell >= 0
      BY <2>31, <3>2
    <3> QED BY <3>1, <3>3 DEF HasString
  <2>5. CString(c, p + Cell) = t.name
    <3>1. p + Cell \in Int
      BY CellFacts
    <3> QED BY <1>1, <1>8, <2>0, <2>1, <2>31, <3>1, StringRead DEF NameStrings
  <2>6. TokensFrom(c, f, p) =
          Token(c, p, "begin", t.name, <<>>) \o f[p + Cell + FDT_TAGALIGN(Len(t.name) + 1)]
    BY <1>4, <1>6, <2>1, <2>4, <2>5, TagFromIs DEF BeginFrom
  <2>7. p + Cell + FDT_TAGALIGN(Len(t.name) + 1) = p + s
    <3>1. PICK a \in Nat : a = FDT_TAGALIGN(Len(t.name) + 1)
      BY <1>8, AlignBounds
    <3> QED BY <2>2, <3>1, CellFacts
  <2> QED BY <1>2, <1>3, <1>7, <1>9, <2>1, <2>6, <2>7 DEF Token, Entry
<1>10. CASE t.tag = "end"
  <2>1. Number(t) = FDT_END_NODE /\ t.val = <<>> /\ t.name = <<>> /\ s = Cell
    BY <1>3, <1>10, NumberFacts, TokenCases, SizeFacts
  <2>2. TokensFrom(c, f, p) = Token(c, p, "end", <<>>, <<>>) \o f[p + Cell]
    BY <1>6, <2>1, TagFromIs, ZenonT(40)
  <2> QED BY <1>2, <1>3, <1>7, <1>10, <2>1, <2>2 DEF Token, Entry
<1>11. CASE t.tag = "prop"
  <2>1. /\ Number(t) = FDT_PROP /\ LoadCell(c, p + Cell) = Len(t.val) /\ LoadCell(c, p + 2 * Cell) = x
        /\ \A i \in 1 .. Len(t.val) : Byte(c, p + 3 * Cell + i - 1) = t.val[i]
    BY <1>2, <1>11, NumberFacts DEF HoldsToken
  <2>2. s = 3 * Cell + FDT_TAGALIGN(Len(t.val)) /\ 3 * Cell + Len(t.val) <= s
    BY <1>3, <1>11, SizeFacts
  <2>3. PICK at : at = c.off_dt_strings + Signed(x)
    OBVIOUS
  <2>4. at \in Nat /\ at + Len(t.name) < c.totalsize /\ HoldsString(c, at, t.name)
    BY <1>11, <2>3 DEF HoldsName
  <2>5. HasString(c, at, c.totalsize)
    <3>1. Byte(c, at + Len(t.name)) = 0
      BY <2>4 DEF HoldsString
    <3>2. at + Len(t.name) \in at .. c.totalsize - 1 /\ at >= 0
      BY <1>1, <1>8, <2>4
    <3> QED BY <3>1, <3>2 DEF HasString
  <2>6. CString(c, at) = t.name
    <3>1. Len(t.name) <= c.totalsize /\ at \in Int
      BY <1>1, <1>8, <2>4
    <3> QED BY <1>1, <1>8, <2>4, <3>1, StringRead DEF NameStrings
  <2>7. Bytes(c, p + 3 * Cell, Len(t.val)) = t.val
    BY <1>8, <2>1 DEF Bytes, Contents
  <2>8. ~(p + 3 * Cell > stop) /\ ~(p + 3 * Cell + Len(t.val) > stop)
    <3>1. PICK n \in Nat, d \in Nat : n = Len(t.val) /\ d = 3 * Cell /\ d + n <= s
      BY <1>8, <2>2, CellFacts
    <3>2. ~(p + d > stop) /\ ~(p + d + n > stop)
      BY <1>4, <3>1
    <3> QED BY <3>1, <3>2
  <2>9. TagFrom(c, f, p, FDT_PROP) = PropFrom(c, f, p, Len(t.val), at)
    BY <1>4, <2>1, <2>3, <2>8, TagFromIs
  <2>10. PropFrom(c, f, p, Len(t.val), at) =
           Token(c, p, "prop", t.name, t.val) \o f[p + 3 * Cell + FDT_TAGALIGN(Len(t.val))]
    BY <1>4, <2>5, <2>6, <2>7, <2>8 DEF PropFrom
  <2>11. p + 3 * Cell + FDT_TAGALIGN(Len(t.val)) = p + s
    <3>1. PICK a \in Nat : a = FDT_TAGALIGN(Len(t.val))
      BY <1>8, AlignBounds
    <3> QED BY <2>2, <3>1, CellFacts
  <2> QED BY <1>2, <1>3, <1>6, <1>7, <1>11, <2>1, <2>9, <2>10, <2>11 DEF Token, Entry
<1> QED BY <1>9, <1>10, <1>11, TokenCases

(* Where the tokens of a sequence stand, and the end of the last.          *)
Trees == Seq(TreeTokens)
Laid(ts, off) ==
  /\ off[1] = 0
  /\ \A i \in 1 .. Len(ts) + 1 : off[i] \in Nat
  /\ \A i \in 1 .. Len(ts) : off[i + 1] = off[i] + TokenSize(ts[i])

LEMMA TreeFacts ==
  ASSUME NEW ts \in Trees
  PROVE  Len(ts) \in Nat /\ \A i \in 1 .. Len(ts) : ts[i] \in TreeTokens
BY ElementOfSeq DEF Trees

LEMMA LaidInOrder ==
  ASSUME NEW ts \in Trees, NEW off, Laid(ts, off), NEW i \in 1 .. Len(ts),
         NEW j \in i + 1 .. Len(ts) + 1
  PROVE  off[i] + TokenSize(ts[i]) <= off[j]
<1> DEFINE s == TokenSize(ts[i])
           T == {k \in Nat : i + 1 <= k /\ k <= Len(ts) + 1 /\ ~(off[i] + s <= off[k])}
<1>1. PICK n \in Nat : n = Len(ts)
  BY TreeFacts
<1>2. s \in Nat
  BY TreeFacts, SizeFacts
<1>3. i \in Nat /\ i >= 1 /\ i <= n /\ j \in Nat /\ i + 1 <= j /\ j <= n + 1
  BY <1>1
<1>4. \A k \in Nat : 1 <= k /\ k <= n + 1 => off[k] \in Nat
  BY <1>1 DEF Laid
<1>5. ASSUME NEW k \in Nat, i <= k, k <= n PROVE off[k] <= off[k + 1] /\ (k = i => off[k + 1] = off[i] + s)
  <2>1. k \in 1 .. Len(ts)
    BY <1>1, <1>3, <1>5
  <2>2. off[k + 1] = off[k] + TokenSize(ts[k]) /\ off[k] \in Nat
    BY <1>3, <1>4, <1>5, <2>1 DEF Laid
  <2>3. TokenSize(ts[k]) \in Nat
    BY <2>1, TreeFacts, SizeFacts
  <2> QED BY <2>2, <2>3
<1>6. T = {}
  <2> SUFFICES ASSUME NEW z \in T PROVE FALSE
    OBVIOUS
  <2> HIDE DEF s
  <2>1. PICK k \in T : \A q \in T : k <= q
    <3>1. T \in SUBSET Nat
      OBVIOUS
    <3> HIDE DEF T
    <3> QED BY <3>1, Least
  <2>2. k \in Nat /\ i + 1 <= k /\ k <= n + 1 /\ ~(off[i] + s <= off[k])
    BY <1>1, <2>1
  <2>3. PICK p \in Nat : p = k - 1 /\ i <= p /\ p <= n /\ k = p + 1
    BY <1>3, <2>2
  <2>4. off[p] \in Nat /\ off[k] \in Nat /\ off[i] \in Nat /\ off[p] <= off[k]
        /\ (p = i => off[k] = off[i] + s)
    BY <1>3, <1>4, <1>5, <2>2, <2>3
  <2>5. p # i /\ ~(off[i] + s <= off[p])
    BY <1>2, <2>2, <2>4
  <2>6. p \in T
    BY <1>1, <1>3, <2>3, <2>5
  <2> HIDE DEF T
  <2>7. k <= p
    BY <2>1, <2>6
  <2> QED BY <2>3, <2>7
<1>7. j \in T \/ off[i] + s <= off[j]
  BY <1>1, <1>3
<1> QED BY <1>6, <1>7

(* The rest of the tokens from one on, as they are read.                   *)
Rest(ts, off, i) == [j \in 1 .. Len(ts) + 1 - i |-> Entry(ts[i + j - 1], off[i + j - 1])]

LEMMA ConsIs ==
  ASSUME NEW S, NEW n \in Nat, NEW g, NEW h, g \in [1 .. n + 1 -> S], h \in [1 .. n -> S],
         \A j \in 1 .. n : h[j] = g[j + 1]
  PROVE  <<g[1]>> \o h = g
<1>1. h \in Seq(S) /\ Len(h) = n /\ g \in Seq(S) /\ Len(g) = n + 1
  OBVIOUS
<1>2. <<g[1]>> \in Seq(S) /\ Len(<<g[1]>>) = 1
  OBVIOUS
<1>3. <<g[1]>> \o h \in Seq(S) /\ Len(<<g[1]>> \o h) = 1 + n
  BY <1>1, <1>2, ConcatProperties
<1>4. \A i \in 1 .. n + 1 : (<<g[1]>> \o h)[i] = IF i <= 1 THEN <<g[1]>>[i] ELSE h[i - 1]
  BY <1>1, <1>2, ConcatProperties
<1>5. \A i \in 1 .. n + 1 : (<<g[1]>> \o h)[i] = g[i]
  <2> TAKE i \in 1 .. n + 1
  <2>1. CASE i = 1
    BY <1>4, <2>1
  <2>2. CASE i # 1
    <3>1. i - 1 \in 1 .. n /\ ~(i <= 1) /\ (i - 1) + 1 = i
      BY <2>2
    <3> QED BY <1>4, <3>1
  <2> QED BY <2>1, <2>2
<1> QED BY <1>1, <1>3, <1>5, SeqEqual

LEMMA RestIs ==
  ASSUME NEW ts \in Trees, NEW off, NEW i \in 1 .. Len(ts)
  PROVE  <<Entry(ts[i], off[i])>> \o Rest(ts, off, i + 1) = Rest(ts, off, i)
<1> DEFINE S == {Entry(ts[j], off[j]) : j \in 1 .. Len(ts)}
           g == Rest(ts, off, i)
           h == Rest(ts, off, i + 1)
<1>1. PICK n \in Nat : n = Len(ts) - i
  BY TreeFacts
<1>2. Len(ts) + 1 - i = n + 1 /\ Len(ts) + 1 - (i + 1) = n
  BY <1>1, TreeFacts
<1>3. g = [j \in 1 .. n + 1 |-> Entry(ts[i + j - 1], off[i + j - 1])]
  BY <1>2 DEF Rest
<1>4. h = [j \in 1 .. n |-> Entry(ts[i + 1 + j - 1], off[i + 1 + j - 1])]
  BY <1>2 DEF Rest
<1> HIDE DEF g, h
<1>5. \A j \in 1 .. n + 1 : i + j - 1 \in 1 .. Len(ts)
  BY <1>1, TreeFacts
<1>6. \A j \in 1 .. n : i + 1 + j - 1 \in 1 .. Len(ts) /\ i + 1 + j - 1 = i + (j + 1) - 1 /\ j + 1 \in 1 .. n + 1
  BY <1>1, TreeFacts
<1>7. g \in [1 .. n + 1 -> S] /\ h \in [1 .. n -> S] /\ \A j \in 1 .. n : h[j] = g[j + 1]
  BY <1>3, <1>4, <1>5, <1>6
<1>8. g[1] = Entry(ts[i], off[i])
  <2>1. 1 \in 1 .. n + 1 /\ i + 1 - 1 = i
    BY <1>1
  <2> QED BY <1>3, <2>1
<1> HIDE DEF S
<1>9. <<g[1]>> \o h = g
  BY <1>7, ConsIs
<1> QED BY <1>8, <1>9 DEF g, h

(* A blob holds a sequence of tokens: they stand one after the other in    *)
(* its structure block and nothing follows them.                           *)
Log(c, ts, off, x) ==
  /\ Laid(ts, off)
  /\ \A i \in 1 .. Len(ts) : x[i] \in Word /\ HoldsToken(c, c.off_dt_struct + off[i], ts[i], x[i])

Named(c, ts, x) ==
  \A i \in 1 .. Len(ts) :
    ts[i].tag = "prop" => HoldsName(c, c.off_dt_strings + Signed(x[i]), ts[i].name)

Ended(c, last) ==
  IF c.magic = "FDT_SW_MAGIC" THEN c.off_dt_struct + last = StructStop(c)
  ELSE c.off_dt_struct + last + Cell <= StructStop(c) /\ LoadCell(c, c.off_dt_struct + last) = FDT_END

LEMMA Parse ==
  ASSUME NEW m, NEW c, Sound(c, m), NEW ts \in Trees, NEW off, NEW x, Log(c, ts, off, x),
         Named(c, ts, x), Ended(c, off[Len(ts) + 1])
  PROVE  Tree(c) = ts
<1>1. PICK f : f = [p \in Nat |-> TokensFrom(c, f, p)] /\ Tokens(c) = f[c.off_dt_struct]
  BY TokensAreDefined
<1>2. c.off_dt_struct \in Nat /\ StructStop(c) \in Nat
  BY DEF Sound
<1>3. PICK n \in Nat : n = Len(ts)
  BY TreeFacts
<1>4. \A i \in 1 .. n + 1 : off[i] \in Nat
  BY <1>3 DEF Log, Laid
<1>5. \A p \in Nat : f[p] = TokensFrom(c, f, p)
  BY <1>1
<1> DEFINE Read(i) == f[c.off_dt_struct + off[i]] = Rest(ts, off, i)
<1>6. Read(n + 1)
  <2>1. PICK p \in Nat : p = c.off_dt_struct + off[n + 1]
    BY <1>2, <1>4
  <2>2. f[p] = TokensFrom(c, f, p)
    BY <1>5
  <2>3. TokensFrom(c, f, p) = <<>>
    <3>1. CASE c.magic = "FDT_SW_MAGIC"
      BY <1>3, <2>1, <3>1 DEF Ended, TokensFrom
    <3>2. CASE c.magic # "FDT_SW_MAGIC"
      <4>1. p + Cell <= StructStop(c) /\ LoadCell(c, p) = FDT_END
        BY <1>3, <2>1, <3>2 DEF Ended
      <4>2. ~(p + Cell > StructStop(c))
        BY <1>2, <4>1, CellPos
      <4> QED BY <3>2, <4>1, <4>2, TagFromIs DEF TokensFrom
    <3> QED BY <3>1, <3>2
  <2>4. Rest(ts, off, n + 1) = <<>>
    <3>1. Len(ts) + 1 - (n + 1) = 0
      BY <1>3
    <3> QED BY <3>1 DEF Rest
  <2> QED BY <2>1, <2>2, <2>3, <2>4
<1>7. ASSUME NEW i \in 1 .. n, Read(i + 1) PROVE Read(i)
  <2>1. i \in 1 .. Len(ts) /\ ts[i] \in TreeTokens
    BY <1>3, TreeFacts
  <2>2. off[i] \in Nat /\ off[i + 1] = off[i] + TokenSize(ts[i]) /\ TokenSize(ts[i]) \in Nat
    BY <1>4, <2>1, SizeFacts DEF Log, Laid
  <2>3. x[i] \in Word /\ HoldsToken(c, c.off_dt_struct + off[i], ts[i], x[i])
    BY <2>1 DEF Log
  <2>4. ts[i].tag = "prop" => HoldsName(c, c.off_dt_strings + Signed(x[i]), ts[i].name)
    BY <2>1 DEF Named
  <2>5. c.off_dt_struct + off[i] + TokenSize(ts[i]) <= StructStop(c)
    <3>1. off[i + 1] <= off[n + 1]
      <4>1. CASE i = n
        BY <1>4, <4>1
      <4>2. CASE i # n
        <5>1. i + 1 \in 1 .. Len(ts) /\
              n + 1 \in i + 1 + 1 .. Len(ts) + 1 /\ i + 1 \in 1 .. n + 1 /\ n + 1 \in 1 .. n + 1
          BY <1>3, <4>2
        <5>2. off[i + 1] + TokenSize(ts[i + 1]) <= off[n + 1]
          BY <5>1, LaidInOrder DEF Log
        <5>3. TokenSize(ts[i + 1]) \in Nat /\ off[i + 1] \in Nat /\ off[n + 1] \in Nat
          BY <1>4, <5>1, TreeFacts, SizeFacts
        <5> QED BY <5>2, <5>3
      <4> QED BY <4>1, <4>2
    <3>2. c.off_dt_struct + off[n + 1] <= StructStop(c) /\ off[n + 1] \in Nat /\ off[i + 1] \in Nat
      <4>1. off[n + 1] \in Nat /\ off[i + 1] \in Nat
        BY <1>4
      <4>2. PICK e \in Nat : e = off[n + 1]
        BY <4>1
      <4>3. c.off_dt_struct + e <= StructStop(c)
        BY <1>2, <1>3, <4>2, CellPos DEF Ended
      <4> QED BY <4>1, <4>2, <4>3
    <3>3. c.off_dt_struct + off[i] + TokenSize(ts[i]) = c.off_dt_struct + off[i + 1]
      BY <1>2, <2>2
    <3> QED BY <1>2, <3>1, <3>2, <3>3
  <2>6. TokensFrom(c, f, c.off_dt_struct + off[i]) =
          <<Entry(ts[i], off[i])>> \o f[c.off_dt_struct + off[i] + TokenSize(ts[i])]
    BY <2>1, <2>2, <2>3, <2>4, <2>5, ReadToken, ZenonT(40)
  <2>7. c.off_dt_struct + off[i] \in Nat
        /\ c.off_dt_struct + off[i] + TokenSize(ts[i]) = c.off_dt_struct + off[i + 1]
    BY <1>2, <2>2
  <2>8. f[c.off_dt_struct + off[i]] = <<Entry(ts[i], off[i])>> \o Rest(ts, off, i + 1)
    BY <1>5, <1>7, <2>6, <2>7
  <2> QED BY <2>1, <2>8, RestIs
<1>8. Read(1)
  <2> DEFINE T == {d \in Nat : d <= n /\ ~Read(n + 1 - d)}
  <2> HIDE DEF Read
  <2>1. T = {}
    <3> SUFFICES ASSUME NEW z \in T PROVE FALSE
      OBVIOUS
    <3>1. PICK d \in T : \A q \in T : d <= q
      <4>1. T \in SUBSET Nat
        OBVIOUS
      <4> HIDE DEF T
      <4> QED BY <4>1, Least
    <3>2. d \in Nat /\ d <= n /\ ~Read(n + 1 - d) /\ d # 0
      BY <1>6
    <3>3. PICK i \in 1 .. n : i = n + 1 - d /\ i + 1 = n + 1 - (d - 1) /\ d - 1 \in Nat /\ d - 1 <= n
      BY <3>2
    <3>4. ~Read(i + 1)
      BY <1>7, <3>2, <3>3
    <3>5. d - 1 \in T
      BY <3>3, <3>4
    <3> HIDE DEF T
    <3>6. d <= d - 1
      BY <3>1, <3>5
    <3> QED BY <3>2, <3>6
  <2>2. n + 1 - n = 1 /\ n <= n
    OBVIOUS
  <2> QED BY <2>1, <2>2
<1>9. Tokens(c) = Rest(ts, off, 1)
  <2>1. c.off_dt_struct + off[1] = c.off_dt_struct
    BY <1>2 DEF Log, Laid
  <2> QED BY <1>1, <1>8, <2>1
<1>10. Rest(ts, off, 1) = [j \in 1 .. n |-> Entry(ts[j], off[j])]
  <2>1. Len(ts) + 1 - 1 = n /\ \A j \in 1 .. n : 1 + j - 1 = j
    BY <1>3
  <2> QED BY <2>1 DEF Rest
<1>11. Tree(c) = [j \in 1 .. n |-> ts[j]]
  <2>1. \A j \in 1 .. n : ts[j] = [tag |-> ts[j].tag, name |-> ts[j].name, val |-> ts[j].val]
    BY <1>3, TreeFacts, TokenCases
  <2> DEFINE r == Rest(ts, off, 1)
  <2>2. DOMAIN r = 1 .. n /\ \A j \in 1 .. n : r[j] = Entry(ts[j], off[j])
    BY <1>10
  <2>3. Tree(c) = [j \in DOMAIN r |-> [tag |-> r[j].tag, name |-> r[j].name, val |-> r[j].val]]
    BY <1>9 DEF Tree, Contents_
  <2> HIDE DEF r
  <2>4. \A j \in 1 .. n : [tag |-> r[j].tag, name |-> r[j].name, val |-> r[j].val] = ts[j]
    BY <2>1, <2>2 DEF Entry
  <2> QED BY <2>2, <2>3, <2>4
<1>12. ts = [j \in 1 .. n |-> ts[j]]
  BY <1>3 DEF Trees
<1> QED BY <1>11, <1>12

(***************************************************************************)
(* Memory after bytes have been written or moved.                          *)
(***************************************************************************)
Banks(m) == [m -> Octet]

LEMMA WrittenIs ==
  ASSUME NEW m \in SUBSET Int, NEW bytes \in Banks(m), NEW to \in Int, NEW s \in Contents
  PROVE  /\ written(bytes, to, s) \in Banks(m)
         /\ \A i \in m : i >= to /\ i < to + Len(s) => written(bytes, to, s)[i] = s[i - to + 1]
         /\ \A i \in m : i < to \/ i >= to + Len(s) => written(bytes, to, s)[i] = bytes[i]
<1> DEFINE w == written(bytes, to, s)
<1>1. w = [i \in m |-> IF i >= to /\ i < to + Len(s) THEN s[i - to + 1] ELSE bytes[i]]
  BY DEF written, Banks
<1> HIDE DEF w
<1>2. Len(s) \in Nat /\ \A i \in 1 .. Len(s) : s[i] \in Octet
  BY ElementOfSeq DEF Contents
<1>3. ASSUME NEW i \in m, i >= to /\ i < to + Len(s)
      PROVE  w[i] = s[i - to + 1] /\ s[i - to + 1] \in Octet
  <2>1. i \in Int /\ i - to + 1 \in 1 .. Len(s)
    BY <1>2, <1>3
  <2> QED BY <1>1, <1>2, <1>3, <2>1
<1>4. ASSUME NEW i \in m, i < to \/ i >= to + Len(s) PROVE w[i] = bytes[i] /\ bytes[i] \in Octet
  <2>1. ~(i >= to /\ i < to + Len(s))
    BY <1>2, <1>4
  <2>2. bytes[i] \in Octet
    BY DEF Banks
  <2> QED BY <1>1, <2>1, <2>2
<1>5. \A i \in m : w[i] \in Octet
  <2> TAKE i \in m
  <2>1. (i >= to /\ i < to + Len(s)) \/ (i < to \/ i >= to + Len(s))
    BY <1>2
  <2> QED BY <1>3, <1>4, <2>1
<1>6. w \in Banks(m)
  BY <1>1, <1>5 DEF Banks
<1> QED BY <1>3, <1>4, <1>6 DEF w

LEMMA MovedIs ==
  ASSUME NEW m \in SUBSET Int, NEW bytes \in Banks(m), NEW to \in Int, NEW from \in Int, NEW n \in Nat,
         \A k \in 0 .. n - 1 : from + k \in m
  PROVE  /\ moved(bytes, to, from, n) \in Banks(m)
         /\ \A k \in 0 .. n - 1 : to + k \in m => moved(bytes, to, from, n)[to + k] = bytes[from + k]
         /\ \A i \in m : i < to \/ i >= to + n => moved(bytes, to, from, n)[i] = bytes[i]
<1> DEFINE w == moved(bytes, to, from, n)
<1>1. w = [i \in m |-> IF i >= to /\ i < to + n THEN bytes[from + (i - to)] ELSE bytes[i]]
  BY DEF moved, Banks
<1> HIDE DEF w
<1>2. \A i \in m : bytes[i] \in Octet
  BY DEF Banks
<1>3. ASSUME NEW i \in m, i >= to /\ i < to + n
      PROVE  w[i] = bytes[from + (i - to)] /\ bytes[from + (i - to)] \in Octet
  <2>1. i \in Int /\ i - to \in 0 .. n - 1
    BY <1>3
  <2>2. from + (i - to) \in m
    BY <2>1
  <2> QED BY <1>1, <1>2, <1>3, <2>2
<1>4. ASSUME NEW i \in m, i < to \/ i >= to + n PROVE w[i] = bytes[i] /\ bytes[i] \in Octet
  <2>1. ~(i >= to /\ i < to + n)
    BY <1>4
  <2> QED BY <1>1, <1>2, <2>1
<1>5. \A i \in m : w[i] \in Octet
  <2> TAKE i \in m
  <2>1. (i >= to /\ i < to + n) \/ (i < to \/ i >= to + n)
    OBVIOUS
  <2> QED BY <1>3, <1>4, <2>1
<1>6. w \in Banks(m)
  BY <1>1, <1>5 DEF Banks
<1>7. ASSUME NEW k \in 0 .. n - 1, to + k \in m PROVE w[to + k] = bytes[from + k]
  <2>1. to + k >= to /\ to + k < to + n /\ (to + k) - to = k
    OBVIOUS
  <2>2. w[to + k] = bytes[from + ((to + k) - to)]
    BY <1>3, <1>7, <2>1
  <2> QED BY <2>1, <2>2
<1> QED BY <1>4, <1>6, <1>7 DEF w

(***************************************************************************)
(* What stays when bytes stay.                                             *)
(***************************************************************************)
Same(c, d, first, past) == \A i \in Int : first <= i /\ i < past => Byte(d, i) = Byte(c, i)

LEMMA CellStays ==
  ASSUME NEW c, NEW d, NEW p \in Int, NEW first \in Int, NEW past \in Int, Same(c, d, first, past),
         first <= p, p + Cell <= past
  PROVE  LoadCell(d, p) = LoadCell(c, p)
<1>1. \A i \in 0 .. Cell - 1 : p + i \in Int /\ first <= p + i /\ p + i < past
  BY CellPos
<1>2. \A i \in 0 .. Cell - 1 : Byte(d, p + i) = Byte(c, p + i)
  BY <1>1 DEF Same
<1> QED BY <1>2, LoadSame

LEMMA StringStays ==
  ASSUME NEW c, NEW d, NEW p \in Int, NEW s \in NameStrings, NEW first \in Int, NEW past \in Int,
         Same(c, d, first, past), first <= p, p + Len(s) < past, HoldsString(c, p, s)
  PROVE  HoldsString(d, p, s)
<1>1. PICK n \in Nat : n = Len(s)
  BY DEF NameStrings
<1>2. p + n \in Int /\ first <= p + n /\ p + n < past
  BY <1>1
<1>3. \A i \in 1 .. n : p + i - 1 \in Int /\ first <= p + i - 1 /\ p + i - 1 < past
  BY <1>2
<1>4. Byte(d, p + n) = Byte(c, p + n) /\ \A i \in 1 .. n : Byte(d, p + i - 1) = Byte(c, p + i - 1)
  BY <1>2, <1>3 DEF Same
<1> QED BY <1>1, <1>4 DEF HoldsString

(* A token whose bytes stay stays, except the cell for a property's name.  *)
LEMMA TokenStays ==
  ASSUME NEW c, NEW d, NEW p \in Nat, NEW t \in TreeTokens, NEW x, NEW y, HoldsToken(c, p, t, x),
         t.tag # "prop" => Same(c, d, p, p + TokenSize(t)),
         t.tag = "prop" => /\ Same(c, d, p, p + 2 * Cell)
                           /\ Same(c, d, p + 3 * Cell, p + TokenSize(t))
                           /\ LoadCell(d, p + 2 * Cell) = y
  PROVE  HoldsToken(d, p, t, y)
<1>1. PICK s \in Nat : s = TokenSize(t) /\ Cell <= s
  BY SizeFacts
<1>2. PICK n \in Nat, v \in Nat : n = Len(t.name) /\ v = Len(t.val)
  BY SizeFacts
<1>3. PICK c2 \in Nat, c3 \in Nat : c2 = 2 * Cell /\ c3 = 3 * Cell /\ c2 = Cell + Cell /\ c3 = c2 + Cell
  BY CellFacts
<1>4. CASE t.tag = "begin"
  <2>1. Cell + n + 1 <= s
    BY <1>1, <1>2, <1>4, SizeFacts
  <2>2. Same(c, d, p, p + s) /\ p + s \in Int /\ p + Cell \in Int /\ p <= p /\ p <= p + Cell /\ p + Cell <= p + s
    BY <1>1, <1>4, CellPos
  <2>3. LoadCell(d, p) = LoadCell(c, p)
    BY <2>2, CellStays
  <2>4. HoldsString(d, p + Cell, t.name)
    <3>1. HoldsString(c, p + Cell, t.name) /\ t.name \in NameStrings
      BY <1>4, TokenCases DEF HoldsToken
    <3>2. p + Cell + n < p + s
      BY <2>1, CellPos
    <3> QED BY <1>2, <2>2, <3>1, <3>2, StringStays
  <2> QED BY <1>4, <2>3, <2>4 DEF HoldsToken
<1>5. CASE t.tag = "end"
  <2>1. Same(c, d, p, p + s) /\ p + s \in Int /\ p + Cell \in Int /\ p <= p /\ p + Cell <= p + s
    BY <1>1, <1>5, CellPos
  <2>2. LoadCell(d, p) = LoadCell(c, p)
    BY <2>1, CellStays
  <2> QED BY <1>5, <2>2 DEF HoldsToken
<1>6. CASE t.tag = "prop"
  <2>1. c3 + v <= s
    BY <1>1, <1>2, <1>3, <1>6, SizeFacts
  <2>2. Same(c, d, p, p + c2) /\ Same(c, d, p + c3, p + s) /\ LoadCell(d, p + c2) = y
    BY <1>1, <1>3, <1>6
  <2>3. p + c2 \in Int /\ p + Cell \in Int /\ p <= p /\ p <= p + Cell /\ p + Cell <= p + c2
        /\ p + Cell + Cell <= p + c2
    BY <1>3, CellPos
  <2>4. LoadCell(d, p) = LoadCell(c, p) /\ LoadCell(d, p + Cell) = LoadCell(c, p + Cell)
    BY <2>2, <2>3, CellStays
  <2>5. \A i \in 1 .. v : Byte(d, p + c3 + i - 1) = Byte(c, p + c3 + i - 1)
    <3> TAKE i \in 1 .. v
    <3>1. p + c3 + i - 1 \in Int /\ p + c3 <= p + c3 + i - 1 /\ p + c3 + i - 1 < p + s
      BY <2>1
    <3> QED BY <2>2, <3>1 DEF Same
  <2> QED BY <1>2, <1>3, <1>6, <2>2, <2>4, <2>5 DEF HoldsToken
<1> QED BY <1>4, <1>5, <1>6, TokenCases

LEMMA TokenStaysWhole ==
  ASSUME NEW c, NEW d, NEW p \in Nat, NEW t \in TreeTokens, NEW x, HoldsToken(c, p, t, x),
         NEW first \in Int, NEW past \in Int, first <= p, p + TokenSize(t) <= past, Same(c, d, first, past)
  PROVE  HoldsToken(d, p, t, x)
<1>1. PICK s \in Nat : s = TokenSize(t)
  BY SizeFacts
<1>2. Same(c, d, p, p + s)
  BY <1>1 DEF Same
<1>3. ASSUME t.tag = "prop"
      PROVE  /\ Same(c, d, p, p + 2 * Cell) /\ Same(c, d, p + 3 * Cell, p + s)
             /\ LoadCell(d, p + 2 * Cell) = x
  <2>1. PICK c2 \in Nat, c3 \in Nat : c2 = 2 * Cell /\ c3 = 3 * Cell /\ c2 = Cell + Cell /\ c3 = c2 + Cell
    BY CellFacts
  <2>2. PICK v \in Nat : v = Len(t.val) /\ c3 + v <= s
    BY <1>1, <1>3, <2>1, SizeFacts
  <2>3. c3 <= s
    BY <2>2
  <2>4. p + c2 \in Int /\ p <= p + c2 /\ p + c2 + Cell <= p + s /\ p + s \in Int
    BY <2>1, <2>3, CellPos
  <2>5. LoadCell(d, p + c2) = LoadCell(c, p + c2)
    BY <1>2, <2>4, CellStays
  <2>6. Same(c, d, p, p + c2) /\ Same(c, d, p + c3, p + s)
    BY <1>2, <2>1, <2>3, CellPos DEF Same
  <2>7. LoadCell(c, p + c2) = x
    BY <1>3, <2>1 DEF HoldsToken
  <2> QED BY <2>1, <2>5, <2>6, <2>7
<1> QED BY <1>1, <1>2, <1>3, TokenStays

(***************************************************************************)
(* A blob that is being written, in the memory of the program.             *)
(***************************************************************************)
BankOf(c) == (-c.addr) .. (MemorySize - 1 - c.addr)

Draft(c) ==
  /\ c \in BlobsIn(BankOf(c)) /\ c.magic = "FDT_SW_MAGIC" /\ c.version = 17
  /\ c.addr \in Nat /\ c.addr + c.totalsize <= MemorySize
  /\ headsize(c) + c.size_dt_strings <= c.totalsize

LEMMA MemoryFacts == MemorySize \in Nat /\ MemorySize <= INT_MAX /\ INT_MAX \in Nat
<1>1. MemorySize \in 0 .. INT_MAX
  BY WriterAssumption
<1> QED BY <1>1, WordFacts

LEMMA DraftFacts ==
  ASSUME NEW c, Draft(c)
  PROVE  /\ c.off_dt_struct \in Nat /\ c.size_dt_struct \in Nat /\ c.totalsize \in Nat
         /\ c.size_dt_strings \in Nat /\ c.addr \in Nat
         /\ headsize(c) = c.off_dt_struct + c.size_dt_struct /\ headsize(c) \in Nat
         /\ StructStop(c) = headsize(c)
         /\ headsize(c) + c.size_dt_strings <= c.totalsize
         /\ c.totalsize <= INT_MAX
         /\ BankOf(c) \in SUBSET Int /\ c.bytes \in Banks(BankOf(c)) /\ MemoryOf(c) = BankOf(c)
         /\ \A i \in Int : 0 <= i /\ i < c.totalsize => i \in BankOf(c)
         /\ Sound(c, BankOf(c))
<1>1. /\ c \in BlobsIn(BankOf(c)) /\ c.version = 17 /\ c.addr \in Nat
      /\ c.addr + c.totalsize <= MemorySize /\ headsize(c) + c.size_dt_strings <= c.totalsize
  BY DEF Draft
<1>2. /\ c.off_dt_struct \in Nat /\ c.size_dt_struct \in Nat /\ c.totalsize \in Nat
      /\ c.size_dt_strings \in Nat /\ c.bytes \in [BankOf(c) -> Octet] /\ MemoryOf(c) = BankOf(c)
      /\ \A i \in 0 .. c.totalsize - 1 : i \in BankOf(c)
  BY <1>1, BlobFacts
<1>3. headsize(c) = c.off_dt_struct + c.size_dt_struct /\ headsize(c) \in Nat
  BY <1>2 DEF headsize
<1>4. StructStop(c) = headsize(c)
  <2>1. ~(17 < 17)
    OBVIOUS
  <2> QED BY <1>1, <1>3, <2>1 DEF StructStop
<1>5. c.totalsize <= INT_MAX
  BY <1>1, <1>2, MemoryFacts
<1>6. BankOf(c) \in SUBSET Int
  BY <1>1, MemoryFacts DEF BankOf
<1>7. headsize(c) <= c.totalsize
  BY <1>1, <1>2, <1>3
<1>8. Sound(c, BankOf(c))
  BY <1>1, <1>2, <1>3, <1>4, <1>7 DEF Sound
<1>9. c.bytes \in Banks(BankOf(c))
  BY <1>2 DEF Banks
<1>10. \A i \in Int : 0 <= i /\ i < c.totalsize => i \in BankOf(c)
  BY <1>2
<1> QED BY <1>1, <1>2, <1>3, <1>4, <1>5, <1>6, <1>8, <1>9, <1>10

(* A draft whose sizes and bytes are replaced.                             *)
With(c, structsize, stringsize, bytes) ==
  [c EXCEPT !.size_dt_struct = structsize, !.size_dt_strings = stringsize, !.bytes = bytes]

LEMMA WithIs ==
  ASSUME NEW c, Draft(c), NEW n \in Nat, NEW z \in Nat, NEW bytes \in Banks(BankOf(c)),
         c.off_dt_struct + n + z <= c.totalsize
  PROVE  LET d == With(c, n, z, bytes)
         IN /\ Draft(d) /\ d.size_dt_struct = n /\ d.size_dt_strings = z /\ d.bytes = bytes
            /\ d.off_dt_struct = c.off_dt_struct /\ d.totalsize = c.totalsize /\ d.addr = c.addr
            /\ d.off_mem_rsvmap = c.off_mem_rsvmap /\ d.off_dt_strings = c.off_dt_strings
            /\ d.last_comp_version = c.last_comp_version /\ d.magic = c.magic /\ d.version = c.version
            /\ headsize(d) = c.off_dt_struct + n /\ BankOf(d) = BankOf(c)
<1> DEFINE d == With(c, n, z, bytes)
<1>1. /\ c \in BlobsIn(BankOf(c)) /\ c.version = 17 /\ c.addr \in Nat /\ c.magic = "FDT_SW_MAGIC"
      /\ c.addr + c.totalsize <= MemorySize
  BY DEF Draft
<1>2. c.off_dt_struct \in Nat /\ c.totalsize \in Nat /\ c.totalsize <= INT_MAX
  BY DraftFacts
<1>3. n \in Word /\ z \in Word
  <2>1. n <= INT_MAX /\ z <= INT_MAX
    BY <1>2, WordFacts
  <2> QED BY <2>1, WordFacts, WordIs
<1>4. bytes \in [BankOf(c) -> Octet]
  BY DEF Banks
<1>5. d \in BlobsIn(BankOf(c))
  BY <1>1, <1>3, <1>4 DEF BlobsIn, BlobsOver, With
<1>6. /\ d.size_dt_struct = n /\ d.size_dt_strings = z /\ d.bytes = bytes
      /\ d.off_dt_struct = c.off_dt_struct /\ d.totalsize = c.totalsize /\ d.addr = c.addr
      /\ d.off_mem_rsvmap = c.off_mem_rsvmap /\ d.off_dt_strings = c.off_dt_strings
      /\ d.last_comp_version = c.last_comp_version /\ d.magic = c.magic /\ d.version = c.version
  BY <1>1 DEF BlobsIn, BlobsOver, With
<1> HIDE DEF d
<1>7. headsize(d) = c.off_dt_struct + n
  BY <1>6 DEF headsize
<1>8. BankOf(d) = BankOf(c)
  BY <1>6 DEF BankOf
<1>9. Draft(d)
  BY <1>1, <1>5, <1>6, <1>7, <1>8 DEF Draft
<1> QED BY <1>6, <1>7, <1>8, <1>9 DEF d

LEMMA WithSame == ASSUME NEW c, Draft(c) PROVE c = With(c, c.size_dt_struct, c.size_dt_strings, c.bytes)
BY DEF Draft, BlobsIn, BlobsOver, With

LEMMA Grabbed ==
  ASSUME NEW c, Draft(c), NEW n \in Nat, n <= INT_MAX
  PROVE  IF headsize(c) + n + c.size_dt_strings > c.totalsize
         THEN fdt_grab_space_(c, n) = Result(-FDT_ERR_NOSPACE, c)
         ELSE fdt_grab_space_(c, n) =
                Result(headsize(c), With(c, c.size_dt_struct + n, c.size_dt_strings, c.bytes))
<1>1. PICK o \in Nat, k \in Nat, z \in Nat, t \in Nat :
        /\ o = c.off_dt_struct /\ k = c.size_dt_struct /\ z = c.size_dt_strings /\ t = c.totalsize
        /\ headsize(c) = o + k /\ o + k + z <= t /\ t <= INT_MAX
  BY DraftFacts
<1>2. Wrap(k + n) = k + n
  <2>1. k + n \in Int /\ 0 <= k + n /\ k + n < WordSize
    BY <1>1, WordFacts
  <2>2. k + n \in Word
    BY <2>1, WordIs
  <2> QED BY <2>1, <2>2, WrapFacts
<1>3. Wrap(t - o - z) = t - o - z
  <2>1. t - o - z \in Int /\ 0 <= t - o - z /\ t - o - z < WordSize
    BY <1>1, WordFacts
  <2>2. t - o - z \in Word
    BY <2>1, WordIs
  <2> QED BY <2>1, <2>2, WrapFacts
<1>4. ~(k + n < k) /\ (k + n > t - o - z <=> o + k + n + z > t)
  BY <1>1
<1>5. [c EXCEPT !.size_dt_struct = k + n] = With(c, k + n, z, c.bytes)
  BY <1>1 DEF Draft, BlobsIn, BlobsOver, With
<1>6. fdt_grab_space_(c, n) =
        IF k + n < k \/ k + n > t - o - z THEN Result(-FDT_ERR_NOSPACE, c)
        ELSE Result(o + k, [c EXCEPT !.size_dt_struct = k + n])
  BY <1>1, <1>2, <1>3 DEF fdt_grab_space_, At
<1> QED BY <1>1, <1>4, <1>5, <1>6

LEMMA ResultIs == ASSUME NEW r, NEW c PROVE Result(r, c).ret = r /\ Result(r, c).b = c
BY DEF Result

LEMMA Emitted ==
  ASSUME NEW c, Draft(c), NEW s \in Contents, NEW n \in Nat, n <= INT_MAX
  PROVE  IF headsize(c) + n + c.size_dt_strings > c.totalsize
         THEN emit(c, s, n) = Result(-FDT_ERR_NOSPACE, c)
         ELSE emit(c, s, n) =
                Result(0, With(c, c.size_dt_struct + n, c.size_dt_strings,
                               written(c.bytes, headsize(c), s)))
<1>1. CASE headsize(c) + n + c.size_dt_strings > c.totalsize
  <2>1. fdt_grab_space_(c, n) = Result(-FDT_ERR_NOSPACE, c)
    BY <1>1, Grabbed
  <2>2. -FDT_ERR_NOSPACE < 0
    BY DEF FDT_ERR_NOSPACE
  <2> QED BY <1>1, <2>1, <2>2, ResultIs DEF emit, filled
<1>2. CASE ~(headsize(c) + n + c.size_dt_strings > c.totalsize)
  <2> DEFINE d == With(c, c.size_dt_struct + n, c.size_dt_strings, c.bytes)
             e == With(c, c.size_dt_struct + n, c.size_dt_strings, written(c.bytes, headsize(c), s))
  <2>1. fdt_grab_space_(c, n) = Result(headsize(c), d)
    BY <1>2, Grabbed
  <2>2. ~(headsize(c) < 0)
    BY DraftFacts
  <2>3. [d EXCEPT !.bytes = written(d.bytes, headsize(c), s)] = e
    BY DEF Draft, BlobsIn, BlobsOver, With
  <2> HIDE DEF d, e
  <2>4. after(Result(0, d), headsize(c), s) = Result(0, e)
    BY <2>3, ResultIs DEF after, then
  <2>5. emit(c, s, n) = Result(0, e)
    BY <2>1, <2>2, <2>4, ResultIs DEF emit, filled
  <2> QED BY <1>2, <2>5 DEF e
<1> QED BY <1>1, <1>2

(***************************************************************************)
(* The stages of writing.  A name in the structure block is the negative   *)
(* offset of a string from the end of the buffer.                          *)
(***************************************************************************)
NameBelow(c, x, name) ==
  \E v \in Nat : /\ Len(name) < v /\ v <= c.size_dt_strings /\ x = Wrap(-v)
                 /\ HoldsString(c, c.totalsize - v, name)

NamedBelow(c, ts, x) ==
  \A i \in 1 .. Len(ts) : ts[i].tag = "prop" => NameBelow(c, x[i], ts[i].name)

Stored(c, ts, off, x) ==
  Log(c, ts, off, x) /\ off[Len(ts) + 1] = c.size_dt_struct /\ NamedBelow(c, ts, x)

Holds(c, ts) == \E off, x : Stored(c, ts, off, x)

Reserving(c, k) ==
  /\ Draft(c) /\ c.off_mem_rsvmap = header_space /\ c.last_comp_version \in FDT_CREATE_FLAGS_ALL
  /\ c.off_dt_struct = header_space + k * EntrySize
  /\ c.off_dt_strings = 0 /\ c.size_dt_struct = 0 /\ c.size_dt_strings = 0

Building(c, k, ts) ==
  /\ Draft(c) /\ c.off_mem_rsvmap = header_space /\ c.last_comp_version \in FDT_CREATE_FLAGS_ALL
  /\ c.off_dt_struct = header_space + (k + 1) * EntrySize
  /\ c.off_dt_strings = c.totalsize /\ Holds(c, ts)

(* The strings stay where they are, seen from the end of the buffer.       *)
StringsStay(c, d) ==
  /\ c.size_dt_strings <= d.size_dt_strings
  /\ \A v \in Nat : 0 < v /\ v <= c.size_dt_strings => Byte(d, d.totalsize - v) = Byte(c, c.totalsize - v)

LEMMA NameStaysBelow ==
  ASSUME NEW c, NEW d, Draft(c), Draft(d), StringsStay(c, d), NEW x, NEW name \in NameStrings,
         NameBelow(c, x, name)
  PROVE  NameBelow(d, x, name)
<1>1. PICK v \in Nat : /\ Len(name) < v /\ v <= c.size_dt_strings /\ x = Wrap(-v)
                       /\ HoldsString(c, c.totalsize - v, name)
  BY DEF NameBelow
<1>0. PICK n \in Nat : n = Len(name)
  BY DEF NameStrings
<1>2. PICK e \in Nat, g \in Nat, y \in Nat, z \in Nat :
        /\ n = Len(name) /\ e = c.totalsize /\ g = d.totalsize
        /\ y = c.size_dt_strings /\ z = d.size_dt_strings
  BY <1>0, DraftFacts
<1>3. n < v /\ v <= y /\ y <= z /\ \A w \in Nat : 0 < w /\ w <= y => Byte(d, g - w) = Byte(c, e - w)
  BY <1>1, <1>2 DEF StringsStay
<1>4. \A k \in 0 .. n : Byte(d, g - v + k) = Byte(c, e - v + k)
  <2> TAKE k \in 0 .. n
  <2>1. PICK w \in Nat : w = v - k /\ 0 < w /\ w <= y
    BY <1>3
  <2>2. g - v + k = g - w /\ e - v + k = e - w
    BY <2>1
  <2> QED BY <1>3, <2>1, <2>2
<1>5. HoldsString(d, g - v, name)
  <2>1. Byte(c, e - v + n) = 0 /\ \A i \in 1 .. n : Byte(c, e - v + i - 1) = name[i]
    BY <1>1, <1>2 DEF HoldsString
  <2>2. Byte(d, g - v + n) = 0
    BY <1>4, <2>1
  <2>3. \A i \in 1 .. n : Byte(d, g - v + i - 1) = name[i]
    <3> TAKE i \in 1 .. n
    <3>1. i - 1 \in 0 .. n /\ g - v + i - 1 = g - v + (i - 1) /\ e - v + i - 1 = e - v + (i - 1)
      OBVIOUS
    <3> QED BY <1>4, <2>1, <3>1
  <2> QED BY <1>2, <2>2, <2>3 DEF HoldsString
<1>6. v <= z
  BY <1>2, <1>3
<1> QED BY <1>1, <1>2, <1>5, <1>6 DEF NameBelow

LEMMA LaidInside ==
  ASSUME NEW ts \in Trees, NEW off, Laid(ts, off), NEW i \in 1 .. Len(ts)
  PROVE  /\ off[i] \in Nat /\ TokenSize(ts[i]) \in Nat /\ off[Len(ts) + 1] \in Nat
         /\ off[i] + TokenSize(ts[i]) <= off[Len(ts) + 1]
<1>1. Len(ts) \in Nat /\ Len(ts) + 1 \in i + 1 .. Len(ts) + 1 /\ i \in 1 .. Len(ts) + 1
      /\ Len(ts) + 1 \in 1 .. Len(ts) + 1
  BY TreeFacts
<1>2. off[i] \in Nat /\ off[Len(ts) + 1] \in Nat
  BY <1>1 DEF Laid
<1>3. TokenSize(ts[i]) \in Nat
  BY TreeFacts, SizeFacts
<1> QED BY <1>1, <1>2, <1>3, LaidInOrder

LEMMA LogStays ==
  ASSUME NEW c, NEW d, Draft(c), Draft(d), d.off_dt_struct = c.off_dt_struct,
         Same(c, d, 0, headsize(c)), StringsStay(c, d),
         NEW ts \in Trees, NEW off, NEW x, Stored(c, ts, off, x)
  PROVE  Log(d, ts, off, x) /\ NamedBelow(d, ts, x)
<1>1. Laid(ts, off) /\ off[Len(ts) + 1] = c.size_dt_struct
  BY DEF Stored, Log
<1>2. ASSUME NEW i \in 1 .. Len(ts)
      PROVE  x[i] \in Word /\ HoldsToken(d, d.off_dt_struct + off[i], ts[i], x[i])
  <2>1. x[i] \in Word /\ HoldsToken(c, c.off_dt_struct + off[i], ts[i], x[i])
    BY DEF Stored, Log
  <2>2. PICK o \in Nat, s \in Nat, q \in Nat, h \in Nat :
          /\ o = off[i] /\ s = TokenSize(ts[i]) /\ q = c.off_dt_struct /\ h = headsize(c)
          /\ o + s <= c.size_dt_struct /\ h = q + c.size_dt_struct /\ c.size_dt_struct \in Nat
    BY <1>1, LaidInside, DraftFacts
  <2>3. q + o \in Nat /\ 0 <= q + o /\ q + o + s <= h
    BY <2>2, SMTT(40)
  <2>4. ts[i] \in TreeTokens
    BY TreeFacts
  <2>5. HoldsToken(d, q + o, ts[i], x[i])
    BY <2>1, <2>2, <2>3, <2>4, TokenStaysWhole
  <2> QED BY <2>1, <2>2, <2>5
<1>3. ASSUME NEW i \in 1 .. Len(ts), ts[i].tag = "prop" PROVE NameBelow(d, x[i], ts[i].name)
  <2>1. NameBelow(c, x[i], ts[i].name)
    BY <1>3 DEF Stored, NamedBelow
  <2>2. ts[i].name \in NameStrings
    BY TreeFacts, TokenCases
  <2> QED BY <2>1, <2>2, NameStaysBelow
<1> QED BY <1>1, <1>2, <1>3 DEF Log, NamedBelow

LEMMA HoldsStays ==
  ASSUME NEW c, NEW d, Draft(c), Draft(d), d.off_dt_struct = c.off_dt_struct,
         d.size_dt_struct = c.size_dt_struct, Same(c, d, 0, headsize(c)), StringsStay(c, d),
         NEW ts \in Trees, Holds(c, ts)
  PROVE  Holds(d, ts)
<1>1. PICK off, x : Stored(c, ts, off, x)
  BY DEF Holds
<1>2. Stored(d, ts, off, x)
  BY <1>1, LogStays DEF Stored
<1> QED BY <1>2 DEF Holds

(* One token more.                                                         *)
LEMMA HoldsMore ==
  ASSUME NEW c, NEW d, Draft(c), Draft(d), d.off_dt_struct = c.off_dt_struct,
         NEW t \in TreeTokens, d.size_dt_struct = c.size_dt_struct + TokenSize(t),
         Same(c, d, 0, headsize(c)), StringsStay(c, d), NEW ts \in Trees, Holds(c, ts),
         NEW y \in Word, HoldsToken(d, headsize(c), t, y), t.tag = "prop" => NameBelow(d, y, t.name)
  PROVE  Append(ts, t) \in Trees /\ Holds(d, Append(ts, t))
<1>1. PICK off, x : Stored(c, ts, off, x)
  BY DEF Holds
<1>2. Log(d, ts, off, x) /\ NamedBelow(d, ts, x)
  BY <1>1, LogStays
<1>3. PICK n \in Nat, s \in Nat : n = Len(ts) /\ s = TokenSize(t)
  BY TreeFacts, SizeFacts
<1> DEFINE us == Append(ts, t)
           pos == [i \in 1 .. n + 2 |-> IF i = n + 2 THEN off[n + 1] + s ELSE off[i]]
           z == [i \in 1 .. n + 1 |-> IF i = n + 1 THEN y ELSE x[i]]
<1>4. us \in Trees /\ Len(us) = n + 1 /\ us[n + 1] = t /\ \A i \in 1 .. n : us[i] = ts[i]
  BY <1>3, AppendProperties DEF Trees
<1>5. pos[n + 2] = off[n + 1] + s /\ \A i \in 1 .. n + 1 : pos[i] = off[i]
  BY <1>3
<1>6. z[n + 1] = y /\ \A i \in 1 .. n : z[i] = x[i]
  BY <1>3
<1> HIDE DEF us, pos, z
<1>7. off[1] = 0 /\ (\A i \in 1 .. n + 1 : off[i] \in Nat)
      /\ \A i \in 1 .. n : off[i + 1] = off[i] + TokenSize(ts[i])
  BY <1>2, <1>3 DEF Log, Laid
<1>8. Laid(us, pos)
  <2>1. pos[1] = 0
    BY <1>5, <1>7
  <2>2. ASSUME NEW i \in 1 .. n + 2 PROVE pos[i] \in Nat
    <3>1. CASE i = n + 2
      BY <1>3, <1>5, <1>7, <3>1
    <3>2. CASE i # n + 2
      <4>1. i \in 1 .. n + 1
        BY <3>2
      <4> QED BY <1>5, <1>7, <4>1
    <3> QED BY <3>1, <3>2
  <2>3. ASSUME NEW i \in 1 .. n + 1 PROVE pos[i + 1] = pos[i] + TokenSize(us[i])
    <3>1. CASE i = n + 1
      <4>1. i + 1 = n + 2
        BY <3>1
      <4> QED BY <1>3, <1>4, <1>5, <3>1, <4>1
    <3>2. CASE i # n + 1
      <4>1. i \in 1 .. n /\ i + 1 \in 1 .. n + 1
        BY <3>2
      <4> QED BY <1>4, <1>5, <1>7, <4>1
    <3> QED BY <3>1, <3>2
  <2>4. Len(us) + 1 = n + 2
    BY <1>4
  <2> QED BY <1>4, <2>1, <2>2, <2>3, <2>4 DEF Laid
<1>9. PICK q \in Nat, k \in Nat : /\ q = c.off_dt_struct /\ k = c.size_dt_struct /\ headsize(c) = q + k
                                  /\ off[n + 1] = k /\ d.off_dt_struct = q
  BY <1>1, <1>3, DraftFacts DEF Stored
<1>10. ASSUME NEW i \in 1 .. n + 1
       PROVE  /\ z[i] \in Word /\ HoldsToken(d, d.off_dt_struct + pos[i], us[i], z[i])
              /\ us[i].tag = "prop" => NameBelow(d, z[i], us[i].name)
  <2>1. CASE i = n + 1
    BY <1>4, <1>5, <1>6, <1>9, <2>1
  <2>2. CASE i # n + 1
    <3>1. i \in 1 .. n /\ i \in 1 .. n + 1
      BY <2>2
    <3> QED BY <1>2, <1>3, <1>4, <1>5, <1>6, <3>1 DEF Log, NamedBelow
  <2> QED BY <2>1, <2>2
<1>11. pos[Len(us) + 1] = d.size_dt_struct
  BY <1>3, <1>4, <1>5, <1>9
<1>12. Stored(d, us, pos, z)
  BY <1>4, <1>8, <1>10, <1>11 DEF Stored, Log, NamedBelow
<1> QED BY <1>4, <1>12 DEF Holds, us

(* A blob that is being written holds the tree.                            *)
LEMMA DraftTree ==
  ASSUME NEW c, NEW k \in Nat, NEW ts \in Trees, Building(c, k, ts) PROVE Tree(c) = ts
<1>1. Draft(c) /\ c.magic = "FDT_SW_MAGIC" /\ c.off_dt_strings = c.totalsize /\ Holds(c, ts)
  BY DEF Building, Draft
<1>2. PICK off, x : Stored(c, ts, off, x)
  BY <1>1 DEF Holds
<1>3. PICK e \in Nat, z \in Nat : e = c.totalsize /\ z = c.size_dt_strings /\ z <= e /\ e <= INT_MAX
  BY <1>1, DraftFacts
<1>4. ASSUME NEW i \in 1 .. Len(ts), ts[i].tag = "prop"
      PROVE  HoldsName(c, c.off_dt_strings + Signed(x[i]), ts[i].name)
  <2>1. PICK v \in Nat : /\ Len(ts[i].name) < v /\ v <= z /\ x[i] = Wrap(-v)
                         /\ HoldsString(c, e - v, ts[i].name)
    BY <1>2, <1>3, <1>4 DEF Stored, NamedBelow, NameBelow
  <2>2. Signed(x[i]) = -v
    <3>1. -v \in -INT_MAX .. INT_MAX
      BY <1>3, <2>1, MemoryFacts
    <3> QED BY <2>1, <3>1, SignedFacts
  <2>3. PICK n \in Nat : n = Len(ts[i].name)
    BY TreeFacts, SizeFacts
  <2>4. e + (-v) = e - v /\ e - v \in Nat /\ e - v + n < e
    <3>1. n < v /\ v <= z
      BY <2>1, <2>3
    <3> QED BY <1>3, <3>1
  <2> QED BY <1>1, <1>3, <2>1, <2>2, <2>3, <2>4 DEF HoldsName
<1>5. Named(c, ts, x)
  BY <1>4 DEF Named
<1>6. Ended(c, off[Len(ts) + 1])
  BY <1>1, <1>2, DraftFacts DEF Stored, Ended
<1> QED BY <1>1, <1>2, <1>5, <1>6, DraftFacts, Parse DEF Stored

(***************************************************************************)
(* Nodes.                                                                  *)
(***************************************************************************)
HoldsBytes(c, at, s) == \A i \in 1 .. Len(s) : Byte(c, at + i - 1) = s[i]

LEMMA HoldsJoined ==
  ASSUME NEW c, NEW at \in Int, NEW s \in Contents, NEW u \in Contents
  PROVE  /\ s \o u \in Contents /\ Len(s \o u) = Len(s) + Len(u)
         /\ HoldsBytes(c, at, s \o u) => HoldsBytes(c, at, s) /\ HoldsBytes(c, at + Len(s), u)
<1>1. /\ s \o u \in Contents /\ Len(s \o u) = Len(s) + Len(u)
      /\ \A i \in 1 .. Len(s) + Len(u) : (s \o u)[i] = IF i <= Len(s) THEN s[i] ELSE u[i - Len(s)]
  BY ConcatProperties DEF Contents
<1> DEFINE w == s \o u
<1>2. PICK n \in Nat, m \in Nat : n = Len(s) /\ m = Len(u)
  BY DEF Contents
<1>3. Len(w) = n + m /\ \A i \in 1 .. n + m : w[i] = IF i <= n THEN s[i] ELSE u[i - n]
  BY <1>1, <1>2
<1> HIDE DEF w
<1>4. ASSUME HoldsBytes(c, at, w) PROVE HoldsBytes(c, at, s) /\ HoldsBytes(c, at + n, u)
  <2>1. \A i \in 1 .. n + m : Byte(c, at + i - 1) = w[i]
    BY <1>3, <1>4 DEF HoldsBytes
  <2>2. \A i \in 1 .. n : Byte(c, at + i - 1) = s[i]
    <3> TAKE i \in 1 .. n
    <3>1. i \in 1 .. n + m /\ i <= n
      OBVIOUS
    <3> QED BY <1>3, <2>1, <3>1
  <2>3. \A j \in 1 .. m : Byte(c, at + n + j - 1) = u[j]
    <3> TAKE j \in 1 .. m
    <3>1. n + j \in 1 .. n + m /\ ~(n + j <= n) /\ (n + j) - n = j /\ at + (n + j) - 1 = at + n + j - 1
      OBVIOUS
    <3>2. Byte(c, at + (n + j) - 1) = w[n + j] /\ w[n + j] = u[(n + j) - n]
      BY <1>3, <2>1, <3>1
    <3> QED BY <3>1, <3>2
  <2> QED BY <1>2, <2>2, <2>3 DEF HoldsBytes
<1> QED BY <1>1, <1>2, <1>4 DEF w

LEMMA ZeroEnded ==
  ASSUME NEW c, NEW at \in Int, NEW name \in NameStrings
  PROVE  /\ Append(name, 0) \in Contents /\ Len(Append(name, 0)) = Len(name) + 1
         /\ HoldsBytes(c, at, Append(name, 0)) => HoldsString(c, at, name)
<1>1. name \in Contents /\ 0 \in Octet
  <2>1. name \in Seq(Octet)
    BY DEF NameStrings, Letter
  <2> QED BY <2>1 DEF Contents, Octet
<1>2. /\ Append(name, 0) \in Contents /\ Len(Append(name, 0)) = Len(name) + 1
      /\ \A i \in 1 .. Len(name) : Append(name, 0)[i] = name[i]
      /\ Append(name, 0)[Len(name) + 1] = 0
  BY <1>1, AppendProperties DEF Contents
<1> DEFINE w == Append(name, 0)
<1>3. PICK n \in Nat : n = Len(name)
  BY DEF NameStrings
<1>4. Len(w) = n + 1 /\ w[n + 1] = 0 /\ \A i \in 1 .. n : w[i] = name[i]
  BY <1>2, <1>3
<1> HIDE DEF w
<1>5. HoldsBytes(c, at, w) => HoldsString(c, at, name)
  <2> SUFFICES ASSUME HoldsBytes(c, at, w) PROVE HoldsString(c, at, name)
    OBVIOUS
  <2>1. \A i \in 1 .. n + 1 : Byte(c, at + i - 1) = w[i]
    BY <1>4 DEF HoldsBytes
  <2>2. n + 1 \in 1 .. n + 1 /\ at + (n + 1) - 1 = at + n /\ \A i \in 1 .. n : i \in 1 .. n + 1
    OBVIOUS
  <2>3. Byte(c, at + n) = 0 /\ \A i \in 1 .. n : Byte(c, at + i - 1) = name[i]
    BY <1>4, <2>1, <2>2
  <2> QED BY <1>3, <2>3 DEF HoldsString
<1> QED BY <1>2, <1>5 DEF w

LEMMA CellHeld ==
  ASSUME NEW c, NEW at \in Int, NEW v \in Word
  PROVE  /\ CellBytes(v) \in Contents /\ Len(CellBytes(v)) = Cell
         /\ HoldsBytes(c, at, CellBytes(v)) => LoadCell(c, at) = v
<1>1. CellBytes(v) \in Contents /\ Len(CellBytes(v)) = Cell
  BY CellBytesFacts DEF Word, Contents
<1>2. HoldsBytes(c, at, CellBytes(v)) => LoadCell(c, at) = v
  BY <1>1, LoadStored DEF HoldsBytes
<1> QED BY <1>1, <1>2

LEMMA CellContents == ASSUME NEW v \in Word PROVE CellBytes(v) \in Contents /\ Len(CellBytes(v)) = Cell
<1>1. 0 \in Int
  OBVIOUS
<1> QED BY <1>1, CellHeld

LEMMA NameContents ==
  ASSUME NEW name \in NameStrings PROVE Append(name, 0) \in Contents /\ Len(Append(name, 0)) = Len(name) + 1
<1>1. 0 \in Int
  OBVIOUS
<1> QED BY <1>1, ZeroEnded

LEMMA Joined ==
  ASSUME NEW s \in Contents, NEW u \in Contents
  PROVE  s \o u \in Contents /\ Len(s \o u) = Len(s) + Len(u)
<1>1. 0 \in Int
  OBVIOUS
<1> QED BY <1>1, HoldsJoined

LEMMA NumbersAreWords ==
  FDT_BEGIN_NODE \in Word /\ FDT_END_NODE \in Word /\ FDT_PROP \in Word /\ FDT_END \in Word /\ 0 \in Word
<1>1. WordSize >= 65536
  BY WordFacts
<1>2. \A v \in 0 .. 9 : v \in Word
  BY <1>1, WordFacts, WordIs
<1> QED BY <1>2 DEF FDT_BEGIN_NODE, FDT_END_NODE, FDT_PROP, FDT_END

(* What emit leaves behind when there is room.                             *)
Grows(c, d, s, n) ==
  /\ Len(s) <= n /\ headsize(c) + n + c.size_dt_strings <= c.totalsize
  /\ d = With(c, c.size_dt_struct + n, c.size_dt_strings, written(c.bytes, headsize(c), s))

LEMMA Grown ==
  ASSUME NEW c, Draft(c), NEW s \in Contents, NEW n \in Nat, NEW d, Grows(c, d, s, n)
  PROVE  /\ Draft(d) /\ d.size_dt_struct = c.size_dt_struct + n /\ d.size_dt_strings = c.size_dt_strings
         /\ d.off_dt_struct = c.off_dt_struct /\ d.totalsize = c.totalsize
         /\ d.off_mem_rsvmap = c.off_mem_rsvmap /\ d.off_dt_strings = c.off_dt_strings
         /\ d.last_comp_version = c.last_comp_version
         /\ Same(c, d, 0, headsize(c)) /\ StringsStay(c, d) /\ HoldsBytes(d, headsize(c), s)
<1>1. PICK o \in Nat, k \in Nat, z \in Nat, e \in Nat, h \in Nat :
        /\ o = c.off_dt_struct /\ k = c.size_dt_struct /\ z = c.size_dt_strings /\ e = c.totalsize
        /\ h = headsize(c) /\ h = o + k /\ h + n + z <= e
  BY DraftFacts DEF Grows
<1>2. BankOf(c) \in SUBSET Int /\ c.bytes \in Banks(BankOf(c))
      /\ \A i \in Int : 0 <= i /\ i < e => i \in BankOf(c)
  BY <1>1, DraftFacts
<1> DEFINE w == written(c.bytes, h, s)
<1>3. PICK l \in Nat : l = Len(s) /\ l <= n
  BY DEF Contents, Grows
<1>4. /\ w \in Banks(BankOf(c))
      /\ \A i \in BankOf(c) : i >= h /\ i < h + l => w[i] = s[i - h + 1]
      /\ \A i \in BankOf(c) : i < h \/ i >= h + l => w[i] = c.bytes[i]
  BY <1>2, <1>3, WrittenIs
<1>5. d = With(c, k + n, z, w) /\ k + n \in Nat /\ o + (k + n) + z <= e
  <2>1. k + n \in Nat /\ o + (k + n) + z <= e
    BY <1>1
  <2> QED BY <1>1, <2>1 DEF Grows
<1> HIDE DEF w
<1>6. /\ Draft(d) /\ d.size_dt_struct = k + n /\ d.size_dt_strings = z /\ d.bytes = w
      /\ d.off_dt_struct = o /\ d.totalsize = e
      /\ d.off_mem_rsvmap = c.off_mem_rsvmap /\ d.off_dt_strings = c.off_dt_strings
      /\ d.last_comp_version = c.last_comp_version
  <2>1. w \in Banks(BankOf(c)) /\ c.off_dt_struct + (k + n) + z <= c.totalsize /\ k + n \in Nat
    BY <1>1, <1>4, <1>5
  <2> QED BY <1>1, <1>5, <2>1, WithIs, SMTT(40)
<1>7. \A i \in Int : 0 <= i /\ i < e /\ (i < h \/ i >= h + l) => Byte(d, i) = Byte(c, i)
  BY <1>2, <1>4, <1>6 DEF Byte
<1>8. Same(c, d, 0, h)
  <2>1. \A i \in Int : 0 <= i /\ i < h => i < e
    BY <1>1
  <2> QED BY <1>7, <2>1 DEF Same
<1>9. StringsStay(c, d)
  <2>1. \A v \in Nat : 0 < v /\ v <= z => Byte(d, e - v) = Byte(c, e - v)
    <3> SUFFICES ASSUME NEW v \in Nat, 0 < v, v <= z PROVE Byte(d, e - v) = Byte(c, e - v)
      OBVIOUS
    <3>0. h + n + z <= e /\ l <= n
      BY <1>1, <1>3
    <3>1. e - v \in Int /\ 0 <= e - v /\ e - v < e /\ e - v >= h + l
      BY <3>0
    <3> QED BY <1>7, <3>1
  <2> QED BY <1>1, <1>6, <2>1 DEF StringsStay
<1>10. HoldsBytes(d, h, s)
  <2>1. ASSUME NEW i \in 1 .. l PROVE Byte(d, h + i - 1) = s[i]
    <3>1. h + i - 1 \in Int /\ h + i - 1 >= h /\ h + i - 1 < h + l /\ 0 <= h + i - 1 /\ h + i - 1 < e
          /\ (h + i - 1) - h + 1 = i
      <4>1. h + n + z <= e /\ l <= n
        BY <1>1, <1>3
      <4> QED BY <4>1
    <3>2. h + i - 1 \in BankOf(c)
      BY <1>2, <3>1
    <3>3. w[h + i - 1] = s[(h + i - 1) - h + 1]
      BY <1>4, <3>1, <3>2
    <3> QED BY <1>6, <3>1, <3>3 DEF Byte
  <2> QED BY <1>3, <2>1 DEF HoldsBytes
<1> QED BY <1>1, <1>6, <1>8, <1>9, <1>10

LEMMA SpaceIs == header_space = 12 * Cell /\ EntrySize = 4 * Cell /\ header_space \in Nat /\ header_space > 0
                 /\ EntrySize \in Nat /\ EntrySize > 0
<1>1. fdt_header_size_(17) = Cell * 10
  BY SMT DEF fdt_header_size_
<1>2. header_space = ((Cell * 10 + 4 * Cell - 1) \div (4 * Cell)) * (4 * Cell)
  BY <1>1 DEF header_space, FDT_ALIGN, EntrySize
<1>3. CASE Cell = 2
  BY <1>2, <1>3 DEF EntrySize
<1>4. CASE Cell = 4
  BY <1>2, <1>4 DEF EntrySize
<1> QED BY <1>3, <1>4, CellAssumption

(***************************************************************************)
(* The table of strings.  Strings are known by their distance from the end *)
(* of the buffer: where one starts, and what stands there.                 *)
(***************************************************************************)
Starts(c) == {v \in Nat : /\ 0 < v /\ v <= c.size_dt_strings
                          /\ v = c.size_dt_strings \/ Byte(c, c.totalsize - (v + 1)) = 0}
Stands(c, v, name) == Len(name) < v /\ HoldsString(c, c.totalsize - v, name)

NoStrays(c, ts) ==
  \A v \in Starts(c) : \E i \in 1 .. Len(ts) : ts[i].tag = "prop" /\ Stands(c, v, ts[i].name)
NoTwins(c) ==
  \A v \in Starts(c), w \in Starts(c), name \in NameStrings :
    Stands(c, v, name) /\ Stands(c, w, name) => v = w
Tabled(c, ts) == NoStrays(c, ts) /\ (c.last_comp_version = 0 => NoTwins(c))

(* A table that stays, and one that gets the string of a name.             *)
Keeps(c, d) == /\ d.size_dt_strings = c.size_dt_strings /\ StringsStay(c, d)
               /\ d.last_comp_version = c.last_comp_version
Gains(c, d, ts, us) == Tabled(c, ts) => Tabled(d, us)
Takes(c, d, name) ==
  \A ts \in Trees, t \in TreeTokens : t.tag = "prop" /\ t.name = name => Gains(c, d, ts, Append(ts, t))

(* Sizes that are what they should be, of a blob that is being written or  *)
(* of a finished one.                                                      *)
Sized(c) == c.totalsize \in Nat /\ c.size_dt_strings \in Nat /\ c.size_dt_strings <= c.totalsize

LEMMA DraftSized == ASSUME NEW c, Draft(c) PROVE Sized(c)
<1>1. PICK h \in Nat, z \in Nat, e \in Nat : z = c.size_dt_strings /\ e = c.totalsize /\ h + z <= e
  BY DraftFacts
<1>2. z <= e
  BY <1>1
<1> QED BY <1>1, <1>2 DEF Sized

LEMMA StandsStays ==
  ASSUME NEW c, NEW d, Sized(c), Sized(d), StringsStay(c, d), NEW v \in Nat, v <= c.size_dt_strings,
         NEW name \in NameStrings
  PROVE  Stands(d, v, name) <=> Stands(c, v, name)
<1>1. PICK n \in Nat : n = Len(name)
  BY DEF NameStrings
<1>2. PICK e \in Nat, g \in Nat, y \in Nat : e = c.totalsize /\ g = d.totalsize /\ y = c.size_dt_strings
  BY DEF Sized
<1>3. v <= y /\ \A w \in Nat : 0 < w /\ w <= y => Byte(d, g - w) = Byte(c, e - w)
  BY <1>2 DEF StringsStay
<1>4. ASSUME n < v PROVE HoldsString(d, g - v, name) <=> HoldsString(c, e - v, name)
  <2>1. \A k \in 0 .. n : Byte(d, g - v + k) = Byte(c, e - v + k)
    <3> TAKE k \in 0 .. n
    <3>1. PICK w \in Nat : w = v - k /\ 0 < w /\ w <= y
      BY <1>3, <1>4
    <3>2. g - v + k = g - w /\ e - v + k = e - w
      BY <3>1
    <3> QED BY <1>3, <3>1, <3>2
  <2>2. Byte(d, g - v + n) = Byte(c, e - v + n)
    BY <2>1
  <2>3. \A i \in 1 .. n : Byte(d, g - v + i - 1) = Byte(c, e - v + i - 1)
    <3> TAKE i \in 1 .. n
    <3>1. i - 1 \in 0 .. n /\ g - v + i - 1 = g - v + (i - 1) /\ e - v + i - 1 = e - v + (i - 1)
      OBVIOUS
    <3> QED BY <2>1, <3>1
  <2> QED BY <1>1, <2>2, <2>3 DEF HoldsString
<1> QED BY <1>1, <1>2, <1>4 DEF Stands

LEMMA StartsStay ==
  ASSUME NEW c, NEW d, Sized(c), Sized(d), StringsStay(c, d), NEW v \in Nat, v < c.size_dt_strings,
         v \in Starts(d)
  PROVE  v \in Starts(c)
<1>1. PICK e \in Nat, g \in Nat, y \in Nat, z \in Nat :
        e = c.totalsize /\ g = d.totalsize /\ y = c.size_dt_strings /\ z = d.size_dt_strings /\ y <= z
  BY DEF Sized, StringsStay
<1>2. PICK w \in Nat : w = v + 1 /\ 0 < w /\ w <= y /\ v # z
  BY <1>1
<1>3. Byte(d, g - w) = Byte(c, e - w)
  BY <1>1, <1>2 DEF StringsStay
<1>4. 0 < v /\ Byte(d, g - w) = 0
  BY <1>1, <1>2 DEF Starts
<1>5. v <= y
  BY <1>1
<1> QED BY <1>1, <1>2, <1>3, <1>4, <1>5 DEF Starts

LEMMA TokensStay ==
  ASSUME NEW ts \in Trees, NEW t \in TreeTokens
  PROVE  /\ Append(ts, t) \in Trees /\ Len(Append(ts, t)) = Len(ts) + 1 /\ Len(ts) \in Nat
         /\ Append(ts, t)[Len(ts) + 1] = t
         /\ \A i \in 1 .. Len(ts) : Append(ts, t)[i] = ts[i] /\ i \in 1 .. Len(ts) + 1 /\ ts[i].name \in NameStrings
<1>1. Len(ts) \in Nat /\ \A i \in 1 .. Len(ts) : ts[i].name \in NameStrings /\ i \in 1 .. Len(ts) + 1
  BY TreeFacts, TokenCases
<1> QED BY <1>1, AppendProperties DEF Trees

LEMMA NoStraysMore ==
  ASSUME NEW d, NEW ts \in Trees, NEW t \in TreeTokens, NoStrays(d, ts) PROVE NoStrays(d, Append(ts, t))
<1> SUFFICES ASSUME NEW v \in Starts(d)
             PROVE  \E i \in 1 .. Len(Append(ts, t)) :
                      Append(ts, t)[i].tag = "prop" /\ Stands(d, v, Append(ts, t)[i].name)
  BY DEF NoStrays
<1>1. PICK i \in 1 .. Len(ts) : ts[i].tag = "prop" /\ Stands(d, v, ts[i].name)
  BY DEF NoStrays
<1> QED BY <1>1, TokensStay

LEMMA StartsKept ==
  ASSUME NEW c, NEW d, Sized(c), Sized(d), StringsStay(c, d), d.size_dt_strings = c.size_dt_strings,
         NEW v \in Starts(d)
  PROVE  v \in Starts(c) /\ v \in Nat /\ v <= c.size_dt_strings
<1>1. PICK z \in Nat : z = c.size_dt_strings /\ z = d.size_dt_strings
  BY DEF Sized
<1>2. v \in Nat /\ 0 < v /\ v <= z
  BY <1>1 DEF Starts
<1>3. CASE v = z
  BY <1>1, <1>2, <1>3 DEF Starts
<1>4. CASE v < z
  BY <1>1, <1>2, <1>4, StartsStay
<1> QED BY <1>1, <1>2, <1>3, <1>4

LEMMA NoStraysKept ==
  ASSUME NEW c, NEW d, Sized(c), Sized(d), StringsStay(c, d), d.size_dt_strings = c.size_dt_strings,
         NEW ts \in Trees, NoStrays(c, ts)
  PROVE  NoStrays(d, ts)
<1> SUFFICES ASSUME NEW v \in Starts(d)
             PROVE  \E i \in 1 .. Len(ts) : ts[i].tag = "prop" /\ Stands(d, v, ts[i].name)
  BY DEF NoStrays
<1>1. v \in Starts(c) /\ v \in Nat /\ v <= c.size_dt_strings
  BY StartsKept
<1>2. PICK i \in 1 .. Len(ts) : ts[i].tag = "prop" /\ Stands(c, v, ts[i].name)
  BY <1>1 DEF NoStrays
<1>3. PICK name \in NameStrings : name = ts[i].name
  BY TreeFacts, TokenCases
<1>4. Stands(d, v, name)
  BY <1>1, <1>2, <1>3, StandsStays
<1> QED BY <1>2, <1>3, <1>4

LEMMA TableKept ==
  ASSUME NEW c, NEW d, Draft(c), Draft(d), Keeps(c, d), NEW ts \in Trees
  PROVE  /\ Gains(c, d, ts, ts)
         /\ \A t \in TreeTokens : Gains(c, d, ts, Append(ts, t))
<1>0. /\ StringsStay(c, d) /\ d.size_dt_strings = c.size_dt_strings
      /\ d.last_comp_version = c.last_comp_version /\ Sized(c) /\ Sized(d)
  BY DraftSized DEF Keeps
<1>1. ASSUME NoStrays(c, ts) PROVE NoStrays(d, ts)
  BY <1>0, <1>1, NoStraysKept
<1>2. ASSUME NoTwins(c) PROVE NoTwins(d)
  <2> SUFFICES ASSUME NEW v \in Starts(d), NEW w \in Starts(d), NEW name \in NameStrings,
                      Stands(d, v, name), Stands(d, w, name)
               PROVE  v = w
    BY DEF NoTwins
  <2>1. /\ v \in Starts(c) /\ v \in Nat /\ v <= c.size_dt_strings
        /\ w \in Starts(c) /\ w \in Nat /\ w <= c.size_dt_strings
    BY <1>0, StartsKept
  <2>2. Stands(c, v, name) /\ Stands(c, w, name)
    BY <1>0, <2>1, StandsStays
  <2> QED BY <1>2, <2>1, <2>2 DEF NoTwins
<1>3. Gains(c, d, ts, ts)
  BY <1>0, <1>1, <1>2 DEF Gains, Tabled
<1>4. ASSUME NEW t \in TreeTokens PROVE Gains(c, d, ts, Append(ts, t))
  BY <1>3, NoStraysMore DEF Gains, Tabled
<1> QED BY <1>3, <1>4

LEMMA GrownKeeps ==
  ASSUME NEW c, Draft(c), NEW s \in Contents, NEW n \in Nat, NEW d, Grows(c, d, s, n)
  PROVE  Keeps(c, d) /\ Draft(d)
BY Grown DEF Keeps

(***************************************************************************)
(* Calls.                                                                  *)
(***************************************************************************)
(* The blob after a call: with the same reservations and the tree ts.      *)
Follows(c, d, k, ts) == Building(d, k, ts) /\ Same(c, d, 0, c.off_dt_struct)

LEMMA StructProbe ==
  ASSUME NEW c, NEW k \in Nat, NEW ts, Building(c, k, ts)
  PROVE  fdt_sw_probe_struct_(c) = 0 /\ fdt_sw_probe_(c) = 0 /\ fdt_sw_probe_memrsv_(c) # 0
<1>1. c.magic = "FDT_SW_MAGIC" /\ c.off_dt_strings = c.totalsize
  BY DEF Building, Draft
<1>2. fdt_sw_probe_(c) = 0
  BY <1>1 DEF fdt_sw_probe_
<1>3. c.totalsize # 0
  <2>0. PICK e \in Nat, o \in Nat, l \in Nat, z \in Nat :
          o = c.off_dt_struct /\ e = c.totalsize /\ headsize(c) = o + l /\ headsize(c) + z <= e
    BY DraftFacts DEF Building
  <2>1. PICK j \in Nat : j = k + 1 /\ o <= e
    BY <2>0
  <2>2. o = header_space + j * EntrySize
    BY <2>0, <2>1 DEF Building
  <2>3. j * EntrySize \in Nat
    BY SpaceIs
  <2> QED BY <2>0, <2>1, <2>2, <2>3, SpaceIs
<1> QED BY <1>1, <1>2, <1>3 DEF fdt_sw_probe_struct_, fdt_sw_probe_memrsv_, FDT_ERR_BADSTATE

(* A call of emit appends a token or fails for lack of space.              *)
Appends(c, d, k, ts, t) == \/ Follows(c, d, k, ts) /\ Gains(c, d, ts, ts)
                           \/ Follows(c, d, k, Append(ts, t)) /\ Gains(c, d, ts, Append(ts, t))

LEMMA StillThere ==
  ASSUME NEW c, NEW k, NEW ts, Building(c, k, ts) PROVE Follows(c, c, k, ts) /\ Gains(c, c, ts, ts)
BY DEF Follows, Same, Gains

LEMMA Appended ==
  ASSUME NEW c, NEW k \in Nat, NEW ts \in Trees, Building(c, k, ts),
         NEW t \in TreeTokens, NEW d, Draft(d), d.off_dt_struct = c.off_dt_struct,
         d.totalsize = c.totalsize, d.off_mem_rsvmap = c.off_mem_rsvmap,
         d.off_dt_strings = c.off_dt_strings, d.last_comp_version = c.last_comp_version,
         d.size_dt_struct = c.size_dt_struct + TokenSize(t),
         Same(c, d, 0, headsize(c)), StringsStay(c, d),
         NEW y \in Word, HoldsToken(d, headsize(c), t, y), t.tag = "prop" => NameBelow(d, y, t.name)
  PROVE  Follows(c, d, k, Append(ts, t))
<1>1. Draft(c) /\ Holds(c, ts)
  BY DEF Building
<1>2. Holds(d, Append(ts, t))
  BY <1>1, HoldsMore
<1>3. Building(d, k, Append(ts, t))
  BY <1>2 DEF Building
<1>4. PICK o \in Nat, l \in Nat, h \in Nat : o = c.off_dt_struct /\ h = headsize(c) /\ h = o + l
  BY <1>1, DraftFacts
<1>5. Same(c, d, 0, o)
  BY <1>4 DEF Same
<1> QED BY <1>3, <1>4, <1>5 DEF Follows

LEMMA ErrorsDiffer == -FDT_ERR_NOSPACE # 0 /\ -FDT_ERR_NOSPACE < 0 /\ -FDT_ERR_BADSTATE # 0
BY DEF FDT_ERR_NOSPACE, FDT_ERR_BADSTATE

LEMMA BeginNodeAppends ==
  ASSUME NEW c, NEW k \in Nat, NEW ts \in Trees, Building(c, k, ts),
         NEW name \in NameStrings, Len(name) + 4 * Cell <= INT_MAX
  PROVE  Appends(c, fdt_begin_node(c, name).b, k, ts, Begin(name))
<1> DEFINE t == Begin(name)
           s == CellBytes(FDT_BEGIN_NODE) \o Append(name, 0)
           n == Cell + FDT_TAGALIGN(Len(name) + 1)
<1>1. Draft(c) /\ fdt_sw_probe_struct_(c) = 0
  BY StructProbe DEF Building
<1>2. t \in TreeTokens /\ t.tag = "begin" /\ t.name = name
  BY DEF TreeTokens, Begin
<1>3. TokenSize(t) = n /\ n \in Nat /\ Cell + Len(name) + 1 <= n
  BY <1>2, SizeFacts
<1>4. s \in Contents /\ Len(s) = Cell + Len(name) + 1
  <2>1. CellBytes(FDT_BEGIN_NODE) \in Contents /\ Len(CellBytes(FDT_BEGIN_NODE)) = Cell
    BY CellContents, NumbersAreWords
  <2>2. Append(name, 0) \in Contents /\ Len(Append(name, 0)) = Len(name) + 1
    BY NameContents
  <2>3. s \in Contents /\ Len(s) = Cell + (Len(name) + 1)
    BY <2>1, <2>2, Joined
  <2>4. Cell + (Len(name) + 1) = Cell + Len(name) + 1
    <3>1. PICK z \in Nat : z = Len(name)
      BY DEF NameStrings
    <3> QED BY <3>1, CellPos
  <2> QED BY <2>3, <2>4
<1>5. n <= INT_MAX
  <2>1. PICK z \in Nat : z = Len(name) /\ z + 4 * Cell <= INT_MAX
    BY DEF NameStrings
  <2>2. z + 1 \in Nat
    OBVIOUS
  <2>3. PICK a \in Nat : a = FDT_TAGALIGN(z + 1) /\ a < z + 1 + Cell
    BY <2>2, AlignFacts
  <2>4. PICK c4 \in Nat : c4 = 4 * Cell /\ c4 = Cell + Cell + Cell + Cell
    BY CellPos
  <2>5. Cell + a <= INT_MAX
    BY <2>1, <2>3, <2>4, CellPos, MemoryFacts
  <2> QED BY <2>1, <2>3, <2>5
<1>6. fdt_begin_node(c, name) = emit(c, s, n)
  BY <1>1 DEF fdt_begin_node, Probed
<1>7. Draft(c) /\ s \in Contents /\ n \in Nat /\ n <= INT_MAX /\ Len(s) <= n
  BY <1>1, <1>3, <1>4, <1>5
<1> HIDE DEF s, n, t
<1>8. CASE headsize(c) + n + c.size_dt_strings > c.totalsize
  <2>1. emit(c, s, n).b = c
    BY <1>7, <1>8, Emitted, ResultIs
  <2> QED BY <1>6, <2>1, StillThere DEF Appends
<1>9. CASE ~(headsize(c) + n + c.size_dt_strings > c.totalsize)
  <2>1. PICK d : d = With(c, c.size_dt_struct + n, c.size_dt_strings, written(c.bytes, headsize(c), s))
    OBVIOUS
  <2>2. emit(c, s, n).b = d
    BY <1>7, <1>9, <2>1, Emitted, ResultIs
  <2>3. headsize(c) + n + c.size_dt_strings <= c.totalsize
    <3>1. PICK h \in Nat, z \in Nat, e \in Nat : h = headsize(c) /\ z = c.size_dt_strings /\ e = c.totalsize
      BY <1>7, DraftFacts
    <3> QED BY <1>7, <1>9, <3>1, SMTT(40)
  <2>4. Grows(c, d, s, n)
    BY <1>7, <2>1, <2>3 DEF Grows
  <2>5. PICK h \in Nat : h = headsize(c)
    BY <1>7, DraftFacts
  <2>6. HoldsToken(d, h, t, 0)
    <3>1. HoldsBytes(d, h, s)
      BY <1>7, <2>4, <2>5, Grown
    <3>2. HoldsBytes(d, h, CellBytes(FDT_BEGIN_NODE)) /\ HoldsBytes(d, h + Cell, Append(name, 0))
      <4>1. /\ CellBytes(FDT_BEGIN_NODE) \in Contents /\ Len(CellBytes(FDT_BEGIN_NODE)) = Cell
            /\ Append(name, 0) \in Contents /\ h \in Int
        BY CellContents, NameContents, NumbersAreWords
      <4> QED BY <3>1, <4>1, HoldsJoined DEF s
    <3>3. h + Cell \in Int
      BY CellPos
    <3>4. LoadCell(d, h) = FDT_BEGIN_NODE /\ HoldsString(d, h + Cell, name)
      BY <3>2, <3>3, CellHeld, ZeroEnded, NumbersAreWords
    <3> QED BY <1>2, <3>4, NumberFacts DEF HoldsToken
  <2>7. Follows(c, d, k, Append(ts, t))
    BY <1>2, <1>3, <1>7, <2>4, <2>5, <2>6, Grown, Appended, NumbersAreWords
  <2>8. Gains(c, d, ts, Append(ts, t))
    BY <1>2, <1>7, <2>4, GrownKeeps, TableKept
  <2> QED BY <1>6, <2>2, <2>7, <2>8 DEF Appends, t
<1> QED BY <1>8, <1>9

LEMMA EndNodeAppends ==
  ASSUME NEW c, NEW k \in Nat, NEW ts \in Trees, Building(c, k, ts)
  PROVE  Appends(c, fdt_end_node(c).b, k, ts, End)
<1> DEFINE t == End
           s == CellBytes(FDT_END_NODE)
<1>1. Draft(c) /\ fdt_sw_probe_struct_(c) = 0
  BY StructProbe DEF Building
<1>2. t \in TreeTokens /\ t.tag = "end"
  BY DEF TreeTokens, End
<1>3. TokenSize(t) = Cell
  BY <1>2, SizeFacts
<1>4. s \in Contents /\ Len(s) = Cell
  BY CellContents, NumbersAreWords
<1>5. Cell \in Nat /\ Cell <= INT_MAX /\ Cell <= Cell
  BY WordFacts
<1>6. fdt_end_node(c) = emit(c, s, Cell)
  BY <1>1 DEF fdt_end_node, Probed
<1> HIDE DEF s, t
<1>8. CASE headsize(c) + Cell + c.size_dt_strings > c.totalsize
  <2>1. emit(c, s, Cell).b = c
    BY <1>1, <1>4, <1>5, <1>8, Emitted, ResultIs
  <2> QED BY <1>6, <2>1, StillThere DEF Appends
<1>9. CASE ~(headsize(c) + Cell + c.size_dt_strings > c.totalsize)
  <2>1. PICK d : d = With(c, c.size_dt_struct + Cell, c.size_dt_strings, written(c.bytes, headsize(c), s))
    OBVIOUS
  <2>2. emit(c, s, Cell).b = d
    BY <1>1, <1>4, <1>5, <1>9, <2>1, Emitted, ResultIs
  <2>3. headsize(c) + Cell + c.size_dt_strings <= c.totalsize
    <3>1. PICK h \in Nat, z \in Nat, e \in Nat : h = headsize(c) /\ z = c.size_dt_strings /\ e = c.totalsize
      BY <1>1, DraftFacts
    <3> QED BY <1>5, <1>9, <3>1
  <2>4. Grows(c, d, s, Cell)
    BY <1>4, <1>5, <2>1, <2>3 DEF Grows
  <2>5. PICK h \in Nat : h = headsize(c)
    BY <1>1, DraftFacts
  <2>6. HoldsToken(d, h, t, 0)
    <3>1. HoldsBytes(d, h, s)
      BY <1>1, <1>4, <1>5, <2>4, <2>5, Grown
    <3>2. LoadCell(d, h) = FDT_END_NODE
      BY <3>1, CellHeld, NumbersAreWords DEF s
    <3> QED BY <1>2, <3>2, NumberFacts DEF HoldsToken
  <2>7. Follows(c, d, k, Append(ts, t))
    BY <1>1, <1>2, <1>3, <1>4, <1>5, <2>4, <2>5, <2>6, Grown, Appended, NumbersAreWords
  <2>8. Gains(c, d, ts, Append(ts, t))
    BY <1>1, <1>2, <1>4, <1>5, <2>4, GrownKeeps, TableKept
  <2> QED BY <1>6, <2>2, <2>7, <2>8 DEF Appends, t
<1> QED BY <1>8, <1>9

(***************************************************************************)
(* Strings.                                                                *)
(***************************************************************************)
TableOf(c) == c.totalsize - c.size_dt_strings
Lookup(c, name) == fdt_find_string_len_(c, TableOf(c), c.size_dt_strings, name)

LEMMA LookupIs ==
  ASSUME NEW c, Draft(c), NEW name \in NameStrings
  PROVE  \/ Lookup(c, name) = -1
         \/ /\ Lookup(c, name) \in Nat /\ Lookup(c, name) + Len(name) < c.size_dt_strings
            /\ HoldsString(c, TableOf(c) + Lookup(c, name), name)
<1> DEFINE found(p) == Bytes(c, TableOf(c) + p, Len(name) + 1) = Append(name, 0)
           hits == {p \in 0 .. c.size_dt_strings - (Len(name) + 1) : found(p)}
<1>1. PICK n \in Nat, z \in Nat, e \in Nat, g \in Nat :
        n = Len(name) /\ z = c.size_dt_strings /\ e = c.totalsize /\ g = TableOf(c) /\ e = g + z
  <2>1. PICK n \in Nat : n = Len(name)
    BY DEF NameStrings
  <2>2. PICK z \in Nat, e \in Nat, h \in Nat :
          z = c.size_dt_strings /\ e = c.totalsize /\ h = headsize(c) /\ h + z <= e
    BY DraftFacts
  <2>3. e - z \in Nat /\ e = (e - z) + z
    BY <2>2
  <2> QED BY <2>1, <2>2, <2>3 DEF TableOf
<1>2. Lookup(c, name) = IF hits = {} THEN -1 ELSE CHOOSE p \in hits : \A q \in hits : p <= q
  BY DEF Lookup, fdt_find_string_len_
<1>3. hits \in SUBSET Nat /\ \A p \in hits : p \in Nat /\ p + n < z /\ found(p)
  BY <1>1, SMTT(40)
<1>4. CASE hits # {}
  <2>1. \E p \in hits : \A q \in hits : p <= q
    <3> HIDE DEF hits
    <3> QED BY <1>3, <1>4, Least
  <2>2. PICK p \in hits : p = Lookup(c, name)
    <3> HIDE DEF hits
    <3> QED BY <1>2, <1>4, <2>1
  <2>3. p \in Nat /\ p + n < z /\ found(p)
    BY <1>3, <2>2
  <2> HIDE DEF hits
  <2>4. HoldsBytes(c, g + p, Append(name, 0))
    <3>1. Len(Append(name, 0)) = n + 1
      BY <1>1, NameContents
    <3>2. \A i \in 1 .. n + 1 : Append(name, 0)[i] = Byte(c, g + p + i - 1)
      <4>1. Append(name, 0) = [i \in 1 .. n + 1 |-> Byte(c, g + p + i - 1)]
        BY <1>1, <2>3 DEF Bytes
      <4> QED BY <4>1
    <3> QED BY <3>1, <3>2 DEF HoldsBytes
  <2>5. HoldsString(c, g + p, name)
    <3>1. g + p \in Int
      BY <2>3
    <3> QED BY <2>4, <3>1, ZeroEnded
  <2> QED BY <1>1, <2>2, <2>3, <2>5
<1> QED BY <1>2, <1>4

(* What stands at a place is one string.                                   *)
LEMMA StandsOnce ==
  ASSUME NEW c, Sized(c), NEW v \in Nat, v <= c.size_dt_strings, NEW name \in NameStrings, Stands(c, v, name)
  PROVE  CString(c, c.totalsize - v) = name
<1>1. PICK e \in Nat, z \in Nat : e = c.totalsize /\ z = c.size_dt_strings /\ z <= e
  BY DEF Sized
<1>2. PICK n \in Nat : n = Len(name) /\ n < v /\ HoldsString(c, e - v, name)
  BY <1>1 DEF Stands, NameStrings
<1>3. n <= e /\ e - v \in Int
  <2>1. n < v /\ v <= z /\ z <= e
    BY <1>1, <1>2
  <2> QED BY <2>1
<1> QED BY <1>1, <1>2, <1>3, StringRead DEF NameStrings

(* A string that stands in the table is found.                             *)
LEMMA StandsFound ==
  ASSUME NEW c, Sized(c), NEW v \in Nat, v <= c.size_dt_strings, NEW name \in NameStrings, Stands(c, v, name)
  PROVE  Lookup(c, name) # -1
<1> DEFINE found(p) == Bytes(c, TableOf(c) + p, Len(name) + 1) = Append(name, 0)
           hits == {p \in 0 .. c.size_dt_strings - (Len(name) + 1) : found(p)}
<1>1. PICK n \in Nat, z \in Nat, e \in Nat, p \in Nat :
        n = Len(name) /\ z = c.size_dt_strings /\ e = c.totalsize /\ n < v /\ v <= z /\ p = z - v
        /\ (e - z) + p = e - v /\ p \in 0 .. z - (n + 1)
  <2>1. PICK n \in Nat : n = Len(name) /\ n < v
    BY DEF NameStrings, Stands
  <2>2. PICK z \in Nat, e \in Nat : z = c.size_dt_strings /\ e = c.totalsize /\ v <= z
    BY DEF Sized
  <2>3. z - v \in Nat /\ (e - z) + (z - v) = e - v /\ z - v \in 0 .. z - (n + 1)
    BY <2>1, <2>2
  <2> QED BY <2>1, <2>2, <2>3
<1>2. HoldsString(c, e - v, name)
  BY <1>1 DEF Stands
<1>3. found(p)
  <2>1. Append(name, 0) \in Seq(Octet) /\ Len(Append(name, 0)) = n + 1 /\ Append(name, 0)[n + 1] = 0
        /\ \A i \in 1 .. n : Append(name, 0)[i] = name[i]
    <3>1. name \in Seq(Octet) /\ 0 \in Octet
      BY DEF NameStrings, Letter, Octet
    <3> QED BY <1>1, <3>1, AppendProperties
  <2>2. ASSUME NEW i \in 1 .. n + 1 PROVE Append(name, 0)[i] = Byte(c, (TableOf(c) + p) + i - 1)
    <3>0. (TableOf(c) + p) + i - 1 = e - v + i - 1
      BY <1>1 DEF TableOf
    <3>1. CASE i = n + 1
      <4>1. e - v + i - 1 = e - v + n
        BY <3>1
      <4> QED BY <1>1, <1>2, <2>1, <3>0, <3>1, <4>1 DEF HoldsString
    <3>2. CASE i # n + 1
      <4>1. i \in 1 .. n
        BY <3>2
      <4> QED BY <1>1, <1>2, <2>1, <3>0, <4>1 DEF HoldsString
    <3> QED BY <3>1, <3>2
  <2>3. PICK u \in Seq(Octet) : u = Append(name, 0) /\ Len(u) = n + 1
    BY <2>1
  <2>4. u = [i \in 1 .. n + 1 |-> u[i]]
    <3>1. u \in [1 .. n + 1 -> Octet]
      BY <2>3, LenProperties
    <3> QED BY <3>1
  <2>5. u = [i \in 1 .. n + 1 |-> Byte(c, (TableOf(c) + p) + i - 1)]
    BY <2>2, <2>3, <2>4
  <2> QED BY <1>1, <2>3, <2>5 DEF Bytes
<1>4. hits # {} /\ p \in hits /\ hits \in SUBSET Nat
  <2> HIDE DEF found
  <2>1. hits = {q \in 0 .. z - (n + 1) : found(q)}
    BY <1>1
  <2>2. p \in 0 .. z - (n + 1) /\ found(p)
    BY <1>1, <1>3
  <2>3. 0 .. z - (n + 1) \in SUBSET Nat
    OBVIOUS
  <2> QED BY <2>1, <2>2, <2>3, Zenon
<1>5. Lookup(c, name) = IF hits = {} THEN -1 ELSE CHOOSE q \in hits : \A r \in hits : q <= r
  BY DEF Lookup, fdt_find_string_len_
<1> HIDE DEF hits
<1>6. \E q \in hits : \A r \in hits : q <= r
  BY <1>4, Least
<1>7. Lookup(c, name) \in hits
  BY <1>4, <1>5, <1>6
<1>8. Lookup(c, name) \in Nat
  BY <1>4, <1>7
<1> QED BY <1>8

(* A string that is added starts where the table did not reach.            *)
LEMMA StartsMore ==
  ASSUME NEW c, NEW d, Sized(c), Sized(d), StringsStay(c, d), NEW name \in NameStrings,
         NEW v \in Nat, v = c.size_dt_strings + Len(name) + 1, d.size_dt_strings = v, Stands(d, v, name),
         NEW w \in Starts(d)
  PROVE  w = v \/ (w \in Starts(c) /\ w \in Nat /\ w <= c.size_dt_strings)
<1>1. PICK n \in Nat, z \in Nat, g \in Nat : n = Len(name) /\ z = c.size_dt_strings /\ g = d.totalsize /\ v = z + n + 1
  BY DEF Sized, NameStrings
<1>2. w \in Nat /\ 0 < w /\ w <= v /\ (w = v \/ Byte(d, g - (w + 1)) = 0)
  BY <1>1 DEF Starts
<1>3. CASE w < z
  BY <1>1, <1>2, <1>3, StartsStay
<1>4. CASE w = z
  BY <1>1, <1>2, <1>4 DEF Starts
<1>5. CASE w > z /\ w # v
  <2>1. PICK i \in 1 .. n : g - v + i - 1 = g - (w + 1)
    <3>1. w > z /\ w < v /\ v = z + n + 1 /\ w \in Nat
      BY <1>1, <1>2, <1>5
    <3>2. v - w \in Int /\ 1 <= v - w /\ v - w <= n
      BY <3>1
    <3>3. g - v + (v - w) - 1 = g - (w + 1)
      BY <3>1
    <3> QED BY <3>2, <3>3
  <2>2. Byte(d, g - v + i - 1) = name[i]
    BY <1>1 DEF Stands, HoldsString
  <2>3. name[i] # 0
    <3>1. name \in Seq(Letter) /\ i \in 1 .. Len(name)
      BY <1>1 DEF NameStrings
    <3>2. name[i] \in Letter
      BY <3>1
    <3> QED BY <3>2 DEF Letter
  <2> QED BY <1>2, <1>5, <2>1, <2>2, <2>3
<1> QED BY <1>1, <1>2, <1>3, <1>4, <1>5

LEMMA TableExtended ==
  ASSUME NEW c, NEW d, Sized(c), Sized(d), StringsStay(c, d), NEW name \in NameStrings,
         d.last_comp_version = c.last_comp_version,
         NEW v \in Nat, v = c.size_dt_strings + Len(name) + 1, d.size_dt_strings = v, Stands(d, v, name),
         c.last_comp_version = 0 => Lookup(c, name) = -1
  PROVE  Takes(c, d, name)
<1>1. PICK z \in Nat : z = c.size_dt_strings
  BY DEF Sized
<1>2. ASSUME NEW ts \in Trees, NEW t \in TreeTokens, t.tag = "prop", t.name = name, NoStrays(c, ts)
      PROVE  NoStrays(d, Append(ts, t))
  <2> SUFFICES ASSUME NEW w \in Starts(d)
               PROVE  \E i \in 1 .. Len(Append(ts, t)) :
                        Append(ts, t)[i].tag = "prop" /\ Stands(d, w, Append(ts, t)[i].name)
    BY DEF NoStrays
  <2>1. CASE w = v
    <3>1. Len(ts) + 1 \in 1 .. Len(Append(ts, t)) /\ Append(ts, t)[Len(ts) + 1] = t
      BY TokensStay
    <3> QED BY <1>2, <2>1, <3>1
  <2>2. CASE w \in Starts(c) /\ w \in Nat /\ w <= c.size_dt_strings
    <3>1. PICK i \in 1 .. Len(ts) : ts[i].tag = "prop" /\ Stands(c, w, ts[i].name)
      BY <1>2, <2>2 DEF NoStrays
    <3>2. PICK nm \in NameStrings : nm = ts[i].name
      BY TokensStay
    <3>3. Stands(d, w, nm)
      BY <2>2, <3>1, <3>2, StandsStays
    <3> QED BY <3>1, <3>2, <3>3, TokensStay
  <2> QED BY <2>1, <2>2, StartsMore
<1>3. ASSUME NEW w \in Nat, w <= c.size_dt_strings, c.last_comp_version = 0, NEW nm \in NameStrings,
             Stands(d, v, nm), Stands(d, w, nm)
      PROVE  FALSE
  <2>1. nm = name
    <3>1. v <= d.size_dt_strings
      BY <1>1
    <3>2. CString(d, d.totalsize - v) = nm
      BY <1>3, <3>1, StandsOnce
    <3>3. CString(d, d.totalsize - v) = name
      BY <3>1, StandsOnce
    <3> QED BY <3>2, <3>3
  <2>2. Stands(c, w, name)
    BY <1>3, <2>1, StandsStays
  <2> QED BY <1>3, <2>2, StandsFound
<1>4. ASSUME c.last_comp_version = 0, NoTwins(c) PROVE NoTwins(d)
  <2> SUFFICES ASSUME NEW u \in Starts(d), NEW w \in Starts(d), NEW nm \in NameStrings,
                      Stands(d, u, nm), Stands(d, w, nm)
               PROVE  u = w
    BY DEF NoTwins
  <2>1. u = v \/ (u \in Starts(c) /\ u \in Nat /\ u <= c.size_dt_strings)
    BY StartsMore
  <2>2. w = v \/ (w \in Starts(c) /\ w \in Nat /\ w <= c.size_dt_strings)
    BY StartsMore
  <2>3. CASE u = v
    BY <1>3, <1>4, <2>2, <2>3
  <2>4. CASE w = v
    BY <1>3, <1>4, <2>1, <2>4
  <2>5. CASE u # v /\ w # v
    <3>1. Stands(c, u, nm) /\ Stands(c, w, nm)
      BY <2>1, <2>2, <2>5, StandsStays
    <3> QED BY <1>4, <2>1, <2>2, <2>5, <3>1 DEF NoTwins
  <2> QED BY <2>3, <2>4, <2>5
<1>5. ASSUME NEW ts \in Trees, NEW t \in TreeTokens, t.tag = "prop", t.name = name
      PROVE  Gains(c, d, ts, Append(ts, t))
  BY <1>2, <1>4, <1>5 DEF Gains, Tabled
<1> QED BY <1>5 DEF Takes
(* The blob with a string more.                                            *)
Offset(c, name) == c.size_dt_strings + Len(name) + 1
Extended(c, name) ==
  With(c, c.size_dt_struct, Offset(c, name), written(c.bytes, c.totalsize - Offset(c, name), Append(name, 0)))
Retracted(c, name) ==
  With(c, c.size_dt_struct, c.size_dt_strings, written(c.bytes, c.totalsize - Offset(c, name), Append(name, 0)))
HasRoom(c, name) == headsize(c) + Offset(c, name) <= c.totalsize

Alike(c, d) ==
  /\ Draft(d) /\ d.off_dt_struct = c.off_dt_struct /\ d.totalsize = c.totalsize
  /\ d.off_mem_rsvmap = c.off_mem_rsvmap /\ d.off_dt_strings = c.off_dt_strings
  /\ d.last_comp_version = c.last_comp_version /\ d.size_dt_struct = c.size_dt_struct
  /\ headsize(d) = headsize(c) /\ Same(c, d, 0, headsize(c)) /\ StringsStay(c, d)

LEMMA ExtendedFacts ==
  ASSUME NEW c, Draft(c), NEW name \in NameStrings, HasRoom(c, name)
  PROVE  /\ Alike(c, Extended(c, name)) /\ Alike(c, Retracted(c, name))
         /\ NameBelow(Extended(c, name), Wrap(-Offset(c, name)), name)
         /\ fdt_del_last_string_(Extended(c, name), name) = Retracted(c, name)
         /\ Offset(c, name) \in Nat /\ Offset(c, name) # 0
         /\ Keeps(c, Retracted(c, name))
         /\ (c.last_comp_version = 0 => Lookup(c, name) = -1) => Takes(c, Extended(c, name), name)
<1>1. PICK n \in Nat : n = Len(name)
  BY DEF NameStrings
<1>2. PICK o \in Nat, k \in Nat, z \in Nat, e \in Nat, h \in Nat :
        /\ o = c.off_dt_struct /\ k = c.size_dt_struct /\ z = c.size_dt_strings /\ e = c.totalsize
        /\ h = headsize(c) /\ h = o + k
  BY DraftFacts
<1>3. PICK v \in Nat : v = Offset(c, name) /\ v = z + n + 1 /\ h + v <= e
  <2>1. z + n + 1 \in Nat
    OBVIOUS
  <2> QED BY <1>1, <1>2, <2>1 DEF Offset, HasRoom
<1> DEFINE s == Append(name, 0)
           w == written(c.bytes, e - v, s)
<1>4. s \in Contents /\ Len(s) = n + 1
  BY <1>1, NameContents
<1>5. BankOf(c) \in SUBSET Int /\ c.bytes \in Banks(BankOf(c))
      /\ \A i \in Int : 0 <= i /\ i < e => i \in BankOf(c)
  BY <1>2, DraftFacts
<1>6. /\ w \in Banks(BankOf(c))
      /\ \A i \in BankOf(c) : i >= e - v /\ i < e - v + (n + 1) => w[i] = s[i - (e - v) + 1]
      /\ \A i \in BankOf(c) : i < e - v \/ i >= e - v + (n + 1) => w[i] = c.bytes[i]
  <2>1. e - v \in Int
    OBVIOUS
  <2> QED BY <1>4, <1>5, <2>1, WrittenIs, ZenonT(40)
<1> HIDE DEF w
<1>7. Extended(c, name) = With(c, k, v, w) /\ Retracted(c, name) = With(c, k, z, w)
  BY <1>2, <1>3 DEF Extended, Retracted, w
<1> HIDE DEF s
<1>8. o + k + v <= e /\ o + k + z <= e
  BY <1>2, <1>3
<1>9. ASSUME NEW d, NEW y \in Nat, y = v \/ y = z, d = With(c, k, y, w)
      PROVE  Alike(c, d) /\ d.size_dt_strings = y /\ d.bytes = w
  <2>1. o + k + y <= e
    BY <1>8, <1>9
  <2>2. c.off_dt_struct + k + y <= c.totalsize
    BY <1>2, <2>1
  <2>3. /\ Draft(d) /\ d.size_dt_struct = k /\ d.size_dt_strings = y /\ d.bytes = w
        /\ d.off_dt_struct = o /\ d.totalsize = e
        /\ d.off_mem_rsvmap = c.off_mem_rsvmap /\ d.off_dt_strings = c.off_dt_strings
        /\ d.last_comp_version = c.last_comp_version /\ headsize(d) = h
    BY <1>2, <1>6, <1>9, <2>2, WithIs
  <2>4. \A i \in Int : 0 <= i /\ i < e /\ (i < e - v \/ i >= e - v + (n + 1)) => Byte(d, i) = Byte(c, i)
    BY <1>5, <1>6, <2>3 DEF Byte
  <2>5. Same(c, d, 0, h)
    <3>1. h + v <= e
      BY <1>3
    <3>2. \A i \in Int : 0 <= i /\ i < h => i < e /\ i < e - v
      BY <3>1
    <3> QED BY <2>4, <3>2 DEF Same
  <2>6. StringsStay(c, d)
    <3>1. v = z + n + 1 /\ h + v <= e
      BY <1>3
    <3>2. z <= y
      BY <1>9, <3>1
    <3>3. \A u \in Nat : 0 < u /\ u <= z => Byte(d, e - u) = Byte(c, e - u)
      <4> SUFFICES ASSUME NEW u \in Nat, 0 < u, u <= z PROVE Byte(d, e - u) = Byte(c, e - u)
        OBVIOUS
      <4>1. e - u \in Int /\ 0 <= e - u /\ e - u < e /\ e - u >= e - v + (n + 1)
        BY <3>1
      <4> QED BY <2>4, <4>1
    <3> QED BY <1>2, <2>3, <3>2, <3>3 DEF StringsStay
  <2> QED BY <1>2, <2>3, <2>5, <2>6 DEF Alike
<1>10. PICK d : d = Extended(c, name)
  OBVIOUS
<1>11. Alike(c, d) /\ d.size_dt_strings = v /\ d.bytes = w
  BY <1>7, <1>9, <1>10
<1>12. NameBelow(d, Wrap(-v), name) /\ HoldsString(d, e - v, name)
  <2>1. n < v /\ v = z + n + 1 /\ h + v <= e
    BY <1>3
  <2>2. HoldsBytes(d, e - v, s)
    <3>1. ASSUME NEW i \in 1 .. n + 1 PROVE Byte(d, e - v + i - 1) = s[i]
      <4>1. /\ e - v + i - 1 \in Int /\ e - v + i - 1 >= e - v /\ e - v + i - 1 < e - v + (n + 1)
            /\ 0 <= e - v + i - 1 /\ e - v + i - 1 < e /\ (e - v + i - 1) - (e - v) + 1 = i
        BY <2>1
      <4>2. e - v + i - 1 \in BankOf(c)
        BY <1>5, <4>1
      <4>3. w[e - v + i - 1] = s[(e - v + i - 1) - (e - v) + 1]
        BY <1>6, <4>1, <4>2
      <4> QED BY <1>11, <4>1, <4>3 DEF Byte
    <3> QED BY <1>4, <3>1 DEF HoldsBytes
  <2>3. HoldsString(d, e - v, name)
    <3>1. e - v \in Int
      OBVIOUS
    <3> QED BY <2>2, <3>1, ZeroEnded DEF s
  <2>4. d.totalsize = e /\ v <= d.size_dt_strings
    BY <1>2, <1>11 DEF Alike
  <2> QED BY <1>1, <2>1, <2>3, <2>4 DEF NameBelow
<1>13. Alike(c, Retracted(c, name)) /\ Keeps(c, Retracted(c, name))
  <2>1. PICK g : g = Retracted(c, name) /\ Alike(c, g) /\ g.size_dt_strings = z
    BY <1>7, <1>9
  <2> QED BY <1>2, <2>1 DEF Alike, Keeps
<1>14. fdt_del_last_string_(d, name) = Retracted(c, name)
  <2>1. v - (n + 1) = z
    BY <1>3
  <2>2. fdt_del_last_string_(d, name) = [d EXCEPT !.size_dt_strings = z]
    <3>1. d.size_dt_strings - (Len(name) + 1) = z
      BY <1>1, <1>11, <2>1
    <3> QED BY <3>1 DEF fdt_del_last_string_
  <2> QED BY <1>7, <1>10, <2>2, ZenonT(40) DEF With, Draft, BlobsIn, BlobsOver
<1>15. v # 0
  BY <1>3
<1>16. ASSUME c.last_comp_version = 0 => Lookup(c, name) = -1 PROVE Takes(c, d, name)
  <2>1. n < v /\ v = c.size_dt_strings + Len(name) + 1
    BY <1>1, <1>2, <1>3
  <2>2. Stands(d, v, name)
    BY <1>1, <1>2, <1>11, <1>12, <2>1 DEF Stands, Alike
  <2>3. Sized(c) /\ Sized(d) /\ StringsStay(c, d) /\ d.last_comp_version = c.last_comp_version
    BY <1>11, DraftSized DEF Alike
  <2> QED BY <1>11, <1>16, <2>1, <2>2, <2>3, TableExtended
<1> QED BY <1>3, <1>10, <1>11, <1>12, <1>13, <1>14, <1>15, <1>16

LEMMA BuildingStays ==
  ASSUME NEW c, NEW k \in Nat, NEW ts \in Trees, Building(c, k, ts), NEW d, Alike(c, d)
  PROVE  Building(d, k, ts)
<1>1. Holds(d, ts)
  BY HoldsStays DEF Building, Alike
<1> QED BY <1>1 DEF Building, Alike

(* A name may not be longer than the header.                               *)
Short(name) == Len(name) + 1 <= header_space

LEMMA BuildingBounds ==
  ASSUME NEW c, NEW k \in Nat, NEW ts, Building(c, k, ts)
  PROVE  header_space <= c.off_dt_struct /\ c.off_dt_struct > 0
<1>1. c.off_dt_struct = header_space + (k + 1) * EntrySize
  BY DEF Building
<1>2. PICK j \in Nat : j = k + 1
  OBVIOUS
<1>3. j * EntrySize \in Nat
  BY SpaceIs
<1> QED BY <1>1, <1>2, <1>3, SpaceIs

LEMMA AddString ==
  ASSUME NEW c, NEW k \in Nat, NEW ts, Building(c, k, ts), NEW name \in NameStrings, Short(name)
  PROVE  \/ fdt_add_string_(c, name) = Result(0, c)
         \/ HasRoom(c, name) /\ fdt_add_string_(c, name) = Result(-Offset(c, name), Extended(c, name))
<1>0. Draft(c)
  BY DEF Building
<1>1. PICK n \in Nat : n = Len(name) /\ n + 1 <= header_space
  BY DEF NameStrings, Short
<1>2. PICK o \in Nat, l \in Nat, z \in Nat, e \in Nat, h \in Nat :
        /\ o = c.off_dt_struct /\ l = c.size_dt_struct /\ z = c.size_dt_strings /\ e = c.totalsize
        /\ h = headsize(c) /\ h = o + l /\ h + z <= e /\ e <= INT_MAX
  BY <1>0, DraftFacts
<1>3. header_space <= o
  BY <1>2, BuildingBounds
<1>4. PICK v \in Nat : v = Offset(c, name) /\ v = z + n + 1
  <2>1. z + n + 1 \in Nat
    OBVIOUS
  <2> QED BY <1>1, <1>2, <2>1 DEF Offset
<1>5. h = o + l /\ h + z <= e /\ n + 1 <= o /\ v = z + n + 1 /\ e <= INT_MAX
  BY <1>1, <1>2, <1>3, <1>4, SpaceIs, SMTT(40)
<1>6. e - v \in Word
  <2>1. e - v \in Int /\ 0 <= e - v /\ e - v <= INT_MAX
    BY <1>5, MemoryFacts
  <2> QED BY <2>1, WordFacts, WordIs
<1>7. Wrap(e - v) = e - v
  <2>1. e - v \in Int
    OBVIOUS
  <2> QED BY <1>6, <2>1, WrapFacts
<1>8. fdt_add_string_(c, name) =
        IF Wrap(e - v) < h THEN Result(0, c)
        ELSE Result(-v, [c EXCEPT !.bytes = written(c.bytes, e - v, Append(name, 0)),
                                  !.size_dt_strings = v])
  BY <1>2, <1>4 DEF fdt_add_string_, Offset
<1>9. [c EXCEPT !.bytes = written(c.bytes, e - v, Append(name, 0)), !.size_dt_strings = v]
        = Extended(c, name)
  BY <1>0, <1>2, <1>4 DEF Extended, With, Draft, BlobsIn, BlobsOver
<1>10. CASE ~(e - v < h)
  <2>1. h + v <= e
    BY <1>10
  <2>2. HasRoom(c, name)
    BY <1>2, <1>4, <2>1 DEF HasRoom
  <2> QED BY <1>4, <1>7, <1>8, <1>9, <1>10, <2>2
<1> QED BY <1>7, <1>8, <1>10

(***************************************************************************)
(* Properties.                                                             *)
(***************************************************************************)
(* The name of a new property has its string, which goes again if the      *)
(* property does not fit.                                                  *)
Undone(str, name) == IF str.allocated THEN fdt_del_last_string_(str.b, name) ELSE str.b

HasName(c, str, name) ==
  /\ str.ret # 0 /\ str.ret \in Int /\ Alike(c, str.b) /\ Alike(c, Undone(str, name))
  /\ NameBelow(str.b, Wrap(str.ret), name)
  /\ Keeps(c, Undone(str, name)) /\ Takes(c, str.b, name)

LEMMA AlikeItself ==
  ASSUME NEW c, Draft(c) PROVE Alike(c, c) /\ Keeps(c, c) /\ \A name : Takes(c, c, name)
<1>1. c.size_dt_strings \in Nat
  BY DraftFacts
<1>2. Alike(c, c) /\ Keeps(c, c)
  BY <1>1 DEF Alike, Same, StringsStay, Keeps
<1> QED BY <1>2, TableKept DEF Takes

LEMMA StringAtIs ==
  ASSUME NEW r, NEW a
  PROVE  string_at(r, a).ret = r.ret /\ string_at(r, a).b = r.b /\ string_at(r, a).allocated = a
BY DEF string_at

LEMMA AddedName ==
  ASSUME NEW c, NEW k \in Nat, NEW ts, Building(c, k, ts), NEW name \in NameStrings, Short(name),
         NEW str, str = string_at(fdt_add_string_(c, name), TRUE),
         c.last_comp_version = 0 => Lookup(c, name) = -1
  PROVE  str.ret = 0 \/ HasName(c, str, name)
<1>0. Draft(c)
  BY DEF Building
<1>1. CASE fdt_add_string_(c, name) = Result(0, c)
  BY <1>1 DEF Result, string_at
<1>2. CASE HasRoom(c, name) /\ fdt_add_string_(c, name) = Result(-Offset(c, name), Extended(c, name))
  <2>1. str.ret = -Offset(c, name) /\ str.b = Extended(c, name) /\ str.allocated = TRUE
    BY <1>2 DEF Result, string_at
  <2>2. Undone(str, name) = Retracted(c, name)
    BY <1>0, <1>2, <2>1, ExtendedFacts DEF Undone
  <2>3. PICK v \in Nat : v = Offset(c, name) /\ v # 0
    BY <1>0, <1>2, ExtendedFacts
  <2>4. -v # 0 /\ -v \in Int
    BY <2>3
  <2> QED BY <1>0, <1>2, <2>1, <2>2, <2>3, <2>4, ExtendedFacts DEF HasName
<1> QED BY <1>1, <1>2, AddString

LEMMA FoundName ==
  ASSUME NEW c, NEW k \in Nat, NEW ts, Building(c, k, ts), NEW name \in NameStrings, Short(name),
         NEW str, str = fdt_find_add_string_(c, name)
  PROVE  str.ret = 0 \/ HasName(c, str, name)
<1>0. Draft(c)
  BY DEF Building
<1>1. PICK r : r = Lookup(c, name)
  OBVIOUS
<1>2. str = IF r >= 0 THEN string_at(Result(r - c.size_dt_strings, c), FALSE)
            ELSE string_at(fdt_add_string_(c, name), TRUE)
  BY <1>1 DEF fdt_find_add_string_, Lookup, TableOf
<1>3. CASE r = -1
  <2>1. ~(r >= 0)
    BY <1>3
  <2> QED BY <1>1, <1>2, <1>3, <2>1, AddedName
<1>4. CASE r \in Nat /\ r + Len(name) < c.size_dt_strings /\ HoldsString(c, TableOf(c) + r, name)
  <2>1. PICK n \in Nat : n = Len(name)
    BY DEF NameStrings
  <2>2. PICK z \in Nat, e \in Nat : z = c.size_dt_strings /\ e = c.totalsize
    BY <1>0, DraftFacts
  <2>3. r + n < z /\ r \in Nat
    BY <1>4, <2>1, <2>2
  <2>4. PICK v \in Nat : v = z - r /\ n < v /\ v <= z /\ v # 0
    BY <2>3
  <2>5. r >= 0 /\ -v = r - z /\ -v # 0 /\ -v \in Int /\ (e - z) + r = e - v
    BY <2>3, <2>4
  <2>6. str.ret = -v /\ str.b = c /\ str.allocated = FALSE
    <3>1. str = string_at(Result(r - z, c), FALSE)
      BY <1>2, <2>2, <2>5
    <3> QED BY <2>5, <3>1 DEF Result, string_at
  <2>7. HoldsString(c, e - v, name)
    BY <1>4, <2>2, <2>5 DEF TableOf
  <2>8. NameBelow(c, Wrap(-v), name)
    BY <2>1, <2>2, <2>4, <2>7 DEF NameBelow
  <2>9. Undone(str, name) = c
    BY <2>6 DEF Undone
  <2> QED BY <1>0, <2>5, <2>6, <2>8, <2>9, AlikeItself DEF HasName
<1> QED BY <1>0, <1>1, <1>3, <1>4, LookupIs

LEMMA FollowsTwice ==
  ASSUME NEW c, NEW k \in Nat, NEW ts \in Trees, Building(c, k, ts), NEW d, Alike(c, d),
         NEW e, NEW us, Follows(d, e, k, us)
  PROVE  Follows(c, e, k, us)
<1>1. Draft(c)
  BY DEF Building
<1>2. PICK o \in Nat, l \in Nat, h \in Nat : o = c.off_dt_struct /\ h = headsize(c) /\ h = o + l
  BY <1>1, DraftFacts
<1>3. d.off_dt_struct = o /\ Same(c, d, 0, h) /\ Same(d, e, 0, o)
  BY <1>2 DEF Alike, Follows
<1>4. Same(c, e, 0, o)
  <2>1. \A i \in Int : 0 <= i /\ i < o => i < h
    BY <1>2
  <2> QED BY <1>3, <2>1 DEF Same
<1> QED BY <1>2, <1>4 DEF Follows

PropBytes(ret, val) == CellBytes(FDT_PROP) \o CellBytes(Len(val)) \o CellBytes(Wrap(ret)) \o val
PropSize(val) == 3 * Cell + FDT_TAGALIGN(Len(val))

LEMMA PropHeld ==
  ASSUME NEW ret \in Int, NEW val \in Contents, Len(val) \in Word
  PROVE  /\ PropBytes(ret, val) \in Contents /\ Len(PropBytes(ret, val)) = 3 * Cell + Len(val)
         /\ \A c, at, name : at \in Int /\ HoldsBytes(c, at, PropBytes(ret, val)) =>
                         HoldsToken(c, at, Prop(name, val), Wrap(ret))
<1> DEFINE p == CellBytes(FDT_PROP)
           l == CellBytes(Len(val))
           x == CellBytes(Wrap(ret))
<1>1. Wrap(ret) \in Word /\ FDT_PROP \in Word
  BY WrapFacts, NumbersAreWords
<1>2. p \in Contents /\ l \in Contents /\ x \in Contents /\ Len(p) = Cell /\ Len(l) = Cell /\ Len(x) = Cell
  BY <1>1, CellContents
<1>3. /\ \A c, at : at \in Int /\ HoldsBytes(c, at, p) => LoadCell(c, at) = FDT_PROP
      /\ \A c, at : at \in Int /\ HoldsBytes(c, at, l) => LoadCell(c, at) = Len(val)
      /\ \A c, at : at \in Int /\ HoldsBytes(c, at, x) => LoadCell(c, at) = Wrap(ret)
  BY <1>1, CellHeld
<1>4. PropBytes(ret, val) = ((p \o l) \o x) \o val
  BY DEF PropBytes
<1> HIDE DEF p, l, x
<1>5. p \o l \in Contents /\ Len(p \o l) = Cell + Cell
  BY <1>2, Joined
<1>6. (p \o l) \o x \in Contents /\ Len((p \o l) \o x) = Cell + Cell + Cell
  BY <1>2, <1>5, Joined
<1>7. ((p \o l) \o x) \o val \in Contents /\ Len(((p \o l) \o x) \o val) = Cell + Cell + Cell + Len(val)
  BY <1>6, Joined
<1>8. PICK c2 \in Nat, c3 \in Nat : c2 = 2 * Cell /\ c3 = 3 * Cell /\ c2 = Cell + Cell /\ c3 = Cell + Cell + Cell
  BY CellFacts
<1>9. ASSUME NEW c, NEW at \in Int, NEW name, HoldsBytes(c, at, PropBytes(ret, val))
      PROVE  HoldsToken(c, at, Prop(name, val), Wrap(ret))
  <2>1. HoldsBytes(c, at, (p \o l) \o x) /\ HoldsBytes(c, at + c3, val)
    <3> DEFINE q == (p \o l) \o x
    <3>1. q \in Contents /\ Len(q) = c3 /\ HoldsBytes(c, at, q \o val)
      BY <1>4, <1>6, <1>8, <1>9
    <3> HIDE DEF q
    <3>2. HoldsBytes(c, at, q) /\ HoldsBytes(c, at + c3, val)
      BY <3>1, HoldsJoined
    <3> QED BY <3>2 DEF q
  <2>2. HoldsBytes(c, at, p \o l) /\ HoldsBytes(c, at + c2, x)
    BY <1>2, <1>5, <1>8, <2>1, HoldsJoined, ZenonT(40)
  <2>3. HoldsBytes(c, at, p) /\ HoldsBytes(c, at + Cell, l)
    BY <1>2, <2>2, HoldsJoined
  <2>4. at + Cell \in Int /\ at + c2 \in Int
    BY CellPos
  <2>5. LoadCell(c, at) = FDT_PROP /\ LoadCell(c, at + Cell) = Len(val) /\ LoadCell(c, at + c2) = Wrap(ret)
    BY <1>3, <2>2, <2>3, <2>4
  <2> DEFINE t == Prop(name, val)
  <2>6. t.tag = "prop" /\ t.val = val /\ t.tag # "begin"
    BY DEF Prop
  <2> HIDE DEF t
  <2>7. Number(t) = FDT_PROP
    BY <2>6, NumberFacts
  <2>8. \A i \in 1 .. Len(val) : Byte(c, at + c3 + i - 1) = val[i]
    BY <2>1 DEF HoldsBytes
  <2>9. HoldsToken(c, at, t, Wrap(ret))
    BY <1>8, <2>5, <2>6, <2>7, <2>8 DEF HoldsToken
  <2> QED BY <2>9 DEF t
<1> QED BY <1>4, <1>7, <1>8, <1>9

LEMMA PropertyAppends ==
  ASSUME NEW c, NEW k \in Nat, NEW ts \in Trees, Building(c, k, ts), NEW name \in NameStrings, Short(name),
         NEW val \in Contents, Len(val) + 4 * Cell <= INT_MAX
  PROVE  Appends(c, fdt_property(c, name, val).b, k, ts, Prop(name, val))
<1> DEFINE dedup == c.last_comp_version # FDT_CREATE_FLAG_NO_NAME_DEDUP
           t == Prop(name, val)
           n == PropSize(val)
<1>1. PICK str : str = IF dedup THEN fdt_find_add_string_(c, name)
                       ELSE string_at(fdt_add_string_(c, name), TRUE)
  OBVIOUS
<1>2. str.ret = 0 \/ HasName(c, str, name)
  <2>1. ~dedup => c.last_comp_version # 0
    BY DEF FDT_CREATE_FLAG_NO_NAME_DEDUP
  <2> QED BY <1>1, <2>1, AddedName, FoundName
<1> DEFINE s == PropBytes(str.ret, val)
           r == emit(str.b, s, n)
<1>3. fdt_property(c, name, val) =
        IF str.ret = 0 THEN Result(-FDT_ERR_NOSPACE, c)
        ELSE IF r.ret < 0 THEN Result(r.ret, Undone(str, name)) ELSE r
  <2>1. fdt_sw_probe_struct_(c) = 0
    BY StructProbe
  <2> QED BY <1>1, <2>1, ErrorsDiffer DEF fdt_property, Probed, Unless, Undone, PropBytes, PropSize
<1>4. t \in TreeTokens /\ t.tag = "prop" /\ t.name = name /\ t.val = val
  BY DEF TreeTokens, Prop
<1>5. TokenSize(t) = n /\ n \in Nat /\ 3 * Cell + Len(val) <= n
  BY <1>4, SizeFacts DEF PropSize
<1>6. n <= INT_MAX /\ Len(val) \in Word
  <2>1. PICK z \in Nat : z = Len(val) /\ z + 4 * Cell <= INT_MAX
    BY DEF Contents
  <2>2. PICK a \in Nat : a = FDT_TAGALIGN(z) /\ a < z + Cell
    BY AlignFacts
  <2>3. PICK c3 \in Nat, c4 \in Nat : c3 = 3 * Cell /\ c4 = 4 * Cell /\ c4 = c3 + Cell
    BY CellPos
  <2>4. c3 + a <= INT_MAX /\ z <= INT_MAX
    BY <2>1, <2>2, <2>3, CellPos, MemoryFacts
  <2>5. z \in Word
    BY <2>4, WordFacts, WordIs
  <2> QED BY <2>1, <2>2, <2>3, <2>4, <2>5 DEF PropSize
<1> HIDE DEF n, t
<1>7. CASE str.ret = 0
  <2>1. fdt_property(c, name, val).b = c
    BY <1>3, <1>7, ResultIs
  <2> QED BY <2>1, StillThere DEF Appends
<1>8. CASE str.ret # 0
  <2>1. HasName(c, str, name)
    BY <1>2, <1>8
  <2>2. PICK d : d = str.b
    OBVIOUS
  <2>3. /\ str.ret \in Int /\ Alike(c, d) /\ Alike(c, Undone(str, name)) /\ Draft(d)
        /\ NameBelow(d, Wrap(str.ret), name) /\ Building(d, k, ts)
        /\ Keeps(c, Undone(str, name)) /\ Takes(c, d, name)
    BY <2>1, <2>2, BuildingStays DEF HasName, Alike
  <2>4. /\ s \in Contents /\ Len(s) = 3 * Cell + Len(val)
        /\ \A g, at, nm : at \in Int /\ HoldsBytes(g, at, s) => HoldsToken(g, at, Prop(nm, val), Wrap(str.ret))
    BY <1>6, <2>3, PropHeld
  <2>5. n \in Nat /\ n <= INT_MAX /\ Len(s) <= n
    BY <1>5, <1>6, <2>4
  <2> HIDE DEF s
  <2>6. CASE headsize(d) + n + d.size_dt_strings > d.totalsize
    <3>1. r = Result(-FDT_ERR_NOSPACE, d)
      BY <2>2, <2>3, <2>4, <2>5, <2>6, Emitted
    <3>2. fdt_property(c, name, val).b = Undone(str, name)
      BY <1>3, <1>8, <3>1, ResultIs, ErrorsDiffer
    <3>3. Follows(c, Undone(str, name), k, ts)
      <4>1. Building(Undone(str, name), k, ts)
        BY <2>3, BuildingStays
      <4> QED BY <2>3, <4>1, StillThere, FollowsTwice
    <3>4. Gains(c, Undone(str, name), ts, ts)
      <4>1. PICK g : g = Undone(str, name) /\ Draft(c) /\ Draft(g) /\ Keeps(c, g)
        BY <2>3 DEF Alike, Building
      <4> QED BY <4>1, TableKept
    <3> QED BY <3>2, <3>3, <3>4 DEF Appends
  <2>7. CASE ~(headsize(d) + n + d.size_dt_strings > d.totalsize)
    <3>1. PICK e : e = With(d, d.size_dt_struct + n, d.size_dt_strings, written(d.bytes, headsize(d), s))
      OBVIOUS
    <3>2. r = Result(0, e)
      BY <2>2, <2>3, <2>4, <2>5, <2>7, <3>1, Emitted
    <3>3. fdt_property(c, name, val).b = e
      <4>1. ~(0 < 0)
        OBVIOUS
      <4> QED BY <1>3, <1>8, <3>2, <4>1, ResultIs
    <3>4. headsize(d) + n + d.size_dt_strings <= d.totalsize
      <4>1. PICK h \in Nat, z \in Nat, w \in Nat : h = headsize(d) /\ z = d.size_dt_strings /\ w = d.totalsize
        BY <2>3, DraftFacts
      <4> QED BY <2>5, <2>7, <4>1, SMTT(40)
    <3>5. Grows(d, e, s, n)
      BY <2>5, <3>1, <3>4 DEF Grows
    <3>6. PICK h \in Nat : h = headsize(d)
      BY <2>3, DraftFacts
    <3>7. HoldsToken(e, h, t, Wrap(str.ret)) /\ Wrap(str.ret) \in Word
      <4>1. HoldsBytes(e, h, s)
        BY <2>3, <2>4, <2>5, <3>5, <3>6, Grown
      <4> QED BY <2>3, <2>4, <4>1, WrapFacts DEF t
    <3>8. NameBelow(e, Wrap(str.ret), name)
      <4>1. Draft(e) /\ StringsStay(d, e)
        BY <2>3, <2>4, <2>5, <3>5, Grown
      <4> QED BY <2>3, <4>1, NameStaysBelow
    <3>9. Follows(d, e, k, Append(ts, t))
      BY <1>4, <1>5, <2>3, <2>4, <2>5, <3>5, <3>6, <3>7, <3>8, Grown, Appended
    <3>10. Follows(c, e, k, Append(ts, t))
      BY <2>3, <3>9, FollowsTwice
    <3>11. Gains(c, e, ts, Append(ts, t))
      <4>1. Append(ts, t) \in Trees /\ Gains(c, d, ts, Append(ts, t))
        BY <1>4, <2>3, TokensStay DEF Takes
      <4>2. Keeps(d, e) /\ Draft(e)
        BY <2>3, <2>4, <2>5, <3>5, GrownKeeps
      <4>3. Gains(d, e, Append(ts, t), Append(ts, t))
        BY <2>3, <4>1, <4>2, TableKept
      <4> QED BY <4>1, <4>3 DEF Gains
    <3> QED BY <3>3, <3>10, <3>11 DEF Appends, t
  <2> QED BY <2>6, <2>7
<1> QED BY <1>7, <1>8

(***************************************************************************)
(* Reservations.                                                           *)
(***************************************************************************)
LEMMA Multiples ==
  ASSUME NEW n \in Nat, NEW k \in Nat
  PROVE  /\ n * EntrySize \in Nat /\ (n + 1) * EntrySize = n * EntrySize + EntrySize
         /\ n < k => n * EntrySize + EntrySize <= k * EntrySize
         /\ (k * EntrySize) \div EntrySize = k
<1>1. EntrySize = 8 \/ EntrySize = 16
  BY CellAssumption DEF EntrySize
<1>2. CASE EntrySize = 8
  BY <1>2
<1>3. CASE EntrySize = 16
  BY <1>3
<1> QED BY <1>1, <1>2, <1>3

EntryAt(c, n) == <<mem_rsv_address(c, n), mem_rsv_size(c, n)>>
EntriesOf(c, k) == [n \in 1 .. k |-> EntryAt(c, n - 1)]
Pairs == Word \X Word

(* The entry of zeros that ends the reservations.                          *)
Sealed(c, k) == EntryAt(c, k) = <<<<0, 0>>, <<0, 0>>>>

LEMMA EntryStays ==
  ASSUME NEW c, NEW d, c.off_mem_rsvmap = header_space, d.off_mem_rsvmap = header_space,
         NEW past \in Int, Same(c, d, 0, past), NEW n \in Nat,
         header_space + n * EntrySize + EntrySize <= past
  PROVE  EntryAt(d, n) = EntryAt(c, n)
<1>1. PICK p \in Nat : p = header_space + n * EntrySize /\ p + EntrySize <= past
  BY Multiples, SpaceIs
<1>2. mem_rsv_at(c, n) = p /\ mem_rsv_at(d, n) = p
  BY <1>1 DEF mem_rsv_at
<1>3. PICK c2 \in Nat, c3 \in Nat : c2 = 2 * Cell /\ c3 = 3 * Cell /\ c2 = Cell + Cell /\ c3 = c2 + Cell
                                    /\ EntrySize = c3 + Cell
  BY CellFacts, SpaceIs
<1>4. /\ 0 <= p /\ p + Cell <= past
      /\ p + Cell \in Int /\ 0 <= p + Cell /\ p + Cell + Cell <= past
      /\ p + c2 \in Int /\ 0 <= p + c2 /\ p + c2 + Cell <= past
      /\ p + c3 \in Int /\ 0 <= p + c3 /\ p + c3 + Cell <= past
  BY <1>1, <1>3, CellPos
<1>5. LoadCell(d, p) = LoadCell(c, p) /\ LoadCell(d, p + Cell) = LoadCell(c, p + Cell)
      /\ LoadCell(d, p + c2) = LoadCell(c, p + c2) /\ LoadCell(d, p + c3) = LoadCell(c, p + c3)
  BY <1>4, CellStays
<1> QED BY <1>2, <1>3, <1>5 DEF EntryAt, mem_rsv_address, mem_rsv_size

LEMMA EntriesStay ==
  ASSUME NEW c, NEW d, c.off_mem_rsvmap = header_space, d.off_mem_rsvmap = header_space,
         NEW k \in Nat, NEW past \in Int, Same(c, d, 0, past), header_space + k * EntrySize <= past
  PROVE  EntriesOf(d, k) = EntriesOf(c, k)
<1>1. ASSUME NEW n \in 1 .. k PROVE EntryAt(d, n - 1) = EntryAt(c, n - 1)
  <2>1. PICK i \in Nat : i = n - 1 /\ i < k
    OBVIOUS
  <2>2. PICK x \in Nat, y \in Nat : x = i * EntrySize /\ y = k * EntrySize /\ x + EntrySize <= y
    BY <2>1, Multiples
  <2>3. header_space + x + EntrySize <= past
    <3>1. header_space + y <= past
      BY <2>2
    <3> QED BY <2>2, <3>1, SpaceIs
  <2> QED BY <2>1, <2>2, <2>3, EntryStays
<1> QED BY <1>1 DEF EntriesOf

LEMMA EntryBytesAre ==
  ASSUME NEW address \in Pairs, NEW size \in Pairs
  PROVE  /\ entry_bytes(address, size) \in Contents /\ Len(entry_bytes(address, size)) = EntrySize
         /\ \A c, n : n \in Nat /\ c.off_mem_rsvmap = header_space /\
                      HoldsBytes(c, header_space + n * EntrySize, entry_bytes(address, size))
                      => EntryAt(c, n) = <<address, size>>
<1> DEFINE p == CellBytes(address[1])
           q == CellBytes(address[2])
           r == CellBytes(size[1])
           s == CellBytes(size[2])
<1>1. /\ address[1] \in Word /\ address[2] \in Word /\ size[1] \in Word /\ size[2] \in Word
      /\ address = <<address[1], address[2]>> /\ size = <<size[1], size[2]>>
  BY DEF Pairs
<1>2. /\ p \in Contents /\ q \in Contents /\ r \in Contents /\ s \in Contents
      /\ Len(p) = Cell /\ Len(q) = Cell /\ Len(r) = Cell /\ Len(s) = Cell
  BY <1>1, CellContents
<1>3. entry_bytes(address, size) = ((p \o q) \o r) \o s
  BY DEF entry_bytes
<1>4. /\ \A c, at : at \in Int /\ HoldsBytes(c, at, p) => LoadCell(c, at) = address[1]
      /\ \A c, at : at \in Int /\ HoldsBytes(c, at, q) => LoadCell(c, at) = address[2]
      /\ \A c, at : at \in Int /\ HoldsBytes(c, at, r) => LoadCell(c, at) = size[1]
      /\ \A c, at : at \in Int /\ HoldsBytes(c, at, s) => LoadCell(c, at) = size[2]
  BY <1>1, CellHeld
<1> HIDE DEF p, q, r, s
<1>5. PICK c2 \in Nat, c3 \in Nat : c2 = 2 * Cell /\ c3 = 3 * Cell /\ c2 = Cell + Cell /\ c3 = c2 + Cell
                                    /\ EntrySize = c3 + Cell
  BY CellFacts, SpaceIs
<1>6. PICK u \in Contents, v \in Contents : /\ u = p \o q /\ Len(u) = c2 /\ v = u \o r /\ Len(v) = c3
  <2>1. p \o q \in Contents /\ Len(p \o q) = Len(p) + Len(q)
    BY <1>2, Joined
  <2>2. PICK u \in Contents : u = p \o q /\ Len(u) = c2
    BY <1>2, <1>5, <2>1
  <2>3. u \o r \in Contents /\ Len(u \o r) = Len(u) + Len(r)
    BY <1>2, Joined
  <2> QED BY <1>2, <1>5, <2>2, <2>3
<1>7. entry_bytes(address, size) = v \o s /\ v \o s \in Contents /\ Len(v \o s) = EntrySize
  <2>1. v \o s \in Contents /\ Len(v \o s) = Len(v) + Len(s)
    BY <1>2, Joined
  <2> QED BY <1>2, <1>3, <1>5, <1>6, <2>1
<1>8. ASSUME NEW c, NEW n \in Nat, c.off_mem_rsvmap = header_space,
             HoldsBytes(c, header_space + n * EntrySize, v \o s)
      PROVE  EntryAt(c, n) = <<address, size>>
  <2>1. PICK at \in Nat : at = header_space + n * EntrySize
    BY Multiples, SpaceIs
  <2>2. mem_rsv_at(c, n) = at
    BY <1>8, <2>1 DEF mem_rsv_at
  <2>3. HoldsBytes(c, at, v) /\ HoldsBytes(c, at + c3, s)
    <3>1. HoldsBytes(c, at, v \o s) /\ at \in Int /\ v \in Contents /\ s \in Contents /\ Len(v) = c3
      BY <1>2, <1>6, <1>8, <2>1
    <3> QED BY <3>1, HoldsJoined
  <2>4. HoldsBytes(c, at, u) /\ HoldsBytes(c, at + c2, r)
    <3>1. HoldsBytes(c, at, u \o r) /\ at \in Int /\ u \in Contents /\ r \in Contents /\ Len(u) = c2
      BY <1>2, <1>6, <2>3
    <3> QED BY <3>1, HoldsJoined
  <2>5. HoldsBytes(c, at, p) /\ HoldsBytes(c, at + Cell, q)
    <3>1. HoldsBytes(c, at, p \o q) /\ at \in Int /\ p \in Contents /\ q \in Contents /\ Len(p) = Cell
      BY <1>2, <1>6, <2>4
    <3> QED BY <3>1, HoldsJoined
  <2>6. at + Cell \in Int /\ at + c2 \in Int /\ at + c3 \in Int
    BY CellPos
  <2>7. /\ LoadCell(c, at) = address[1] /\ LoadCell(c, at + Cell) = address[2]
        /\ LoadCell(c, at + c2) = size[1] /\ LoadCell(c, at + c3) = size[2]
    BY <1>4, <2>3, <2>4, <2>5, <2>6
  <2> QED BY <1>1, <1>5, <2>2, <2>7 DEF EntryAt, mem_rsv_address, mem_rsv_size
<1> QED BY <1>7, <1>8

(* One reservation more.                                                   *)
Longer(c, address, size) ==
  [c EXCEPT !.bytes = written(c.bytes, c.off_dt_struct, entry_bytes(address, size)),
            !.off_dt_struct = c.off_dt_struct + EntrySize]

LEMMA LongerFacts ==
  ASSUME NEW c, NEW k \in Nat, Reserving(c, k), NEW address \in Pairs, NEW size \in Pairs,
         c.off_dt_struct + EntrySize <= c.totalsize, NEW d, d = Longer(c, address, size)
  PROVE  Reserving(d, k + 1) /\ EntriesOf(d, k + 1) = Append(EntriesOf(c, k), <<address, size>>)
         /\ EntriesOf(d, k) = EntriesOf(c, k) /\ d.totalsize = c.totalsize
         /\ EntryAt(d, k) = <<address, size>>
<1>0. Draft(c) /\ c.off_mem_rsvmap = header_space /\ c.off_dt_struct = header_space + k * EntrySize
      /\ c.size_dt_struct = 0 /\ c.size_dt_strings = 0
  BY DEF Reserving
<1>1. PICK o \in Nat, e \in Nat : /\ o = c.off_dt_struct /\ e = c.totalsize /\ o + EntrySize <= e /\ e <= INT_MAX
                                  /\ o = header_space + k * EntrySize
  BY <1>0, DraftFacts
<1>2. PICK s \in Contents : s = entry_bytes(address, size) /\ Len(s) = EntrySize
  BY EntryBytesAre
<1> DEFINE w == written(c.bytes, o, s)
<1>3. BankOf(c) \in SUBSET Int /\ c.bytes \in Banks(BankOf(c))
      /\ \A i \in Int : 0 <= i /\ i < e => i \in BankOf(c)
  BY <1>0, <1>1, DraftFacts
<1>4. /\ w \in Banks(BankOf(c))
      /\ \A i \in BankOf(c) : i >= o /\ i < o + EntrySize => w[i] = s[i - o + 1]
      /\ \A i \in BankOf(c) : i < o \/ i >= o + EntrySize => w[i] = c.bytes[i]
  BY <1>2, <1>3, WrittenIs, SMTT(40)
<1> HIDE DEF w
<1>5. d = [c EXCEPT !.bytes = w, !.off_dt_struct = o + EntrySize]
  BY <1>1, <1>2 DEF Longer, w
<1>6. o + EntrySize \in Word
  <2>1. o + EntrySize \in Int /\ 0 <= o + EntrySize /\ o + EntrySize <= INT_MAX
    BY <1>1, SpaceIs, MemoryFacts
  <2> QED BY <2>1, WordFacts, WordIs
<1>7. /\ c \in BlobsIn(BankOf(c)) /\ c.version = 17 /\ c.addr \in Nat /\ c.magic = "FDT_SW_MAGIC"
      /\ c.addr + c.totalsize <= MemorySize
  BY <1>0 DEF Draft
<1>8. d \in BlobsIn(BankOf(c))
  <2>1. w \in [BankOf(c) -> Octet]
    BY <1>4 DEF Banks
  <2> QED BY <1>5, <1>6, <1>7, <2>1, ZenonT(40) DEF BlobsIn, BlobsOver
<1>9. /\ d.off_dt_struct = o + EntrySize /\ d.bytes = w /\ d.totalsize = c.totalsize /\ d.addr = c.addr
      /\ d.size_dt_struct = c.size_dt_struct /\ d.size_dt_strings = c.size_dt_strings
      /\ d.off_mem_rsvmap = c.off_mem_rsvmap /\ d.off_dt_strings = c.off_dt_strings
      /\ d.last_comp_version = c.last_comp_version /\ d.magic = c.magic /\ d.version = c.version
  BY <1>5, <1>7 DEF BlobsIn, BlobsOver
<1>10. Draft(d)
  <2>1. headsize(d) + d.size_dt_strings <= d.totalsize
    <3>1. headsize(d) = o + EntrySize + 0
      BY <1>0, <1>9 DEF headsize
    <3> QED BY <1>0, <1>1, <1>9, <3>1, SpaceIs
  <2>2. BankOf(d) = BankOf(c)
    BY <1>9 DEF BankOf
  <2> QED BY <1>7, <1>8, <1>9, <2>1, <2>2 DEF Draft
<1>11. d.off_dt_struct = header_space + (k + 1) * EntrySize
  <2>1. PICK x \in Nat : x = k * EntrySize /\ (k + 1) * EntrySize = x + EntrySize
    BY Multiples
  <2> QED BY <1>1, <1>9, <2>1, SpaceIs
<1>12. Reserving(d, k + 1)
  BY <1>9, <1>10, <1>11 DEF Reserving
<1>13. Same(c, d, 0, o)
  <2>1. \A i \in Int : 0 <= i /\ i < o => i < e
    BY <1>1, SpaceIs
  <2>2. \A i \in Int : 0 <= i /\ i < o => Byte(d, i) = Byte(c, i)
    BY <1>3, <1>4, <1>9, <2>1 DEF Byte
  <2> QED BY <2>2 DEF Same
<1>14. HoldsBytes(d, o, s)
  <2>1. ASSUME NEW i \in 1 .. EntrySize PROVE Byte(d, o + i - 1) = s[i]
    <3>1. o + i - 1 \in Int /\ 0 <= o + i - 1 /\ o + i - 1 < e /\ o + i - 1 >= o /\ o + i - 1 < o + EntrySize
          /\ (o + i - 1) - o + 1 = i
      BY <1>1, SpaceIs
    <3>2. o + i - 1 \in BankOf(c)
      BY <1>3, <3>1
    <3>3. w[o + i - 1] = s[(o + i - 1) - o + 1]
      BY <1>4, <3>1, <3>2
    <3> QED BY <1>9, <3>1, <3>3 DEF Byte
  <2> QED BY <1>2, <2>1 DEF HoldsBytes
<1>15. EntryAt(d, k) = <<address, size>>
  BY <1>0, <1>1, <1>2, <1>9, <1>14, EntryBytesAre
<1>16. EntriesOf(d, k) = EntriesOf(c, k)
  <2>1. header_space + k * EntrySize <= o
    BY <1>1
  <2> QED BY <1>0, <1>9, <1>13, <2>1, EntriesStay
<1>17. EntriesOf(d, k + 1) = Append(EntriesOf(c, k), <<address, size>>)
  <2> DEFINE es == EntriesOf(c, k)
  <2>1. EntriesOf(d, k + 1) = [n \in 1 .. k + 1 |-> EntryAt(d, n - 1)]
    BY DEF EntriesOf
  <2>2. \A n \in 1 .. k : es[n] = EntryAt(d, n - 1)
    BY <1>16 DEF EntriesOf
  <2>3. es \in Seq({EntryAt(c, n - 1) : n \in 1 .. k}) /\ Len(es) = k
    <3> DEFINE S == {EntryAt(c, n - 1) : n \in 1 .. k}
    <3>1. \A n \in 1 .. k : EntryAt(c, n - 1) \in S
      OBVIOUS
    <3>2. es = [n \in 1 .. k |-> EntryAt(c, n - 1)]
      BY DEF EntriesOf
    <3> HIDE DEF S, es
    <3>3. es \in [1 .. k -> S]
      BY <3>1, <3>2
    <3>4. es \in Seq(S) /\ Len(es) = k
      BY <3>3
    <3> QED BY <3>4 DEF S
  <2> HIDE DEF es
  <2>4. Append(es, <<address, size>>) = [n \in 1 .. k + 1 |-> IF n <= k THEN es[n] ELSE <<address, size>>]
    BY <2>3
  <2>5. ASSUME NEW n \in 1 .. k + 1
        PROVE  EntryAt(d, n - 1) = IF n <= k THEN es[n] ELSE <<address, size>>
    <3>1. CASE n <= k
      BY <2>2, <3>1
    <3>2. CASE ~(n <= k)
      <4>1. n - 1 = k
        BY <3>2
      <4> QED BY <1>15, <3>2, <4>1
    <3> QED BY <3>1, <3>2
  <2> QED BY <2>1, <2>4, <2>5 DEF es
<1> QED BY <1>9, <1>12, <1>15, <1>16, <1>17

LEMMA ReserveProbe ==
  ASSUME NEW c, NEW k \in Nat, Reserving(c, k)
  PROVE  fdt_sw_probe_struct_(c) # 0 /\ fdt_sw_probe_(c) = 0 /\ fdt_sw_probe_memrsv_(c) = 0
<1>1. c.magic = "FDT_SW_MAGIC" /\ c.off_dt_strings = 0 /\ Draft(c) /\ c.size_dt_struct = 0
  BY DEF Reserving, Draft
<1>2. fdt_sw_probe_(c) = 0
  BY <1>1 DEF fdt_sw_probe_
<1>3. c.totalsize # 0
  <2>1. PICK e \in Nat, o \in Nat, z \in Nat :
          e = c.totalsize /\ o = c.off_dt_struct /\ o + z <= e
    BY <1>1, DraftFacts
  <2>2. o = header_space + k * EntrySize
    BY <2>1 DEF Reserving
  <2>3. k * EntrySize \in Nat
    BY Multiples
  <2> QED BY <2>1, <2>2, <2>3, SpaceIs
<1> QED BY <1>1, <1>2, <1>3 DEF fdt_sw_probe_struct_, fdt_sw_probe_memrsv_, FDT_ERR_BADSTATE

LEMMA AddedEntry ==
  ASSUME NEW c, NEW k \in Nat, Reserving(c, k), NEW address \in Pairs, NEW size \in Pairs
  PROVE  LET r == fdt_add_reservemap_entry(c, address, size)
         IN \/ r.ret # 0 /\ r.b = c
            \/ /\ r.ret = 0 /\ r.b = Longer(c, address, size)
               /\ c.off_dt_struct + EntrySize <= c.totalsize
<1>1. fdt_sw_probe_memrsv_(c) = 0 /\ Draft(c)
  BY ReserveProbe DEF Reserving
<1>2. PICK o \in Nat, e \in Nat : o = c.off_dt_struct /\ e = c.totalsize
  BY <1>1, DraftFacts
<1>3. fdt_add_reservemap_entry(c, address, size) =
        IF o + EntrySize > e THEN Result(-FDT_ERR_NOSPACE, c) ELSE Result(0, Longer(c, address, size))
  BY <1>1, <1>2, ErrorsDiffer DEF fdt_add_reservemap_entry, Probed, Unless, Longer
<1>4. CASE o + EntrySize > e
  BY <1>3, <1>4, ErrorsDiffer DEF Result
<1>5. CASE ~(o + EntrySize > e)
  <2>1. o + EntrySize <= e
    BY <1>5, SpaceIs
  <2> QED BY <1>2, <1>3, <1>5, <2>1 DEF Result
<1> QED BY <1>4, <1>5

LEMMA ReserveAppends ==
  ASSUME NEW c, NEW k \in Nat, Reserving(c, k), NEW address \in Pairs, NEW size \in Pairs,
         NEW e, e = <<address, size>>, NEW d, d = fdt_add_reservemap_entry(c, address, size).b
  PROVE  d = c \/ (Reserving(d, k + 1) /\ EntriesOf(d, k + 1) = Append(EntriesOf(c, k), e))
<1>1. d = c \/ (d = Longer(c, address, size) /\ c.off_dt_struct + EntrySize <= c.totalsize)
  BY AddedEntry
<1>2. \/ d = c
      \/ Reserving(d, k + 1) /\ EntriesOf(d, k + 1) = Append(EntriesOf(c, k), <<address, size>>)
  BY <1>1, LongerFacts
<1> QED BY <1>2

LEMMA HoldsNothing == ASSUME NEW c, c.size_dt_struct = 0 PROVE <<>> \in Trees /\ Holds(c, <<>>)
<1>1. <<>> \in Trees /\ Len(<<>>) = 0
  BY DEF Trees
<1> DEFINE off == [i \in {1} |-> 0]
<1>2. off[1] = 0 /\ Len(<<>>) + 1 = 1
  BY <1>1
<1> HIDE DEF off
<1>3. Laid(<<>>, off)
  BY <1>1, <1>2 DEF Laid
<1>4. Stored(c, <<>>, off, off)
  BY <1>1, <1>2, <1>3 DEF Stored, Log, NamedBelow
<1> QED BY <1>1, <1>4 DEF Holds

LEMMA TableEmpty == ASSUME NEW d, d.size_dt_strings = 0, NEW ts PROVE Tabled(d, ts)
<1>1. Starts(d) = {}
  BY DEF Starts
<1> QED BY <1>1 DEF Tabled, NoStrays, NoTwins

LEMMA FinishReserveKeeps ==
  ASSUME NEW c, NEW k \in Nat, Reserving(c, k), NEW d, d = fdt_finish_reservemap(c).b
  PROVE  \/ d = c
         \/ Building(d, k, <<>>) /\ EntriesOf(d, k) = EntriesOf(c, k) /\ Sealed(d, k) /\ Tabled(d, <<>>)
<1> DEFINE z == <<0, 0>>
           r == fdt_add_reservemap_entry(c, z, z)
<1>1. z \in Pairs
  BY NumbersAreWords DEF Pairs
<1>2. fdt_finish_reservemap(c) =
        IF r.ret # 0 THEN r ELSE Result(0, [r.b EXCEPT !.off_dt_strings = r.b.totalsize])
  BY DEF fdt_finish_reservemap, then
<1>3. \/ r.ret # 0 /\ r.b = c
      \/ r.ret = 0 /\ r.b = Longer(c, z, z) /\ c.off_dt_struct + EntrySize <= c.totalsize
  BY <1>1, AddedEntry
<1> HIDE DEF r
<1>4. CASE r.ret # 0 /\ r.b = c
  BY <1>2, <1>4
<1>5. CASE r.ret = 0 /\ r.b = Longer(c, z, z) /\ c.off_dt_struct + EntrySize <= c.totalsize
  <2>1. PICK a : /\ a = Longer(c, z, z) /\ Reserving(a, k + 1) /\ EntriesOf(a, k) = EntriesOf(c, k)
                 /\ EntryAt(a, k) = <<z, z>>
    BY <1>1, <1>5, LongerFacts
  <2>2. d = [a EXCEPT !.off_dt_strings = a.totalsize]
    <3>1. r.b = a /\ r.ret = 0
      BY <1>5, <2>1
    <3> HIDE DEF z
    <3> QED BY <1>2, <3>1 DEF Result
  <2> HIDE DEF z
  <2>3. /\ a \in BlobsIn(BankOf(a)) /\ a.version = 17 /\ a.addr \in Nat /\ a.magic = "FDT_SW_MAGIC"
        /\ a.addr + a.totalsize <= MemorySize /\ headsize(a) + a.size_dt_strings <= a.totalsize
    BY <2>1 DEF Reserving, Draft
  <2>4. d \in BlobsIn(BankOf(a))
    BY <2>2, <2>3 DEF BlobsIn, BlobsOver
  <2>5. /\ d.off_dt_struct = a.off_dt_struct /\ d.bytes = a.bytes /\ d.totalsize = a.totalsize /\ d.addr = a.addr
        /\ d.size_dt_struct = a.size_dt_struct /\ d.size_dt_strings = a.size_dt_strings
        /\ d.off_mem_rsvmap = a.off_mem_rsvmap /\ d.off_dt_strings = a.totalsize
        /\ d.last_comp_version = a.last_comp_version /\ d.magic = a.magic /\ d.version = a.version
    BY <2>2, <2>3 DEF BlobsIn, BlobsOver
  <2>6. Draft(d)
    <3>1. headsize(d) = headsize(a) /\ BankOf(d) = BankOf(a)
      BY <2>5 DEF headsize, BankOf
    <3> QED BY <2>3, <2>4, <2>5, <3>1 DEF Draft
  <2>7. Holds(d, <<>>)
    BY <2>1, <2>5, HoldsNothing DEF Reserving
  <2>8. Building(d, k, <<>>)
    BY <2>1, <2>5, <2>6, <2>7 DEF Building, Reserving
  <2>9. EntriesOf(d, k) = EntriesOf(a, k)
    <3>1. PICK o \in Nat : o = a.off_dt_struct /\ o = header_space + (k + 1) * EntrySize
      BY <2>1, DraftFacts DEF Reserving
    <3>2. header_space + k * EntrySize <= o
      <4>1. PICK x \in Nat : x = k * EntrySize /\ (k + 1) * EntrySize = x + EntrySize
        BY Multiples
      <4> QED BY <3>1, <4>1, SpaceIs
    <3>3. Same(a, d, 0, o)
      BY <2>5 DEF Same, Byte
    <3> QED BY <2>1, <2>5, <3>2, <3>3, EntriesStay DEF Reserving
  <2>10. Sealed(d, k)
    <3>1. mem_rsv_at(d, k) = mem_rsv_at(a, k)
      BY <2>5 DEF mem_rsv_at
    <3>2. \A at : LoadCell(d, at) = LoadCell(a, at)
      BY <2>5 DEF LoadCell, Bytes, Byte
    <3>3. EntryAt(d, k) = EntryAt(a, k)
      BY <3>1, <3>2 DEF EntryAt, mem_rsv_address, mem_rsv_size
    <3> QED BY <2>1, <3>3 DEF Sealed, z
  <2>11. Tabled(d, <<>>)
    BY <2>1, <2>5, TableEmpty DEF Reserving
  <2> QED BY <2>1, <2>8, <2>9, <2>10, <2>11
<1> QED BY <1>3, <1>4, <1>5

(***************************************************************************)
(* Creation.                                                               *)
(***************************************************************************)
LEMMA FromThere ==
  ASSUME NEW m \in SUBSET Int, NEW bytes \in Banks(m), NEW shift \in Int,
         NEW q \in SUBSET Int, \A i \in Int : i \in q <=> i + shift \in m
  PROVE  /\ from_there(bytes, shift) \in Banks(q)
         /\ \A i \in q : from_there(bytes, shift)[i] = bytes[i + shift]
<1>1. DOMAIN bytes = m /\ \A j \in m : bytes[j] \in Octet
  BY DEF Banks
<1>2. {j - shift : j \in m} = q
  <2>1. ASSUME NEW j \in m PROVE j - shift \in q
    <3>1. j - shift \in Int /\ (j - shift) + shift = j
      OBVIOUS
    <3> QED BY <3>1
  <2>2. ASSUME NEW i \in q PROVE \E j \in m : i = j - shift
    <3>1. i + shift \in m /\ i = (i + shift) - shift
      OBVIOUS
    <3> QED BY <3>1
  <2> QED BY <2>1, <2>2
<1>3. from_there(bytes, shift) = [i \in q |-> bytes[i + shift]]
  BY <1>1, <1>2 DEF from_there
<1>4. \A i \in q : bytes[i + shift] \in Octet
  <2>1. \A i \in q : i + shift \in m
    OBVIOUS
  <2> QED BY <1>1, <2>1
<1> QED BY <1>3, <1>4 DEF Banks

LEMMA Created ==
  ASSUME NEW buf \in WriteBuffers, NEW flags \in 0 .. 2,
         NEW r, r = fdt_create_with_flags([NoBlob EXCEPT !.bytes = from_there(NoBlob.bytes, buf[1]),
                                                         !.addr = buf[1]], buf[2], flags)
  PROVE  r.ret < 0 \/ (r.ret = 0 /\ Reserving(r.b, 0))
<1>1. PICK a \in Nat, e \in Nat : a = buf[1] /\ e = buf[2] /\ a + e <= MemorySize
  BY WriterAssumption
<1>2. PICK n \in [magic : {"none"}, addr : Int, off_dt_strings : Int, bytes : Banks(0 .. MemorySize - 1)] :
        n = NoBlob
  <2>0. 255 \in Octet
    BY OctetIs
  <2> DEFINE f == [i \in 0 .. MemorySize - 1 |-> 255]
  <2>1. f \in Banks(0 .. MemorySize - 1)
    BY <2>0 DEF Banks
  <2>2. NoBlob = [magic |-> "none", addr |-> 0, off_dt_strings |-> 0, bytes |-> f]
    BY DEF NoBlob
  <2> HIDE DEF f
  <2>3. PICK B : B = Banks(0 .. MemorySize - 1)
    OBVIOUS
  <2>4. [magic |-> "none", addr |-> 0, off_dt_strings |-> 0, bytes |-> f]
          \in [magic : {"none"}, addr : Int, off_dt_strings : Int, bytes : B]
    BY <2>1, <2>3
  <2> QED BY <2>2, <2>3, <2>4
<1>3. PICK at : at = [n EXCEPT !.bytes = from_there(n.bytes, a), !.addr = a]
  OBVIOUS
<1>4. at.addr = a /\ at.bytes = from_there(n.bytes, a)
  BY <1>2, <1>3
<1> DEFINE q == (-a) .. (MemorySize - 1 - a)
           zeros == [i \in 1 .. e |-> 0]
           w == written(at.bytes, 0, zeros)
           d == [magic |-> "FDT_SW_MAGIC", version |-> FDT_LAST_SUPPORTED_VERSION,
                 last_comp_version |-> flags, totalsize |-> e,
                 off_mem_rsvmap |-> header_space, off_dt_struct |-> header_space,
                 off_dt_strings |-> 0, size_dt_struct |-> 0,
                 size_dt_strings |-> 0, addr |-> a, bytes |-> w]
<1>5. q \in SUBSET Int /\ at.bytes \in Banks(q)
  <2>1. q \in SUBSET Int /\ 0 .. MemorySize - 1 \in SUBSET Int /\ a \in Int
    BY MemoryFacts
  <2>2. \A i \in Int : i \in q <=> i + a \in 0 .. MemorySize - 1
    BY MemoryFacts
  <2>3. n.bytes \in Banks(0 .. MemorySize - 1)
    OBVIOUS
  <2> HIDE DEF q
  <2>4. PICK m : m = 0 .. MemorySize - 1
    OBVIOUS
  <2>5. from_there(n.bytes, a) \in Banks(q)
    BY <2>1, <2>2, <2>3, <2>4, FromThere
  <2> QED BY <1>4, <2>1, <2>5
<1>6. r = IF e < header_space THEN Result(-FDT_ERR_NOSPACE, at)
          ELSE IF flags \notin FDT_CREATE_FLAGS_ALL THEN Result(-FDT_ERR_BADFLAGS, at)
          ELSE Result(0, d)
  <2>1. r = fdt_create_with_flags(at, e, flags)
    BY <1>1, <1>2, <1>3
  <2>2. -FDT_ERR_NOSPACE # 0 /\ -FDT_ERR_BADFLAGS # 0
    BY DEF FDT_ERR_NOSPACE, FDT_ERR_BADFLAGS
  <2> QED BY <1>4, <2>1, <2>2 DEF fdt_create_with_flags, Unless, Probed
<1>7. -FDT_ERR_NOSPACE < 0 /\ -FDT_ERR_BADFLAGS < 0
  BY DEF FDT_ERR_NOSPACE, FDT_ERR_BADFLAGS
<1>8. CASE e < header_space \/ flags \notin FDT_CREATE_FLAGS_ALL
  BY <1>6, <1>7, <1>8 DEF Result
<1>9. CASE ~(e < header_space) /\ flags \in FDT_CREATE_FLAGS_ALL
  <2>1. zeros \in Contents
    <3>1. 0 \in Octet
      BY DEF Octet
    <3>2. zeros \in [1 .. e -> Octet]
      BY <3>1
    <3> HIDE DEF zeros
    <3>3. zeros \in Seq(Octet)
      BY <3>2
    <3> QED BY <3>3 DEF Contents
  <2>2. w \in Banks(q)
    <3> HIDE DEF zeros, q
    <3>1. 0 \in Int
      OBVIOUS
    <3> QED BY <1>5, <2>1, <3>1, WrittenIs
  <2> HIDE DEF w
  <2>3. header_space <= e /\ e <= INT_MAX
    BY <1>1, <1>9, MemoryFacts, SpaceIs
  <2>4. header_space \in Word /\ e \in Word /\ 0 \in Word /\ 17 \in Word /\ flags \in Word
    <3>1. 17 < WordSize /\ header_space < WordSize /\ e < WordSize /\ flags \in Int /\ 0 <= flags /\ flags < WordSize
      <4>1. flags \in 0 .. 2
        OBVIOUS
      <4>2. PICK x \in Nat, h \in Nat : x = INT_MAX /\ h = header_space /\ x >= 32767 /\ h <= e /\ e <= x
        BY <2>3, WordFacts, SpaceIs
      <4>3. WordSize = 2 * x + 2
        BY <4>2, WordFacts
      <4> QED BY <4>1, <4>2, <4>3
    <3> QED BY <3>1, SpaceIs, WordIs, NumbersAreWords
  <2>5. FDT_LAST_SUPPORTED_VERSION = 17
    BY DEF FDT_LAST_SUPPORTED_VERSION
  <2>6. 0 .. e - 1 \subseteq q
    BY <1>1, MemoryFacts
  <2>7. d \in BlobsIn(q)
    <3>1. w \in [q -> Octet]
      BY <2>2 DEF Banks
    <3> HIDE DEF q
    <3>2. d.totalsize = e /\ 0 .. d.totalsize - 1 \subseteq q
      BY <2>6
    <3>3. d \in [magic : Magics, addr : Int, totalsize : Word, version : Word,
          last_comp_version : Word, off_mem_rsvmap : Word,
          off_dt_struct : Word, size_dt_struct : Word,
          off_dt_strings : Word, size_dt_strings : Word,
          bytes : [q -> Octet]]
      <4>0. "FDT_SW_MAGIC" \in Magics
        BY DEF Magics
      <4>1. a \in Int /\ "FDT_SW_MAGIC" \in Magics
        BY <4>0
      <4>2. PICK W, B : W = Word /\ B = [q -> Octet]
        OBVIOUS
      <4>3. FDT_LAST_SUPPORTED_VERSION \in W /\ flags \in W /\ e \in W /\ header_space \in W /\ 0 \in W /\ w \in B
        BY <2>4, <2>5, <3>1, <4>2
      <4> QED BY <4>1, <4>2, <4>3
    <3> HIDE DEF d
    <3> QED BY <3>2, <3>3 DEF BlobsIn, BlobsOver
  <2>8. /\ d.magic = "FDT_SW_MAGIC" /\ d.version = 17 /\ d.addr = a /\ d.totalsize = e
        /\ d.off_dt_struct = header_space /\ d.size_dt_struct = 0 /\ d.size_dt_strings = 0
        /\ d.off_mem_rsvmap = header_space /\ d.off_dt_strings = 0 /\ d.last_comp_version = flags
    BY <2>5
  <2>9. r.ret = 0 /\ r.b = d
    BY <1>6, <1>9 DEF Result
  <2> HIDE DEF d
  <2>10. Draft(d)
    <3>1. BankOf(d) = q
      BY <2>8 DEF BankOf
    <3>2. headsize(d) + d.size_dt_strings <= d.totalsize
      <4>1. headsize(d) = header_space + 0
        BY <2>8 DEF headsize
      <4> QED BY <2>3, <2>8, <4>1, SpaceIs
    <3> HIDE DEF q
    <3> QED BY <1>1, <2>7, <2>8, <3>1, <3>2 DEF Draft
  <2>11. d.off_dt_struct = header_space + 0 * EntrySize
    BY <2>8, SpaceIs
  <2> QED BY <1>9, <2>8, <2>9, <2>10, <2>11 DEF Reserving
<1> QED BY <1>8, <1>9

(***************************************************************************)
(* Another buffer.                                                         *)
(***************************************************************************)
(* Bytes with h bytes of head at 0 and z bytes of tail before t, and the   *)
(* same bytes in a buffer of n bytes at shift.                             *)
Parted(new, bytes, shift, n, t, h, z) ==
  /\ \A i \in Int : 0 <= i /\ i < h => new[i + shift] = bytes[i]
  /\ \A v \in Nat : 0 < v /\ v <= z => new[(n - v) + shift] = bytes[t - v]

Available(m, first, past) == \A i \in Int : first <= i /\ i < past => i \in m

(* What moved leaves behind.                                               *)
Moves(m, new, bytes, to, from, n) ==
  /\ new \in Banks(m)
  /\ \A k \in 0 .. n - 1 : to + k \in m => new[to + k] = bytes[from + k]
  /\ \A i \in m : i < to \/ i >= to + n => new[i] = bytes[i]

LEMMA MovesIs ==
  ASSUME NEW m \in SUBSET Int, NEW bytes \in Banks(m), NEW to \in Int, NEW from \in Int, NEW n \in Nat,
         Available(m, from, from + n)
  PROVE  Moves(m, moved(bytes, to, from, n), bytes, to, from, n)
<1>1. \A k \in 0 .. n - 1 : from + k \in m
  BY DEF Available
<1> QED BY <1>1, MovedIs, ZenonT(40) DEF Moves

LEMMA HeadFirst ==
  ASSUME NEW m \in SUBSET Int, NEW bytes \in Banks(m), NEW shift \in Int, NEW n \in Nat, NEW t \in Nat,
         NEW h \in Nat, NEW z \in Nat, h + z <= n, h + z <= t, shift <= 0,
         Available(m, 0, t), Available(m, shift, shift + n)
  PROVE  LET new == moved(moved(bytes, shift, 0, h), shift + (n - z), t - z, z)
         IN new \in Banks(m) /\ Parted(new, bytes, shift, n, t, h, z)
<1>0. Available(m, 0, 0 + h) /\ Available(m, t - z, (t - z) + z)
  BY DEF Available
<1>1. PICK one : one = moved(bytes, shift, 0, h) /\ Moves(m, one, bytes, shift, 0, h)
  BY <1>0, MovesIs
<1>2. PICK two : /\ two = moved(one, shift + (n - z), t - z, z)
                 /\ Moves(m, two, one, shift + (n - z), t - z, z)
  <2>1. one \in Banks(m) /\ shift + (n - z) \in Int /\ t - z \in Int
    BY <1>1 DEF Moves
  <2> QED BY <1>0, <2>1, MovesIs
<1>3. ASSUME NEW i \in Int, 0 <= i, i < h PROVE two[i + shift] = bytes[i]
  <2>1. i + shift = shift + i /\ i \in 0 .. h - 1 /\ 0 + i = i
    BY <1>3
  <2>2. shift + i \in m /\ shift + i < shift + (n - z)
    BY <1>3 DEF Available
  <2>3. two[shift + i] = one[shift + i]
    BY <1>2, <2>2 DEF Moves
  <2>4. one[shift + i] = bytes[0 + i]
    BY <1>1, <2>1, <2>2 DEF Moves
  <2> QED BY <2>1, <2>3, <2>4
<1>4. ASSUME NEW v \in Nat, 0 < v, v <= z PROVE two[(n - v) + shift] = bytes[t - v]
  <2>1. PICK k \in 0 .. z - 1 : k = z - v
    BY <1>4
  <2>2. (shift + (n - z)) + k = (n - v) + shift /\ (t - z) + k = t - v
    BY <2>1
  <2>3. (n - v) + shift \in m /\ t - v \in m /\ t - v >= shift + h
    BY <1>4 DEF Available
  <2>4. two[(n - v) + shift] = one[t - v]
    BY <1>2, <2>2, <2>3 DEF Moves
  <2>5. one[t - v] = bytes[t - v]
    BY <1>1, <2>3 DEF Moves
  <2> QED BY <2>4, <2>5
<1> QED BY <1>1, <1>2, <1>3, <1>4 DEF Parted, Moves

LEMMA TailFirst ==
  ASSUME NEW m \in SUBSET Int, NEW bytes \in Banks(m), NEW shift \in Int, NEW n \in Nat, NEW t \in Nat,
         NEW h \in Nat, NEW z \in Nat, h + z <= n, h + z <= t, 0 < shift,
         Available(m, 0, t), Available(m, shift, shift + n)
  PROVE  LET new == moved(moved(bytes, shift + (n - z), t - z, z), shift, 0, h)
         IN new \in Banks(m) /\ Parted(new, bytes, shift, n, t, h, z)
<1>0. Available(m, 0, 0 + h) /\ Available(m, t - z, (t - z) + z)
  BY DEF Available
<1>1. PICK one : /\ one = moved(bytes, shift + (n - z), t - z, z)
                 /\ Moves(m, one, bytes, shift + (n - z), t - z, z)
  <2>1. shift + (n - z) \in Int /\ t - z \in Int
    OBVIOUS
  <2> QED BY <1>0, <2>1, MovesIs
<1>2. PICK two : two = moved(one, shift, 0, h) /\ Moves(m, two, one, shift, 0, h)
  <2>1. one \in Banks(m)
    BY <1>1 DEF Moves
  <2> QED BY <1>0, <2>1, MovesIs
<1>3. ASSUME NEW i \in Int, 0 <= i, i < h PROVE two[i + shift] = bytes[i]
  <2>1. i + shift = shift + i /\ i \in 0 .. h - 1 /\ 0 + i = i
    BY <1>3
  <2>2. shift + i \in m /\ i \in m /\ i < shift + (n - z)
    BY <1>3 DEF Available
  <2>3. two[shift + i] = one[0 + i]
    BY <1>2, <2>1, <2>2 DEF Moves
  <2>4. one[i] = bytes[i]
    BY <1>1, <2>2 DEF Moves
  <2> QED BY <2>1, <2>3, <2>4
<1>4. ASSUME NEW v \in Nat, 0 < v, v <= z PROVE two[(n - v) + shift] = bytes[t - v]
  <2>1. PICK k \in 0 .. z - 1 : k = z - v
    BY <1>4
  <2>2. (shift + (n - z)) + k = (n - v) + shift /\ (t - z) + k = t - v
    BY <2>1
  <2>3. (n - v) + shift \in m /\ (n - v) + shift >= shift + h
    BY <1>4 DEF Available
  <2>4. two[(n - v) + shift] = one[(n - v) + shift]
    BY <1>2, <2>3 DEF Moves
  <2>5. one[(n - v) + shift] = bytes[t - v]
    BY <1>1, <2>1, <2>2, <2>3 DEF Moves
  <2> QED BY <2>4, <2>5
<1> QED BY <1>1, <1>2, <1>3, <1>4 DEF Parted, Moves

(* The blob d is c in another buffer.                                      *)
Relocated(c, d) ==
  /\ Draft(d) /\ d.off_mem_rsvmap = c.off_mem_rsvmap /\ d.last_comp_version = c.last_comp_version
  /\ d.off_dt_struct = c.off_dt_struct /\ d.size_dt_struct = c.size_dt_struct
  /\ d.size_dt_strings = c.size_dt_strings
  /\ d.off_dt_strings = (IF c.off_dt_strings = 0 THEN 0 ELSE d.totalsize)
  /\ Same(c, d, 0, headsize(c)) /\ StringsStay(c, d)

Shifted(c, shift, n) ==
  [c EXCEPT !.bytes = from_there(resized(c, shift, n), shift), !.addr = c.addr + shift,
            !.totalsize = n, !.off_dt_strings = IF c.off_dt_strings = 0 THEN 0 ELSE n]

LEMMA ShiftedIs ==
  ASSUME NEW c, Draft(c), NEW buf \in WriteBuffers, headsize(c) + c.size_dt_strings <= buf[2],
         NEW d, d = Shifted(c, buf[1] - c.addr, buf[2])
  PROVE  Relocated(c, d)
<1>1. PICK a \in Nat, n \in Nat : a = buf[1] /\ n = buf[2] /\ a + n <= MemorySize
  BY WriterAssumption
<1>2. PICK h \in Nat, z \in Nat, t \in Nat, p \in Nat :
        /\ h = headsize(c) /\ z = c.size_dt_strings /\ t = c.totalsize /\ p = c.addr
        /\ h + z <= t /\ h + z <= n
  BY <1>1, DraftFacts
<1>3. PICK shift \in Int : shift = a - p
  OBVIOUS
<1>4. PICK m : m = BankOf(c) /\ m \in SUBSET Int /\ c.bytes \in Banks(m)
  BY DraftFacts
<1>5. PICK q : q = (-a) .. (MemorySize - 1 - a) /\ q \in SUBSET Int
  BY MemoryFacts
<1>6. /\ Available(m, 0, t) /\ Available(m, shift, shift + n)
      /\ \A i \in Int : i \in q <=> i + shift \in m
      /\ \A i \in Int : 0 <= i /\ i < n => i \in q
  <2>1. m = (-p) .. (MemorySize - 1 - p) /\ MemorySize \in Nat
    BY <1>2, <1>4, MemoryFacts DEF BankOf
  <2>2. p + t <= MemorySize
    BY <1>2 DEF Draft
  <2>3. \A i \in Int : 0 <= i /\ i < t => i \in m
    BY <2>1, <2>2
  <2>4. \A i \in Int : shift <= i /\ i < shift + n => i \in m
    <3> SUFFICES ASSUME NEW i \in Int, shift <= i, i < shift + n PROVE i \in m
      OBVIOUS
    <3>1. PICK M \in Nat : M = MemorySize /\ a + n <= M /\ m = (-p) .. (M - 1 - p)
      BY <1>1, <2>1
    <3>2. -p <= i /\ i <= M - 1 - p
      BY <1>3, <3>1
    <3> QED BY <3>1, <3>2
  <2>5. \A i \in Int : i \in q <=> i + shift \in m
    BY <1>3, <1>5, <2>1
  <2>6. \A i \in Int : 0 <= i /\ i < n => i \in q
    BY <1>1, <1>5, <2>1, SMTT(40)
  <2> QED BY <2>3, <2>4, <2>5, <2>6 DEF Available
<1>7. PICK new : new = resized(c, shift, n) /\ new \in Banks(m) /\ Parted(new, c.bytes, shift, n, t, h, z)
  <2>1. \A mem : /\ move_head(c, mem, shift) = moved(mem, shift, 0, h)
                 /\ move_tail(c, mem, shift, n) = moved(mem, shift + (n - z), t - z, z)
    <3>1. shift + n - z = shift + (n - z)
      OBVIOUS
    <3> QED BY <1>2, <3>1 DEF move_head, move_tail
  <2>2. resized(c, shift, n) =
          IF shift <= 0 THEN moved(moved(c.bytes, shift, 0, h), shift + (n - z), t - z, z)
          ELSE moved(moved(c.bytes, shift + (n - z), t - z, z), shift, 0, h)
    BY <2>1 DEF resized
  <2>3. CASE shift <= 0
    <3>1. LET new == moved(moved(c.bytes, shift, 0, h), shift + (n - z), t - z, z)
          IN new \in Banks(m) /\ Parted(new, c.bytes, shift, n, t, h, z)
      BY <1>2, <1>4, <1>6, <2>3, HeadFirst
    <3> QED BY <2>2, <2>3, <3>1
  <2>4. CASE 0 < shift
    <3>1. LET new == moved(moved(c.bytes, shift + (n - z), t - z, z), shift, 0, h)
          IN new \in Banks(m) /\ Parted(new, c.bytes, shift, n, t, h, z)
      BY <1>2, <1>4, <1>6, <2>4, TailFirst
    <3>2. ~(shift <= 0)
      BY <2>4
    <3> QED BY <2>2, <3>1, <3>2
  <2> QED BY <2>3, <2>4
<1>8. PICK there : /\ there = from_there(new, shift) /\ there \in Banks(q)
                   /\ \A i \in q : there[i] = new[i + shift]
  <2>1. new \in Banks(m) /\ m \in SUBSET Int /\ q \in SUBSET Int /\ \A i \in Int : i \in q <=> i + shift \in m
    BY <1>4, <1>5, <1>6, <1>7
  <2>2. /\ from_there(new, shift) \in Banks(q)
        /\ \A i \in q : from_there(new, shift)[i] = new[i + shift]
    BY <2>1, FromThere
  <2> QED BY <2>2
<1>9. PICK s \in Word : s = (IF c.off_dt_strings = 0 THEN 0 ELSE n) /\ n \in Word
  <2>1. n \in Word
    <3>1. PICK x \in Nat, y \in Nat : x = INT_MAX /\ y = MemorySize /\ y <= x /\ WordSize = 2 * x + 2
      BY MemoryFacts, WordFacts
    <3>2. n < WordSize
      BY <1>1, <3>1
    <3> QED BY <3>2, WordIs
  <2> QED BY <2>1, NumbersAreWords
<1>10. d = [c EXCEPT !.bytes = there, !.addr = a, !.totalsize = n, !.off_dt_strings = s]
  <2>1. c.addr + shift = a
    BY <1>2, <1>3
  <2> QED BY <1>1, <1>2, <1>3, <1>7, <1>8, <1>9, <2>1 DEF Shifted
<1>11. /\ c \in BlobsIn(m) /\ c.magic = "FDT_SW_MAGIC" /\ c.version = 17
  BY <1>4 DEF Draft
<1>12. /\ d.bytes = there /\ d.addr = a /\ d.totalsize = n /\ d.off_dt_strings = s
       /\ d.magic = c.magic /\ d.version = c.version /\ d.last_comp_version = c.last_comp_version
       /\ d.off_mem_rsvmap = c.off_mem_rsvmap /\ d.off_dt_struct = c.off_dt_struct
       /\ d.size_dt_struct = c.size_dt_struct /\ d.size_dt_strings = c.size_dt_strings
  BY <1>10, <1>11, ZenonT(40) DEF BlobsIn, BlobsOver
<1>13. d \in BlobsIn(q)
  <2>1. 0 .. n - 1 \subseteq q
    BY <1>6
  <2>2. PICK W, B : W = Word /\ B = [q -> Octet] /\ there \in B
    BY <1>8 DEF Banks
  <2>3. c \in [magic : Magics, addr : Int, totalsize : W, version : W,
          last_comp_version : W, off_mem_rsvmap : W,
          off_dt_struct : W, size_dt_struct : W,
          off_dt_strings : W, size_dt_strings : W,
          bytes : [m -> Octet]]
    BY <1>11, <2>2 DEF BlobsIn, BlobsOver
  <2>4. d \in [magic : Magics, addr : Int, totalsize : W, version : W,
          last_comp_version : W, off_mem_rsvmap : W,
          off_dt_struct : W, size_dt_struct : W,
          off_dt_strings : W, size_dt_strings : W,
          bytes : B]
    <3>1. PICK f : f = [m -> Octet]
      OBVIOUS
    <3>2. c \in [magic : Magics, addr : Int, totalsize : W, version : W,
          last_comp_version : W, off_mem_rsvmap : W,
          off_dt_struct : W, size_dt_struct : W,
          off_dt_strings : W, size_dt_strings : W, bytes : f]
      BY <2>3, <3>1
    <3>3. a \in Int /\ n \in W /\ s \in W
      BY <1>9, <2>2
    <3> QED BY <1>10, <2>2, <3>2, <3>3, ZenonT(40)
  <2>5. 0 .. d.totalsize - 1 \subseteq q
    BY <1>12, <2>1
  <2> QED BY <2>2, <2>4, <2>5 DEF BlobsIn, BlobsOver
<1>14. headsize(d) = h /\ BankOf(d) = q
  BY <1>2, <1>5, <1>12 DEF headsize, BankOf
<1>15. Draft(d)
  BY <1>1, <1>2, <1>11, <1>12, <1>13, <1>14 DEF Draft
<1>16. Same(c, d, 0, h)
  <2> SUFFICES ASSUME NEW i \in Int, 0 <= i, i < h PROVE d.bytes[i] = c.bytes[i]
    BY DEF Same, Byte
  <2>1. i \in q
    BY <1>2, <1>6
  <2> QED BY <1>7, <1>8, <1>12, <2>1 DEF Parted
<1>17. StringsStay(c, d)
  <2>1. ASSUME NEW v \in Nat, 0 < v, v <= z PROVE d.bytes[n - v] = c.bytes[t - v]
    <3>1. n - v \in q /\ n - v \in Int
      BY <1>2, <1>6, <2>1
    <3> QED BY <1>7, <1>8, <1>12, <2>1, <3>1 DEF Parted
  <2> QED BY <1>2, <1>12, <2>1 DEF StringsStay, Byte
<1> QED BY <1>2, <1>9, <1>12, <1>15, <1>16, <1>17 DEF Relocated

LEMMA Resized ==
  ASSUME NEW c, Draft(c), NEW buf \in WriteBuffers, NEW r, r = fdt_resize(c, buf[1] - c.addr, buf[2])
  PROVE  \/ r.ret < 0 /\ r.b = c
         \/ ~(r.ret < 0) /\ Relocated(c, r.b)
<1>1. PICK a \in Nat, n \in Nat : a = buf[1] /\ n = buf[2]
  BY WriterAssumption
<1>2. fdt_sw_probe_(c) = 0
  BY DEF Draft, fdt_sw_probe_
<1>3. PICK need \in Nat, t \in Nat : need = headsize(c) + c.size_dt_strings /\ t = c.totalsize /\ need <= t
  BY DraftFacts
<1>4. ~(n < 0) /\ ~(need > t)
  BY <1>3
<1>5. r = IF need > n THEN Result(-FDT_ERR_NOSPACE, c) ELSE Result(0, Shifted(c, a - c.addr, n))
  BY <1>1, <1>2, <1>3, <1>4, ErrorsDiffer DEF fdt_resize, Probed, Unless, Shifted
<1>6. CASE need > n
  BY <1>5, <1>6, ErrorsDiffer DEF Result
<1>7. CASE ~(need > n)
  <2>1. need <= n
    BY <1>7
  <2>2. r.ret = 0 /\ r.b = Shifted(c, a - c.addr, n)
    BY <1>5, <1>7 DEF Result
  <2> QED BY <1>1, <1>3, <2>1, <2>2, ShiftedIs
<1> QED BY <1>6, <1>7

LEMMA RelocatedReserving ==
  ASSUME NEW c, NEW k \in Nat, Reserving(c, k), NEW d, Relocated(c, d)
  PROVE  Reserving(d, k) /\ EntriesOf(d, k) = EntriesOf(c, k)
<1>1. Reserving(d, k)
  BY DEF Reserving, Relocated
<1>2. PICK h \in Nat : h = headsize(c) /\ h = header_space + k * EntrySize /\ Same(c, d, 0, h)
  <2>1. PICK o \in Nat : o = c.off_dt_struct /\ headsize(c) = o + 0 /\ o = header_space + k * EntrySize
    BY DraftFacts DEF Reserving
  <2> QED BY <2>1 DEF Relocated
<1>3. header_space + k * EntrySize <= h
  BY <1>2
<1> QED BY <1>1, <1>2, <1>3, EntriesStay DEF Reserving

LEMMA EntriesBelow ==
  ASSUME NEW c, NEW k \in Nat, NEW ts, Building(c, k, ts)
  PROVE  header_space + k * EntrySize <= c.off_dt_struct /\ c.off_dt_struct \in Nat
<1>1. PICK o \in Nat : o = c.off_dt_struct /\ o = header_space + (k + 1) * EntrySize
  BY DraftFacts DEF Building
<1>2. PICK x \in Nat : x = k * EntrySize /\ (k + 1) * EntrySize = x + EntrySize
  BY Multiples
<1> QED BY <1>1, <1>2, SpaceIs

LEMMA FollowsEntries ==
  ASSUME NEW c, NEW k \in Nat, NEW ts, Building(c, k, ts), NEW d, NEW us, Follows(c, d, k, us)
  PROVE  EntriesOf(d, k) = EntriesOf(c, k)
BY EntriesBelow, EntriesStay DEF Building, Follows

LEMMA EntryBelow ==
  ASSUME NEW c, NEW k \in Nat, NEW ts, Building(c, k, ts)
  PROVE  c.off_dt_struct \in Nat /\ header_space + k * EntrySize + EntrySize <= c.off_dt_struct
<1>1. PICK o \in Nat : o = c.off_dt_struct /\ o = header_space + (k + 1) * EntrySize
  BY DraftFacts DEF Building
<1>2. PICK x \in Nat : x = k * EntrySize /\ (k + 1) * EntrySize = x + EntrySize
  BY Multiples
<1> QED BY <1>1, <1>2, SpaceIs

LEMMA FollowsSealed ==
  ASSUME NEW c, NEW k \in Nat, NEW ts, Building(c, k, ts), NEW d, NEW us, Follows(c, d, k, us), Sealed(c, k)
  PROVE  Sealed(d, k)
<1>1. EntryAt(d, k) = EntryAt(c, k)
  BY EntryBelow, EntryStays DEF Building, Follows
<1> QED BY <1>1 DEF Sealed

LEMMA RelocatedBuilding ==
  ASSUME NEW c, NEW k \in Nat, NEW ts \in Trees, Building(c, k, ts), NEW d, Relocated(c, d)
  PROVE  Follows(c, d, k, ts) /\ Gains(c, d, ts, ts)
<1>1. PICK t \in Nat, o \in Nat, n \in Nat, z \in Nat :
        /\ t = c.totalsize /\ o = c.off_dt_struct /\ n = c.size_dt_struct /\ z = c.size_dt_strings
        /\ headsize(c) = o + n /\ o + n + z <= t
  BY DraftFacts DEF Building
<1>2. header_space <= o /\ o > 0
  BY <1>1, BuildingBounds
<1>3. c.off_dt_strings # 0
  BY <1>1, <1>2 DEF Building
<1>4. Holds(d, ts)
  BY HoldsStays DEF Building, Relocated
<1>5. Building(d, k, ts)
  BY <1>3, <1>4 DEF Building, Relocated
<1>6. Same(c, d, 0, o)
  BY <1>1 DEF Relocated, Same
<1>7. Draft(c) /\ Draft(d) /\ Keeps(c, d)
  BY DEF Building, Relocated, Keeps
<1> QED BY <1>1, <1>5, <1>6, <1>7, TableKept DEF Follows

(***************************************************************************)
(* Reading tags as fdt_next_tag does.                                      *)
(***************************************************************************)
(* n bytes at an offset of the structure block lie in it and in the blob.  *)
InBlock(c, o, n) ==
  /\ o \in Nat /\ c.off_dt_struct + o + n <= c.totalsize
  /\ c.version >= 17 => o + n <= c.size_dt_struct

LEMMA WordRange == ASSUME NEW x \in Word PROVE x \in Nat /\ x < WordSize
BY WordFacts, WordIs DEF Word

LEMMA BlobWords ==
  ASSUME NEW m, NEW c \in BlobsIn(m)
  PROVE  /\ c.totalsize \in Word /\ c.off_dt_struct \in Word /\ c.size_dt_struct \in Word
         /\ c.size_dt_strings \in Word /\ c.version \in Word /\ c.bytes \in Banks(m)
BY DEF BlobsIn, BlobsOver, Banks

LEMMA NoWrap ==
  ASSUME NEW x \in Nat, NEW y \in Nat, x < WordSize, y < WordSize
  PROVE  /\ Wrap(x + y) \in Nat
         /\ x + y < WordSize => Wrap(x + y) = x + y
         /\ Wrap(x + y) >= x => x + y < WordSize
<1>1. PICK w \in Nat : w = WordSize
  BY WordFacts
<1>2. CASE x + y < w
  <2>1. x + y \in Word
    BY <1>1, <1>2, WordIs
  <2> QED BY <1>1, <1>2, <2>1, WrapFacts
<1>3. CASE ~(x + y < w)
  <2>1. Wrap(x + y) = x + y - w
    BY <1>1, <1>3, WrapFacts
  <2> QED BY <1>1, <1>3, <2>1
<1> QED BY <1>2, <1>3

LEMMA SpanIs ==
  ASSUME NEW x \in Nat, NEW n \in Nat, NEW e \in Nat, x < WordSize, n < WordSize, e < WordSize
  PROVE  Span(x, n, e) <=> x + n <= e
<1>1. Span(x, n, e) <=> x <= Wrap(x + n) /\ Wrap(x + n) <= e
  BY DEF Span
<1>2. PICK w \in Nat : w = WordSize
  BY WordFacts
<1>3. ASSUME Span(x, n, e) PROVE x + n <= e
  <2>1. PICK v \in Nat : v = Wrap(x + n) /\ x <= v /\ v <= e
    BY <1>1, <1>3, NoWrap
  <2>2. v = x + n
    BY <2>1, NoWrap
  <2> QED BY <2>1, <2>2
<1>4. ASSUME x + n <= e PROVE Span(x, n, e)
  <2>1. Wrap(x + n) = x + n
    BY <1>2, <1>4, NoWrap
  <2> QED BY <1>1, <1>4, <2>1
<1> QED BY <1>3, <1>4

LEMMA PtrIs ==
  ASSUME NEW m, NEW c \in BlobsIn(m), NEW o \in Int, NEW n \in Nat, n < WordSize
  PROVE  fdt_offset_ptr(c, o, n) <=> InBlock(c, o, n)
<1>1. PICK w \in Nat, t \in Nat, s \in Nat, z \in Nat :
        /\ w = WordSize /\ t = c.totalsize /\ s = c.off_dt_struct /\ z = c.size_dt_struct
        /\ t < w /\ s < w /\ z < w
  <2>1. c.totalsize \in Word /\ c.off_dt_struct \in Word /\ c.size_dt_struct \in Word
    BY BlobWords
  <2> QED BY <2>1, WordFacts, WordRange
<1>2. fdt_offset_ptr(c, o, n) <=>
        /\ o >= 0 /\ Wrap(o + s) >= o /\ Span(Wrap(o + s), n, t)
        /\ c.version >= 17 => Span(o, n, z)
  BY <1>1 DEF fdt_offset_ptr
<1>3. InBlock(c, o, n) <=> o \in Nat /\ s + o + n <= t /\ (c.version >= 17 => o + n <= z)
  BY <1>1 DEF InBlock
<1>4. CASE o < 0
  BY <1>2, <1>3, <1>4
<1>5. CASE o >= 0 /\ o < w /\ o + s < w
  <2>1. Wrap(o + s) = o + s
    BY <1>1, <1>5, NoWrap
  <2>2. Span(o + s, n, t) <=> (o + s) + n <= t
    <3>1. o + s \in Nat
      BY <1>5
    <3> QED BY <1>1, <1>5, <3>1, SpanIs
  <2>3. Span(o, n, z) <=> o + n <= z
    BY <1>1, <1>5, SpanIs
  <2> QED BY <1>2, <1>3, <1>5, <2>1, <2>2, <2>3
<1>6. CASE o >= 0 /\ o < w /\ ~(o + s < w)
  <2>1. ~(Wrap(o + s) >= o)
    BY <1>1, <1>6, NoWrap
  <2>2. ~(s + o + n <= t)
    BY <1>1, <1>6
  <2> QED BY <1>2, <1>3, <2>1, <2>2
<1>7. CASE o >= w
  <2>1. ~(Wrap(o + s) >= o)
    <3>1. Wrap(o + s) \in Word
      BY <1>1, WrapFacts
    <3>2. Wrap(o + s) \in Nat /\ Wrap(o + s) < w
      BY <1>1, <3>1, WordRange
    <3> QED BY <1>7, <3>2
  <2>2. ~(s + o + n <= t)
    BY <1>1, <1>7
  <2> QED BY <1>2, <1>3, <2>1, <2>2
<1> QED BY <1>1, <1>4, <1>5, <1>6, <1>7

(* The scan over a name.                                                   *)
NameStep(c, g, p) ==
  IF ~fdt_offset_ptr(c, p, 1) THEN -1
  ELSE IF Byte(c, At(c, p)) = 0 THEN p + 1 ELSE g[p + 1]

Scans(c, o, f) ==
  f \in [o .. o + c.totalsize + 1 -> Int] /\ \A p \in o .. o + c.totalsize + 1 : f[p] = NameStep(c, f, p)

LEMMA OneIsSmall == 1 < WordSize /\ 1 \in Nat
BY WordFacts

LEMMA PtrBound ==
  ASSUME NEW m, NEW c \in BlobsIn(m), NEW p \in Int, fdt_offset_ptr(c, p, 1)
  PROVE  p \in Nat /\ p < c.totalsize /\ c.totalsize \in Nat
<1>1. InBlock(c, p, 1)
  BY PtrIs, OneIsSmall
<1>2. PICK t \in Nat, s \in Nat : t = c.totalsize /\ s = c.off_dt_struct
  BY BlobFacts
<1> QED BY <1>1, <1>2 DEF InBlock

LEMMA NameScanned ==
  ASSUME NEW m, NEW c \in BlobsIn(m), NEW o \in Nat
  PROVE  \E f : Scans(c, o, f) /\ name_end(c, o) = f[o]
<1>1. PICK t \in Nat : t = c.totalsize
  BY BlobFacts
<1> DEFINE S == o .. o + t + 1
           rank == [p \in S |-> o + t + 1 - p]
           D == [p \in S |-> [g \in [S -> Int] |-> NameStep(c, g, p)]]
<1>2. rank \in [S -> 0 .. t + 1]
  OBVIOUS
<1>3. \A p \in S : fdt_offset_ptr(c, p, 1) => p + 1 \in S /\ rank[p + 1] < rank[p]
  <2> SUFFICES ASSUME NEW p \in S, fdt_offset_ptr(c, p, 1) PROVE p + 1 \in S /\ rank[p + 1] < rank[p]
    OBVIOUS
  <2>1. p \in Int
    OBVIOUS
  <2>2. p < t
    BY <1>1, <2>1, PtrBound
  <2>3. p + 1 \in S
    BY <2>2
  <2> QED BY <2>3
<1>4. ASSUME NEW p \in S, NEW g \in [S -> Int] PROVE NameStep(c, g, p) \in Int
  <2>1. p \in Int
    OBVIOUS
  <2>2. fdt_offset_ptr(c, p, 1) => g[p + 1] \in Int
    <3> HIDE DEF S, rank
    <3> QED BY <1>3
  <2> HIDE DEF S, rank
  <2> QED BY <2>1, <2>2 DEF NameStep
<1>5. D \in [S -> [[S -> Int] -> Int]]
  <2> HIDE DEF S, rank
  <2> QED BY <1>4
<1>6. \A p \in S : \A g, h \in [S -> Int] : Agree(g, h, S, rank, p) => D[p][g] = D[p][h]
  <2> HIDE DEF S, rank
  <2> SUFFICES ASSUME NEW p \in S, NEW g \in [S -> Int], NEW h \in [S -> Int], Agree(g, h, S, rank, p)
               PROVE  NameStep(c, g, p) = NameStep(c, h, p)
    OBVIOUS
  <2>1. fdt_offset_ptr(c, p, 1) => g[p + 1] = h[p + 1]
    BY <1>3 DEF Agree
  <2> QED BY <2>1 DEF NameStep
<1>7. Recurses(S, Int, D, t + 1, rank)
  <2> HIDE DEF S, rank, D
  <2> QED BY <1>2, <1>5, <1>6 DEF Recurses
<1>8. PICK f : Solves(S, Int, D, f)
  <2> HIDE DEF S, rank, D
  <2>1. 0 \in Int /\ t + 1 \in Nat
    OBVIOUS
  <2> QED BY <1>7, <2>1, Recursion
<1>9. f \in [S -> Int] /\ \A p \in S : f[p] = NameStep(c, f, p)
  <2> HIDE DEF S, rank
  <2> QED BY <1>8 DEF Solves
<1>10. f = [p \in S |-> NameStep(c, f, p)]
  <2> HIDE DEF S, rank, D
  <2> QED BY <1>9
<1> DEFINE k == CHOOSE k : k = [p \in S |-> NameStep(c, k, p)]
<1>11. k = [p \in S |-> NameStep(c, k, p)]
  <2> HIDE DEF S, rank, D
  <2> QED BY <1>10
<1>12. name_end(c, o) = k[o]
  BY <1>1 DEF name_end, NameStep
<1>13. k \in [S -> Int] /\ \A p \in S : k[p] = NameStep(c, k, p)
  <2>1. \A p \in S : k[p] = NameStep(c, k, p)
    <3> HIDE DEF S, rank, D, k
    <3> QED BY <1>11
  <2> HIDE DEF k
  <2>2. ASSUME NEW p \in S PROVE k[p] \in Int
    <3> DEFINE T == {n \in Nat : \E q \in S : rank[q] = n /\ ~(k[q] \in Int)}
    <3>1. SUFFICES ASSUME ~(k[p] \in Int) PROVE FALSE
      OBVIOUS
    <3>2. rank[p] \in T
      BY <3>1
    <3>3. PICK n \in T : \A j \in T : n <= j
      <4> HIDE DEF S, rank
      <4>1. T \in SUBSET Nat
        OBVIOUS
      <4> HIDE DEF T
      <4> QED BY <3>2, <4>1, Least
    <3>4. PICK q \in S : rank[q] = n /\ ~(k[q] \in Int)
      OBVIOUS
    <3>5. fdt_offset_ptr(c, q, 1) => q + 1 \in S /\ rank[q + 1] < rank[q]
      BY <1>3
    <3>6. q + 1 \in S => rank[q + 1] \in Nat
      BY <1>2
    <3>7. fdt_offset_ptr(c, q, 1) => k[q + 1] \in Int
      <4> HIDE DEF S, rank, D
      <4>1. ASSUME fdt_offset_ptr(c, q, 1), ~(k[q + 1] \in Int) PROVE FALSE
        <5>1. rank[q + 1] \in T
          BY <3>5, <3>6, <4>1
        <5>2. n <= rank[q + 1] /\ rank[q + 1] < n /\ n \in Nat /\ rank[q + 1] \in Nat
          BY <3>3, <3>4, <3>5, <3>6, <4>1, <5>1
        <5> QED BY <5>2
      <4> QED BY <4>1
    <3>8. q \in Int
      OBVIOUS
    <3> HIDE DEF S, rank, D, T
    <3> QED BY <2>1, <3>4, <3>7, <3>8 DEF NameStep
  <2>3. k \in [S -> Int]
    <3> HIDE DEF S, rank, D
    <3>1. k = [p \in S |-> k[p]]
      BY <1>11, <2>1
    <3> QED BY <2>2, <3>1
  <2> QED BY <2>1, <2>3
<1> HIDE DEF k
<1>14. Scans(c, o, k)
  BY <1>1, <1>13 DEF Scans
<1> QED BY <1>12, <1>14

LEMMA Downwards ==
  ASSUME NEW a \in Int, NEW n \in Int, NEW G, \A p \in a .. n : (p < n => p + 1 \in G) => p \in G
  PROVE  \A p \in a .. n : p \in G
<1> SUFFICES ASSUME NEW p \in a .. n, p \notin G PROVE FALSE
  OBVIOUS
<1> DEFINE T == {k \in Nat : n - k \in a .. n /\ n - k \notin G}
<1>1. n - p \in T
  <2>1. n - (n - p) = p
    OBVIOUS
  <2> QED BY <2>1
<1>2. PICK k \in T : \A j \in T : k <= j
  <2>1. T \in SUBSET Nat
    OBVIOUS
  <2> HIDE DEF T
  <2> QED BY <1>1, <2>1, Least
<1>3. k \in Nat /\ n - k \in a .. n /\ n - k \notin G
  OBVIOUS
<1>4. PICK q \in a .. n : q = n - k /\ q < n /\ q + 1 \notin G
  BY <1>3
<1>5. k - 1 \in T
  <2>1. n - (k - 1) = q + 1 /\ k - 1 \in Nat /\ q + 1 \in a .. n
    BY <1>3, <1>4
  <2> QED BY <1>4, <2>1
<1> HIDE DEF T
<1>6. k <= k - 1
  BY <1>2, <1>5
<1> QED BY <1>3, <1>6

LEMMA Upwards ==
  ASSUME NEW a \in Int, NEW n \in Int, NEW G, a \in G, \A p \in a .. n - 1 : p \in G => p + 1 \in G
  PROVE  \A p \in a .. n : p \in G
<1> SUFFICES ASSUME NEW p \in a .. n, p \notin G PROVE FALSE
  OBVIOUS
<1> DEFINE T == {k \in Nat : a + k \in a .. n /\ a + k \notin G}
<1>1. p - a \in T
  <2>1. a + (p - a) = p
    OBVIOUS
  <2> QED BY <2>1
<1>2. PICK k \in T : \A j \in T : k <= j
  <2>1. T \in SUBSET Nat
    OBVIOUS
  <2> HIDE DEF T
  <2> QED BY <1>1, <2>1, Least
<1>3. k \in Nat /\ a + k \in a .. n /\ a + k \notin G
  OBVIOUS
<1>4. k # 0
  BY <1>3
<1>5. PICK q \in a .. n - 1 : q + 1 = a + k /\ q \notin G
  <2>1. a + k - 1 \in a .. n - 1 /\ (a + k - 1) + 1 = a + k
    BY <1>3, <1>4
  <2> QED BY <1>3, <2>1
<1>6. k - 1 \in T
  <2>1. a + (k - 1) = q /\ k - 1 \in Nat /\ q \in a .. n
    BY <1>3, <1>4, <1>5
  <2> QED BY <1>5, <2>1
<1> HIDE DEF T
<1>7. k <= k - 1
  BY <1>2, <1>6
<1> QED BY <1>3, <1>7

LEMMA NameEndFacts ==
  ASSUME NEW m, NEW c \in BlobsIn(m), NEW o \in Nat
  PROVE  name_end(c, o) \in Int /\ (name_end(c, o) = -1 \/ o < name_end(c, o))
<1>1. PICK f : Scans(c, o, f) /\ name_end(c, o) = f[o]
  BY NameScanned
<1>2. PICK t \in Nat : t = c.totalsize
  BY BlobFacts
<1>3. PICK n \in Nat : n = o + t + 1
  OBVIOUS
<1>4. \A p \in o .. n : f[p] \in Int /\ f[p] = NameStep(c, f, p)
  BY <1>1, <1>2, <1>3 DEF Scans
<1> DEFINE G == {p \in o .. n : f[p] = -1 \/ p < f[p]}
<1>5. \A p \in o .. n : (p < n => p + 1 \in G) => p \in G
  <2> SUFFICES ASSUME NEW p \in o .. n, p < n => p + 1 \in G PROVE f[p] = -1 \/ p < f[p]
    OBVIOUS
  <2>1. CASE f[p] = -1 \/ f[p] = p + 1
    BY <2>1
  <2>2. CASE fdt_offset_ptr(c, p, 1) /\ f[p] = f[p + 1]
    <3>1. p \in Int /\ p < t
      BY <1>2, <2>2, PtrBound
    <3>2. p + 1 \in o .. n /\ f[p + 1] \in Int /\ (f[p + 1] = -1 \/ p + 1 < f[p + 1])
      BY <1>3, <1>4, <3>1
    <3> QED BY <2>2, <3>1, <3>2
  <2>3. f[p] = NameStep(c, f, p)
    BY <1>4
  <2> QED BY <2>1, <2>2, <2>3 DEF NameStep
<1>6. \A p \in o .. n : p \in G
  <2>1. o \in Int /\ n \in Int
    OBVIOUS
  <2> HIDE DEF G
  <2> QED BY <1>5, <2>1, Downwards
<1>7. o \in o .. n
  BY <1>3
<1> QED BY <1>1, <1>4, <1>6, <1>7

LEMMA NameEndHeld ==
  ASSUME NEW m, NEW c \in BlobsIn(m), NEW o \in Nat, NEW name \in NameStrings,
         HoldsString(c, At(c, o), name), InBlock(c, o, Len(name) + 1)
  PROVE  name_end(c, o) = o + Len(name) + 1
<1>1. PICK f : Scans(c, o, f) /\ name_end(c, o) = f[o]
  BY NameScanned
<1>2. PICK t \in Nat, s \in Nat, n \in Nat :
        /\ t = c.totalsize /\ s = c.off_dt_struct /\ n = Len(name) /\ s + o + (n + 1) <= t
        /\ c.version >= 17 => o + (n + 1) <= c.size_dt_struct
  <2>1. Len(name) \in Nat
    BY DEF NameStrings
  <2> QED BY <2>1, BlobFacts DEF InBlock
<1>3. \A j \in 0 .. n : fdt_offset_ptr(c, o + j, 1)
  <2> SUFFICES ASSUME NEW j \in 0 .. n PROVE InBlock(c, o + j, 1)
    BY PtrIs, OneIsSmall
  <2>1. PICK z \in Nat : z = c.size_dt_struct
    BY BlobFacts
  <2>2. o + j \in Nat /\ s + (o + j) + 1 <= t
    BY <1>2, SMTT(40)
  <2>3. c.version >= 17 => (o + j) + 1 <= z
    BY <1>2, <2>1
  <2> QED BY <1>2, <2>1, <2>2, <2>3 DEF InBlock
<1>4. \A j \in 0 .. n : (Byte(c, At(c, o + j)) = 0) <=> (j = n)
  <2> SUFFICES ASSUME NEW j \in 0 .. n PROVE (Byte(c, At(c, o + j)) = 0) <=> (j = n)
    OBVIOUS
  <2>1. At(c, o + j) = (s + o) + j /\ At(c, o) = s + o
    BY <1>2 DEF At
  <2>2. CASE j = n
    <3>1. Byte(c, (s + o) + n) = 0
      BY <1>2, <2>1 DEF HoldsString
    <3> QED BY <2>1, <2>2, <3>1
  <2>3. CASE j # n
    <3>1. PICK i \in 1 .. n : i = j + 1
      BY <2>3
    <3>2. Byte(c, (s + o) + i - 1) = name[i]
      BY <1>2, <2>1 DEF HoldsString
    <3>3. name[i] \in Letter
      BY <1>2, <3>1 DEF NameStrings
    <3>4. name[i] # 0
      BY <3>3 DEF Letter
    <3>5. (s + o) + i - 1 = (s + o) + j
      BY <3>1
    <3> QED BY <2>1, <2>3, <3>2, <3>4, <3>5
  <2> QED BY <2>2, <2>3
<1>5. \A j \in 0 .. n : f[o + j] = NameStep(c, f, o + j)
  <2> SUFFICES ASSUME NEW j \in 0 .. n PROVE o + j \in o .. o + c.totalsize + 1
    BY <1>1 DEF Scans
  <2> QED BY <1>2, SMTT(40)
<1> DEFINE G == {j \in 0 .. n : f[o + j] = o + n + 1}
<1>6. \A j \in 0 .. n : (j < n => j + 1 \in G) => j \in G
  <2> SUFFICES ASSUME NEW j \in 0 .. n, j < n => j + 1 \in G PROVE f[o + j] = o + n + 1
    OBVIOUS
  <2>1. f[o + j] = IF j = n THEN (o + j) + 1 ELSE f[(o + j) + 1]
    BY <1>3, <1>4, <1>5 DEF NameStep
  <2>2. CASE j = n
    BY <2>1, <2>2
  <2>3. CASE j # n
    <3>1. f[o + (j + 1)] = o + n + 1 /\ (o + j) + 1 = o + (j + 1)
      BY <2>3
    <3> QED BY <2>1, <2>3, <3>1
  <2> QED BY <2>2, <2>3
<1>7. \A j \in 0 .. n : j \in G
  <2>1. 0 \in Int /\ n \in Int
    OBVIOUS
  <2> HIDE DEF G
  <2> QED BY <1>6, <2>1, Downwards
<1>8. f[o] = o + n + 1
  <2>1. 0 \in G /\ o + 0 = o
    <3>1. 0 \in 0 .. n
      BY <1>2
    <3> HIDE DEF G
    <3> QED BY <1>7, <3>1
  <2> QED BY <2>1
<1> QED BY <1>1, <1>2, <1>8

LEMMA CellLoaded ==
  ASSUME NEW m, NEW c \in BlobsIn(m), NEW o \in Int, InBlock(c, o, Cell)
  PROVE  StructCell(c, o) \in Word
<1>1. PICK s \in Nat, t \in Nat : s = c.off_dt_struct /\ t = c.totalsize /\ o \in Nat /\ s + o + Cell <= t
  BY BlobFacts DEF InBlock
<1>2. \A i \in 0 .. Cell - 1 : Byte(c, (s + o) + i) \in Octet
  <2> SUFFICES ASSUME NEW i \in 0 .. Cell - 1 PROVE (s + o) + i \in 0 .. t - 1
    BY <1>1, BlobFacts
  <2> QED BY <1>1, CellPos
<1>3. s + o \in Int
  OBVIOUS
<1> QED BY <1>1, <1>2, <1>3, LoadIsWord DEF StructCell, At

LEMMA CellsAreSmall ==
  /\ Cell < WordSize /\ Cell \in Nat /\ 2 * Cell \in Nat /\ 3 * Cell \in Nat
  /\ INT_MAX + 3 * Cell < WordSize /\ 3 * Cell = Cell + 2 * Cell
<1>1. PICK x \in Nat : x = INT_MAX /\ WordSize = 2 * x + 2 /\ x >= 32767
  BY WordFacts
<1> QED BY <1>1, CellFacts

LEMMA PropertyEndFacts ==
  ASSUME NEW m, NEW c \in BlobsIn(m), NEW p \in Nat, NEW v, v = property_end(c, p)
  PROVE  v = -1 \/ (v \in Nat /\ p + 2 * Cell <= v /\ v < INT_MAX + 2 * Cell /\ INT_MAX \in Nat)
<1>1. CASE ~fdt_offset_ptr(c, p, Cell)
  BY <1>1 DEF property_end
<1>2. CASE fdt_offset_ptr(c, p, Cell)
  <2>1. InBlock(c, p, Cell)
    BY <1>2, PtrIs, CellsAreSmall
  <2>2. PICK len \in Nat : len = StructCell(c, p) /\ len < WordSize
    BY <2>1, CellLoaded, WordRange
  <2>3. p < WordSize
    <3>1. PICK s \in Nat, t \in Nat : s = c.off_dt_struct /\ t = c.totalsize /\ t < WordSize
      BY BlobFacts, BlobWords, WordRange
    <3> QED BY <2>1, <3>1, CellPos, WordFacts DEF InBlock
  <2>4. PICK x \in Nat, sum \in Nat, c2 \in Nat : x = INT_MAX /\ sum = Wrap(len + p) /\ c2 = 2 * Cell
    BY <2>2, <2>3, NoWrap, WordFacts, CellFacts
  <2>5. v = IF x <= sum \/ sum < p THEN -1 ELSE p + c2 + len
    BY <1>2, <2>2, <2>4 DEF property_end
  <2>6. sum >= p => sum = len + p
    <3>1. len + p = p + len
      OBVIOUS
    <3> QED BY <2>2, <2>3, <2>4, <3>1, NoWrap
  <2> QED BY <2>4, <2>5, <2>6
<1> QED BY <1>1, <1>2

LEMMA TagEndIs ==
  ASSUME NEW c, NEW p
  PROVE  /\ tag_end(c, FDT_BEGIN_NODE, p) = name_end(c, p)
         /\ tag_end(c, FDT_PROP, p) = property_end(c, p)
         /\ tag_end(c, FDT_END, p) = p /\ tag_end(c, FDT_END_NODE, p) = p /\ tag_end(c, FDT_NOP, p) = p
BY TagsDiffer DEF tag_end

LEMMA TagEndOther ==
  ASSUME NEW c, NEW p, NEW tag,
         tag # FDT_END, tag # FDT_NOP, tag # FDT_BEGIN_NODE, tag # FDT_END_NODE, tag # FDT_PROP
  PROVE  tag_end(c, tag, p) = -1
BY DEF tag_end

LEMMA TagEndFacts ==
  ASSUME NEW m, NEW c \in BlobsIn(m), NEW p \in Nat, NEW tag
  PROVE  \/ tag_end(c, tag, p) = -1
         \/ /\ tag_end(c, tag, p) \in Nat /\ p <= tag_end(c, tag, p)
            /\ tag = FDT_PROP => p + 2 * Cell <= tag_end(c, tag, p) /\ tag_end(c, tag, p) < INT_MAX + 2 * Cell
<1>1. CASE tag = FDT_BEGIN_NODE
  <2>1. tag_end(c, tag, p) = name_end(c, p) /\ tag # FDT_PROP
    BY <1>1, TagEndIs, TagsDiffer
  <2>2. PICK v \in Int : v = name_end(c, p) /\ (v = -1 \/ p < v)
    BY NameEndFacts
  <2> QED BY <2>1, <2>2
<1>2. CASE tag = FDT_PROP
  <2>1. tag_end(c, tag, p) = property_end(c, p)
    BY <1>2, TagEndIs
  <2>2. PICK v : v = property_end(c, p)
    OBVIOUS
  <2>3. v = -1 \/ (v \in Nat /\ p + 2 * Cell <= v /\ v < INT_MAX + 2 * Cell)
    BY <2>2, PropertyEndFacts
  <2>4. 2 * Cell \in Nat
    BY CellFacts
  <2> QED BY <2>1, <2>2, <2>3, <2>4
<1>3. CASE tag = FDT_END \/ tag = FDT_NOP \/ tag = FDT_END_NODE
  BY <1>3, TagEndIs, TagsDiffer
<1>4. CASE tag # FDT_END /\ tag # FDT_NOP /\ tag # FDT_BEGIN_NODE /\ tag # FDT_END_NODE /\ tag # FDT_PROP
  BY <1>4, TagEndOther
<1> QED BY <1>1, <1>2, <1>3, <1>4

LEMMA NextTagIs ==
  ASSUME NEW c, NEW o
  PROVE  LET tag == StructCell(c, o)
             end == tag_end(c, tag, o + Cell)
         IN fdt_next_tag(c, o) =
              IF ~fdt_offset_ptr(c, o, Cell) THEN [tag |-> FDT_END, next |-> -FDT_ERR_TRUNCATED]
              ELSE IF end < 0 \/ ~fdt_offset_ptr(c, o, end - o)
                   THEN [tag |-> FDT_END, next |-> -FDT_ERR_BADSTRUCTURE]
                   ELSE [tag |-> tag, next |-> FDT_TAGALIGN(end)]
BY DEF fdt_next_tag, read_tag, tag_up_to, no_tag

LEMMA NextTagFacts ==
  ASSUME NEW m, NEW c \in BlobsIn(m), NEW o \in Int, NEW t, t = fdt_next_tag(c, o)
  PROVE  /\ t.next \in Int
         /\ t.tag # FDT_END => o \in Nat /\ o < WordSize /\ o < t.next
         /\ t.tag = FDT_PROP => c.off_dt_struct + o + 3 * Cell <= c.totalsize
<1> DEFINE tag == StructCell(c, o)
           end == tag_end(c, tag, o + Cell)
<1>1. -FDT_ERR_TRUNCATED \in Int /\ -FDT_ERR_BADSTRUCTURE \in Int /\ FDT_END # FDT_PROP
  BY TagsDiffer DEF FDT_ERR_TRUNCATED, FDT_ERR_BADSTRUCTURE
<1>2. t = IF ~fdt_offset_ptr(c, o, Cell) THEN [tag |-> FDT_END, next |-> -FDT_ERR_TRUNCATED]
          ELSE IF end < 0 \/ ~fdt_offset_ptr(c, o, end - o)
               THEN [tag |-> FDT_END, next |-> -FDT_ERR_BADSTRUCTURE]
               ELSE [tag |-> tag, next |-> FDT_TAGALIGN(end)]
  BY NextTagIs
<1> HIDE DEF tag, end
<1>3. CASE ~fdt_offset_ptr(c, o, Cell) \/ end < 0 \/ ~fdt_offset_ptr(c, o, end - o)
  <2>1. (t.next = -FDT_ERR_TRUNCATED \/ t.next = -FDT_ERR_BADSTRUCTURE) /\ t.tag = FDT_END
    BY <1>2, <1>3
  <2> QED BY <1>1, <2>1
<1>4. CASE fdt_offset_ptr(c, o, Cell) /\ ~(end < 0) /\ fdt_offset_ptr(c, o, end - o)
  <2>1. InBlock(c, o, Cell)
    BY <1>4, PtrIs, CellsAreSmall
  <2>2. PICK s \in Nat, e \in Nat, w \in Nat :
          s = c.off_dt_struct /\ e = c.totalsize /\ e < w /\ w = WordSize /\ o \in Nat /\ s + o + Cell <= e
    BY <2>1, BlobFacts, BlobWords, WordRange, WordFacts DEF InBlock
  <2>3. o + Cell \in Nat /\ Cell \in Nat /\ Cell > 0
    BY <2>2, CellPos
  <2>4. \/ end = -1
        \/ /\ end \in Nat /\ o + Cell <= end
           /\ tag = FDT_PROP => (o + Cell) + 2 * Cell <= end /\ end < INT_MAX + 2 * Cell
    BY <2>3, TagEndFacts DEF end
  <2>5. /\ end \in Nat /\ o + Cell <= end
        /\ tag = FDT_PROP => (o + Cell) + 2 * Cell <= end /\ end < INT_MAX + 2 * Cell
    <3>1. end # -1
      BY <1>4
    <3> QED BY <2>4, <3>1
  <2>6. t.tag = tag /\ t.next = FDT_TAGALIGN(end)
    BY <1>2, <1>4
  <2>7. PICK next \in Nat : next = FDT_TAGALIGN(end) /\ end <= next
    BY <2>5, AlignBounds
  <2>8. t.next \in Int /\ o < WordSize /\ o < t.next
    BY <2>2, <2>3, <2>5, <2>6, <2>7
  <2>9. ASSUME tag = FDT_PROP PROVE s + o + 3 * Cell <= e
    <3>1. PICK x \in Nat, c2 \in Nat, c3 \in Nat :
          x = INT_MAX /\ c2 = 2 * Cell /\ c3 = 3 * Cell /\ c3 = Cell + c2 /\ x + c3 < w
      BY <2>2, CellsAreSmall, WordFacts
    <3>2. (o + Cell) + c2 <= end /\ end < x + c2
      BY <2>5, <2>9, <3>1
    <3>3. PICK n \in Nat : n = end - o /\ n < WordSize
      BY <2>2, <2>3, <2>5, <3>1, <3>2
    <3>4. InBlock(c, o, n)
      BY <1>4, <3>3, PtrIs
    <3>5. s + o + n <= e
      BY <2>2, <3>4 DEF InBlock
    <3>6. c3 <= n
      BY <2>2, <2>3, <2>5, <3>1, <3>2, <3>3
    <3>7. s + o + c3 <= e
      BY <3>5, <3>6
    <3> QED BY <3>1, <3>7
  <2> QED BY <2>2, <2>6, <2>8, <2>9
<1> QED BY <1>3, <1>4

(* Tags of a tree that the blob holds.                                     *)
Aligned(o) == o % Cell = 0

LEMMA AlignedSizes == ASSUME NEW t \in TreeTokens PROVE TokenSize(t) \in Nat /\ Aligned(TokenSize(t))
<1> USE DEF Aligned
<1>1. Cell \in Nat /\ Cell % Cell = 0 /\ 0 % Cell = 0
  BY CellPos, ModFacts, WordFacts
<1>2. (2 * Cell) % Cell = 0 /\ (3 * Cell) % Cell = 0
  <2>1. 2 * Cell = Cell + Cell /\ 2 * Cell \in Int /\ 3 * Cell = 2 * Cell + Cell
    BY CellFacts
  <2>2. (2 * Cell) % Cell = 0
    BY <1>1, <2>1, CellSums
  <2> QED BY <2>1, <2>2, CellSums
<1>3. Len(t.name) + 1 \in Nat /\ Len(t.val) \in Nat /\ TokenSize(t) \in Nat
  BY SizeFacts
<1>4. CASE t.tag = "begin"
  <2>1. PICK v \in Nat : v = FDT_TAGALIGN(Len(t.name) + 1) /\ v % Cell = 0 /\ TokenSize(t) = Cell + v
    BY <1>3, <1>4, AlignFacts, SizeFacts
  <2> QED BY <1>1, <1>3, <2>1, CellSums
<1>5. CASE t.tag = "end"
  BY <1>1, <1>3, <1>5, SizeFacts
<1>6. CASE t.tag = "prop"
  <2>1. PICK v \in Nat, c3 \in Nat :
        v = FDT_TAGALIGN(Len(t.val)) /\ v % Cell = 0 /\ TokenSize(t) = c3 + v /\ c3 = 3 * Cell
    BY <1>3, <1>6, AlignFacts, SizeFacts, CellFacts
  <2> QED BY <1>2, <1>3, <2>1, CellSums
<1> QED BY <1>4, <1>5, <1>6, TokenCases

LEMMA AlignedZero == Aligned(0)
BY CellPos, ModFacts DEF Aligned

LEMMA AlignedSum == ASSUME NEW x \in Int, NEW y \in Int, Aligned(x), Aligned(y) PROVE Aligned(x + y)
BY CellSums DEF Aligned

LEMMA LaidAligned ==
  ASSUME NEW ts \in Trees, NEW off, Laid(ts, off)
  PROVE  \A i \in 1 .. Len(ts) + 1 : off[i] \in Nat /\ Aligned(off[i])
<1>1. PICK n \in Nat : n = Len(ts)
  BY TreeFacts
<1>2. \A j \in 1 .. n + 1 : off[j] \in Nat
  BY <1>1 DEF Laid
<1> DEFINE G == {j \in 1 .. n + 1 : Aligned(off[j])}
<1>3. 1 \in G
  <2>1. off[1] = 0 /\ 1 \in 1 .. n + 1
    BY <1>1 DEF Laid
  <2> QED BY <2>1, AlignedZero
<1>4. \A j \in 1 .. n : j \in G => j + 1 \in G
  <2> SUFFICES ASSUME NEW j \in 1 .. n, Aligned(off[j]) PROVE Aligned(off[j + 1]) /\ j + 1 \in 1 .. n + 1
    OBVIOUS
  <2>1. off[j + 1] = off[j] + TokenSize(ts[j]) /\ ts[j] \in TreeTokens
    BY <1>1, TreeFacts DEF Laid
  <2>2. PICK z \in Nat : z = TokenSize(ts[j]) /\ Aligned(z)
    BY <2>1, AlignedSizes
  <2>3. PICK o \in Nat : o = off[j]
    BY <1>2
  <2>4. Aligned(o + z)
    <3>1. Aligned(o) /\ Aligned(z)
      BY <2>2, <2>3
    <3> QED BY <3>1, AlignedSum
  <2> QED BY <2>1, <2>2, <2>3, <2>4
<1>5. \A j \in 1 .. n + 1 : j \in G
  <2>1. PICK e \in Int : e = n + 1 /\ e - 1 = n /\ 1 \in Int
    OBVIOUS
  <2>2. PICK H : H = G
    OBVIOUS
  <2>3. \A j \in 1 .. e - 1 : j \in H => j + 1 \in H
    <3> HIDE DEF G
    <3> QED BY <1>4, <2>1, <2>2
  <2>4. 1 \in H
    BY <1>3, <2>2
  <2>5. \A j \in 1 .. e : j \in H
    BY <2>1, <2>3, <2>4, Upwards
  <2> HIDE DEF G
  <2> QED BY <2>1, <2>2, <2>5
<1> QED BY <1>1, <1>2, <1>5

LEMMA AlignedFrom ==
  ASSUME NEW o \in Nat, Aligned(o), NEW x \in Nat
  PROVE  /\ FDT_TAGALIGN(o + Cell + x) = o + Cell + FDT_TAGALIGN(x) /\ FDT_TAGALIGN(o + Cell) = o + Cell
         /\ FDT_TAGALIGN(o + 3 * Cell + x) = o + 3 * Cell + FDT_TAGALIGN(x)
<1> USE DEF Aligned
<1>1. PICK k \in Nat, k3 \in Nat : k = Cell /\ k > 0 /\ k3 = 3 * Cell /\ k3 = k + k + k
  BY CellFacts
<1>2. (o + k) % Cell = 0 /\ (o + k3) % Cell = 0
  <2>1. (o + k) % Cell = 0
    BY <1>1, CellSums
  <2>2. (o + k + k) % Cell = 0
    <3>1. o + k \in Int
      OBVIOUS
    <3> QED BY <1>1, <2>1, <3>1, CellSums
  <2>3. (o + k + k + k) % Cell = 0
    <3>1. o + k + k \in Int
      OBVIOUS
    <3> QED BY <1>1, <2>2, <3>1, CellSums
  <2> QED BY <1>1, <2>1, <2>3
<1>3. FDT_TAGALIGN((o + k) + x) = (o + k) + FDT_TAGALIGN(x) /\ FDT_TAGALIGN((o + k3) + x) = (o + k3) + FDT_TAGALIGN(x)
  <2>1. o + k \in Nat /\ o + k3 \in Nat
    OBVIOUS
  <2> QED BY <1>2, <2>1, AlignFacts
<1>4. FDT_TAGALIGN((o + k) + 0) = (o + k) + FDT_TAGALIGN(0)
  <2>1. o + k \in Nat /\ 0 \in Nat
    OBVIOUS
  <2> QED BY <1>2, <2>1, AlignFacts
<1>5. FDT_TAGALIGN(0) = 0
  <2>1. PICK v \in Nat : v = FDT_TAGALIGN(0) /\ v % Cell = 0 /\ v < 0 + Cell
    BY AlignFacts
  <2>2. v % Cell = v
    BY <1>1, <2>1, ModFacts
  <2> QED BY <2>1, <2>2
<1>6. (o + k) + 0 = o + k
  OBVIOUS
<1>7. FDT_TAGALIGN(x) \in Nat
  BY AlignFacts
<1> QED BY <1>1, <1>3, <1>4, <1>5, <1>6

Fits(c) == c.totalsize <= INT_MAX

LEMMA NextTagHeld ==
  ASSUME NEW m, NEW c \in BlobsIn(m), NEW o \in Nat, Aligned(o), NEW t \in TreeTokens, NEW x,
         HoldsToken(c, At(c, o), t, x), InBlock(c, o, TokenSize(t)), Fits(c)
  PROVE  fdt_next_tag(c, o) = [tag |-> Number(t), next |-> o + TokenSize(t)]
<1>1. PICK k \in Nat, c2 \in Nat, c3 \in Nat :
        k = Cell /\ k > 0 /\ c2 = 2 * Cell /\ c3 = 3 * Cell /\ c3 = k + c2
  BY CellFacts
<1>2. PICK z \in Nat : z = TokenSize(t) /\ k <= z
  BY <1>1, SizeFacts
<1>3. PICK s \in Nat, e \in Nat, w \in Nat, y \in Nat :
        /\ s = c.off_dt_struct /\ e = c.totalsize /\ w = WordSize /\ s + o + z <= e /\ e < w
        /\ c.version >= 17 => o + z <= c.size_dt_struct
        /\ y = INT_MAX /\ e <= y
  BY <1>2, BlobFacts, BlobWords, WordRange, WordFacts DEF InBlock, Fits
<1>4. ASSUME NEW p \in Nat, NEW n \in Nat, o <= p, p + n <= o + z PROVE InBlock(c, p, n) /\ fdt_offset_ptr(c, p, n)
  <2>1. PICK d \in Nat : d = c.size_dt_struct
    BY BlobFacts
  <2>2. s + p + n <= e /\ n < w
    BY <1>3, <1>4
  <2>3. c.version >= 17 => p + n <= d
    BY <1>3, <1>4, <2>1
  <2>4. InBlock(c, p, n)
    BY <1>3, <2>1, <2>2, <2>3 DEF InBlock
  <2> QED BY <1>3, <2>2, <2>4, PtrIs
<1>5. StructCell(c, o) = Number(t)
  BY DEF StructCell, HoldsToken
<1>6. fdt_offset_ptr(c, o, Cell)
  <2>1. o + k <= o + z
    BY <1>2
  <2> QED BY <1>1, <1>4, <2>1
<1>7. ASSUME NEW end \in Nat, end = tag_end(c, Number(t), o + Cell), o + Cell <= end, end <= o + z,
             FDT_TAGALIGN(end) = o + z
      PROVE  fdt_next_tag(c, o) = [tag |-> Number(t), next |-> o + z]
  <2>1. PICK n \in Nat : n = end - o /\ o + n <= o + z
    BY <1>1, <1>7
  <2>2. fdt_offset_ptr(c, o, end - o) /\ ~(end < 0)
    BY <1>4, <2>1
  <2> QED BY <1>5, <1>6, <1>7, <2>2, NextTagIs
<1>8. CASE t.tag = "begin"
  <2>1. PICK l \in Nat, a \in Nat : l = Len(t.name) + 1 /\ a = FDT_TAGALIGN(l) /\ l <= a /\ z = k + a
    <3>1. Len(t.name) + 1 \in Nat /\ TokenSize(t) = Cell + FDT_TAGALIGN(Len(t.name) + 1)
      BY <1>8, SizeFacts
    <3> QED BY <1>1, <1>2, <3>1, AlignBounds
  <2>0. l <= a /\ z = k + a
    BY <2>1
  <2>2. name_end(c, o + k) = (o + k) + l
    <3>1. HoldsString(c, At(c, o) + Cell, t.name)
      BY <1>8 DEF HoldsToken
    <3>2. At(c, o) + Cell = At(c, o + k)
      BY <1>1, <1>3 DEF At
    <3>3. InBlock(c, o + k, Len(t.name) + 1)
      <4>1. o + k \in Nat /\ o <= o + k /\ (o + k) + l <= o + z
        BY <2>0
      <4> QED BY <1>4, <2>1, <4>1
    <3>4. t.name \in NameStrings /\ o + k \in Nat
      BY TokenCases
    <3>5. name_end(c, o + k) = (o + k) + Len(t.name) + 1
      BY <3>1, <3>2, <3>3, <3>4, NameEndHeld, ZenonT(40)
    <3>6. PICK n \in Nat : n = Len(t.name)
      BY SizeFacts
    <3>7. name_end(c, o + k) = (o + k) + n + 1 /\ l = n + 1
      BY <2>1, <3>5, <3>6
    <3>8. (o + k) + n + 1 = (o + k) + (n + 1)
      OBVIOUS
    <3> QED BY <3>7, <3>8
  <2>3. tag_end(c, Number(t), o + Cell) = o + k + l
    BY <1>1, <1>8, <2>2, NumberFacts, TagEndIs
  <2>4. FDT_TAGALIGN(o + k + l) = o + k + a
    <3>1. FDT_TAGALIGN(o + Cell + l) = o + Cell + FDT_TAGALIGN(l)
      BY AlignedFrom
    <3> QED BY <1>1, <2>1, <3>1
  <2>5. o + k + l \in Nat /\ o + k <= o + k + l /\ o + k + l <= o + z /\ o + k + a = o + z
    BY <2>0
  <2> QED BY <1>1, <1>2, <1>7, <2>3, <2>4, <2>5
<1>9. CASE t.tag = "end"
  <2>1. z = k
    BY <1>1, <1>2, <1>9, SizeFacts
  <2>2. tag_end(c, Number(t), o + Cell) = o + k
    BY <1>1, <1>9, NumberFacts, TagEndIs
  <2>3. FDT_TAGALIGN(o + k) = o + k
    <3>1. 0 \in Nat
      OBVIOUS
    <3> QED BY <1>1, <3>1, AlignedFrom
  <2>4. o + k \in Nat /\ o + k <= o + z
    BY <2>1
  <2> QED BY <1>1, <1>2, <1>7, <2>1, <2>2, <2>3, <2>4
<1>10. CASE t.tag = "prop"
  <2>1. PICK l \in Nat, a \in Nat : l = Len(t.val) /\ a = FDT_TAGALIGN(l) /\ l <= a /\ z = c3 + a
    <3>1. Len(t.val) \in Nat /\ TokenSize(t) = 3 * Cell + FDT_TAGALIGN(Len(t.val))
      BY <1>10, SizeFacts
    <3> QED BY <1>1, <1>2, <3>1, AlignBounds
  <2>0. l <= a /\ z = c3 + a /\ c3 = k + c2
    BY <1>1, <2>1
  <2>2. StructCell(c, o + k) = l
    <3>1. At(c, o + k) = At(c, o) + Cell
      BY <1>1, <1>3 DEF At
    <3> QED BY <1>10, <2>1, <3>1 DEF StructCell, HoldsToken
  <2>3. property_end(c, o + k) = (o + k) + c2 + l
    <3>1. fdt_offset_ptr(c, o + k, Cell)
      <4>1. o + k \in Nat /\ o <= o + k /\ (o + k) + k <= o + z
        <5>1. c2 = k + k
          BY <1>1, CellFacts
        <5> QED BY <2>0, <5>1
      <4> QED BY <1>1, <1>4, <4>1
    <3>2. l + (o + k) \in Nat /\ l + (o + k) < y /\ l + (o + k) < w /\ ~(y <= l + (o + k)) /\ ~(l + (o + k) < o + k)
      <4>1. c2 = k + k
        BY <1>1, CellFacts
      <4>2. s + o + z <= e /\ e < w /\ e <= y /\ k > 0
        BY <1>1, <1>3
      <4> QED BY <2>0, <4>1, <4>2
    <3>3. Wrap(l + (o + k)) = l + (o + k)
      <4>1. l + (o + k) \in Word
        BY <1>3, <3>2, WordIs
      <4> QED BY <3>2, <4>1, WrapFacts
    <3> QED BY <1>1, <1>3, <2>2, <3>1, <3>2, <3>3 DEF property_end
  <2>4. tag_end(c, Number(t), o + Cell) = o + c3 + l
    <3>1. tag_end(c, Number(t), o + Cell) = property_end(c, o + k)
      BY <1>1, <1>10, NumberFacts, TagEndIs
    <3>2. (o + k) + c2 + l = o + c3 + l
      BY <1>1
    <3> QED BY <2>3, <3>1, <3>2
  <2>5. FDT_TAGALIGN(o + c3 + l) = o + c3 + a
    <3>1. FDT_TAGALIGN(o + 3 * Cell + l) = o + 3 * Cell + FDT_TAGALIGN(l)
      BY AlignedFrom
    <3> QED BY <1>1, <2>1, <3>1
  <2>6. o + c3 + l \in Nat /\ o + k <= o + c3 + l /\ o + c3 + l <= o + z /\ o + c3 + a = o + z
    BY <2>0
  <2> QED BY <1>1, <1>2, <1>7, <2>4, <2>5, <2>6
<1> QED BY <1>8, <1>9, <1>10, TokenCases

LEMMA NextTagEnds ==
  ASSUME NEW m, NEW c \in BlobsIn(m), NEW o \in Nat, Aligned(o),
         LoadCell(c, At(c, o)) = FDT_END, InBlock(c, o, Cell)
  PROVE  fdt_next_tag(c, o) = [tag |-> FDT_END, next |-> o + Cell]
<1>1. fdt_offset_ptr(c, o, Cell)
  BY PtrIs, CellsAreSmall
<1>2. PICK k \in Nat : k = Cell
  BY CellPos
<1>3. tag_end(c, FDT_END, o + Cell) = o + k
  BY <1>2, TagEndIs
<1>4. FDT_TAGALIGN(o + k) = o + k
  <2>1. 0 \in Nat
    OBVIOUS
  <2> QED BY <1>2, <2>1, AlignedFrom
<1>5. ~(o + k < 0) /\ (o + k) - o = Cell
  BY <1>2
<1> QED BY <1>1, <1>2, <1>3, <1>4, <1>5, NextTagIs DEF StructCell

(***************************************************************************)
(* The walk that corrects the names.                                       *)
(***************************************************************************)
WithBytes(c, w) == [c EXCEPT !.bytes = w]

LEMMA WithBytesIs ==
  ASSUME NEW m, NEW c \in BlobsIn(m), NEW w \in Banks(m), NEW d, d = WithBytes(c, w)
  PROVE  /\ d \in BlobsIn(m) /\ d.bytes = w /\ d.magic = c.magic /\ d.addr = c.addr
         /\ d.totalsize = c.totalsize /\ d.version = c.version /\ d.last_comp_version = c.last_comp_version
         /\ d.off_mem_rsvmap = c.off_mem_rsvmap /\ d.off_dt_struct = c.off_dt_struct
         /\ d.size_dt_struct = c.size_dt_struct /\ d.off_dt_strings = c.off_dt_strings
         /\ d.size_dt_strings = c.size_dt_strings
         /\ \A u : WithBytes(d, u) = WithBytes(c, u)
BY DEF BlobsIn, BlobsOver, WithBytes, Banks

LEMMA WithOwnBytes == ASSUME NEW m, NEW c \in BlobsIn(m) PROVE WithBytes(c, c.bytes) = c /\ c.bytes \in Banks(m)
BY DEF BlobsIn, BlobsOver, WithBytes, Banks

NameCell(c, o) == At(c, o) + 2 * Cell
PropFits(c, o) == o \in Nat /\ c.off_dt_struct + o + 3 * Cell <= c.totalsize

(* One cell changes.                                                       *)
LEMMA CorrectedIs ==
  ASSUME NEW m \in SUBSET Int, NEW c \in BlobsIn(m), NEW o, PropFits(c, o)
  PROVE  /\ corrected(c, o) = WithBytes(c, written(c.bytes, NameCell(c, o), CellBytes(nameoff_final(c, o))))
         /\ nameoff_final(c, o) \in Word
         /\ written(c.bytes, NameCell(c, o), CellBytes(nameoff_final(c, o))) \in Banks(m)
         /\ corrected(c, o) \in BlobsIn(m)
         /\ LoadCell(corrected(c, o), NameCell(c, o)) = nameoff_final(c, o)
         /\ \A i \in Int : 0 <= i /\ i < c.totalsize /\ (i < NameCell(c, o) \/ i >= NameCell(c, o) + Cell)
                             => Byte(corrected(c, o), i) = Byte(c, i)
<1>1. PICK k \in Nat, c2 \in Nat, c3 \in Nat : k = Cell /\ k > 0 /\ c2 = 2 * Cell /\ c3 = 3 * Cell /\ c3 = c2 + k
  BY CellFacts
<1>2. PICK s \in Nat, t \in Nat, p \in Nat, z \in Nat :
        /\ s = c.off_dt_struct /\ t = c.totalsize /\ o \in Nat /\ p = s + o /\ p + c3 <= t /\ z = c.size_dt_strings
  <2>1. PICK s \in Nat, t \in Nat, z \in Nat : s = c.off_dt_struct /\ t = c.totalsize /\ z = c.size_dt_strings
    BY BlobFacts
  <2>2. o \in Nat /\ c.off_dt_struct + o + 3 * Cell <= c.totalsize
    BY DEF PropFits
  <2>3. s + o + c3 <= t
    BY <1>1, <2>1, <2>2
  <2>4. PICK p \in Nat : p = s + o
    BY <2>2
  <2>5. p + c3 <= t
    BY <2>3, <2>4
  <2> QED BY <2>1, <2>2, <2>4, <2>5
<1>3. At(c, o) = p /\ NameCell(c, o) = p + c2 /\ At(c, o + 2 * Cell) = p + c2
  BY <1>1, <1>2 DEF At, NameCell
<1>4. \A i \in Int : 0 <= i /\ i < t => i \in m /\ Byte(c, i) \in Octet
  <2>1. \A i \in 0 .. c.totalsize - 1 : i \in m /\ Byte(c, i) \in Octet
    BY BlobFacts
  <2> QED BY <1>2, <2>1
<1>5. StructCell(c, o + 2 * Cell) \in Word
  <2>1. \A i \in 0 .. Cell - 1 : Byte(c, (p + c2) + i) \in Octet
    <3> SUFFICES ASSUME NEW i \in 0 .. Cell - 1 PROVE 0 <= (p + c2) + i /\ (p + c2) + i < t
      BY <1>4
    <3> QED BY <1>1, <1>2
  <2>2. p + c2 \in Int
    OBVIOUS
  <2> QED BY <1>3, <2>1, <2>2, LoadIsWord DEF StructCell
<1>6. PICK v \in Word : v = nameoff_final(c, o)
  <2>1. StructCell(c, o + 2 * Cell) + c.size_dt_strings \in Int
    BY <1>2, <1>5, WordRange
  <2> QED BY <2>1, WrapFacts DEF nameoff_final
<1>7. CellBytes(v) \in Contents /\ Len(CellBytes(v)) = k
  BY <1>1, CellContents
<1>8. PICK w : w = written(c.bytes, p + c2, CellBytes(v))
  OBVIOUS
<1>9. /\ w \in Banks(m)
      /\ \A i \in m : i >= p + c2 /\ i < (p + c2) + k => w[i] = CellBytes(v)[i - (p + c2) + 1]
      /\ \A i \in m : i < p + c2 \/ i >= (p + c2) + k => w[i] = c.bytes[i]
  <2>1. c.bytes \in Banks(m) /\ p + c2 \in Int
    BY WithOwnBytes
  <2> QED BY <1>7, <1>8, <2>1, WrittenIs
<1>10. corrected(c, o) = WithBytes(c, w)
  BY <1>3, <1>6, <1>8, <1>1 DEF corrected, WithBytes
<1>11. PICK d : d = WithBytes(c, w) /\ d \in BlobsIn(m) /\ d.bytes = w
  BY <1>9, WithBytesIs
<1>12. LoadCell(d, p + c2) = v
  <2>1. \A i \in 1 .. Cell : Byte(d, (p + c2) + i - 1) = CellBytes(v)[i]
    <3> SUFFICES ASSUME NEW i \in 1 .. k PROVE w[(p + c2) + i - 1] = CellBytes(v)[i]
      BY <1>1, <1>11 DEF Byte
    <3>1. PICK j \in Int : j = (p + c2) + i - 1
      OBVIOUS
    <3>2. 0 <= j /\ j < t
      BY <1>1, <1>2, <3>1
    <3>3. j >= p + c2 /\ j < (p + c2) + k /\ j - (p + c2) + 1 = i
      BY <3>1
    <3> QED BY <1>4, <1>9, <3>1, <3>2, <3>3
  <2>2. p + c2 \in Int
    OBVIOUS
  <2> QED BY <2>1, <2>2, LoadStored
<1>13. \A i \in Int : 0 <= i /\ i < t /\ (i < p + c2 \/ i >= (p + c2) + k) => Byte(d, i) = Byte(c, i)
  BY <1>4, <1>9, <1>11 DEF Byte
<1> QED BY <1>1, <1>2, <1>3, <1>6, <1>8, <1>9, <1>10, <1>11, <1>12, <1>13

Ends(m) == [ret : Int, b : BlobsIn(m)]
Walks(m) == Int \X BlobsIn(m)

LEMMA ResultTyped == ASSUME NEW m, NEW c \in BlobsIn(m), NEW r \in Int PROVE Result(r, c) \in Ends(m)
BY DEF Result, Ends

LEMMA CorrectFromIs ==
  ASSUME NEW o, NEW c, NEW t, t = fdt_next_tag(c, o)
  PROVE  \A g : /\ t.tag = FDT_END => correct_from(g, o, c) = Result(t.next, c)
                /\ t.tag = FDT_PROP => correct_from(g, o, c) = g[<<t.next, corrected(c, o)>>]
                /\ t.tag # FDT_END /\ t.tag # FDT_PROP => correct_from(g, o, c) = g[<<t.next, c>>]
BY TagsDiffer DEF correct_from

(* It depends on what the walk does further on.                            *)
Farther(g, h, o, m) == \A q \in Int, e \in BlobsIn(m) : o \in Nat /\ o < WordSize /\ o < q => g[<<q, e>>] = h[<<q, e>>]

LEMMA CorrectTyped ==
  ASSUME NEW m \in SUBSET Int, NEW c \in BlobsIn(m), NEW o \in Int,
         NEW g \in [Walks(m) -> Ends(m)], NEW h \in [Walks(m) -> Ends(m)], Farther(g, h, o, m)
  PROVE  correct_from(g, o, c) \in Ends(m) /\ correct_from(g, o, c) = correct_from(h, o, c)
<1>1. PICK t : t = fdt_next_tag(c, o)
  OBVIOUS
<1>2. /\ t.next \in Int
      /\ t.tag # FDT_END => o \in Nat /\ o < WordSize /\ o < t.next
      /\ t.tag = FDT_PROP => c.off_dt_struct + o + 3 * Cell <= c.totalsize
  BY <1>1, NextTagFacts
<1>0. \A k : /\ t.tag = FDT_END => correct_from(k, o, c) = Result(t.next, c)
             /\ t.tag = FDT_PROP => correct_from(k, o, c) = k[<<t.next, corrected(c, o)>>]
             /\ t.tag # FDT_END /\ t.tag # FDT_PROP => correct_from(k, o, c) = k[<<t.next, c>>]
  BY <1>1, CorrectFromIs
<1>3. CASE t.tag = FDT_END
  <2>1. correct_from(g, o, c) = Result(t.next, c) /\ correct_from(h, o, c) = Result(t.next, c)
    BY <1>0, <1>3
  <2> QED BY <1>2, <2>1, ResultTyped
<1>4. CASE t.tag = FDT_PROP
  <2>1. PICK e \in BlobsIn(m) : e = corrected(c, o)
    BY <1>2, <1>4, TagsDiffer, CorrectedIs DEF PropFits
  <2>2. <<t.next, e>> \in Walks(m)
    BY <1>2 DEF Walks
  <2>3. g[<<t.next, e>>] = h[<<t.next, e>>] /\ g[<<t.next, e>>] \in Ends(m)
    BY <1>2, <1>4, <2>2, TagsDiffer DEF Farther
  <2>4. correct_from(g, o, c) = g[<<t.next, e>>] /\ correct_from(h, o, c) = h[<<t.next, e>>]
    BY <1>0, <1>4, <2>1
  <2> QED BY <2>3, <2>4
<1>5. CASE t.tag # FDT_END /\ t.tag # FDT_PROP
  <2>1. <<t.next, c>> \in Walks(m)
    BY <1>2 DEF Walks
  <2>2. g[<<t.next, c>>] = h[<<t.next, c>>] /\ g[<<t.next, c>>] \in Ends(m)
    BY <1>2, <1>5, <2>1 DEF Farther
  <2>3. correct_from(g, o, c) = g[<<t.next, c>>] /\ correct_from(h, o, c) = h[<<t.next, c>>]
    BY <1>0, <1>5
  <2> QED BY <2>2, <2>3
<1> QED BY <1>3, <1>4, <1>5

LEMMA WalkIsDefined ==
  ASSUME NEW m \in SUBSET Int, NEW c \in BlobsIn(m)
  PROVE  \E f : /\ \A o \in Int, e \in BlobsIn(m) : f[<<o, e>>] = correct_from(f, o, e)
                /\ correct_names(c) = f[<<0, c>>]
<1>1. PICK N \in Nat : N = WordSize
  BY WordFacts
<1> DEFINE S == Walks(m)
           V == Ends(m)
           rank == [s \in S |-> IF 0 <= s[1] /\ s[1] <= N THEN N + 1 - s[1] ELSE 0]
           D == [s \in S |-> [g \in [S -> V] |-> correct_from(g, s[1], s[2])]]
<1>2. rank \in [S -> 0 .. N + 1]
  <2>1. \A s \in S : s[1] \in Int
    BY DEF Walks
  <2> QED BY <2>1
<1>3. ASSUME NEW s \in S, NEW g \in [S -> V], NEW h \in [S -> V], Agree(g, h, S, rank, s)
      PROVE  Farther(g, h, s[1], m) /\ s[1] \in Int /\ s[2] \in BlobsIn(m)
  <2>1. s[1] \in Int /\ s[2] \in BlobsIn(m)
    BY DEF Walks
  <2>2. ASSUME NEW q \in Int, NEW e \in BlobsIn(m), s[1] \in Nat, s[1] < WordSize, s[1] < q
        PROVE  g[<<q, e>>] = h[<<q, e>>]
    <3>1. PICK u \in S : u = <<q, e>> /\ u[1] = q
      <4>1. <<q, e>> \in S
        BY DEF Walks
      <4>2. <<q, e>>[1] = q
        OBVIOUS
      <4> HIDE DEF S
      <4> QED BY <4>1, <4>2
    <3>2. rank[u] < rank[s]
      <4>1. rank[s] = N + 1 - s[1]
        BY <1>1, <2>2
      <4>2. rank[u] = IF 0 <= q /\ q <= N THEN N + 1 - q ELSE 0
        BY <3>1
      <4> HIDE DEF rank
      <4> QED BY <1>1, <2>1, <2>2, <4>1, <4>2
    <3> HIDE DEF rank
    <3> QED BY <1>3, <3>1, <3>2 DEF Agree
  <2> QED BY <2>1, <2>2 DEF Farther
<1>4. D \in [S -> [[S -> V] -> V]]
  <2> SUFFICES ASSUME NEW s \in S, NEW g \in [S -> V] PROVE correct_from(g, s[1], s[2]) \in V
    OBVIOUS
  <2>1. s[1] \in Int /\ s[2] \in BlobsIn(m) /\ Farther(g, g, s[1], m)
    BY DEF Walks, Farther
  <2> QED BY <2>1, CorrectTyped
<1>5. \A s \in S : \A g, h \in [S -> V] : Agree(g, h, S, rank, s) => D[s][g] = D[s][h]
  <2> SUFFICES ASSUME NEW s \in S, NEW g \in [S -> V], NEW h \in [S -> V], Agree(g, h, S, rank, s)
               PROVE  correct_from(g, s[1], s[2]) = correct_from(h, s[1], s[2])
    <3> HIDE DEF rank
    <3> QED OBVIOUS
  <2>1. Farther(g, h, s[1], m) /\ s[1] \in Int /\ s[2] \in BlobsIn(m)
    BY <1>3
  <2> HIDE DEF rank, D
  <2> QED BY <2>1, CorrectTyped
<1>6. Recurses(S, V, D, N + 1, rank)
  <2> HIDE DEF S, V, D, rank
  <2> QED BY <1>2, <1>4, <1>5 DEF Recurses
<1>7. PICK f : Solves(S, V, D, f)
  <2>1. Result(0, c) \in V /\ N + 1 \in Nat
    BY ResultTyped
  <2> HIDE DEF S, V, D, rank
  <2> QED BY <1>6, <2>1, Recursion
<1>8. f \in [S -> V] /\ \A s \in S : f[s] = correct_from(f, s[1], s[2])
  <2>1. f \in [S -> V] /\ \A s \in S : f[s] = D[s][f]
    <3> HIDE DEF S, V, D, rank
    <3> QED BY <1>7 DEF Solves
  <2>2. \A s \in S : D[s][f] = correct_from(f, s[1], s[2])
    BY <2>1
  <2> HIDE DEF S, V, D, rank
  <2> QED BY <2>1, <2>2
<1>9. f = [s \in S |-> correct_from(f, s[1], s[2])]
  <2> HIDE DEF S, V, D, rank
  <2> QED BY <1>8
<1> DEFINE walk == CHOOSE g : g = [s \in S |-> correct_from(g, s[1], s[2])]
<1>10. walk = [s \in S |-> correct_from(walk, s[1], s[2])]
  <2> HIDE DEF S, V, D, rank
  <2> QED BY <1>9
<1>11. correct_names(c) = walk[<<0, c>>]
  BY BlobFacts DEF correct_names, Walks
<1> HIDE DEF walk
<1>12. ASSUME NEW o \in Int, NEW e \in BlobsIn(m) PROVE walk[<<o, e>>] = correct_from(walk, o, e)
  <2>1. <<o, e>> \in S
    BY DEF Walks
  <2> HIDE DEF S, V, D, rank
  <2> QED BY <1>10, <2>1
<1> QED BY <1>11, <1>12

(***************************************************************************)
(* The walk over the tokens of a tree.                                     *)
(***************************************************************************)
(* The cells for the names once the names of the first i - 1 tokens have   *)
(* been corrected by z.                                                    *)
Renamed(ts, x, z, i) ==
  [j \in 1 .. Len(ts) |-> IF j < i /\ ts[j].tag = "prop" THEN Wrap(x[j] + z) ELSE x[j]]

(* A blob whose structure block holds a tree and FDT_END.                  *)
Walkable(c, m, ts, off) ==
  /\ m \in SUBSET Int /\ c \in BlobsIn(m) /\ c.version = 17 /\ ts \in Trees
  /\ c.size_dt_struct = off[Len(ts) + 1] + Cell /\ headsize(c) <= c.totalsize /\ Fits(c)
  /\ LoadCell(c, At(c, off[Len(ts) + 1])) = FDT_END

Partly(c, d, ts, off, x, i) ==
  /\ Log(d, ts, off, Renamed(ts, x, c.size_dt_strings, i))
  /\ LoadCell(d, At(c, off[Len(ts) + 1])) = FDT_END
  /\ Same(c, d, 0, c.off_dt_struct) /\ Same(c, d, headsize(c), c.totalsize)

(* Whatever lies in the structure block.                                   *)
LEMMA TokenPlaces ==
  ASSUME NEW c, NEW m, NEW ts, NEW off, Walkable(c, m, ts, off), Laid(ts, off), NEW i \in 1 .. Len(ts)
  PROVE  /\ ts[i] \in TreeTokens /\ off[i] \in Nat /\ Aligned(off[i]) /\ TokenSize(ts[i]) \in Nat
         /\ InBlock(c, off[i], TokenSize(ts[i])) /\ off[i + 1] = off[i] + TokenSize(ts[i])
         /\ ts[i].tag = "prop" => PropFits(c, off[i]) /\ 3 * Cell <= TokenSize(ts[i])
         /\ off[i] + TokenSize(ts[i]) <= off[Len(ts) + 1] /\ off[Len(ts) + 1] \in Nat
<1>1. ts \in Trees /\ c \in BlobsIn(m) /\ c.version = 17
  BY DEF Walkable
<1>2. i \in 1 .. Len(ts) + 1
  BY <1>1, TreeFacts
<1>3. ts[i] \in TreeTokens /\ off[i] \in Nat /\ Aligned(off[i]) /\ off[i + 1] = off[i] + TokenSize(ts[i])
  <2>1. off[i + 1] = off[i] + TokenSize(ts[i])
    BY DEF Laid
  <2>2. ts[i] \in TreeTokens
    BY <1>1, TreeFacts
  <2>3. off[i] \in Nat /\ Aligned(off[i])
    BY <1>1, <1>2, LaidAligned
  <2> QED BY <2>1, <2>2, <2>3
<1>4. PICK o \in Nat, z \in Nat, e \in Nat :
        o = off[i] /\ z = TokenSize(ts[i]) /\ e = off[Len(ts) + 1] /\ o + z <= e
  BY <1>1, LaidInside
<1>5. PICK s \in Nat, n \in Nat, t \in Nat :
        s = c.off_dt_struct /\ n = c.size_dt_struct /\ t = c.totalsize /\ n = e + Cell /\ s + n <= t
  BY <1>1, <1>4, BlobFacts DEF Walkable, headsize
<1>6. s + o + z <= t /\ o + z <= n
  <2>1. PICK k \in Nat : k = Cell
    BY CellPos
  <2>2. o + z <= e /\ n = e + k /\ s + n <= t
    BY <1>4, <1>5, <2>1
  <2> QED BY <2>2
<1>7. InBlock(c, o, z)
  BY <1>5, <1>6 DEF InBlock
<1>8. ASSUME ts[i].tag = "prop" PROVE PropFits(c, o) /\ 3 * Cell <= z
  <2>1. PICK c3 \in Nat, a \in Nat : c3 = 3 * Cell /\ z = c3 + a
    <3>1. TokenSize(ts[i]) = 3 * Cell + FDT_TAGALIGN(Len(ts[i].val)) /\ Len(ts[i].val) \in Nat
      BY <1>3, <1>8, SizeFacts
    <3> QED BY <1>4, <3>1, AlignBounds, CellFacts
  <2>2. c3 <= z
    BY <2>1
  <2>3. s + o + c3 <= t
    BY <1>6, <2>2
  <2> QED BY <1>5, <2>1, <2>2, <2>3 DEF PropFits
<1> QED BY <1>3, <1>4, <1>7, <1>8

LEMMA RenamedIs ==
  ASSUME NEW ts \in Trees, NEW x, NEW z \in Nat, NEW i \in 1 .. Len(ts),
         \A j \in 1 .. Len(ts) : x[j] \in Word
  PROVE  /\ \A j \in 1 .. Len(ts) : j # i => Renamed(ts, x, z, i + 1)[j] = Renamed(ts, x, z, i)[j]
         /\ Renamed(ts, x, z, i)[i] = x[i]
         /\ Renamed(ts, x, z, i + 1)[i] = (IF ts[i].tag = "prop" THEN Wrap(x[i] + z) ELSE x[i])
         /\ \A j \in 1 .. Len(ts) : Renamed(ts, x, z, i + 1)[j] \in Word
<1>1. PICK n \in Nat : n = Len(ts)
  BY TreeFacts
<1>2. \A k, j \in 1 .. n : Renamed(ts, x, z, k)[j] = IF j < k /\ ts[j].tag = "prop" THEN Wrap(x[j] + z) ELSE x[j]
  BY <1>1 DEF Renamed
<1>3. \A j \in 1 .. n : Renamed(ts, x, z, i + 1)[j] =
                          IF j < i + 1 /\ ts[j].tag = "prop" THEN Wrap(x[j] + z) ELSE x[j]
  BY <1>1 DEF Renamed
<1>4. \A j \in 1 .. n : j # i => (j < i + 1 <=> j < i)
  BY <1>1
<1>5. \A j \in 1 .. n : Wrap(x[j] + z) \in Word /\ x[j] \in Word
  <2> SUFFICES ASSUME NEW j \in 1 .. n PROVE Wrap(x[j] + z) \in Word
    BY <1>1
  <2>1. x[j] + z \in Int
    BY <1>1, WordRange
  <2> QED BY <2>1, WrapFacts
<1>6. i < i + 1 /\ ~(i < i) /\ i \in 1 .. n
  BY <1>1
<1> QED BY <1>1, <1>2, <1>3, <1>4, <1>5, <1>6

(* One step over a property.                                               *)
CellsIn(ts, x) == \A j \in 1 .. Len(ts) : x[j] \in Word

LEMMA NamesCorrected ==
  ASSUME NEW c, NEW m, NEW ts, NEW off, NEW x, Walkable(c, m, ts, off),
         CellsIn(ts, x),
         NEW i \in 1 .. Len(ts), ts[i].tag = "prop", NEW w \in Banks(m), NEW d, d = WithBytes(c, w),
         Partly(c, d, ts, off, x, i), NEW e, e = corrected(d, off[i])
  PROVE  Partly(c, e, ts, off, x, i + 1) /\ \E u \in Banks(m) : e = WithBytes(c, u)
<1>1. /\ m \in SUBSET Int /\ c \in BlobsIn(m) /\ ts \in Trees /\ Laid(ts, off)
      /\ headsize(c) <= c.totalsize
  BY DEF Walkable, Partly, Log
<1>2. PICK n \in Nat, o \in Nat, z \in Nat, f \in Nat :
        /\ n = Len(ts) /\ o = off[i] /\ z = TokenSize(ts[i]) /\ f = off[n + 1] /\ o + z <= f
        /\ i \in 1 .. n /\ ts[i] \in TreeTokens /\ PropFits(c, o)
  BY <1>1, TokenPlaces, TreeFacts
<1>3. PICK k \in Nat, c2 \in Nat, c3 \in Nat :
      k = Cell /\ k > 0 /\ c2 = 2 * Cell /\ c3 = 3 * Cell /\ c3 = c2 + k /\ c3 <= z
  <2>1. 3 * Cell <= TokenSize(ts[i])
    BY <1>1, TokenPlaces
  <2> QED BY <1>2, <2>1, CellFacts
<1>4. PICK s \in Nat, t \in Nat, h \in Nat, q \in Nat :
        /\ s = c.off_dt_struct /\ t = c.totalsize /\ h = headsize(c) /\ h = s + f + k /\ h <= t
        /\ q = c.size_dt_strings
  <2>1. c.off_dt_struct \in Nat /\ c.totalsize \in Nat /\ c.size_dt_strings \in Nat
    BY <1>1, BlobFacts
  <2>2. headsize(c) = c.off_dt_struct + (f + k)
    BY <1>2, <1>3 DEF Walkable, headsize
  <2>3. PICK s \in Nat, t \in Nat, h \in Nat, q \in Nat :
          s = c.off_dt_struct /\ t = c.totalsize /\ q = c.size_dt_strings /\ h = s + (f + k) /\ h = headsize(c)
    BY <2>1, <2>2, SMTT(40)
  <2>4. h = s + f + k
    BY <2>3
  <2> QED BY <1>1, <2>3, <2>4
<1> DEFINE Numbers == o + z <= f /\ h = s + f + k /\ h <= t /\ c3 = c2 + k /\ c3 <= z /\ k > 0
<1>a. Numbers
  BY <1>2, <1>3, <1>4
<1> HIDE DEF Numbers
<1>5. /\ d \in BlobsIn(m) /\ d.off_dt_struct = s /\ d.totalsize = t /\ d.size_dt_strings = q
      /\ \A u : WithBytes(d, u) = WithBytes(c, u)
  BY <1>1, <1>4, WithBytesIs, SMTT(40)
<1>6. PropFits(d, o)
  BY <1>2, <1>4, <1>5 DEF PropFits
<1>7. NameCell(d, o) = (s + o) + c2 /\ At(d, o) = s + o /\ At(c, f) = s + f
  BY <1>2, <1>3, <1>4, <1>5 DEF NameCell, At
<1>8. /\ \E u \in Banks(m) : e = WithBytes(c, u)
      /\ e \in BlobsIn(m) /\ LoadCell(e, (s + o) + c2) = nameoff_final(d, o)
      /\ \A p \in Int : 0 <= p /\ p < t /\ (p < (s + o) + c2 \/ p >= (s + o) + c2 + k) => Byte(e, p) = Byte(d, p)
  <2>1. e = corrected(d, o)
    BY <1>2
  <2> QED BY <1>1, <1>3, <1>5, <1>6, <1>7, <2>1, CorrectedIs, SMTT(40)
<1>9. e.off_dt_struct = s
  BY <1>1, <1>4, <1>8, WithBytesIs, SMTT(40)
<1>10. ASSUME NEW a \in Int, NEW g \in Int, 0 <= a, g <= t, g <= (s + o) + c2 \/ (s + o) + c2 + k <= a
       PROVE  Same(d, e, a, g)
  <2> SUFFICES ASSUME NEW p \in Int, a <= p, p < g PROVE Byte(e, p) = Byte(d, p)
    BY DEF Same
  <2> QED BY <1>8, <1>10
<1> DEFINE X(j) == Renamed(ts, x, q, j)
<1>11. Log(d, ts, off, X(i)) /\ LoadCell(d, At(c, f)) = FDT_END /\ Same(c, d, 0, s) /\ Same(c, d, h, t)
  BY <1>2, <1>4 DEF Partly
<1>12. /\ \A j \in 1 .. n : j # i => X(i + 1)[j] = X(i)[j]
       /\ X(i)[i] = x[i] /\ X(i + 1)[i] = Wrap(x[i] + q)
       /\ \A j \in 1 .. n : X(i + 1)[j] \in Word
  <2>1. /\ \A j \in 1 .. Len(ts) : j # i => Renamed(ts, x, q, i + 1)[j] = Renamed(ts, x, q, i)[j]
        /\ Renamed(ts, x, q, i)[i] = x[i]
        /\ Renamed(ts, x, q, i + 1)[i] = (IF ts[i].tag = "prop" THEN Wrap(x[i] + q) ELSE x[i])
        /\ \A j \in 1 .. Len(ts) : Renamed(ts, x, q, i + 1)[j] \in Word
    <3> HIDE DEF X
    <3> QED BY <1>1, RenamedIs DEF CellsIn
  <2> QED BY <1>2, <2>1
<1> HIDE DEF X
<1>13. HoldsToken(d, s + o, ts[i], x[i])
  BY <1>2, <1>5, <1>11, <1>12 DEF Log
<1>14. nameoff_final(d, o) = Wrap(x[i] + q)
  <2>1. LoadCell(d, (s + o) + 2 * Cell) = x[i]
    BY <1>13 DEF HoldsToken
  <2>2. At(d, o + 2 * Cell) = (s + o) + 2 * Cell
    BY <1>3, <1>5, SMTT(40) DEF At
  <2> QED BY <1>5, <2>1, <2>2 DEF nameoff_final, StructCell
<1>15. HoldsToken(e, s + o, ts[i], X(i + 1)[i])
  <2>1. s + o \in Nat /\ s + o + z <= t
    BY <1>a DEF Numbers
  <2>2. Same(d, e, s + o, (s + o) + c2) /\ Same(d, e, (s + o) + c3, (s + o) + z)
    <3>1. 0 <= s + o /\ (s + o) + c2 <= t /\ (s + o) + z <= t /\ (s + o) + c2 + k <= (s + o) + c3
      BY <1>a, <2>1 DEF Numbers
    <3> QED BY <1>10, <3>1
  <2>3. LoadCell(e, (s + o) + 2 * Cell) = X(i + 1)[i]
    BY <1>3, <1>8, <1>12, <1>14
  <2>4. Same(d, e, s + o, (s + o) + 2 * Cell) /\ Same(d, e, (s + o) + 3 * Cell, (s + o) + TokenSize(ts[i]))
    BY <1>2, <1>3, <2>2
  <2>5. PICK p \in Nat : p = s + o
    OBVIOUS
  <2>6. Same(d, e, p, p + 2 * Cell) /\ Same(d, e, p + 3 * Cell, p + TokenSize(ts[i]))
        /\ LoadCell(e, p + 2 * Cell) = X(i + 1)[i] /\ HoldsToken(d, p, ts[i], x[i])
    BY <1>13, <2>3, <2>4, <2>5
  <2>7. PICK u, y, v : u \in TreeTokens /\ u = ts[i] /\ y = x[i] /\ v = X(i + 1)[i]
    BY <1>2
  <2>8. HoldsToken(e, p, u, v)
    BY <2>6, <2>7, TokenStays
  <2> QED BY <2>5, <2>7, <2>8
<1>16. ASSUME NEW j \in 1 .. n, j # i PROVE HoldsToken(e, s + off[j], ts[j], X(i + 1)[j])
  <2>1. PICK p \in Nat, y \in Nat : p = off[j] /\ y = TokenSize(ts[j]) /\ p + y <= f /\ ts[j] \in TreeTokens
    BY <1>1, <1>2, TokenPlaces
  <2>2. HoldsToken(d, s + p, ts[j], X(i)[j])
    BY <1>5, <1>11, <2>1, <1>2 DEF Log
  <2>3. p + y <= o \/ o + z <= p
    <3>1. CASE j < i
      <4>1. i \in j + 1 .. Len(ts) + 1 /\ j \in 1 .. Len(ts)
        BY <1>2, <3>1
      <4> QED BY <1>1, <1>2, <2>1, <4>1, LaidInOrder
    <3>2. CASE i < j
      <4>1. j \in i + 1 .. Len(ts) + 1 /\ i \in 1 .. Len(ts)
        BY <1>2, <3>2
      <4> QED BY <1>1, <1>2, <2>1, <4>1, LaidInOrder
    <3> QED BY <1>2, <1>16, <3>1, <3>2
  <2>4. Same(d, e, s + p, (s + p) + y)
    <3>1. 0 <= s + p /\ (s + p) + y <= t /\ ((s + p) + y <= (s + o) + c2 \/ (s + o) + c2 + k <= s + p)
      <4>1. p + y <= f
        BY <2>1
      <4> QED BY <1>a, <2>3, <4>1 DEF Numbers
    <3> QED BY <1>10, <3>1
  <2>5. HoldsToken(e, s + p, ts[j], X(i)[j])
    <3>1. PICK a \in Nat, g \in Nat : a = s + p /\ g = a + y /\ a <= a /\ g <= g
      OBVIOUS
    <3>2. Same(d, e, a, g) /\ a + TokenSize(ts[j]) <= g /\ HoldsToken(d, a, ts[j], X(i)[j])
      BY <2>1, <2>2, <2>4, <3>1
    <3>3. PICK u, v : u \in TreeTokens /\ u = ts[j] /\ v = X(i)[j]
      BY <2>1
    <3>4. HoldsToken(e, a, u, v)
      BY <3>1, <3>2, <3>3, TokenStaysWhole
    <3> QED BY <2>1, <3>1, <3>3, <3>4
  <2> QED BY <1>12, <1>16, <2>1, <2>5
<1>17. Log(e, ts, off, X(i + 1))
  <2>1. \A j \in 1 .. n : HoldsToken(e, s + off[j], ts[j], X(i + 1)[j])
    BY <1>2, <1>15, <1>16
  <2> QED BY <1>1, <1>2, <1>9, <1>12, <2>1 DEF Log
<1>18. LoadCell(e, At(c, f)) = FDT_END
  <2>1. 0 <= s + f /\ (s + f) + k <= t /\ (s + o) + c2 + k <= s + f
    BY <1>a DEF Numbers
  <2>2. Same(d, e, s + f, (s + f) + k)
    BY <1>10, <2>1
  <2>3. LoadCell(e, s + f) = LoadCell(d, s + f)
    <3>1. s + f \in Int /\ (s + f) + k \in Int /\ (s + f) + Cell <= (s + f) + k /\ s + f <= s + f
      BY <1>3
    <3> QED BY <2>2, <3>1, CellStays
  <2> QED BY <1>7, <1>11, <2>3
<1>19. Same(c, e, 0, s) /\ Same(c, e, h, t)
  <2>1. s <= t /\ s <= (s + o) + c2 /\ (s + o) + c2 + k <= h /\ 0 <= h /\ t <= t
    BY <1>a DEF Numbers
  <2>2. Same(d, e, 0, s) /\ Same(d, e, h, t)
    <3>1. 0 \in Int /\ 0 <= 0
      OBVIOUS
    <3> QED BY <1>10, <2>1, <3>1
  <2> QED BY <1>11, <2>2 DEF Same
<1> QED BY <1>2, <1>4, <1>8, <1>17, <1>18, <1>19 DEF Partly, X

LEMMA CorrectFromOther ==
  ASSUME NEW g, NEW o, NEW c, NEW t, t = fdt_next_tag(c, o), t.tag # FDT_END, t.tag # FDT_PROP
  PROVE  correct_from(g, o, c) = g[<<t.next, c>>]
BY DEF correct_from

LEMMA RenamedNone ==
  ASSUME NEW ts \in Trees, NEW x, NEW z, NEW j \in 1 .. Len(ts) PROVE Renamed(ts, x, z, 1)[j] = x[j]
<1>1. ~(j < 1)
  BY TreeFacts
<1> QED BY <1>1 DEF Renamed

LEMMA RenamedAll ==
  ASSUME NEW ts \in Trees, NEW x, NEW z, NEW j \in 1 .. Len(ts), ts[j].tag = "prop"
  PROVE  Renamed(ts, x, z, Len(ts) + 1)[j] = Wrap(x[j] + z)
<1>1. j < Len(ts) + 1
  BY TreeFacts
<1> QED BY <1>1 DEF Renamed

LEMMA RenamedOther ==
  ASSUME NEW ts \in Trees, NEW x, NEW z \in Nat, NEW i \in 1 .. Len(ts), ts[i].tag # "prop",
         \A j \in 1 .. Len(ts) : x[j] \in Word
  PROVE  \A j \in 1 .. Len(ts) : Renamed(ts, x, z, i + 1)[j] = Renamed(ts, x, z, i)[j]
<1>1. /\ \A j \in 1 .. Len(ts) : j # i => Renamed(ts, x, z, i + 1)[j] = Renamed(ts, x, z, i)[j]
      /\ Renamed(ts, x, z, i)[i] = x[i]
      /\ Renamed(ts, x, z, i + 1)[i] = (IF ts[i].tag = "prop" THEN Wrap(x[i] + z) ELSE x[i])
  BY RenamedIs, SMTT(40), ZenonT(40)
<1> QED BY <1>1

(* The walk ends at the end of the block with all names corrected.         *)
LEMMA NamesWalked ==
  ASSUME NEW c, NEW m, NEW ts, NEW off, NEW x, Walkable(c, m, ts, off), Log(c, ts, off, x)
  PROVE  \E w \in Banks(m) : /\ correct_names(c) = Result(off[Len(ts) + 1] + Cell, WithBytes(c, w))
                             /\ Partly(c, WithBytes(c, w), ts, off, x, Len(ts) + 1)
<1>1. /\ m \in SUBSET Int /\ c \in BlobsIn(m) /\ ts \in Trees /\ Laid(ts, off)
      /\ headsize(c) <= c.totalsize /\ c.size_dt_strings \in Nat
  BY BlobFacts DEF Walkable, Log
<1>2. PICK n \in Nat : n = Len(ts)
  BY <1>1, TreeFacts
<1>3. PICK f : /\ \A o \in Int, e \in BlobsIn(m) : f[<<o, e>>] = correct_from(f, o, e)
               /\ correct_names(c) = f[<<0, c>>]
  BY <1>1, WalkIsDefined
<1>4. CellsIn(ts, x)
  BY DEF Log, CellsIn
<1> DEFINE At_(i) == \E w \in Banks(m) : Partly(c, WithBytes(c, w), ts, off, x, i)
                                         /\ f[<<0, c>>] = f[<<off[i], WithBytes(c, w)>>]
           G == {i \in 1 .. n + 1 : At_(i)}
<1>5. 1 \in G
  <2>1. WithBytes(c, c.bytes) = c /\ c.bytes \in Banks(m)
    BY <1>1, WithOwnBytes
  <2>2. off[1] = 0 /\ 1 \in 1 .. n + 1
    BY <1>1 DEF Laid
  <2>3. Log(c, ts, off, Renamed(ts, x, c.size_dt_strings, 1))
    BY <1>1, RenamedNone DEF Log
  <2>4. LoadCell(c, At(c, off[n + 1])) = FDT_END
    BY <1>2 DEF Walkable
  <2>5. Partly(c, c, ts, off, x, 1)
    BY <1>2, <2>3, <2>4 DEF Partly, Same
  <2> QED BY <2>1, <2>2, <2>5
<1>6. ASSUME NEW i \in 1 .. n, At_(i) PROVE At_(i + 1)
  <2>1. PICK w \in Banks(m) : Partly(c, WithBytes(c, w), ts, off, x, i) /\ f[<<0, c>>] = f[<<off[i], WithBytes(c, w)>>]
    BY <1>6
  <2>2. PICK d \in BlobsIn(m) :
          /\ d = WithBytes(c, w) /\ d.off_dt_struct = c.off_dt_struct /\ d.totalsize = c.totalsize
          /\ d.version = c.version /\ d.size_dt_struct = c.size_dt_struct
          /\ \A u : WithBytes(d, u) = WithBytes(c, u)
    BY <1>1, WithBytesIs
  <2>3. PICK o \in Nat, t \in TreeTokens, z \in Nat :
          /\ o = off[i] /\ Aligned(o) /\ t = ts[i] /\ z = TokenSize(t) /\ InBlock(c, o, z) /\ off[i + 1] = o + z
    BY <1>1, <1>2, TokenPlaces
  <2>4. PICK y : y = Renamed(ts, x, c.size_dt_strings, i)[i]
    OBVIOUS
  <2>5. HoldsToken(d, At(d, o), t, y)
    BY <1>2, <2>1, <2>2, <2>3, <2>4 DEF Partly, Log, At
  <2>6. InBlock(d, o, z) /\ Fits(d)
    BY <2>2, <2>3 DEF InBlock, Fits, Walkable
  <2>7. fdt_next_tag(d, o) = [tag |-> Number(t), next |-> o + z]
    BY <2>3, <2>5, <2>6, NextTagHeld
  <2>8. f[<<o, d>>] = correct_from(f, o, d)
    BY <1>3, <2>3
  <2>9. CASE t.tag = "prop"
    <3>1. PICK e : e = corrected(d, off[i])
      OBVIOUS
    <3>2. Partly(c, e, ts, off, x, i + 1) /\ \E u \in Banks(m) : e = WithBytes(c, u)
      <4>1. i \in 1 .. Len(ts) /\ ts[i].tag = "prop" /\ d = WithBytes(c, w) /\ Partly(c, d, ts, off, x, i)
        BY <1>2, <2>1, <2>2, <2>3, <2>9
      <4> HIDE DEF At_, G
      <4> QED BY <1>4, <3>1, <4>1, NamesCorrected
    <3>3. correct_from(f, o, d) = f[<<o + z, e>>]
      <4>1. Number(t) = FDT_PROP
        BY <2>9, NumberFacts
      <4>2. PICK u : u = fdt_next_tag(d, o) /\ u.tag = FDT_PROP /\ u.next = o + z
        BY <2>7, <4>1
      <4>3. correct_from(f, o, d) = f[<<u.next, corrected(d, o)>>]
        BY <4>2, CorrectFromIs
      <4> QED BY <2>3, <3>1, <4>2, <4>3
    <3> QED BY <2>1, <2>2, <2>3, <2>8, <3>2, <3>3
  <2>10. CASE t.tag # "prop"
    <3>1. correct_from(f, o, d) = f[<<o + z, d>>]
      <4>1. Number(t) # FDT_PROP /\ Number(t) # FDT_END
        BY <2>10, NumberFacts, TokenCases, TagsDiffer
      <4>2. PICK u : u = fdt_next_tag(d, o) /\ u.tag # FDT_END /\ u.tag # FDT_PROP /\ u.next = o + z
        BY <2>7, <4>1
      <4>3. correct_from(f, o, d) = f[<<u.next, d>>]
        BY <4>2, CorrectFromOther
      <4> QED BY <4>2, <4>3
    <3>2. Partly(c, d, ts, off, x, i + 1)
      <4>1. \A j \in 1 .. Len(ts) :
            Renamed(ts, x, c.size_dt_strings, i + 1)[j] = Renamed(ts, x, c.size_dt_strings, i)[j]
        BY <1>1, <1>2, <1>4, <2>3, <2>10, RenamedOther, SMTT(40) DEF CellsIn
      <4>2. Log(d, ts, off, Renamed(ts, x, c.size_dt_strings, i + 1))
        BY <2>1, <2>2, <4>1 DEF Partly, Log
      <4> QED BY <2>1, <2>2, <4>2 DEF Partly
    <3> QED BY <2>1, <2>2, <2>3, <2>8, <3>1, <3>2
  <2> QED BY <2>9, <2>10
<1>7. \A i \in 1 .. n + 1 : i \in G
  <2>1. PICK e \in Int : e = n + 1 /\ e - 1 = n /\ 1 \in Int
    OBVIOUS
  <2>2. PICK H : H = G
    OBVIOUS
  <2>3. \A j \in 1 .. e - 1 : j \in H => j + 1 \in H
    <3> SUFFICES ASSUME NEW j \in 1 .. n, j \in G PROVE j + 1 \in G
      BY <2>1, <2>2
    <3>1. At_(j + 1) /\ j + 1 \in 1 .. n + 1
      <4>1. At_(j)
        OBVIOUS
      <4> HIDE DEF At_
      <4> QED BY <1>6, <4>1
    <3> HIDE DEF At_
    <3> QED BY <3>1
  <2>4. 1 \in H
    BY <1>5, <2>2
  <2> HIDE DEF G
  <2>5. \A j \in 1 .. e : j \in H
    BY <2>1, <2>3, <2>4, Upwards
  <2> QED BY <2>1, <2>2, <2>5
<1>8. PICK w \in Banks(m) : Partly(c, WithBytes(c, w), ts, off, x, n + 1)
                            /\ f[<<0, c>>] = f[<<off[n + 1], WithBytes(c, w)>>]
  <2>1. n + 1 \in 1 .. n + 1
    OBVIOUS
  <2> QED BY <1>7, <2>1
<1>9. PICK d \in BlobsIn(m) :
        /\ d = WithBytes(c, w) /\ d.off_dt_struct = c.off_dt_struct /\ d.totalsize = c.totalsize
        /\ d.version = c.version /\ d.size_dt_struct = c.size_dt_struct
  BY <1>1, WithBytesIs
<1>10. PICK o \in Nat : o = off[n + 1] /\ Aligned(o)
  <2>1. n + 1 \in 1 .. Len(ts) + 1
    BY <1>2
  <2> QED BY <1>1, <2>1, LaidAligned
<1>11. fdt_next_tag(d, o) = [tag |-> FDT_END, next |-> o + Cell]
  <2>1. LoadCell(d, At(d, o)) = FDT_END
    BY <1>2, <1>8, <1>9, <1>10 DEF Partly, At
  <2>2. InBlock(d, o, Cell)
    <3>1. PICK s \in Nat, t \in Nat : s = c.off_dt_struct /\ t = c.totalsize
      BY <1>1, BlobFacts
    <3>2. c.size_dt_struct = o + Cell /\ s + (o + Cell) <= t
      BY <1>2, <1>10, <3>1 DEF Walkable, headsize
    <3>3. s + o + Cell <= t
      BY <3>2, CellPos
    <3> QED BY <1>9, <3>1, <3>2, <3>3, CellPos DEF InBlock
  <2> QED BY <1>10, <2>1, <2>2, NextTagEnds
<1>12. correct_from(f, o, d) = Result(o + Cell, d)
  <2>1. PICK u : u = fdt_next_tag(d, o) /\ u.tag = FDT_END /\ u.next = o + Cell
    BY <1>11
  <2>2. correct_from(f, o, d) = Result(u.next, d)
    BY <2>1, CorrectFromIs
  <2> QED BY <2>1, <2>2
<1>13. f[<<o, d>>] = correct_from(f, o, d)
  BY <1>3
<1>14. correct_names(c) = Result(off[Len(ts) + 1] + Cell, WithBytes(c, w))
  BY <1>2, <1>3, <1>8, <1>9, <1>10, <1>12, <1>13
<1> QED BY <1>2, <1>8, <1>14

(***************************************************************************)
(* The end of writing.                                                     *)
(***************************************************************************)
TailMoved(a) ==
  [a EXCEPT !.bytes = moved(a.bytes, headsize(a), a.totalsize - a.size_dt_strings, a.size_dt_strings),
            !.off_dt_strings = headsize(a)]
Closed(a) ==
  [a EXCEPT !.totalsize = a.off_dt_strings + a.size_dt_strings,
            !.last_comp_version = FDT_LAST_COMPATIBLE_VERSION, !.magic = "FDT_MAGIC"]

(* The strings of c, which ended with its buffer, end before `past' in d.  *)
StringsEnd(c, d, past) ==
  \A v \in Nat : 0 < v /\ v <= c.size_dt_strings => Byte(d, past - v) = Byte(c, c.totalsize - v)

LEMMA SmallWord == ASSUME NEW n \in Nat, n <= INT_MAX PROVE n \in Word
<1>1. PICK x \in Nat : x = INT_MAX /\ WordSize = 2 * x + 2
  BY WordFacts
<1>2. n < WordSize
  BY <1>1
<1> QED BY <1>2, WordIs

LEMMA TailIsMoved ==
  ASSUME NEW a, Draft(a), NEW d, d = TailMoved(a)
  PROVE  /\ d \in BlobsIn(BankOf(a)) /\ d.version = 17 /\ d.totalsize = a.totalsize
         /\ d.off_mem_rsvmap = a.off_mem_rsvmap /\ d.off_dt_struct = a.off_dt_struct
         /\ d.size_dt_struct = a.size_dt_struct /\ d.size_dt_strings = a.size_dt_strings
         /\ d.off_dt_strings = headsize(a) /\ headsize(d) = headsize(a)
         /\ Same(a, d, 0, headsize(a)) /\ StringsEnd(a, d, headsize(a) + a.size_dt_strings)
<1>1. PICK h \in Nat, z \in Nat, t \in Nat, m \in SUBSET Int :
        /\ h = headsize(a) /\ z = a.size_dt_strings /\ t = a.totalsize /\ h + z <= t /\ t <= INT_MAX
        /\ m = BankOf(a) /\ m \in SUBSET Int /\ a.bytes \in Banks(m)
        /\ \A i \in Int : 0 <= i /\ i < t => i \in m
  BY DraftFacts
<1>2. PICK w : w = moved(a.bytes, h, t - z, z) /\ Moves(m, w, a.bytes, h, t - z, z)
  <2>1. Available(m, t - z, (t - z) + z)
    BY <1>1 DEF Available
  <2>2. t - z \in Int /\ h \in Int
    OBVIOUS
  <2> QED BY <1>1, <2>1, <2>2, MovesIs
<1>3. d = [a EXCEPT !.bytes = w, !.off_dt_strings = h]
  BY <1>1, <1>2 DEF TailMoved
<1>4. a \in BlobsIn(m) /\ a.version = 17
  BY <1>1 DEF Draft
<1>5. w \in Banks(m) /\ h \in Word
  <2>1. h <= INT_MAX
    <3>1. PICK y \in Nat : y = INT_MAX /\ t <= y
      BY <1>1, WordFacts
    <3>2. h + z <= t
      BY <1>1
    <3>3. h <= y
      BY <3>1, <3>2
    <3> QED BY <3>1, <3>3
  <2> QED BY <1>2, <2>1, SmallWord DEF Moves
<1>6. /\ d.bytes = w /\ d.off_dt_strings = h /\ d.version = a.version /\ d.totalsize = a.totalsize
      /\ d.off_mem_rsvmap = a.off_mem_rsvmap /\ d.off_dt_struct = a.off_dt_struct
      /\ d.size_dt_struct = a.size_dt_struct /\ d.size_dt_strings = a.size_dt_strings
  BY <1>3, <1>4 DEF BlobsIn, BlobsOver
<1>7. d \in BlobsIn(m)
  <2>1. PICK W, B : W = Word /\ B = [m -> Octet] /\ w \in B /\ h \in W
    BY <1>5 DEF Banks
  <2>2. a \in [magic : Magics, addr : Int, totalsize : W, version : W,
          last_comp_version : W, off_mem_rsvmap : W, off_dt_struct : W, size_dt_struct : W,
          off_dt_strings : W, size_dt_strings : W, bytes : B]
        /\ 0 .. a.totalsize - 1 \subseteq m
    BY <1>4, <2>1 DEF BlobsIn, BlobsOver
  <2>3. d \in [magic : Magics, addr : Int, totalsize : W, version : W,
          last_comp_version : W, off_mem_rsvmap : W, off_dt_struct : W, size_dt_struct : W,
          off_dt_strings : W, size_dt_strings : W, bytes : B]
    BY <1>3, <2>1, <2>2
  <2> QED BY <1>6, <2>1, <2>2, <2>3 DEF BlobsIn, BlobsOver
<1>8. Same(a, d, 0, h)
  <2> SUFFICES ASSUME NEW i \in Int, 0 <= i, i < h PROVE w[i] = a.bytes[i]
    BY <1>6 DEF Same, Byte
  <2>1. i \in m
    <3>1. i < t
      <4>1. h + z <= t
        BY <1>1
      <4> QED BY <4>1
    <3> QED BY <1>1, <3>1
  <2> QED BY <1>2, <2>1 DEF Moves
<1>9. ASSUME NEW v \in Nat, 0 < v, v <= z PROVE w[(h + z) - v] = a.bytes[t - v]
  <2>1. h + z <= t
    BY <1>1
  <2>2. PICK k \in 0 .. z - 1 : k = z - v /\ h + k = (h + z) - v /\ (t - z) + k = t - v
    BY <1>9
  <2>3. h + k \in m
    <3>1. 0 <= h + k /\ h + k < t
      BY <2>1, <2>2
    <3> QED BY <1>1, <3>1
  <2>4. w[h + k] = a.bytes[(t - z) + k]
    BY <1>2, <2>3 DEF Moves
  <2> QED BY <2>2, <2>4
<1>10. StringsEnd(a, d, h + z)
  BY <1>1, <1>6, <1>9 DEF StringsEnd, Byte
<1>11. headsize(d) = h
  BY <1>1, <1>6 DEF headsize
<1> QED BY <1>1, <1>4, <1>6, <1>7, <1>8, <1>10, <1>11

LEMMA LogKept ==
  ASSUME NEW c, NEW d, d.off_dt_struct = c.off_dt_struct, c.off_dt_struct \in Nat, NEW past \in Int,
         Same(c, d, 0, past), NEW ts \in Trees, NEW off, NEW x, Log(c, ts, off, x),
         c.off_dt_struct + off[Len(ts) + 1] <= past
  PROVE  Log(d, ts, off, x)
<1>1. PICK s \in Nat : s = c.off_dt_struct
  OBVIOUS
<1>2. Laid(ts, off)
  BY DEF Log
<1>3. ASSUME NEW i \in 1 .. Len(ts) PROVE HoldsToken(d, s + off[i], ts[i], x[i])
  <2>1. PICK o \in Nat, z \in Nat, e \in Nat :
          o = off[i] /\ z = TokenSize(ts[i]) /\ e = off[Len(ts) + 1] /\ o + z <= e /\ ts[i] \in TreeTokens
    BY <1>2, LaidInside, TreeFacts
  <2>2. PICK p \in Nat : p = s + o /\ 0 <= p /\ p + z <= past
    <3>1. s + e <= past /\ o + z <= e
      BY <1>1, <2>1
    <3>2. s + o + z <= past
      BY <3>1
    <3> QED BY <3>2
  <2>3. HoldsToken(c, p, ts[i], x[i])
    BY <1>1, <2>1, <2>2 DEF Log
  <2>4. PICK u, y : u \in TreeTokens /\ u = ts[i] /\ y = x[i]
    BY <2>1
  <2>5. p + TokenSize(u) <= past /\ HoldsToken(c, p, u, y) /\ 0 \in Int
    BY <2>1, <2>2, <2>3, <2>4
  <2>6. HoldsToken(d, p, u, y)
    BY <2>2, <2>4, <2>5, TokenStaysWhole
  <2> QED BY <2>1, <2>2, <2>4, <2>6
<1> QED BY <1>1, <1>2, <1>3 DEF Log

(* The offset of a name once the strings stand before their end.           *)
LEMMA NameOffset_ ==
  ASSUME NEW v \in Nat, NEW z \in Nat, 0 < v, v <= z, z <= INT_MAX
  PROVE  Signed(Wrap(Wrap(-v) + z)) = z - v
<1>1. PICK x \in Nat, w \in Nat : x = INT_MAX /\ w = WordSize /\ w = 2 * x + 2 /\ z <= x
  BY WordFacts
<1>2. Wrap(-v) = -v + w
  <2>1. -v \in Int /\ -v < 0 /\ -v + w >= 0
    BY <1>1
  <2> QED BY <1>1, <2>1, WrapFacts
<1>3. Wrap((-v + w) + z) = z - v
  <2>1. (-v + w) + z \in Int /\ (-v + w) + z >= w /\ (-v + w) + z < 2 * w /\ (-v + w) + z - w = z - v
    BY <1>1
  <2>2. PICK y \in Int : y = (-v + w) + z
    OBVIOUS
  <2>3. Wrap(y) = y - w
    BY <1>1, <2>1, <2>2, WrapFacts
  <2> QED BY <2>1, <2>2, <2>3
<1>4. Wrap(z - v) = z - v /\ z - v \in -INT_MAX .. INT_MAX
  <2>1. z - v \in Nat /\ z - v <= INT_MAX
    BY <1>1
  <2>2. z - v \in Word
    BY <2>1, SmallWord
  <2> QED BY <1>1, <2>1, <2>2, WrapFacts
<1>5. Signed(Wrap(z - v)) = z - v
  BY <1>4, SignedFacts
<1> QED BY <1>2, <1>3, <1>4, <1>5

LEMMA ClosedIs ==
  ASSUME NEW m, NEW e \in BlobsIn(m), NEW d, d = Closed(e), e.totalsize <= INT_MAX,
         e.off_dt_strings + e.size_dt_strings <= e.totalsize
  PROVE  /\ d \in BlobsIn(m) /\ d.magic = "FDT_MAGIC" /\ d.version = e.version /\ d.bytes = e.bytes
         /\ d.totalsize = e.off_dt_strings + e.size_dt_strings
         /\ d.off_mem_rsvmap = e.off_mem_rsvmap /\ d.off_dt_struct = e.off_dt_struct
         /\ d.size_dt_struct = e.size_dt_struct /\ d.off_dt_strings = e.off_dt_strings
         /\ d.size_dt_strings = e.size_dt_strings /\ d.last_comp_version = 16
<1>1. PICK h \in Nat, z \in Nat, t \in Nat :
        h = e.off_dt_strings /\ z = e.size_dt_strings /\ t = e.totalsize /\ h + z <= t /\ t <= INT_MAX
  BY BlobFacts
<1>2. h + z \in Word
  <2>1. PICK x \in Nat : x = INT_MAX
    BY WordFacts
  <2>2. h + z \in Nat /\ h + z <= INT_MAX
    BY <1>1, <2>1
  <2> QED BY <2>2, SmallWord
<1>3. FDT_LAST_COMPATIBLE_VERSION \in Word
  <2>1. 16 <= INT_MAX
    BY WordFacts
  <2> QED BY <2>1, SmallWord DEF FDT_LAST_COMPATIBLE_VERSION
<1>4. d = [e EXCEPT !.totalsize = h + z, !.last_comp_version = FDT_LAST_COMPATIBLE_VERSION, !.magic = "FDT_MAGIC"]
  BY <1>1 DEF Closed
<1>5. "FDT_MAGIC" \in Magics
  BY DEF Magics
<1> HIDE DEF Magics
<1>6. PICK W, B : W = Word /\ B = [m -> Octet]
  OBVIOUS
<1>7. e \in [magic : Magics, addr : Int, totalsize : W, version : W,
          last_comp_version : W, off_mem_rsvmap : W, off_dt_struct : W, size_dt_struct : W,
          off_dt_strings : W, size_dt_strings : W, bytes : B]
      /\ 0 .. e.totalsize - 1 \subseteq m
  BY <1>6 DEF BlobsIn, BlobsOver
<1>8. d \in [magic : Magics, addr : Int, totalsize : W, version : W,
          last_comp_version : W, off_mem_rsvmap : W, off_dt_struct : W, size_dt_struct : W,
          off_dt_strings : W, size_dt_strings : W, bytes : B]
  BY <1>2, <1>3, <1>4, <1>5, <1>6, <1>7
<1>9. /\ d.magic = "FDT_MAGIC" /\ d.version = e.version /\ d.bytes = e.bytes /\ d.totalsize = h + z
      /\ d.off_mem_rsvmap = e.off_mem_rsvmap /\ d.off_dt_struct = e.off_dt_struct
      /\ d.size_dt_struct = e.size_dt_struct /\ d.off_dt_strings = e.off_dt_strings
      /\ d.size_dt_strings = e.size_dt_strings /\ d.last_comp_version = 16
  BY <1>4, <1>7 DEF FDT_LAST_COMPATIBLE_VERSION
<1>10. 0 .. d.totalsize - 1 \subseteq m
  <2>1. 0 .. (h + z) - 1 \subseteq 0 .. t - 1
    BY <1>1
  <2> QED BY <1>1, <1>7, <1>9, <2>1
<1> QED BY <1>1, <1>6, <1>8, <1>9, <1>10 DEF BlobsIn, BlobsOver

LEMMA FinishIs ==
  ASSUME NEW c, NEW k \in Nat, NEW ts, Building(c, k, ts)
  PROVE  \/ fdt_finish(c) = Result(-FDT_ERR_NOSPACE, c)
         \/ \E a : /\ Grows(c, a, CellBytes(FDT_END), Cell)
                   /\ fdt_finish(c) = IF correct_names(TailMoved(a)).ret < 0
                                      THEN correct_names(TailMoved(a))
                                      ELSE Result(0, Closed(correct_names(TailMoved(a)).b))
<1>1. PICK r : r = emit(c, CellBytes(FDT_END), Cell)
  OBVIOUS
<1>2. fdt_finish(c) = IF r.ret # 0 THEN r
                      ELSE IF correct_names(TailMoved(r.b)).ret < 0
                           THEN correct_names(TailMoved(r.b))
                           ELSE Result(0, Closed(correct_names(TailMoved(r.b)).b))
  <2>1. fdt_sw_probe_struct_(c) = 0
    BY StructProbe
  <2> QED BY <1>1, <2>1 DEF fdt_finish, Probed, then, TailMoved, Closed
<1>3. Draft(c) /\ CellBytes(FDT_END) \in Contents /\ Len(CellBytes(FDT_END)) = Cell /\ Cell \in Nat /\ Cell <= INT_MAX
  <2>1. Cell <= INT_MAX
    BY WordFacts
  <2> QED BY <2>1, CellPos, NumbersAreWords, CellContents DEF Building
<1>4. CASE headsize(c) + Cell + c.size_dt_strings > c.totalsize
  <2>1. r = Result(-FDT_ERR_NOSPACE, c)
    BY <1>1, <1>3, <1>4, Emitted
  <2> QED BY <1>2, <2>1, ErrorsDiffer, ResultIs
<1>5. CASE ~(headsize(c) + Cell + c.size_dt_strings > c.totalsize)
  <2>1. PICK a : a = With(c, c.size_dt_struct + Cell, c.size_dt_strings,
                          written(c.bytes, headsize(c), CellBytes(FDT_END)))
    OBVIOUS
  <2>2. r = Result(0, a)
    BY <1>1, <1>3, <1>5, <2>1, Emitted
  <2>3. Grows(c, a, CellBytes(FDT_END), Cell)
    <3>1. headsize(c) + Cell + c.size_dt_strings <= c.totalsize
      BY <1>3, <1>5, DraftFacts
    <3> QED BY <1>3, <2>1, <3>1 DEF Grows
  <2> QED BY <1>2, <2>2, <2>3, ResultIs
<1> QED BY <1>4, <1>5

LEMMA FinishedName ==
  ASSUME NEW a, NEW d, NEW h \in Nat, NEW z \in Nat, NEW t \in Nat, z = a.size_dt_strings,
         t = a.totalsize, z <= INT_MAX, d.off_dt_strings = h, d.totalsize = h + z,
         StringsEnd(a, d, h + z), NEW y, NEW name \in NameStrings, NameBelow(a, y, name)
  PROVE  HoldsName(d, d.off_dt_strings + Signed(Wrap(y + z)), name) /\ Signed(Wrap(y + z)) \in Nat
<1>1. PICK v \in Nat : Len(name) < v /\ v <= z /\ y = Wrap(-v) /\ HoldsString(a, t - v, name)
  BY DEF NameBelow
<1>2. PICK n \in Nat : n = Len(name) /\ n < v
  BY <1>1 DEF NameStrings
<1>3. Signed(Wrap(y + z)) = z - v
  <2>1. 0 < v
    BY <1>2
  <2> QED BY <1>1, <2>1, NameOffset_
<1>4. PICK p \in Nat : p = d.off_dt_strings + Signed(Wrap(y + z)) /\ p = h + z - v /\ p + n < h + z
  <2>1. PICK q \in Nat : q = z - v /\ n < v /\ v <= z
    BY <1>1, <1>2
  <2>2. d.off_dt_strings + Signed(Wrap(y + z)) = h + q
    BY <1>3, <2>1
  <2>3. h + q \in Nat /\ h + q = h + z - v /\ (h + q) + n < h + z
    BY <2>1
  <2> QED BY <2>2, <2>3
<1>5. \A w \in Nat : 0 < w /\ w <= z => Byte(d, h + z - w) = Byte(a, t - w)
  BY DEF StringsEnd
<1>6. \A k \in 0 .. n : Byte(d, p + k) = Byte(a, t - v + k)
  <2> TAKE k \in 0 .. n
  <2>1. PICK w \in Nat : w = v - k /\ 0 < w /\ w <= z
    BY <1>1, <1>2
  <2>2. p + k = h + z - w /\ t - v + k = t - w
    BY <1>4, <2>1
  <2> QED BY <1>5, <2>1, <2>2
<1>7. HoldsString(d, p, name)
  <2>1. Byte(a, t - v + n) = 0 /\ \A i \in 1 .. n : Byte(a, t - v + i - 1) = name[i]
    BY <1>1, <1>2 DEF HoldsString
  <2>2. Byte(d, p + n) = 0
    BY <1>6, <2>1
  <2>3. \A i \in 1 .. n : Byte(d, p + i - 1) = name[i]
    <3> TAKE i \in 1 .. n
    <3>1. i - 1 \in 0 .. n /\ p + i - 1 = p + (i - 1) /\ t - v + i - 1 = t - v + (i - 1)
      OBVIOUS
    <3> QED BY <1>6, <2>1, <3>1
  <2> QED BY <1>2, <2>2, <2>3 DEF HoldsString
<1>8. Signed(Wrap(y + z)) \in Nat
  BY <1>1, <1>3
<1> QED BY <1>2, <1>4, <1>7, <1>8 DEF HoldsName

(* A tree that has been closed with FDT_END, its strings behind it.        *)
LEMMA EndWritten ==
  ASSUME NEW c, NEW k \in Nat, NEW ts \in Trees, Building(c, k, ts), NEW off, NEW x, Stored(c, ts, off, x),
         NEW a, Grows(c, a, CellBytes(FDT_END), Cell)
  PROVE  /\ Draft(a) /\ a.off_dt_struct = c.off_dt_struct /\ a.off_mem_rsvmap = header_space
         /\ a.size_dt_struct = off[Len(ts) + 1] + Cell /\ off[Len(ts) + 1] \in Nat
         /\ Same(c, a, 0, c.off_dt_struct)
         /\ Log(a, ts, off, x) /\ NamedBelow(a, ts, x)
         /\ LoadCell(a, At(a, off[Len(ts) + 1])) = FDT_END
<1>1. Draft(c) /\ c.off_mem_rsvmap = header_space
  BY DEF Building
<1>2. PICK s \in Nat, n \in Nat, h \in Nat :
        s = c.off_dt_struct /\ n = c.size_dt_struct /\ h = headsize(c) /\ h = s + n
  BY <1>1, DraftFacts
<1>3. n = off[Len(ts) + 1]
  BY <1>2 DEF Stored
<1>4. FDT_END \in Word /\ CellBytes(FDT_END) \in Contents /\ Cell \in Nat
  BY NumbersAreWords, CellContents, CellPos
<1>5. /\ Draft(a) /\ a.size_dt_struct = n + Cell /\ a.off_dt_struct = s /\ a.off_mem_rsvmap = header_space
      /\ Same(c, a, 0, h) /\ StringsStay(c, a) /\ HoldsBytes(a, h, CellBytes(FDT_END))
  <2>1. PICK u \in Contents, l \in Nat : u = CellBytes(FDT_END) /\ l = Cell /\ Grows(c, a, u, l)
    BY <1>4
  <2>2. /\ Draft(a) /\ a.size_dt_struct = c.size_dt_struct + Cell /\ a.off_dt_struct = c.off_dt_struct
        /\ a.off_mem_rsvmap = c.off_mem_rsvmap /\ Same(c, a, 0, headsize(c)) /\ StringsStay(c, a)
        /\ HoldsBytes(a, headsize(c), CellBytes(FDT_END))
    BY <1>1, <2>1, Grown
  <2> QED BY <1>1, <1>2, <2>2
<1>6. Log(a, ts, off, x) /\ NamedBelow(a, ts, x)
  BY <1>1, <1>2, <1>5, LogStays
<1>7. LoadCell(a, h) = FDT_END
  BY <1>2, <1>4, <1>5, CellHeld
<1>8. Same(c, a, 0, s)
  <2>1. s <= h
    BY <1>2
  <2> QED BY <1>2, <1>5, <2>1 DEF Same
<1> QED BY <1>2, <1>3, <1>5, <1>6, <1>7, <1>8 DEF At

(* The names of the properties lie behind the start of the strings block.  *)
Forward(ts, x) == \A i \in 1 .. Len(ts) : ts[i].tag = "prop" => Signed(x[i]) \in Nat

(* The blob that fdt_finish leaves behind.                                 *)
Final(m, d, k, ts, off, x) ==
  /\ d \in BlobsIn(m) /\ d.magic = "FDT_MAGIC" /\ d.version = 17 /\ d.last_comp_version = 16
  /\ d.off_mem_rsvmap = header_space /\ d.off_dt_struct = header_space + (k + 1) * EntrySize
  /\ d.size_dt_struct = off[Len(ts) + 1] + Cell /\ d.off_dt_strings = headsize(d)
  /\ d.totalsize = d.off_dt_strings + d.size_dt_strings /\ d.totalsize <= INT_MAX
  /\ Log(d, ts, off, x) /\ Named(d, ts, x) /\ Forward(ts, x)
  /\ LoadCell(d, At(d, off[Len(ts) + 1])) = FDT_END
IsFinal(d, k, ts) == \E m, off, x : Final(m, d, k, ts, off, x)

LEMMA EndKeeps ==
  ASSUME NEW c, Draft(c), NEW a, Grows(c, a, CellBytes(FDT_END), Cell) PROVE Keeps(c, a) /\ Draft(a)
<1>1. PICK u \in Contents, l \in Nat : u = CellBytes(FDT_END) /\ l = Cell /\ Grows(c, a, u, l)
  BY NumbersAreWords, CellContents, CellPos
<1> QED BY <1>1, GrownKeeps

(* The blob that fdt_finish leaves behind, given the one with FDT_END.     *)
LEMMA FinishedBlob ==
  ASSUME NEW a, Draft(a), NEW j \in Nat, a.off_mem_rsvmap = header_space,
         a.off_dt_struct = header_space + (j + 1) * EntrySize, NEW ts \in Trees, NEW off, NEW x,
         a.size_dt_struct = off[Len(ts) + 1] + Cell, off[Len(ts) + 1] \in Nat,
         Log(a, ts, off, x), NamedBelow(a, ts, x), LoadCell(a, At(a, off[Len(ts) + 1])) = FDT_END
  PROVE  \E e : /\ correct_names(TailMoved(a)) = Result(off[Len(ts) + 1] + Cell, e)
                /\ Tree(Closed(e)) = ts /\ Closed(e).magic = "FDT_MAGIC"
                /\ Closed(e).off_mem_rsvmap = a.off_mem_rsvmap
                /\ Closed(e).off_dt_struct = a.off_dt_struct
                /\ Same(a, Closed(e), 0, a.off_dt_struct)
                /\ IsFinal(Closed(e), j, ts) /\ Sized(Closed(e)) /\ StringsStay(a, Closed(e))
                /\ Closed(e).size_dt_strings = a.size_dt_strings
<1>1. PICK s \in Nat, o \in Nat, h \in Nat, z \in Nat, t \in Nat, m \in SUBSET Int :
        /\ s = a.off_dt_struct /\ o = off[Len(ts) + 1] /\ h = headsize(a) /\ z = a.size_dt_strings
        /\ t = a.totalsize /\ h + z <= t /\ t <= INT_MAX /\ h = s + (o + Cell)
        /\ m = BankOf(a) /\ m \in SUBSET Int
  BY DraftFacts
<1>2. PICK k \in Nat : k = Cell /\ h = s + (o + k)
  BY <1>1, CellPos
<1>3. PICK b_ : b_ = TailMoved(a)
  OBVIOUS
<1>4. /\ b_ \in BlobsIn(m) /\ b_.version = 17 /\ b_.totalsize = t /\ b_.off_mem_rsvmap = a.off_mem_rsvmap
      /\ b_.off_dt_struct = s /\ b_.size_dt_struct = o + k /\ b_.size_dt_strings = z
      /\ b_.off_dt_strings = h /\ headsize(b_) = h /\ Same(a, b_, 0, h) /\ StringsEnd(a, b_, h + z)
  BY <1>1, <1>2, <1>3, TailIsMoved
<1>5. Log(b_, ts, off, x)
  <2>1. a.off_dt_struct + off[Len(ts) + 1] <= h
    BY <1>1, <1>2
  <2>2. a.off_dt_struct \in Nat /\ b_.off_dt_struct = a.off_dt_struct /\ h \in Int
    BY <1>1, <1>4
  <2> QED BY <1>4, <2>1, <2>2, LogKept
<1>6. LoadCell(b_, At(b_, o)) = FDT_END
  <2>1. PICK p \in Int : p = s + o /\ 0 <= p /\ p + k <= h /\ 0 \in Int /\ h \in Int
    BY <1>2
  <2>2. LoadCell(b_, p) = LoadCell(a, p)
    BY <1>2, <1>4, <2>1, CellStays
  <2> QED BY <1>1, <1>4, <2>1, <2>2 DEF At
<1>7. Walkable(b_, m, ts, off)
  <2>1. headsize(b_) <= b_.totalsize
    <3>1. h <= t
      BY <1>1
    <3> QED BY <1>4, <3>1
  <2>2. Fits(b_)
    BY <1>1, <1>4 DEF Fits
  <2> QED BY <1>1, <1>2, <1>4, <1>6, <2>1, <2>2 DEF Walkable
<1>8. PICK w \in Banks(m) : /\ correct_names(b_) = Result(o + Cell, WithBytes(b_, w))
                            /\ Partly(b_, WithBytes(b_, w), ts, off, x, Len(ts) + 1)
  BY <1>1, <1>5, <1>7, NamesWalked
<1>9. PICK e : e = WithBytes(b_, w)
  OBVIOUS
<1>10. /\ e \in BlobsIn(m) /\ e.version = 17 /\ e.totalsize = t /\ e.off_mem_rsvmap = a.off_mem_rsvmap
       /\ e.off_dt_struct = s /\ e.size_dt_struct = o + k /\ e.size_dt_strings = z /\ e.off_dt_strings = h
  BY <1>4, <1>9, WithBytesIs
<1>11. PICK r : r = Renamed(ts, x, z, Len(ts) + 1)
  OBVIOUS
<1>12. /\ Log(e, ts, off, r) /\ LoadCell(e, s + o) = FDT_END
       /\ Same(b_, e, 0, s) /\ Same(b_, e, h, t)
  BY <1>1, <1>4, <1>8, <1>9, <1>11 DEF Partly, At
<1>13. PICK d : d = Closed(e)
  OBVIOUS
<1>14. /\ d \in BlobsIn(m) /\ d.magic = "FDT_MAGIC" /\ d.version = 17 /\ d.bytes = e.bytes
       /\ d.totalsize = h + z /\ d.off_mem_rsvmap = a.off_mem_rsvmap /\ d.off_dt_struct = s
       /\ d.size_dt_struct = o + k /\ d.off_dt_strings = h /\ d.size_dt_strings = z
       /\ d.last_comp_version = 16
  <2>1. e.off_dt_strings + e.size_dt_strings <= e.totalsize /\ e.totalsize <= INT_MAX
    BY <1>1, <1>10
  <2> QED BY <1>10, <1>13, <2>1, ClosedIs
<1>15. \A i : Byte(d, i) = Byte(e, i)
  BY <1>14 DEF Byte
<1>16. Sound(d, m)
  <2>1. StructStop(d) = h
    BY <1>2, <1>14 DEF StructStop
  <2>2. h \in Nat /\ h + z \in Nat /\ h <= h + z
    OBVIOUS
  <2> QED BY <1>14, <2>1, <2>2 DEF Sound
<1>17. Log(d, ts, off, r)
  <2>1. Same(e, d, 0, h)
    BY <1>15 DEF Same
  <2>2. e.off_dt_struct + off[Len(ts) + 1] <= h
    BY <1>1, <1>2, <1>10, SMTT(40)
  <2>3. e.off_dt_struct \in Nat /\ d.off_dt_struct = e.off_dt_struct /\ h \in Int
    BY <1>10, <1>14
  <2> QED BY <1>12, <2>1, <2>2, <2>3, LogKept
<1>18. StringsEnd(a, d, h + z)
  <2> SUFFICES ASSUME NEW v \in Nat, 0 < v, v <= z PROVE Byte(d, h + z - v) = Byte(a, a.totalsize - v)
    BY <1>1 DEF StringsEnd
  <2>1. PICK p \in Int : p = h + z - v /\ h <= p /\ p < t
    <3>1. PICK q \in Nat : q = z - v /\ q < z
      OBVIOUS
    <3>2. h + q < t
      <4>1. h + z <= t
        BY <1>1
      <4> QED BY <3>1, <4>1
    <3> QED BY <3>1, <3>2
  <2>2. Byte(e, p) = Byte(b_, p)
    BY <1>12, <2>1 DEF Same
  <2>3. Byte(b_, h + z - v) = Byte(a, a.totalsize - v)
    BY <1>1, <1>4 DEF StringsEnd
  <2> QED BY <1>15, <2>1, <2>2, <2>3
<1>19. Named(d, ts, r) /\ Forward(ts, r)
  <2> SUFFICES ASSUME NEW i \in 1 .. Len(ts), ts[i].tag = "prop"
               PROVE  HoldsName(d, d.off_dt_strings + Signed(r[i]), ts[i].name) /\ Signed(r[i]) \in Nat
    BY DEF Named, Forward
  <2>0. PICK y : y = x[i]
    OBVIOUS
  <2>1. PICK name \in NameStrings : y = x[i] /\ name = ts[i].name /\ NameBelow(a, y, name)
    <3>1. ts[i].name \in NameStrings
      BY TreeFacts, TokenCases
    <3>2. NameBelow(a, x[i], ts[i].name)
      BY DEF NamedBelow
    <3> QED BY <2>0, <3>1, <3>2
  <2>2. r[i] = Wrap(y + z)
    BY <1>11, <2>1, RenamedAll
  <2>3. z <= INT_MAX
    <3>1. PICK g \in Nat : g = INT_MAX /\ t <= g
      BY <1>1, WordFacts
    <3>2. h + z <= t
      BY <1>1
    <3>3. z <= g
      BY <3>1, <3>2
    <3> QED BY <3>1, <3>3
  <2>4. HoldsName(d, d.off_dt_strings + Signed(Wrap(y + z)), name) /\ Signed(Wrap(y + z)) \in Nat
    BY <1>1, <1>14, <1>18, <2>1, <2>3, FinishedName
  <2> QED BY <2>1, <2>2, <2>4
<1>20. Ended(d, off[Len(ts) + 1])
  <2>1. StructStop(d) = s + (o + k)
    BY <1>14 DEF StructStop
  <2>2. s + o + Cell <= StructStop(d)
    BY <1>2, <2>1
  <2>3. LoadCell(d, s + o) = FDT_END
    <3>1. LoadCell(d, s + o) = LoadCell(e, s + o)
      BY <1>15, LoadSame
    <3> QED BY <1>12, <3>1
  <2> QED BY <1>1, <1>14, <2>2, <2>3 DEF Ended
<1>21. Tree(d) = ts
  BY <1>16, <1>17, <1>19, <1>20, Parse
<1>22. Same(a, d, 0, s)
  <2> SUFFICES ASSUME NEW i \in Int, 0 <= i, i < s PROVE Byte(d, i) = Byte(a, i)
    BY DEF Same
  <2>1. i < h
    BY <1>2
  <2>2. Byte(b_, i) = Byte(a, i)
    BY <1>4, <2>1 DEF Same
  <2>3. Byte(e, i) = Byte(b_, i)
    BY <1>12 DEF Same
  <2> QED BY <1>15, <2>2, <2>3
<1>23. IsFinal(d, j, ts)
  <2>1. headsize(d) = h
    BY <1>2, <1>14 DEF headsize
  <2>2. LoadCell(d, At(d, o)) = FDT_END
    BY <1>1, <1>14, <1>20 DEF Ended, At
  <2>3. h + z <= INT_MAX
    <3>1. PICK g \in Nat : g = INT_MAX /\ t <= g
      BY <1>1, WordFacts
    <3>2. h + z <= t
      BY <1>1
    <3>3. h + z <= g
      BY <3>1, <3>2
    <3> QED BY <3>1, <3>3
  <2>4. Final(m, d, j, ts, off, r)
    BY <1>1, <1>2, <1>14, <1>17, <1>19, <2>1, <2>2, <2>3 DEF Final
  <2> QED BY <2>4 DEF IsFinal
<1>24. Sized(d) /\ StringsStay(a, d) /\ d.size_dt_strings = a.size_dt_strings
  <2>1. h + z \in Nat /\ z <= h + z
    OBVIOUS
  <2>2. StringsStay(a, d)
    BY <1>1, <1>14, <1>18 DEF StringsStay, StringsEnd
  <2> QED BY <1>1, <1>14, <2>1, <2>2 DEF Sized
<1> QED BY <1>1, <1>3, <1>8, <1>9, <1>13, <1>14, <1>21, <1>22, <1>23, <1>24

(* A blob that has been finished: the reservations and the tree.           *)
Complete(d, k, ts) ==
  /\ d.magic = "FDT_MAGIC" /\ d.off_mem_rsvmap = header_space
  /\ d.off_dt_struct = header_space + (k + 1) * EntrySize /\ Tree(d) = ts
  /\ IsFinal(d, k, ts) /\ Sized(d)

LEMMA Finished ==
  ASSUME NEW c, NEW k \in Nat, NEW ts \in Trees, Building(c, k, ts), NEW d, d = fdt_finish(c).b
  PROVE  \/ d = c
         \/ /\ Complete(d, k, ts) /\ EntriesOf(d, k) = EntriesOf(c, k)
            /\ (Sealed(c, k) => Sealed(d, k)) /\ (NoStrays(c, ts) => NoStrays(d, ts))
<1>1. CASE fdt_finish(c) = Result(-FDT_ERR_NOSPACE, c)
  BY <1>1, ResultIs
<1>2. ASSUME NEW a, Grows(c, a, CellBytes(FDT_END), Cell),
             fdt_finish(c) = IF correct_names(TailMoved(a)).ret < 0
                             THEN correct_names(TailMoved(a))
                             ELSE Result(0, Closed(correct_names(TailMoved(a)).b))
      PROVE  /\ Complete(d, k, ts) /\ EntriesOf(d, k) = EntriesOf(c, k)
             /\ (Sealed(c, k) => Sealed(d, k)) /\ (NoStrays(c, ts) => NoStrays(d, ts))
  <2>1. PICK off, x : Stored(c, ts, off, x)
    BY DEF Building, Holds
  <2>2. /\ Draft(a) /\ a.off_dt_struct = c.off_dt_struct /\ a.off_mem_rsvmap = header_space
        /\ a.size_dt_struct = off[Len(ts) + 1] + Cell /\ off[Len(ts) + 1] \in Nat
        /\ Same(c, a, 0, c.off_dt_struct)
        /\ Log(a, ts, off, x) /\ NamedBelow(a, ts, x)
        /\ LoadCell(a, At(a, off[Len(ts) + 1])) = FDT_END
    BY <1>2, <2>1, EndWritten, ZenonT(40)
  <2>3. PICK e : /\ correct_names(TailMoved(a)) = Result(off[Len(ts) + 1] + Cell, e)
                 /\ Tree(Closed(e)) = ts /\ Closed(e).magic = "FDT_MAGIC"
                 /\ Closed(e).off_mem_rsvmap = a.off_mem_rsvmap
                 /\ Closed(e).off_dt_struct = a.off_dt_struct
                 /\ Same(a, Closed(e), 0, a.off_dt_struct)
                 /\ IsFinal(Closed(e), k, ts) /\ Sized(Closed(e)) /\ StringsStay(a, Closed(e))
                 /\ Closed(e).size_dt_strings = a.size_dt_strings
    <3>1. a.off_dt_struct = header_space + (k + 1) * EntrySize
      BY <2>2 DEF Building
    <3> QED BY <2>2, <3>1, FinishedBlob
  <2>4. d = Closed(e)
    <3>1. PICK u : u = correct_names(TailMoved(a))
      OBVIOUS
    <3>2. u.ret = off[Len(ts) + 1] + Cell /\ u.b = e
      BY <2>3, <3>1, ResultIs
    <3>3. ~(u.ret < 0)
      BY <2>2, <3>2, CellPos
    <3>4. fdt_finish(c) = Result(0, Closed(e))
      BY <1>2, <3>1, <3>2, <3>3
    <3> QED BY <3>4, ResultIs
  <2>5. Complete(d, k, ts)
    BY <2>2, <2>3, <2>4 DEF Complete, Building
  <2>6. Same(c, d, 0, c.off_dt_struct)
    BY <2>2, <2>3, <2>4 DEF Same
  <2>7. EntriesOf(d, k) = EntriesOf(c, k)
    <3>1. header_space + k * EntrySize <= c.off_dt_struct /\ c.off_dt_struct \in Int
      BY EntriesBelow
    <3>2. c.off_mem_rsvmap = header_space /\ d.off_mem_rsvmap = header_space
      BY <2>5 DEF Building, Complete
    <3> QED BY <2>6, <3>1, <3>2, EntriesStay
  <2>8. ASSUME Sealed(c, k) PROVE Sealed(d, k)
    <3>1. header_space + k * EntrySize + EntrySize <= c.off_dt_struct /\ c.off_dt_struct \in Int
      BY EntryBelow
    <3>2. c.off_mem_rsvmap = header_space /\ d.off_mem_rsvmap = header_space
      BY <2>5 DEF Building, Complete
    <3>3. EntryAt(d, k) = EntryAt(c, k)
      BY <2>6, <3>1, <3>2, EntryStays
    <3> QED BY <2>8, <3>3 DEF Sealed
  <2>9. ASSUME NoStrays(c, ts) PROVE NoStrays(d, ts)
    <3>1. Draft(c) /\ Draft(a) /\ Keeps(c, a)
      BY <1>2, EndKeeps DEF Building
    <3>2. NoStrays(a, ts)
      BY <2>9, <3>1, DraftSized, NoStraysKept DEF Keeps
    <3> QED BY <2>3, <2>4, <3>1, <3>2, DraftSized, NoStraysKept
  <2> QED BY <2>5, <2>7, <2>8, <2>9
<1> QED BY <1>1, <1>2, FinishIs

(***************************************************************************)
(* What a blob shows of the promise.                                       *)
(***************************************************************************)
StageOf(c) == CASE c.magic = "none" -> "none"
                [] c.magic = "FDT_MAGIC" -> "complete"
                [] c.magic = "FDT_SW_MAGIC" -> IF c.off_dt_strings = 0 THEN "reserve" ELSE "struct"
ReservedOf(c) ==
  IF StageOf(c) = "none" THEN <<>>
  ELSE LET entries == (c.off_dt_struct - c.off_mem_rsvmap) \div EntrySize
       IN [n \in 1 .. entries - (IF StageOf(c) = "reserve" THEN 0 ELSE 1) |-> EntryAt(c, n - 1)]
WrittenOf(c) == IF StageOf(c) \in {"none", "reserve"} THEN <<>> ELSE Tree(c)
Shows(c, st, entries, ts) == StageOf(c) = st /\ ReservedOf(c) = entries /\ WrittenOf(c) = ts

LEMMA ViewNow == Shows(b, Stage, Reserved, Written)
BY DEF Shows, StageOf, ReservedOf, WrittenOf, Stage, Reserved, Written, EntryAt

LEMMA ViewThen == Shows(b', Stage', Reserved', Written')
BY DEF Shows, StageOf, ReservedOf, WrittenOf, Stage, Reserved, Written, EntryAt

LEMMA NothingShown == NoBlob.magic = "none" /\ Shows(NoBlob, "none", <<>>, <<>>)
<1>1. NoBlob.magic = "none"
  BY DEF NoBlob
<1>2. StageOf(NoBlob) = "none"
  BY <1>1 DEF StageOf
<1> QED BY <1>1, <1>2 DEF Shows, ReservedOf, WrittenOf

LEMMA EntriesShown ==
  ASSUME NEW c, NEW k \in Nat, NEW x \in {0, 1}, c.off_mem_rsvmap = header_space,
         c.off_dt_struct = header_space + (k + x) * EntrySize
  PROVE  (c.off_dt_struct - c.off_mem_rsvmap) \div EntrySize - x = k
<1>1. PICK j \in Nat, y \in Nat : j = k + x /\ y = j * EntrySize /\ y \div EntrySize = j
  <2>1. PICK j \in Nat : j = k + x
    OBVIOUS
  <2> QED BY <2>1, Multiples
<1>2. c.off_dt_struct - c.off_mem_rsvmap = y
  BY <1>1, SpaceIs
<1> QED BY <1>1, <1>2

LEMMA ReservingShown ==
  ASSUME NEW c, NEW k \in Nat, Reserving(c, k) PROVE Shows(c, "reserve", EntriesOf(c, k), <<>>)
<1>1. StageOf(c) = "reserve"
  BY DEF StageOf, Reserving, Draft
<1>2. (c.off_dt_struct - c.off_mem_rsvmap) \div EntrySize - 0 = k
  <2>1. c.off_mem_rsvmap = header_space /\ c.off_dt_struct = header_space + (k + 0) * EntrySize
    BY DEF Reserving
  <2> QED BY <2>1, EntriesShown
<1>3. ReservedOf(c) = EntriesOf(c, k)
  BY <1>1, <1>2 DEF ReservedOf, EntriesOf
<1> QED BY <1>1, <1>3 DEF Shows, WrittenOf

LEMMA BuildingShown ==
  ASSUME NEW c, NEW k \in Nat, NEW ts \in Trees, Building(c, k, ts)
  PROVE  Shows(c, "struct", EntriesOf(c, k), ts)
<1>1. StageOf(c) = "struct"
  <2>1. c.off_dt_strings # 0
    <3>1. Draft(c) /\ c.off_dt_strings = c.totalsize
      BY DEF Building
    <3>2. PICK s \in Nat, n \in Nat, z \in Nat, t \in Nat :
            s = c.off_dt_struct /\ t = c.totalsize /\ (s + n) + z <= t
      BY <3>1, DraftFacts
    <3>3. s > 0
      BY <3>2, BuildingBounds
    <3> QED BY <3>1, <3>2, <3>3
  <2> QED BY <2>1 DEF StageOf, Building, Draft
<1>2. (c.off_dt_struct - c.off_mem_rsvmap) \div EntrySize - 1 = k
  <2>1. c.off_mem_rsvmap = header_space /\ c.off_dt_struct = header_space + (k + 1) * EntrySize
    BY DEF Building
  <2> QED BY <2>1, EntriesShown
<1>3. ReservedOf(c) = EntriesOf(c, k)
  BY <1>1, <1>2 DEF ReservedOf, EntriesOf
<1>4. Tree(c) = ts
  BY DraftTree
<1> QED BY <1>1, <1>3, <1>4 DEF Shows, WrittenOf

LEMMA CompleteShown ==
  ASSUME NEW c, NEW k \in Nat, NEW ts, Complete(c, k, ts)
  PROVE  Shows(c, "complete", EntriesOf(c, k), ts)
<1>1. StageOf(c) = "complete"
  BY DEF StageOf, Complete
<1>2. (c.off_dt_struct - c.off_mem_rsvmap) \div EntrySize - 1 = k
  <2>1. c.off_mem_rsvmap = header_space /\ c.off_dt_struct = header_space + (k + 1) * EntrySize
    BY DEF Complete
  <2> QED BY <2>1, EntriesShown
<1>3. ReservedOf(c) = EntriesOf(c, k)
  BY <1>1, <1>2 DEF ReservedOf, EntriesOf
<1>4. Tree(c) = ts
  BY DEF Complete
<1> QED BY <1>1, <1>3, <1>4 DEF Shows, WrittenOf

(***************************************************************************)
(* What a call does in each stage.                                         *)
(***************************************************************************)
LEMMA WrittenIsTyped ==
  /\ \A name \in WriteNodes : name \in NameStrings /\ Len(name) + 4 * Cell <= INT_MAX
  /\ \A name \in WriteProps : name \in NameStrings /\ Short(name)
  /\ \A val \in Values : val \in Contents /\ Len(val) + 4 * Cell <= INT_MAX
  /\ WrittenTokens \subseteq TreeTokens
  /\ \A e \in Entries : e[1] \in Pairs /\ e[2] \in Pairs /\ e = <<e[1], e[2]>>
<1>1. WriteNodes \subseteq NameStrings /\ WriteProps \subseteq NameStrings /\ Values \subseteq Contents
  BY WriterAssumption DEF NameStrings, Letter, Contents
<1>2. Entries \subseteq Pairs \X Pairs
  BY WriterAssumption DEF Pairs
<1>3. WrittenTokens \subseteq TreeTokens
  BY <1>1 DEF WrittenTokens, TreeTokens
<1> HIDE DEF NameStrings, Contents, Pairs
<1>4. \A e \in Entries : e[1] \in Pairs /\ e[2] \in Pairs /\ e = <<e[1], e[2]>>
  BY <1>2
<1> QED BY <1>1, <1>3, <1>4, WriterAssumption DEF Short

(* Nothing happens when a call comes in the wrong stage.                   *)
LEMMA RefusedInStruct ==
  ASSUME NEW c, fdt_sw_probe_struct_(c) # 0
  PROVE  /\ \A name : fdt_begin_node(c, name).b = c
         /\ fdt_end_node(c).b = c
         /\ \A name, val : fdt_property(c, name, val).b = c
         /\ fdt_finish(c).b = c
<1>1. PICK p : p = fdt_sw_probe_struct_(c) /\ p # 0
  OBVIOUS
<1>2. \A r : Probed(p, c, r).b = c
  BY <1>1 DEF Probed, Result
<1>3. \A name : fdt_begin_node(c, name).b = c
  BY <1>1, <1>2 DEF fdt_begin_node
<1>4. fdt_end_node(c).b = c
  BY <1>1, <1>2 DEF fdt_end_node
<1>5. \A name, val : fdt_property(c, name, val).b = c
  BY <1>1, <1>2, ZenonT(40) DEF fdt_property
<1>6. fdt_finish(c).b = c
  BY <1>1, <1>2 DEF fdt_finish
<1> QED BY <1>3, <1>4, <1>5, <1>6

LEMMA RefusedInReserve ==
  ASSUME NEW c, fdt_sw_probe_memrsv_(c) # 0
  PROVE  /\ \A address, size : fdt_add_reservemap_entry(c, address, size).b = c
         /\ fdt_finish_reservemap(c).b = c
<1>1. \A address, size : fdt_add_reservemap_entry(c, address, size) = Result(fdt_sw_probe_memrsv_(c), c)
  BY DEF fdt_add_reservemap_entry, Probed
<1>2. fdt_finish_reservemap(c) = Result(fdt_sw_probe_memrsv_(c), c)
  BY <1>1, ResultIs DEF fdt_finish_reservemap, then
<1> QED BY <1>1, <1>2, ResultIs

LEMMA RefusedAtTheEnd ==
  ASSUME NEW c, c.magic = "FDT_MAGIC"
  PROVE  /\ fdt_sw_probe_struct_(c) # 0 /\ fdt_sw_probe_memrsv_(c) # 0
         /\ \A shift, n : fdt_resize(c, shift, n).b = c /\ fdt_resize(c, shift, n).ret < 0
<1>1. fdt_sw_probe_(c) = -FDT_ERR_BADSTATE /\ -FDT_ERR_BADSTATE # 0 /\ -FDT_ERR_BADSTATE < 0
  BY DEF fdt_sw_probe_, FDT_ERR_BADSTATE
<1>2. fdt_sw_probe_struct_(c) # 0 /\ fdt_sw_probe_memrsv_(c) # 0
  BY <1>1 DEF fdt_sw_probe_struct_, fdt_sw_probe_memrsv_
<1>3. \A shift, n : fdt_resize(c, shift, n) = Result(-FDT_ERR_BADSTATE, c)
  BY <1>1 DEF fdt_resize, Probed
<1> QED BY <1>1, <1>2, <1>3, ResultIs

(* The steps of the program in each stage.                                 *)
LEMMA StepsOnceMade == WriterNext /\ b.magic # "none" =>
  \/ \E buf \in WriteBuffers : LET r == fdt_resize(b, buf[1] - b.addr, buf[2]) IN b' = r.b
  \/ \E e \in Entries : b' = fdt_add_reservemap_entry(b, e[1], e[2]).b
  \/ b' = fdt_finish_reservemap(b).b
  \/ \E name \in WriteNodes : b' = fdt_begin_node(b, name).b
  \/ b' = fdt_end_node(b).b
  \/ \E name \in WriteProps, val \in Values : b' = fdt_property(b, name, val).b
  \/ b' = fdt_finish(b).b
<1> SUFFICES ASSUME WriterNext, b.magic # "none"
             PROVE  \/ \E buf \in WriteBuffers : LET r == fdt_resize(b, buf[1] - b.addr, buf[2]) IN b' = r.b
                    \/ \E e \in Entries : b' = fdt_add_reservemap_entry(b, e[1], e[2]).b
                    \/ b' = fdt_finish_reservemap(b).b
                    \/ \E name \in WriteNodes : b' = fdt_begin_node(b, name).b
                    \/ b' = fdt_end_node(b).b
                    \/ \E name \in WriteProps, val \in Values : b' = fdt_property(b, name, val).b
                    \/ b' = fdt_finish(b).b
  OBVIOUS
<1>1. ~Create
  BY DEF Create
<1>2. CASE Resize
  BY <1>2 DEF Resize, Return
<1>3. CASE AddReservemapEntry
  BY <1>3 DEF AddReservemapEntry, Return
<1>4. CASE FinishReservemap
  BY <1>4 DEF FinishReservemap, Return
<1>5. CASE BeginNode
  BY <1>5 DEF BeginNode, Return
<1>6. CASE EndNode
  BY <1>6 DEF EndNode, Return
<1>7. CASE Property_
  BY <1>7 DEF Property_, Return
<1>8. CASE Finish
  BY <1>8 DEF Finish, Return
<1> QED BY <1>1, <1>2, <1>3, <1>4, <1>5, <1>6, <1>7, <1>8 DEF WriterNext

LEMMA StepFromNothing ==
  ASSUME b = NoBlob, WriterNext PROVE b' = b \/ Reserving(b', 0)
<1>1. Create
  <2>1. b.magic = "none"
    BY NothingShown
  <2> QED BY <2>1 DEF WriterNext, Made, Resize, AddReservemapEntry, FinishReservemap, BeginNode, EndNode,
                      Property_, Finish
<1>2. PICK buf, flags, at, r :
        /\ buf \in WriteBuffers /\ flags \in 0 .. 2
        /\ at = [b EXCEPT !.bytes = from_there(b.bytes, buf[1]), !.addr = buf[1]]
        /\ r = fdt_create_with_flags(at, buf[2], flags)
        /\ b' = (IF r.ret < 0 THEN Result(r.ret, b) ELSE r).b
  BY <1>1 DEF Create, Return
<1>3. r.ret < 0 \/ (r.ret = 0 /\ Reserving(r.b, 0))
  BY <1>2, Created
<1>4. CASE r.ret < 0
  BY <1>2, <1>4, ResultIs
<1>5. CASE ~(r.ret < 0)
  BY <1>2, <1>3, <1>5
<1> QED BY <1>4, <1>5

LEMMA StepFromReserving ==
  ASSUME NEW k \in Nat, Reserving(b, k), WriterNext
  PROVE  \/ b' = b
         \/ Reserving(b', k) /\ EntriesOf(b', k) = EntriesOf(b, k)
         \/ \E e \in Entries : Reserving(b', k + 1) /\ EntriesOf(b', k + 1) = Append(EntriesOf(b, k), e)
         \/ /\ Building(b', k, <<>>) /\ EntriesOf(b', k) = EntriesOf(b, k)
            /\ Sealed(b', k) /\ Tabled(b', <<>>)
<1>1. Draft(b) /\ b.magic # "none" /\ fdt_sw_probe_struct_(b) # 0
  BY ReserveProbe DEF Reserving, Draft
<1>2. ASSUME NEW buf \in WriteBuffers, b' = fdt_resize(b, buf[1] - b.addr, buf[2]).b
      PROVE  b' = b \/ (Reserving(b', k) /\ EntriesOf(b', k) = EntriesOf(b, k))
  <2>1. PICK r : r = fdt_resize(b, buf[1] - b.addr, buf[2])
    OBVIOUS
  <2>2. r.b = b \/ Relocated(b, r.b)
    BY <1>1, <2>1, Resized
  <2> QED BY <1>2, <2>1, <2>2, RelocatedReserving
<1>3. ASSUME NEW e \in Entries, b' = fdt_add_reservemap_entry(b, e[1], e[2]).b
      PROVE  b' = b \/ (Reserving(b', k + 1) /\ EntriesOf(b', k + 1) = Append(EntriesOf(b, k), e))
  <2>1. PICK address \in Pairs, size \in Pairs : address = e[1] /\ size = e[2] /\ e = <<address, size>>
    BY WrittenIsTyped
  <2>2. PICK d : d = fdt_add_reservemap_entry(b, address, size).b /\ b' = d
    BY <1>3, <2>1
  <2> QED BY <2>1, <2>2, ReserveAppends
<1>4. ASSUME b' = fdt_finish_reservemap(b).b
      PROVE  \/ b' = b
             \/ /\ Building(b', k, <<>>) /\ EntriesOf(b', k) = EntriesOf(b, k)
                /\ Sealed(b', k) /\ Tabled(b', <<>>)
  BY <1>4, FinishReserveKeeps
<1> QED BY <1>1, <1>2, <1>3, <1>4, StepsOnceMade, RefusedInStruct

LEMMA StepFromBuilding ==
  ASSUME NEW k \in Nat, NEW ts \in Trees, Building(b, k, ts), WriterNext
  PROVE  \/ b' = b
         \/ Follows(b, b', k, ts) /\ Gains(b, b', ts, ts)
         \/ \E t \in WrittenTokens : Follows(b, b', k, Append(ts, t)) /\ Gains(b, b', ts, Append(ts, t))
         \/ /\ Complete(b', k, ts) /\ EntriesOf(b', k) = EntriesOf(b, k)
            /\ (Sealed(b, k) => Sealed(b', k)) /\ (NoStrays(b, ts) => NoStrays(b', ts))
<1>1. Draft(b) /\ b.magic # "none" /\ fdt_sw_probe_memrsv_(b) # 0
  BY StructProbe DEF Building, Draft
<1>2. ASSUME NEW buf \in WriteBuffers, b' = fdt_resize(b, buf[1] - b.addr, buf[2]).b
      PROVE  b' = b \/ (Follows(b, b', k, ts) /\ Gains(b, b', ts, ts))
  <2>1. PICK r : r = fdt_resize(b, buf[1] - b.addr, buf[2])
    OBVIOUS
  <2>2. r.b = b \/ Relocated(b, r.b)
    BY <1>1, <2>1, Resized
  <2> QED BY <1>2, <2>1, <2>2, RelocatedBuilding
<1>3. ASSUME NEW t \in WrittenTokens, Appends(b, b', k, ts, t)
      PROVE  \/ Follows(b, b', k, ts) /\ Gains(b, b', ts, ts)
             \/ \E u \in WrittenTokens : Follows(b, b', k, Append(ts, u)) /\ Gains(b, b', ts, Append(ts, u))
  BY <1>3 DEF Appends
<1>4. ASSUME NEW name \in WriteNodes, b' = fdt_begin_node(b, name).b
      PROVE  Appends(b, b', k, ts, Begin(name)) /\ Begin(name) \in WrittenTokens
  <2>1. name \in NameStrings /\ Len(name) + 4 * Cell <= INT_MAX
    BY WrittenIsTyped
  <2>2. Begin(name) \in WrittenTokens
    BY DEF WrittenTokens
  <2> QED BY <1>4, <2>1, <2>2, BeginNodeAppends
<1>5. ASSUME b' = fdt_end_node(b).b
      PROVE  Appends(b, b', k, ts, End) /\ End \in WrittenTokens
  <2>1. End \in WrittenTokens
    BY DEF WrittenTokens
  <2> QED BY <1>5, <2>1, EndNodeAppends
<1>6. ASSUME NEW name \in WriteProps, NEW val \in Values, b' = fdt_property(b, name, val).b
      PROVE  Appends(b, b', k, ts, Prop(name, val)) /\ Prop(name, val) \in WrittenTokens
  <2>1. name \in NameStrings /\ Short(name) /\ val \in Contents /\ Len(val) + 4 * Cell <= INT_MAX
    BY WrittenIsTyped
  <2>2. Prop(name, val) \in WrittenTokens
    BY DEF WrittenTokens
  <2> QED BY <1>6, <2>1, <2>2, PropertyAppends
<1>7. ASSUME b' = fdt_finish(b).b
      PROVE  \/ b' = b
             \/ /\ Complete(b', k, ts) /\ EntriesOf(b', k) = EntriesOf(b, k)
                /\ (Sealed(b, k) => Sealed(b', k)) /\ (NoStrays(b, ts) => NoStrays(b', ts))
  BY <1>7, Finished
<1> HIDE DEF WrittenTokens
<1>8. \/ b' = b
      \/ Follows(b, b', k, ts) /\ Gains(b, b', ts, ts)
      \/ \E t \in WrittenTokens : Appends(b, b', k, ts, t)
      \/ /\ Complete(b', k, ts) /\ EntriesOf(b', k) = EntriesOf(b, k)
         /\ (Sealed(b, k) => Sealed(b', k)) /\ (NoStrays(b, ts) => NoStrays(b', ts))
  BY <1>1, <1>2, <1>4, <1>5, <1>6, <1>7, StepsOnceMade, RefusedInReserve
<1> QED BY <1>3, <1>8

LEMMA StepFromComplete ==
  ASSUME b.magic = "FDT_MAGIC", WriterNext PROVE b' = b
<1>1. b.magic # "none"
  OBVIOUS
<1>2. fdt_sw_probe_struct_(b) # 0 /\ fdt_sw_probe_memrsv_(b) # 0
      /\ \A buf \in WriteBuffers : fdt_resize(b, buf[1] - b.addr, buf[2]).b = b
  BY RefusedAtTheEnd
<1> QED BY <1>1, <1>2, StepsOnceMade, RefusedInStruct, RefusedInReserve

(***************************************************************************)
(* The refinement.                                                         *)
(***************************************************************************)
Shape(c) ==
  \/ c = NoBlob
  \/ \E k \in Nat : Reserving(c, k)
  \/ \E k \in Nat, ts \in Trees : Building(c, k, ts)
  \/ \E k \in Nat, ts \in Trees : Complete(c, k, ts)

LEMMA NextIsBuilders ==
  ASSUME Shape(b), WriterNext
  PROVE  /\ Shape(b')
         /\ \/ Stage' = Stage /\ Reserved' = Reserved /\ Written' = Written
            \/ Stage = "none" /\ Stage' = "reserve" /\ Reserved' = <<>> /\ Written' = <<>>
            \/ /\ Stage = "reserve" /\ Stage' = "reserve" /\ Written' = Written
               /\ \E e \in Entries : Reserved' = Append(Reserved, e)
            \/ Stage = "reserve" /\ Stage' = "struct" /\ Reserved' = Reserved /\ Written' = Written
            \/ /\ Stage = "struct" /\ Stage' = "struct" /\ Reserved' = Reserved
               /\ \E t \in WrittenTokens : Written' = Append(Written, t)
            \/ Stage = "struct" /\ Stage' = "complete" /\ Reserved' = Reserved /\ Written' = Written
<1> DEFINE Goal ==
         /\ Shape(b')
         /\ \/ Stage' = Stage /\ Reserved' = Reserved /\ Written' = Written
            \/ Stage = "none" /\ Stage' = "reserve" /\ Reserved' = <<>> /\ Written' = <<>>
            \/ /\ Stage = "reserve" /\ Stage' = "reserve" /\ Written' = Written
               /\ \E e \in Entries : Reserved' = Append(Reserved, e)
            \/ Stage = "reserve" /\ Stage' = "struct" /\ Reserved' = Reserved /\ Written' = Written
            \/ /\ Stage = "struct" /\ Stage' = "struct" /\ Reserved' = Reserved
               /\ \E t \in WrittenTokens : Written' = Append(Written, t)
            \/ Stage = "struct" /\ Stage' = "complete" /\ Reserved' = Reserved /\ Written' = Written
<1> SUFFICES Goal
  OBVIOUS
<1>1. ASSUME b' = b PROVE Goal
  BY <1>1, ViewNow, ViewThen DEF Shows
<1>2. ASSUME b = NoBlob PROVE Goal
  <2>1. ASSUME Reserving(b', 0) PROVE Goal
    <3>1. Stage = "none"
      BY <1>2, ViewNow, NothingShown DEF Shows
    <3>2. Stage' = "reserve" /\ Reserved' = EntriesOf(b', 0) /\ Written' = <<>>
      BY <2>1, ViewThen, ReservingShown DEF Shows
    <3>3. EntriesOf(b', 0) = <<>>
      BY DEF EntriesOf
    <3>4. Shape(b')
      BY <2>1 DEF Shape
    <3> QED BY <3>1, <3>2, <3>3, <3>4
  <2> QED BY <1>1, <1>2, <2>1, StepFromNothing
<1>3. ASSUME NEW k \in Nat, Reserving(b, k) PROVE Goal
  <2>1. Stage = "reserve" /\ Reserved = EntriesOf(b, k) /\ Written = <<>>
    BY <1>3, ViewNow, ReservingShown DEF Shows
  <2>2. ASSUME Reserving(b', k), EntriesOf(b', k) = EntriesOf(b, k) PROVE Goal
    <3>1. Stage' = "reserve" /\ Reserved' = EntriesOf(b', k) /\ Written' = <<>>
      BY <2>2, ViewThen, ReservingShown DEF Shows
    <3>2. Shape(b')
      BY <2>2 DEF Shape
    <3> QED BY <2>1, <2>2, <3>1, <3>2
  <2>3. ASSUME NEW e \in Entries, Reserving(b', k + 1), EntriesOf(b', k + 1) = Append(EntriesOf(b, k), e)
        PROVE  Goal
    <3>0. PICK j \in Nat : j = k + 1
      OBVIOUS
    <3>1. Stage' = "reserve" /\ Reserved' = EntriesOf(b', j) /\ Written' = <<>>
      BY <2>3, <3>0, ViewThen, ReservingShown DEF Shows
    <3>2. Shape(b')
      BY <2>3, <3>0 DEF Shape
    <3> QED BY <2>1, <2>3, <3>0, <3>1, <3>2
  <2>4. ASSUME Building(b', k, <<>>), EntriesOf(b', k) = EntriesOf(b, k) PROVE Goal
    <3>0. <<>> \in Trees
      BY DEF Trees
    <3>1. Stage' = "struct" /\ Reserved' = EntriesOf(b', k) /\ Written' = <<>>
      BY <2>4, <3>0, ViewThen, BuildingShown DEF Shows
    <3>2. Shape(b')
      BY <2>4, <3>0 DEF Shape
    <3> QED BY <2>1, <2>4, <3>1, <3>2
  <2> HIDE DEF Goal
  <2> QED BY <1>1, <1>3, <2>2, <2>3, <2>4, StepFromReserving
<1>4. ASSUME NEW k \in Nat, NEW ts \in Trees, Building(b, k, ts) PROVE Goal
  <2>1. Stage = "struct" /\ Reserved = EntriesOf(b, k) /\ Written = ts
    BY <1>4, ViewNow, BuildingShown DEF Shows
  <2>2. ASSUME NEW us \in Trees, Follows(b, b', k, us)
        PROVE  Shape(b') /\ Stage' = "struct" /\ Reserved' = Reserved /\ Written' = us
    <3>1. Building(b', k, us)
      BY <2>2 DEF Follows
    <3>2. EntriesOf(b', k) = EntriesOf(b, k)
      BY <1>4, <2>2, FollowsEntries
    <3>3. Stage' = "struct" /\ Reserved' = EntriesOf(b', k) /\ Written' = us
      BY <3>1, ViewThen, BuildingShown DEF Shows
    <3>4. Shape(b')
      BY <3>1 DEF Shape
    <3> QED BY <2>1, <3>2, <3>3, <3>4
  <2>3. ASSUME Follows(b, b', k, ts) PROVE Goal
    BY <2>1, <2>2, <2>3
  <2>4. ASSUME NEW t \in WrittenTokens, Follows(b, b', k, Append(ts, t)) PROVE Goal
    <3>1. Append(ts, t) \in Trees
      BY WrittenIsTyped DEF Trees
    <3> QED BY <2>1, <2>2, <2>4, <3>1
  <2>5. ASSUME Complete(b', k, ts), EntriesOf(b', k) = EntriesOf(b, k) PROVE Goal
    <3>1. Stage' = "complete" /\ Reserved' = EntriesOf(b', k) /\ Written' = ts
      BY <2>5, ViewThen, CompleteShown DEF Shows
    <3>2. Shape(b')
      BY <2>5 DEF Shape
    <3> QED BY <2>1, <2>5, <3>1, <3>2
  <2> HIDE DEF Goal
  <2> QED BY <1>1, <1>4, <2>3, <2>4, <2>5, StepFromBuilding
<1>5. ASSUME NEW k \in Nat, NEW ts \in Trees, Complete(b, k, ts) PROVE Goal
  BY <1>1, <1>5, StepFromComplete DEF Complete
<1> HIDE DEF Goal
<1> QED BY <1>2, <1>3, <1>4, <1>5 DEF Shape

(* What the writer shows is what the builder promises: whatever calls fail *)
(* and wherever the blob is moved.                                         *)
THEOREM WriterBuildsTheTree == WriterSpec => ImplementsBuilder
<1> DEFINE Inv  == Writing => Shape(b)
           Step == /\ Writing => (WriterNext /\ UNCHANGED program) \/ Handed
                   /\ Writing' => Writing
           st   == IF Writing THEN Stage ELSE "none"
           rs   == IF Writing THEN Reserved ELSE <<>>
           tr   == IF Writing THEN Written ELSE <<>>
<1>1. ASSUME Writing => WriterInit PROVE Inv /\ Promise!BuilderInit
  <2>1. Inv
    BY <1>1 DEF WriterInit, Shape
  <2>2. Writing => Stage = "none" /\ Reserved = <<>> /\ Written = <<>>
    BY <1>1, ViewNow, NothingShown DEF Shows, WriterInit
  <2> QED BY <2>1, <2>2 DEF Promise!BuilderInit
<1>2. ASSUME Inv, [Step]_vars
      PROVE  Inv' /\ [Promise!BuilderNext]_<<st, rs, tr>>
  <2>1. CASE UNCHANGED vars
    <3>1. b' = b /\ program' = program
      BY <2>1 DEF vars
    <3>2. Stage' = Stage /\ Reserved' = Reserved /\ Written' = Written /\ (Writing' <=> Writing)
      BY <3>1, ViewNow, ViewThen DEF Shows, Writing
    <3>3. Inv'
      BY <1>2, <3>1, <3>2
    <3> QED BY <3>2, <3>3
  <2>2. CASE Step /\ ~Writing
    <3>1. ~Writing'
      BY <2>2
    <3> QED BY <2>2, <3>1
  <2>3. CASE Writing /\ Handed
    <3>1. ~Writing' /\ Stage = "complete"
      BY <2>3 DEF Handed
    <3>2. Promise!Take
      BY <2>3, <3>1 DEF Promise!Take
    <3> QED BY <3>1, <3>2 DEF Promise!BuilderNext
  <2>4. CASE Writing /\ WriterNext /\ UNCHANGED program
    <3>1. Writing'
      BY <2>4 DEF Writing
    <3>2. Shape(b)
      BY <1>2, <2>4
    <3>3. /\ Shape(b')
          /\ \/ Stage' = Stage /\ Reserved' = Reserved /\ Written' = Written
             \/ Stage = "none" /\ Stage' = "reserve" /\ Reserved' = <<>> /\ Written' = <<>>
             \/ /\ Stage = "reserve" /\ Stage' = "reserve" /\ Written' = Written
                /\ \E e \in Entries : Reserved' = Append(Reserved, e)
             \/ Stage = "reserve" /\ Stage' = "struct" /\ Reserved' = Reserved /\ Written' = Written
             \/ /\ Stage = "struct" /\ Stage' = "struct" /\ Reserved' = Reserved
                /\ \E t \in WrittenTokens : Written' = Append(Written, t)
             \/ Stage = "struct" /\ Stage' = "complete" /\ Reserved' = Reserved /\ Written' = Written
      BY <2>4, <3>2, NextIsBuilders
    <3>4. Inv'
      BY <3>3
    <3>5. st = Stage /\ rs = Reserved /\ tr = Written /\ st' = Stage' /\ rs' = Reserved' /\ tr' = Written'
      BY <2>4, <3>1
    <3> HIDE DEF st, rs, tr, Inv
    <3>6. \/ UNCHANGED <<st, rs, tr>>
          \/ st = "none" /\ st' = "reserve" /\ rs' = <<>> /\ tr' = <<>>
          \/ /\ st = "reserve" /\ st' = "reserve" /\ tr' = tr
             /\ \E e \in Entries : rs' = Append(rs, e)
          \/ st = "reserve" /\ st' = "struct" /\ rs' = rs /\ tr' = tr
          \/ /\ st = "struct" /\ st' = "struct" /\ rs' = rs
             /\ \E t \in WrittenTokens : tr' = Append(tr, t)
          \/ st = "struct" /\ st' = "complete" /\ rs' = rs /\ tr' = tr
      BY <3>3, <3>5
    <3> USE DEF st, rs, tr
    <3>7. [Promise!BuilderNext]_<<st, rs, tr>>
      BY <3>6 DEF Promise!BuilderNext, Promise!Create, Promise!Reserve, Promise!FinishReserve,
                  Promise!Write, Promise!Finish
    <3> QED BY <3>4, <3>7
  <2> QED BY <1>2, <2>1, <2>2, <2>3, <2>4
<1> HIDE DEF Inv
<1> QED BY <1>1, <1>2, PTL DEF WriterSpec, ImplementsBuilder, Promise!BuilderSpec

(***************************************************************************)
(* A blob that fdt_check_full has accepted.                                *)
(***************************************************************************)
(***************************************************************************)
(* How many nodes are open.                                                *)
(***************************************************************************)
Sooner(s, tag, i) == {j \in TagAt(s, tag) : j < i}
One(tag, t) == IF t.tag = tag THEN 1 ELSE 0
Deep(t) == One("begin", t) - One("end", t)

LEMMA CountStep ==
  ASSUME NEW S, NEW s \in Seq(S), NEW tag, NEW i \in 1 .. Len(s)
  PROVE  /\ Cardinality(Sooner(s, tag, i)) \in Nat
         /\ Cardinality(Sooner(s, tag, i + 1)) = Cardinality(Sooner(s, tag, i)) + One(tag, s[i])
<1>1. PICK n \in Nat : n = Len(s) /\ DOMAIN s = 1 .. n
  OBVIOUS
<1>2. IsFiniteSet(Sooner(s, tag, i)) /\ i \notin Sooner(s, tag, i)
  <2>1. Sooner(s, tag, i) \in SUBSET (1 .. n)
    BY <1>1 DEF Sooner, TagAt
  <2>2. IsFiniteSet(1 .. n)
    BY FS_Interval
  <2>3. i \notin Sooner(s, tag, i)
    BY <1>1 DEF Sooner
  <2> QED BY <2>1, <2>2, <2>3, FS_Subset
<1>3. Cardinality(Sooner(s, tag, i)) \in Nat
  BY <1>2, FS_CardinalityType
<1>4. CASE s[i].tag = tag
  <2>1. Sooner(s, tag, i + 1) = Sooner(s, tag, i) \union {i}
    BY <1>1, <1>4 DEF Sooner, TagAt
  <2>2. Cardinality(Sooner(s, tag, i) \union {i}) = Cardinality(Sooner(s, tag, i)) + 1
    BY <1>2, FS_AddElement
  <2> QED BY <1>3, <1>4, <2>1, <2>2 DEF One
<1>5. CASE s[i].tag # tag
  <2>1. Sooner(s, tag, i + 1) = Sooner(s, tag, i)
    BY <1>1, <1>5 DEF Sooner, TagAt
  <2> QED BY <1>3, <1>5, <2>1 DEF One
<1> QED BY <1>3, <1>4, <1>5

LEMMA OpenIs ==
  ASSUME NEW s, NEW i
  PROVE  Open(s, i) = Cardinality(Sooner(s, "begin", i)) - Cardinality(Sooner(s, "end", i))
BY DEF Open, Sooner

LEMMA OpenFirst ==
  ASSUME NEW S, NEW s \in Seq(S) PROVE Open(s, 1) = 0
<1>1. ASSUME NEW tag PROVE Cardinality(Sooner(s, tag, 1)) = 0
  <2>1. PICK n \in Nat : DOMAIN s = 1 .. n
    OBVIOUS
  <2>2. Sooner(s, tag, 1) = {}
    BY <2>1 DEF Sooner, TagAt
  <2> QED BY <2>2, FS_EmptySet
<1> QED BY <1>1, OpenIs

LEMMA OpenStep ==
  ASSUME NEW S, NEW s \in Seq(S), NEW i \in 1 .. Len(s)
  PROVE  Open(s, i) \in Int /\ Deep(s[i]) \in Int /\ Open(s, i + 1) = Open(s, i) + Deep(s[i])
<1>1. PICK x \in Nat, y \in Nat : /\ x = Cardinality(Sooner(s, "begin", i))
                                  /\ Cardinality(Sooner(s, "begin", i + 1)) = x + One("begin", s[i])
                                  /\ y = Cardinality(Sooner(s, "end", i))
                                  /\ Cardinality(Sooner(s, "end", i + 1)) = y + One("end", s[i])
  BY CountStep
<1>2. PICK v \in Int, w \in Int : v = One("begin", s[i]) /\ w = One("end", s[i])
  BY DEF One
<1>3. Open(s, i) = x - y /\ Open(s, i + 1) = (x + v) - (y + w)
  BY <1>1, <1>2, OpenIs
<1> QED BY <1>2, <1>3 DEF Deep

LEMMA OpenTyped ==
  ASSUME NEW S, NEW s \in Seq(S), NEW i \in 1 .. Len(s) + 1 PROVE Open(s, i) \in Int
<1>1. CASE i = 1
  BY <1>1, OpenFirst
<1>2. CASE i # 1
  <2>1. PICK j \in 1 .. Len(s) : i = j + 1
    <3>1. i - 1 \in 1 .. Len(s) /\ i = (i - 1) + 1
      BY <1>2
    <3> QED BY <3>1
  <2> QED BY <2>1, OpenStep
<1> QED BY <1>1, <1>2

(* The tokens u are t and then the n tokens s.                             *)
Precedes(t, s, u, n) ==
  /\ Len(s) = n /\ Len(u) = n + 1 /\ u[1] = t /\ Open(u, 1) = 0
  /\ \A i \in 1 .. n : u[i + 1] = s[i]
  /\ Deep(t) \in Int
  /\ \A i \in 1 .. n + 1 : Open(s, i) \in Int /\ Open(u, i + 1) = Open(s, i) + Deep(t)

LEMMA OpenCons ==
  ASSUME NEW S, NEW s \in Seq(S), NEW t \in S, NEW u, u = <<t>> \o s
  PROVE  \E n \in Nat : Precedes(t, s, u, n)
<1>1. PICK n \in Nat : n = Len(s)
  OBVIOUS
<1>2. u \in Seq(S) /\ Len(u) = n + 1 /\ u[1] = t /\ \A i \in 1 .. n : u[i + 1] = s[i]
  BY <1>1
<1>3. Open(u, 1) = 0 /\ Open(s, 1) = 0 /\ Deep(t) \in Int /\ Open(u, 1 + 1) = Deep(t)
  <2>1. 1 \in 1 .. Len(u)
    BY <1>2
  <2>2. Open(u, 1) = 0 /\ Open(s, 1) = 0
    BY <1>2, OpenFirst
  <2>3. Deep(u[1]) \in Int /\ Open(u, 1 + 1) = Open(u, 1) + Deep(u[1])
    BY <1>2, <2>1, OpenStep
  <2> QED BY <1>2, <2>2, <2>3
<1> DEFINE G == {i \in 1 .. n + 1 : Open(u, i + 1) = Open(s, i) + Deep(t)}
<1>4. 1 \in G
  BY <1>3
<1>5. \A i \in 1 .. (n + 1) - 1 : i \in G => i + 1 \in G
  <2> SUFFICES ASSUME NEW i \in 1 .. n, Open(u, i + 1) = Open(s, i) + Deep(t)
               PROVE  Open(u, (i + 1) + 1) = Open(s, i + 1) + Deep(t)
    OBVIOUS
  <2>1. Open(s, i) \in Int /\ Deep(s[i]) \in Int /\ Open(s, i + 1) = Open(s, i) + Deep(s[i])
    BY <1>1, OpenStep
  <2>2. i + 1 \in 1 .. Len(u) /\ u[i + 1] = s[i]
    BY <1>2
  <2>3. Open(u, (i + 1) + 1) = Open(u, i + 1) + Deep(s[i])
    BY <1>2, <2>2, OpenStep
  <2> QED BY <1>3, <2>1, <2>3
<1>6. \A i \in 1 .. n + 1 : i \in G
  <2>1. 1 \in Int /\ n + 1 \in Int
    OBVIOUS
  <2> HIDE DEF G
  <2> QED BY <1>4, <1>5, <2>1, Upwards
<1>7. \A i \in 1 .. n + 1 : Open(s, i) \in Int
  BY <1>1, OpenTyped
<1>8. Precedes(t, s, u, n)
  <2> HIDE DEF G
  <2>1. \A i \in 1 .. n + 1 : Open(u, i + 1) = Open(s, i) + Deep(t)
    BY <1>6 DEF G
  <2> QED BY <1>1, <1>2, <1>3, <1>7, <2>1 DEF Precedes
<1> QED BY <1>8

(* What a sequence of tokens should be that is found where d nodes are     *)
(* open, and after the root if e.                                          *)
RootAt(s, d, i) == s[i].tag = "begin" /\ d + Open(s, i) = 0
Balanced(s, d, e) ==
  /\ \A i \in 1 .. Len(s) : s[i].tag # "bad" /\ d + Open(s, i) >= 0
  /\ d + Open(s, Len(s) + 1) = 0
  /\ \A i \in 1 .. Len(s) : RootAt(s, d, i) => s[i].name = <<>> /\ s[i].val = <<>> /\ d = 0 /\ ~e
  /\ \A i, j \in 1 .. Len(s) : RootAt(s, d, i) /\ RootAt(s, d, j) => i = j

LEMMA DeepIs ==
  ASSUME NEW t
  PROVE  /\ t.tag = "begin" => Deep(t) = 1
         /\ t.tag = "end" => Deep(t) = -1
         /\ t.tag = "prop" => Deep(t) = 0
BY DEF Deep, One

LEMMA BalancedEmpty ==
  ASSUME NEW e PROVE Balanced(<<>>, 0, e)
<1>1. <<>> \in Seq({}) /\ Len(<<>>) = 0 /\ 1 .. Len(<<>>) = {}
  OBVIOUS
<1>2. Open(<<>>, 1) = 0
  BY <1>1, OpenFirst
<1>3. 0 + Open(<<>>, Len(<<>>) + 1) = 0
  BY <1>1, <1>2
<1> QED BY <1>1, <1>3 DEF Balanced

LEMMA BalancedCons ==
  ASSUME NEW S, NEW s \in Seq(S), NEW t \in S, NEW d \in Nat,
         t.tag \in {"begin", "end", "prop"},
         t.tag = "begin" /\ d = 0 => t.name = <<>> /\ t.val = <<>>,
         t.tag = "end" => d > 0,
         Balanced(s, d + Deep(t), t.tag = "end" /\ d = 1)
  PROVE  Balanced(<<t>> \o s, d, FALSE)
<1>1. PICK u : u = <<t>> \o s
  OBVIOUS
<1>2. PICK n \in Nat : Precedes(t, s, u, n)
  BY <1>1, OpenCons
<1>3. /\ Len(s) = n /\ Len(u) = n + 1 /\ u[1] = t /\ Open(u, 1) = 0
      /\ \A i \in 1 .. n : u[i + 1] = s[i]
      /\ \A i \in 1 .. n + 1 : Open(s, i) \in Int /\ Open(u, i + 1) = Open(s, i) + Deep(t)
  BY <1>2 DEF Precedes
<1>4. PICK x \in Int : /\ x = Deep(t)
                       /\ t.tag = "begin" => x = 1
                       /\ t.tag = "end" => x = -1
                       /\ t.tag = "prop" => x = 0
  BY DeepIs
<1>5. /\ \A i \in 1 .. n : s[i].tag # "bad" /\ (d + x) + Open(s, i) >= 0
      /\ (d + x) + Open(s, n + 1) = 0
      /\ \A i \in 1 .. n : RootAt(s, d + x, i) =>
           s[i].name = <<>> /\ s[i].val = <<>> /\ d + x = 0 /\ ~(t.tag = "end" /\ d = 1)
      /\ \A i, j \in 1 .. n : RootAt(s, d + x, i) /\ RootAt(s, d + x, j) => i = j
  BY <1>3, <1>4 DEF Balanced
<1>6. \A i \in 1 .. n + 1 : d + Open(u, i + 1) = (d + x) + Open(s, i)
  BY <1>3, <1>4
<1>7. \A i \in 1 .. n : RootAt(u, d, i + 1) <=> RootAt(s, d + x, i)
  <2> SUFFICES ASSUME NEW i \in 1 .. n PROVE RootAt(u, d, i + 1) <=> RootAt(s, d + x, i)
    OBVIOUS
  <2>1. u[i + 1] = s[i] /\ d + Open(u, i + 1) = (d + x) + Open(s, i)
    BY <1>3, <1>6
  <2> QED BY <2>1 DEF RootAt
<1>8. \A i \in 1 .. n : RootAt(s, d + x, i) => d = 0 /\ t.tag = "prop"
  BY <1>4, <1>5
<1>9. RootAt(u, d, 1) <=> t.tag = "begin" /\ d = 0
  BY <1>3 DEF RootAt
<1>10. ASSUME NEW k \in 1 .. n + 1 PROVE k = 1 \/ \E i \in 1 .. n : k = i + 1
  <2>1. k # 1 => k - 1 \in 1 .. n /\ k = (k - 1) + 1
    OBVIOUS
  <2> QED BY <2>1
<1>11. ASSUME NEW k \in 1 .. n + 1 PROVE u[k].tag # "bad" /\ d + Open(u, k) >= 0
  <2>1. CASE k = 1
    BY <1>3, <2>1
  <2>2. ASSUME NEW i \in 1 .. n, k = i + 1 PROVE u[k].tag # "bad" /\ d + Open(u, k) >= 0
    <3>1. u[k] = s[i] /\ d + Open(u, k) = (d + x) + Open(s, i)
      BY <1>3, <1>6, <2>2
    <3> QED BY <1>5, <3>1
  <2> QED BY <1>10, <2>1, <2>2
<1>12. d + Open(u, (n + 1) + 1) = 0
  BY <1>5, <1>6
<1>13. ASSUME NEW k \in 1 .. n + 1, RootAt(u, d, k)
       PROVE  u[k].name = <<>> /\ u[k].val = <<>> /\ d = 0
  <2>1. CASE k = 1
    BY <1>3, <1>9, <1>13, <2>1
  <2>2. ASSUME NEW i \in 1 .. n, k = i + 1 PROVE u[k].name = <<>> /\ u[k].val = <<>> /\ d = 0
    <3>1. RootAt(s, d + x, i)
      BY <1>7, <1>13, <2>2
    <3> QED BY <1>3, <1>5, <1>8, <2>2, <3>1
  <2> QED BY <1>10, <2>1, <2>2
<1>14. ASSUME NEW k \in 1 .. n + 1, NEW l \in 1 .. n + 1, RootAt(u, d, k), RootAt(u, d, l) PROVE k = l
  <2>1. \A i \in 1 .. n : RootAt(u, d, i + 1) => t.tag = "prop"
    BY <1>7, <1>8
  <2>2. RootAt(u, d, 1) => t.tag # "prop"
    BY <1>9
  <2>3. CASE k = 1
    BY <1>10, <1>14, <2>1, <2>2, <2>3
  <2>4. CASE l = 1
    BY <1>10, <1>14, <2>1, <2>2, <2>4
  <2>5. CASE k # 1 /\ l # 1
    <3>1. PICK i \in 1 .. n : k = i + 1
      BY <1>10, <2>5
    <3>2. PICK j \in 1 .. n : l = j + 1
      BY <1>10, <2>5
    <3> QED BY <1>5, <1>7, <1>14, <3>1, <3>2
  <2> QED BY <2>3, <2>4, <2>5
<1>15. Len(u) = n + 1
  BY <1>3
<1> QED BY <1>1, <1>11, <1>12, <1>13, <1>14, <1>15 DEF Balanced

(***************************************************************************)
(* What fdt_next_tag has read is a token of the blob.                      *)
(***************************************************************************)
(* A string that ends n bytes on.                                          *)
EndsAt(c, at, n) == Byte(c, at + n) = 0 /\ \A i \in 0 .. n - 1 : Byte(c, at + i) # 0

LEMMA CStringIs ==
  ASSUME NEW c, NEW at \in Int, NEW n \in Nat, c.totalsize \in Nat, n <= c.totalsize, EndsAt(c, at, n)
  PROVE  CString(c, at) = Bytes(c, at, n)
<1> DEFINE IsNul(p) == Byte(c, p) = 0 /\ \A q \in at .. p - 1 : Byte(c, q) # 0
           nul == CHOOSE p \in at .. at + c.totalsize : IsNul(p)
<1>1. \A q \in at .. (at + n) - 1 : Byte(c, q) # 0
  <2> TAKE q \in at .. (at + n) - 1
  <2>1. q - at \in 0 .. n - 1 /\ at + (q - at) = q
    OBVIOUS
  <2>2. Byte(c, at + (q - at)) # 0
    BY <2>1 DEF EndsAt
  <2> QED BY <2>1, <2>2
<1>2. IsNul(at + n) /\ at + n \in at .. at + c.totalsize
  BY <1>1 DEF EndsAt
<1>3. nul \in at .. at + c.totalsize /\ IsNul(nul)
  <2> HIDE DEF IsNul
  <2> QED BY <1>2
<1>4. nul = at + n
  BY <1>1, <1>2, <1>3
<1>5. CString(c, at) = Bytes(c, at, nul - at)
  BY DEF CString
<1> HIDE DEF nul
<1>6. nul - at = n
  BY <1>4
<1> QED BY <1>5, <1>6

LEMMA NameEndRead ==
  ASSUME NEW m, NEW c \in BlobsIn(m), NEW o \in Nat, name_end(c, o) >= 0
  PROVE  \E n \in Nat : name_end(c, o) = o + n + 1 /\ InBlock(c, o, n + 1) /\ EndsAt(c, At(c, o), n)
<1>1. PICK f : Scans(c, o, f) /\ name_end(c, o) = f[o]
  BY NameScanned
<1>2. PICK t \in Nat, s \in Nat : t = c.totalsize /\ s = c.off_dt_struct
  BY BlobFacts
<1>3. PICK z \in Nat : z = o + t + 1
  OBVIOUS
<1>4. \A p \in o .. z : f[p] \in Int /\ f[p] = NameStep(c, f, p)
  BY <1>1, <1>2, <1>3 DEF Scans
<1> DEFINE Ended_(p, n) == f[p] = p + n + 1 /\ InBlock(c, p, n + 1) /\ EndsAt(c, At(c, p), n)
           G == {p \in o .. z : f[p] = -1 \/ \E n \in Nat : Ended_(p, n)}
<1>5. ASSUME NEW p \in o .. z, p < z => p + 1 \in G PROVE p \in G
  <2>1. f[p] = NameStep(c, f, p) /\ p \in Nat
    BY <1>4
  <2>2. CASE ~fdt_offset_ptr(c, p, 1)
    BY <2>1, <2>2 DEF NameStep
  <2>3. CASE fdt_offset_ptr(c, p, 1) /\ Byte(c, At(c, p)) = 0
    <3>1. f[p] = p + 0 + 1
      BY <2>1, <2>3 DEF NameStep
    <3>2. InBlock(c, p, 0 + 1)
      BY <2>1, <2>3, PtrIs, OneIsSmall
    <3>3. EndsAt(c, At(c, p), 0)
      BY <1>2, <2>1, <2>3 DEF EndsAt, At
    <3>4. Ended_(p, 0)
      BY <3>1, <3>2, <3>3
    <3> HIDE DEF Ended_
    <3> QED BY <3>4
  <2>4. CASE fdt_offset_ptr(c, p, 1) /\ Byte(c, At(c, p)) # 0
    <3>1. f[p] = f[p + 1]
      BY <2>1, <2>4 DEF NameStep
    <3>2. p < t
      BY <1>2, <2>1, <2>4, PtrBound
    <3>3. p + 1 \in G
      BY <1>3, <1>5, <2>1, <3>2
    <3>4. CASE f[p + 1] = -1
      BY <3>1, <3>4
    <3>5. ASSUME NEW n \in Nat, Ended_(p + 1, n) PROVE Ended_(p, n + 1)
      <4>1. f[p] = p + (n + 1) + 1
        BY <2>1, <3>1, <3>5
      <4>2. InBlock(c, p, (n + 1) + 1)
        <5>1. InBlock(c, p + 1, n + 1)
          BY <3>5
        <5>2. s + (p + 1) + (n + 1) <= t
          BY <1>2, <5>1 DEF InBlock
        <5>3. c.version >= 17 => (p + 1) + (n + 1) <= c.size_dt_struct /\ c.size_dt_struct \in Nat
          BY <5>1, BlobFacts DEF InBlock
        <5>4. s + p + ((n + 1) + 1) <= t
          BY <2>1, <5>2
        <5>5. c.version >= 17 => p + ((n + 1) + 1) <= c.size_dt_struct
          BY <2>1, <5>3
        <5> QED BY <1>2, <2>1, <5>4, <5>5 DEF InBlock
      <4>3. EndsAt(c, At(c, p), n + 1)
        <5>1. PICK a \in Int : a = At(c, p) /\ At(c, p + 1) = a + 1
          BY <1>2, <2>1 DEF At
        <5>2. EndsAt(c, a + 1, n) /\ Byte(c, a) # 0
          BY <2>4, <3>5, <5>1
        <5>3. Byte(c, a + (n + 1)) = 0
          <6>1. (a + 1) + n = a + (n + 1)
            OBVIOUS
          <6> QED BY <5>2, <6>1 DEF EndsAt
        <5>4. \A i \in 0 .. (n + 1) - 1 : Byte(c, a + i) # 0
          <6> TAKE i \in 0 .. (n + 1) - 1
          <6>1. CASE i = 0
            <7>1. a + i = a
              BY <6>1
            <7> QED BY <5>2, <7>1
          <6>2. CASE i # 0
            <7>1. i - 1 \in 0 .. n - 1 /\ (a + 1) + (i - 1) = a + i
              BY <6>2
            <7>2. Byte(c, (a + 1) + (i - 1)) # 0
              BY <5>2, <7>1 DEF EndsAt
            <7> QED BY <7>1, <7>2
          <6> QED BY <6>1, <6>2
        <5> QED BY <5>1, <5>3, <5>4 DEF EndsAt
      <4> QED BY <4>1, <4>2, <4>3
    <3>6. f[p + 1] = -1 \/ \E n \in Nat : Ended_(p + 1, n)
      BY <3>3
    <3>7. \A n \in Nat : n + 1 \in Nat
      OBVIOUS
    <3> HIDE DEF Ended_
    <3> QED BY <3>4, <3>5, <3>6, <3>7
  <2> QED BY <2>2, <2>3, <2>4
<1>6. \A p \in o .. z : p \in G
  <2>1. o \in Int /\ z \in Int
    OBVIOUS
  <2> HIDE DEF G
  <2> QED BY <1>5, <2>1, Downwards
<1>7. o \in G
  <2>1. o \in o .. z
    BY <1>3
  <2> HIDE DEF G
  <2> QED BY <1>6, <2>1
<1>8. f[o] # -1
  BY <1>1
<1> QED BY <1>1, <1>7, <1>8

LEMMA InStop ==
  ASSUME NEW m, NEW c \in BlobsIn(m), NEW o, NEW n \in Nat, InBlock(c, o, n)
  PROVE  /\ o \in Nat /\ At(c, o) \in Nat /\ At(c, o) + n <= StructStop(c) /\ StructStop(c) \in Nat
         /\ At(c, o) + n <= c.totalsize
<1>1. PICK s \in Nat, t \in Nat, z \in Nat : s = c.off_dt_struct /\ t = c.totalsize /\ z = c.size_dt_struct
  BY BlobFacts
<1>2. o \in Nat /\ s + o + n <= t /\ (c.version >= 17 => o + n <= z) /\ At(c, o) = s + o
  BY <1>1 DEF InBlock, At
<1>3. c.version \in Nat
  BY BlobFacts
<1>4. CASE c.version < 17
  <2>1. StructStop(c) = t
    BY <1>1, <1>4 DEF StructStop
  <2> QED BY <1>1, <1>2, <2>1
<1>5. CASE c.version >= 17
  <2>1. StructStop(c) = s + z
    BY <1>1, <1>3, <1>5 DEF StructStop
  <2>2. s + o + n <= s + z /\ s + z \in Nat
    BY <1>2, <1>5
  <2> QED BY <1>1, <1>2, <2>1, <2>2
<1> QED BY <1>3, <1>4, <1>5

(* A tag that has been read without an error.                              *)
Read(c, o, t, end) ==
  /\ o \in Nat /\ InBlock(c, o, Cell) /\ t.tag = LoadCell(c, At(c, o))
  /\ end \in Nat /\ end = tag_end(c, t.tag, o + Cell) /\ o + Cell <= end
  /\ t.next = FDT_TAGALIGN(end) /\ fdt_offset_ptr(c, o, end - o)

LEMMA TagRead ==
  ASSUME NEW m, NEW c \in BlobsIn(m), NEW o \in Int, NEW t, t = fdt_next_tag(c, o), t.next >= 0
  PROVE  \E end : Read(c, o, t, end)
<1> DEFINE tag == StructCell(c, o)
           end == tag_end(c, tag, o + Cell)
<1>1. -FDT_ERR_TRUNCATED < 0 /\ -FDT_ERR_BADSTRUCTURE < 0
  BY DEF FDT_ERR_TRUNCATED, FDT_ERR_BADSTRUCTURE
<1>2. t = IF ~fdt_offset_ptr(c, o, Cell) THEN [tag |-> FDT_END, next |-> -FDT_ERR_TRUNCATED]
          ELSE IF end < 0 \/ ~fdt_offset_ptr(c, o, end - o)
               THEN [tag |-> FDT_END, next |-> -FDT_ERR_BADSTRUCTURE]
               ELSE [tag |-> tag, next |-> FDT_TAGALIGN(end)]
  BY NextTagIs
<1> HIDE DEF end
<1>3. fdt_offset_ptr(c, o, Cell) /\ ~(end < 0) /\ fdt_offset_ptr(c, o, end - o)
  <2>1. SUFFICES ASSUME ~fdt_offset_ptr(c, o, Cell) \/ end < 0 \/ ~fdt_offset_ptr(c, o, end - o)
                 PROVE  FALSE
    OBVIOUS
  <2>2. t.next = -FDT_ERR_TRUNCATED \/ t.next = -FDT_ERR_BADSTRUCTURE
    <3> HIDE DEF tag
    <3> QED BY <1>2, <2>1
  <2> QED BY <1>1, <2>2 DEF FDT_ERR_TRUNCATED, FDT_ERR_BADSTRUCTURE
<1>4. InBlock(c, o, Cell)
  BY <1>3, PtrIs, CellsAreSmall
<1>5. o \in Nat /\ o + Cell \in Nat
  BY <1>4, CellPos DEF InBlock
<1>6. end = -1 \/ (end \in Nat /\ o + Cell <= end)
  BY <1>5, TagEndFacts DEF end
<1>7. end \in Nat /\ o + Cell <= end
  BY <1>3, <1>6
<1>8. t.tag = tag /\ t.next = FDT_TAGALIGN(end)
  <2> HIDE DEF tag
  <2> QED BY <1>2, <1>3
<1>9. t.tag = LoadCell(c, At(c, o)) /\ end = tag_end(c, t.tag, o + Cell)
  BY <1>8 DEF StructCell, end
<1>10. Read(c, o, t, end)
  BY <1>3, <1>4, <1>5, <1>7, <1>8, <1>9 DEF Read
<1> QED BY <1>10

LEMMA ReadFrom ==
  ASSUME NEW m, NEW c \in BlobsIn(m), c.magic # "FDT_SW_MAGIC", NEW o \in Int, NEW t, NEW end,
         Read(c, o, t, end)
  PROVE  \A f : TokensFrom(c, f, At(c, o)) = TagFrom(c, f, At(c, o), t.tag)
<1>1. At(c, o) \in Nat /\ At(c, o) + Cell <= StructStop(c) /\ StructStop(c) \in Nat
  BY InStop, CellPos DEF Read
<1>2. ~(At(c, o) + Cell > StructStop(c))
  BY <1>1, CellPos
<1> QED BY <1>2 DEF TokensFrom, Read

(* Tags without anything after them: what is read at offset o, whose tag   *)
(* is the given one, and then from offset n on.                            *)
Bare(c, o, n, tag) ==
  /\ tag = FDT_END => \A f : TokensFrom(c, f, At(c, o)) = <<>>
  /\ tag = FDT_NOP => \A f : TokensFrom(c, f, At(c, o)) = f[At(c, n)]
  /\ tag = FDT_END_NODE =>
       \A f : TokensFrom(c, f, At(c, o)) = Token(c, At(c, o), "end", <<>>, <<>>) \o f[At(c, n)]

LEMMA ReadBare ==
  ASSUME NEW m, NEW c \in BlobsIn(m), c.magic # "FDT_SW_MAGIC", NEW o \in Nat, Aligned(o),
         NEW t, NEW end, Read(c, o, t, end), t.tag \in {FDT_END, FDT_NOP, FDT_END_NODE}
  PROVE  Bare(c, o, t.next, t.tag)
<1>1. end = o + Cell
  BY TagEndIs DEF Read
<1>2. t.next = o + Cell
  BY <1>1, AlignedFrom DEF Read
<1>3. At(c, t.next) = At(c, o) + Cell
  BY <1>2, BlobFacts, CellPos DEF At
<1>4. \A f : TokensFrom(c, f, At(c, o)) = TagFrom(c, f, At(c, o), t.tag)
  BY ReadFrom
<1>5. \A f : /\ TagFrom(c, f, At(c, o), FDT_END) = <<>>
             /\ TagFrom(c, f, At(c, o), FDT_NOP) = f[At(c, o) + Cell]
             /\ TagFrom(c, f, At(c, o), FDT_END_NODE) =
                  Token(c, At(c, o), "end", <<>>, <<>>) \o f[At(c, o) + Cell]
  BY TagFromIs
<1> QED BY <1>3, <1>4, <1>5 DEF Bare

(* The beginning of a node.                                                *)
Begins(c, o, n, name) ==
  /\ name \in Seq(Octet)
  /\ \A f : TokensFrom(c, f, At(c, o)) = Token(c, At(c, o), "begin", name, <<>>) \o f[At(c, n)]

LEMMA ReadBegin ==
  ASSUME NEW m, NEW c \in BlobsIn(m), c.magic # "FDT_SW_MAGIC", NEW o \in Nat, Aligned(o),
         NEW t, NEW end, Read(c, o, t, end), t.tag = FDT_BEGIN_NODE, NEW name,
         name = CString(c, At(c, o) + Cell)
  PROVE  Begins(c, o, t.next, name)
<1>1. PICK k \in Nat, q \in Nat : k = Cell /\ q = o + k
  BY CellPos
<1>2. PICK s \in Nat, z \in Nat : s = c.off_dt_struct /\ z = c.totalsize
  BY BlobFacts
<1>3. At(c, o) = s + o /\ At(c, q) = (s + o) + k
  BY <1>1, <1>2 DEF At
<1>4. end = name_end(c, q) /\ end >= 0
  BY <1>1, TagEndIs DEF Read
<1>5. PICK n \in Nat : end = q + n + 1 /\ InBlock(c, q, n + 1) /\ EndsAt(c, At(c, q), n)
  BY <1>4, NameEndRead
<1>6. PICK a \in Nat, e \in Nat : a = At(c, q) /\ e = StructStop(c) /\ a + (n + 1) <= e /\ a + (n + 1) <= z
  <2>1. n + 1 \in Nat
    OBVIOUS
  <2> QED BY <1>2, <1>5, <2>1, InStop
<1>7. HasString(c, a, e)
  <2>1. a + n \in a .. e - 1 /\ Byte(c, a + n) = 0
    BY <1>5, <1>6 DEF EndsAt
  <2> QED BY <1>6, <2>1 DEF HasString
<1>8. CString(c, a) = Bytes(c, a, n)
  <2>1. n <= c.totalsize /\ c.totalsize \in Nat
    BY <1>2, <1>6
  <2> QED BY <1>5, <1>6, <2>1, CStringIs
<1>9. name = Bytes(c, a, n) /\ name \in Seq(Octet) /\ Len(name) = n
  <2>1. a = At(c, o) + Cell
    BY <1>1, <1>3, <1>6
  <2>2. a + n <= c.totalsize
    BY <1>2, <1>6
  <2> QED BY <1>8, <2>1, <2>2, BytesTyped
<1>10. At(c, t.next) = At(c, o) + Cell + FDT_TAGALIGN(Len(name) + 1)
  <2>1. PICK y \in Nat : y = FDT_TAGALIGN(n + 1)
    BY AlignBounds
  <2>2. FDT_TAGALIGN(o + Cell + (n + 1)) = o + Cell + y
    BY <2>1, AlignedFrom
  <2>3. o + Cell + (n + 1) = end
    BY <1>1, <1>5
  <2>4. t.next = o + k + y
    BY <1>1, <2>2, <2>3 DEF Read
  <2>5. At(c, t.next) = s + (o + k + y)
    BY <1>2, <2>4 DEF At
  <2> QED BY <1>1, <1>3, <1>9, <2>1, <2>5
<1>11. HasString(c, At(c, o) + Cell, StructStop(c))
  BY <1>1, <1>3, <1>6, <1>7
<1>12. ASSUME NEW f
       PROVE  TokensFrom(c, f, At(c, o)) = Token(c, At(c, o), "begin", name, <<>>) \o f[At(c, t.next)]
  <2>1. TokensFrom(c, f, At(c, o)) = TagFrom(c, f, At(c, o), FDT_BEGIN_NODE)
    BY ReadFrom
  <2>2. TagFrom(c, f, At(c, o), FDT_BEGIN_NODE) = BeginFrom(c, f, At(c, o), name)
    BY <1>11, TagFromIs
  <2>3. BeginFrom(c, f, At(c, o), name) =
          Token(c, At(c, o), "begin", name, <<>>) \o f[At(c, o) + Cell + FDT_TAGALIGN(Len(name) + 1)]
    BY DEF BeginFrom
  <2> QED BY <1>10, <2>1, <2>2, <2>3
<1> QED BY <1>9, <1>12 DEF Begins

LEMMA PropertyEndIs ==
  ASSUME NEW m, NEW c \in BlobsIn(m), NEW p \in Nat, NEW v, v = property_end(c, p), v >= 0
  PROVE  /\ InBlock(c, p, Cell) /\ StructCell(c, p) \in Nat
         /\ v = p + 2 * Cell + StructCell(c, p) /\ 2 * Cell + StructCell(c, p) < INT_MAX + 2 * Cell
<1>1. fdt_offset_ptr(c, p, Cell)
  <2>1. SUFFICES ASSUME ~fdt_offset_ptr(c, p, Cell) PROVE FALSE
    OBVIOUS
  <2>2. v = -1
    BY <2>1 DEF property_end
  <2> QED BY <2>2
<1>2. InBlock(c, p, Cell)
  BY <1>1, PtrIs, CellsAreSmall
<1>3. PICK len \in Nat : len = StructCell(c, p) /\ len < WordSize
  BY <1>2, CellLoaded, WordRange
<1>4. p < WordSize
  <2>1. PICK s \in Nat, t \in Nat : s = c.off_dt_struct /\ t = c.totalsize /\ t < WordSize
    BY BlobFacts, BlobWords, WordRange
  <2> QED BY <1>2, <2>1, CellPos, WordFacts DEF InBlock
<1>5. PICK x \in Nat, sum \in Nat, c2 \in Nat : x = INT_MAX /\ sum = Wrap(len + p) /\ c2 = 2 * Cell
  BY <1>3, <1>4, NoWrap, WordFacts, CellFacts
<1>6. v = IF x <= sum \/ sum < p THEN -1 ELSE p + c2 + len
  BY <1>1, <1>3, <1>5 DEF property_end
<1>7. sum >= p => sum = len + p
  <2>1. len + p = p + len
    OBVIOUS
  <2> QED BY <1>3, <1>4, <1>5, <2>1, NoWrap
<1>8. v = p + c2 + len /\ len < x
  BY <1>6, <1>7
<1> QED BY <1>2, <1>3, <1>5, <1>8

(* A property with a name and a value.                                     *)
NameAt(c, o) == c.off_dt_strings + Signed(LoadCell(c, At(c, o) + 2 * Cell))

LEMMA ReadProp ==
  ASSUME NEW m, NEW c \in BlobsIn(m), c.magic # "FDT_SW_MAGIC", NEW o \in Nat, Aligned(o),
         NEW t, NEW end, Read(c, o, t, end), t.tag = FDT_PROP,
         NameAt(c, o) \in Nat, HasString(c, NameAt(c, o), c.totalsize)
  PROVE  \E val \in Seq(Octet), name \in Seq(Octet) :
           \A f : TokensFrom(c, f, At(c, o)) = Token(c, At(c, o), "prop", name, val) \o f[At(c, t.next)]
<1>1. PICK k \in Nat, c2 \in Nat, c3 \in Nat, q \in Nat :
        k = Cell /\ c2 = 2 * Cell /\ c3 = 3 * Cell /\ c3 = k + c2 /\ q = o + k
  BY CellFacts
<1>2. PICK s \in Nat, z \in Nat : s = c.off_dt_struct /\ z = c.totalsize
  BY BlobFacts
<1>3. PICK p \in Nat : p = s + o /\ At(c, o) = p /\ At(c, q) = p + k
  BY <1>1, <1>2 DEF At
<1>4. end = property_end(c, q) /\ end >= 0
  BY <1>1, TagEndIs DEF Read
<1>5. PICK len \in Nat : len = StructCell(c, q) /\ end = q + c2 + len /\ c2 + len < INT_MAX + c2
  BY <1>1, <1>4, PropertyEndIs
<1>6. PICK n \in Nat : n = end - o /\ n = c3 + len /\ n < WordSize
  <2>1. end - o = c3 + len
    BY <1>1, <1>5
  <2>2. c3 + len < WordSize
    <3>1. PICK x \in Nat, w \in Nat : x = INT_MAX /\ w = WordSize /\ x + c3 < w
      BY <1>1, CellsAreSmall, WordFacts
    <3>2. len < x
      BY <1>5, <3>1
    <3> QED BY <3>1, <3>2
  <2>3. c3 + len \in Nat
    OBVIOUS
  <2> QED BY <2>1, <2>2, <2>3
<1>7. InBlock(c, o, n)
  <2>1. fdt_offset_ptr(c, o, n)
    BY <1>6 DEF Read
  <2> QED BY <1>6, <2>1, PtrIs
<1>8. PICK e \in Nat : e = StructStop(c) /\ p + n <= e /\ p + n <= z
  BY <1>2, <1>3, <1>7, InStop
<1>9. LoadCell(c, p + k) = len
  BY <1>3, <1>5 DEF StructCell
<1>10. PICK name \in Seq(Octet) : name = CString(c, NameAt(c, o))
  <2>1. c.totalsize <= c.totalsize /\ c.totalsize \in Nat
    BY <1>2
  <2> QED BY <2>1, CStringTyped
<1>11. PICK val \in Seq(Octet) : val = Bytes(c, p + c3, len)
  <2>1. p + c3 \in Nat /\ (p + c3) + len <= z
    BY <1>6, <1>8
  <2> QED BY <1>2, <2>1, BytesTyped
<1>12. At(c, t.next) = p + c3 + FDT_TAGALIGN(len)
  <2>1. PICK y \in Nat : y = FDT_TAGALIGN(len)
    BY AlignBounds
  <2>2. FDT_TAGALIGN(o + 3 * Cell + len) = o + 3 * Cell + y
    BY <2>1, AlignedFrom
  <2>3. end = o + c3 + len
    BY <1>1, <1>5
  <2>4. t.next = o + c3 + y
    BY <1>1, <2>2, <2>3 DEF Read
  <2>5. At(c, t.next) = s + (o + c3 + y)
    BY <1>2, <2>4 DEF At
  <2> QED BY <1>3, <2>1, <2>5
<1>13. ASSUME NEW f
       PROVE  TokensFrom(c, f, At(c, o)) = Token(c, At(c, o), "prop", name, val) \o f[At(c, t.next)]
  <2>1. TokensFrom(c, f, At(c, o)) = TagFrom(c, f, At(c, o), FDT_PROP)
    BY ReadFrom
  <2>2. TagFrom(c, f, p, FDT_PROP) = PropFrom(c, f, p, len, NameAt(c, o))
    <3>1. ~(p + 3 * Cell > StructStop(c))
      BY <1>1, <1>6, <1>8
    <3>2. TagFrom(c, f, p, FDT_PROP) =
            PropFrom(c, f, p, LoadCell(c, p + Cell), c.off_dt_strings + Signed(LoadCell(c, p + 2 * Cell)))
      BY <3>1, TagFromIs
    <3> QED BY <1>1, <1>3, <1>9, <3>2 DEF NameAt
  <2>3. ~(p + 3 * Cell + len > StructStop(c))
    BY <1>1, <1>6, <1>8
  <2>4. PropFrom(c, f, p, len, NameAt(c, o)) =
          Token(c, p, "prop", name, val) \o f[p + 3 * Cell + FDT_TAGALIGN(len)]
    BY <1>1, <1>10, <1>11, <2>3 DEF PropFrom
  <2> QED BY <1>1, <1>3, <1>12, <2>1, <2>2, <2>4
<1> QED BY <1>10, <1>11, <1>13

(***************************************************************************)
(* What fdt_check_full has not refused.                                    *)
(***************************************************************************)
Errors == {FDT_ERR_BADOFFSET, FDT_ERR_TRUNCATED, FDT_ERR_BADSTRUCTURE}

LEMMA ErrorsAreNegative == \A e \in Errors : -e < 0 /\ -e \in Int
BY DEF Errors, FDT_ERR_BADOFFSET, FDT_ERR_TRUNCATED, FDT_ERR_BADSTRUCTURE

(* A string that has been found lies in the blob.                          *)
LEMMA StringRoom ==
  ASSUME NEW m, NEW c \in BlobsIn(m), c.magic = "FDT_MAGIC", c.off_dt_strings <= c.totalsize,
         c.totalsize <= INT_MAX, NEW x \in Int, x <= INT_MAX,
         NEW room, room = string_room(c, x, c.totalsize), ~(room < 0)
  PROVE  /\ c.off_dt_strings + x \in Nat /\ Wrap(x + c.off_dt_strings) = c.off_dt_strings + x
         /\ room \in Int /\ c.off_dt_strings + x + room <= c.totalsize
<1>1. PICK s \in Nat, t \in Nat, z \in Nat, v \in Nat, y \in Nat, w \in Nat :
        /\ s = c.off_dt_strings /\ t = c.totalsize /\ z = c.size_dt_strings /\ v = c.version
        /\ y = INT_MAX /\ w = WordSize /\ w = 2 * y + 2 /\ s <= t /\ t <= y /\ x <= y
  BY BlobFacts, BlobWords, WordRange, WordFacts
<1> DEFINE abs == Wrap(x + s)
           left == t - abs
           least(i, j) == IF i < j THEN i ELSE j
<1>2. room = IF abs >= t THEN -1
             ELSE IF x < 0 \/ (v >= 17 /\ x >= z) THEN -1
             ELSE IF v >= 17 THEN least(left, z - x) ELSE left
  BY <1>1 DEF string_room
<1> HIDE DEF abs
<1>3. abs \in Int
  BY WrapFacts, WordRange DEF abs
<1>4. ~(abs >= t) /\ ~(x < 0)
  BY <1>2
<1>5. room \in Int /\ room <= left
  BY <1>2, <1>3, <1>4
<1>6. abs \in Nat /\ x \in Nat
  <2>1. x + s \in Int
    OBVIOUS
  <2>2. abs \in Word
    BY <2>1, WrapFacts DEF abs
  <2> QED BY <1>4, <2>2, WordRange
<1>7. abs = x + s
  <2>1. CASE x + s < w
    <3>1. x + s \in Word
      BY <1>1, <1>6, <2>1, WordIs
    <3> QED BY <3>1, WrapFacts DEF abs
  <2>2. CASE x + s >= w
    <3>1. x + s < 2 * w
      BY <1>1, <1>6
    <3>2. abs = x + s - w
      BY <1>1, <2>2, <3>1, WrapFacts DEF abs
    <3> QED BY <1>1, <1>4, <1>6, <2>2, <3>2
  <2> QED BY <2>1, <2>2
<1>8. Wrap(x + c.off_dt_strings) = abs
  BY <1>1 DEF abs
<1>9. s + x = abs /\ s + x \in Nat /\ s + x + room <= t
  BY <1>5, <1>6, <1>7
<1> QED BY <1>1, <1>5, <1>8, <1>9

LEMMA StringFound ==
  ASSUME NEW m, NEW c \in BlobsIn(m), c.magic = "FDT_MAGIC", c.off_dt_strings <= c.totalsize,
         c.totalsize <= INT_MAX, NEW x \in Int, x <= INT_MAX, ~(fdt_get_string(c, x).len < 0)
  PROVE  c.off_dt_strings + x \in Nat /\ HasString(c, c.off_dt_strings + x, c.totalsize)
<1> DEFINE at == Wrap(x + c.off_dt_strings)
           probe == fdt_ro_probe_(c)
           within(room) ==
             IF room < 0 THEN Failure(-FDT_ERR_BADOFFSET)
             ELSE IF \A i \in 0 .. room - 1 : Byte(c, at + i) # 0
                  THEN Failure(-FDT_ERR_TRUNCATED)
             ELSE Text(CString(c, at))
           room == string_room(c, x, c.totalsize)
<1>1. fdt_get_string(c, x) = IF probe < 0 THEN Failure(probe) ELSE within(string_room(c, x, probe))
  BY DEF fdt_get_string
<1>2. \A e : Failure(e).len = e
  BY DEF Failure
<1>3. ~(probe < 0)
  <2> HIDE DEF probe, within
  <2> QED BY <1>1, <1>2
<1>4. probe = c.totalsize
  BY <1>3, ErrorsAreNegative DEF fdt_ro_probe_, FDT_ERR_ALIGNMENT, FDT_ERR_BADVERSION,
    FDT_ERR_BADMAGIC, FDT_ERR_TRUNCATED, Errors
<1>5. fdt_get_string(c, x) = within(room)
  <2> HIDE DEF probe, within
  <2> QED BY <1>1, <1>3, <1>4
<1>6. ~(room < 0)
  <2>1. SUFFICES ASSUME room < 0 PROVE FALSE
    OBVIOUS
  <2>2. within(room) = Failure(-FDT_ERR_BADOFFSET)
    <3> HIDE DEF room, at
    <3> QED BY <2>1
  <2>3. fdt_get_string(c, x).len = -FDT_ERR_BADOFFSET
    <3> HIDE DEF within, room
    <3> QED BY <1>2, <1>5, <2>2
  <2> HIDE DEF within, room
  <2> QED BY <2>3, ErrorsAreNegative DEF Errors
<1>7. \E i \in 0 .. room - 1 : Byte(c, at + i) = 0
  <2>1. SUFFICES ASSUME \A i \in 0 .. room - 1 : Byte(c, at + i) # 0 PROVE FALSE
    OBVIOUS
  <2>2. within(room) = Failure(-FDT_ERR_TRUNCATED)
    <3> HIDE DEF room, at
    <3> QED BY <1>6, <2>1
  <2>3. fdt_get_string(c, x).len = -FDT_ERR_TRUNCATED
    <3> HIDE DEF within, room
    <3> QED BY <1>2, <1>5, <2>2
  <2> HIDE DEF within, room
  <2> QED BY <2>3, ErrorsAreNegative DEF Errors
<1>8. PICK p \in Nat, r \in Int, z \in Nat :
        /\ p = c.off_dt_strings + x /\ at = p /\ r = room /\ p + r <= z /\ z = c.totalsize
  <2>1. /\ c.off_dt_strings + x \in Nat /\ at = c.off_dt_strings + x
        /\ room \in Int /\ c.off_dt_strings + x + room <= c.totalsize
    <3> HIDE DEF room
    <3>1. room = string_room(c, x, c.totalsize)
      BY DEF room
    <3> QED BY <1>6, <3>1, StringRoom
  <2> HIDE DEF room, at
  <2> QED BY <2>1, BlobFacts
<1>9. PICK i \in 0 .. r - 1 : Byte(c, p + i) = 0
  BY <1>7, <1>8
<1>10. p + i \in p .. z - 1
  BY <1>8
<1>11. HasString(c, p, z)
  BY <1>9, <1>10 DEF HasString
<1> QED BY <1>8, <1>11

(* What a tag that has not been refused is.                                *)
LEMMA NotRefused ==
  ASSUME NEW c, NEW o, NEW tag, NEW d \in Nat, NEW e \in BOOLEAN, ~(refused(c, o, tag, d, e) < 0)
  PROVE  /\ e => tag \in {FDT_END, FDT_NOP}
         /\ tag = FDT_END => d = 0
         /\ tag = FDT_END_NODE => d > 0
         /\ tag = FDT_BEGIN_NODE /\ d = 0 =>
              ~(fdt_get_name(c, o).len > 0) /\ ~(fdt_get_name(c, o).len < 0)
         /\ tag = FDT_PROP => ~(fdt_getprop_by_offset(c, o).len < 0)
<1> DEFINE root_name(len) == IF len > 0 THEN -FDT_ERR_BADSTRUCTURE ELSE len
           rest == CASE tag = FDT_BEGIN_NODE /\ d = 0 -> root_name(fdt_get_name(c, o).len)
                     [] tag = FDT_END_NODE /\ d = 0 -> -FDT_ERR_BADSTRUCTURE
                     [] tag = FDT_END /\ unclosed(d) -> -FDT_ERR_BADSTRUCTURE
                     [] tag = FDT_PROP -> fdt_getprop_by_offset(c, o).len
                     [] OTHER -> 0
<1>1. -FDT_ERR_BADSTRUCTURE < 0
  BY ErrorsAreNegative DEF Errors
<1>2. refused(c, o, tag, d, e) =
        IF e /\ tag \notin {FDT_END, FDT_NOP} THEN -FDT_ERR_BADSTRUCTURE ELSE rest
  BY DEF refused
<1>3. ~(e /\ tag \notin {FDT_END, FDT_NOP}) /\ ~(rest < 0)
  <2> HIDE DEF rest
  <2> QED BY <1>1, <1>2
<1>4. CASE tag = FDT_BEGIN_NODE /\ d = 0
  <2>1. rest = root_name(fdt_get_name(c, o).len)
    BY <1>4, TagsDiffer, Zenon
  <2>2. ~(root_name(fdt_get_name(c, o).len) < 0)
    <3> HIDE DEF rest, root_name
    <3> QED BY <1>3, <2>1
  <2>3. ~(fdt_get_name(c, o).len > 0) /\ ~(fdt_get_name(c, o).len < 0)
    BY <1>1, <2>2
  <2> HIDE DEF rest, root_name
  <2> QED BY <1>3, <1>4, <2>3, TagsDiffer
<1>5. CASE tag = FDT_END_NODE
  <2>1. d # 0
    <3> SUFFICES ASSUME d = 0 PROVE FALSE
      OBVIOUS
    <3>1. rest = -FDT_ERR_BADSTRUCTURE
      BY <1>5, TagsDiffer, Zenon
    <3> HIDE DEF rest
    <3> QED BY <1>1, <1>3, <3>1
  <2> HIDE DEF rest, root_name
  <2> QED BY <1>3, <1>5, <2>1, TagsDiffer
<1>6. CASE tag = FDT_END
  <2>1. d = 0
    <3> SUFFICES ASSUME unclosed(d) PROVE FALSE
      BY DEF unclosed
    <3>1. rest = -FDT_ERR_BADSTRUCTURE
      BY <1>6, TagsDiffer, Zenon
    <3> HIDE DEF rest
    <3> QED BY <1>1, <1>3, <3>1
  <2> HIDE DEF rest, root_name
  <2> QED BY <1>3, <1>6, <2>1, TagsDiffer
<1>7. CASE tag = FDT_PROP
  <2>1. rest = fdt_getprop_by_offset(c, o).len
    BY <1>7, TagsDiffer, Zenon
  <2> HIDE DEF rest, root_name
  <2> QED BY <1>3, <1>7, <2>1, TagsDiffer
<1>8. CASE tag \notin {FDT_END, FDT_END_NODE, FDT_PROP} /\ ~(tag = FDT_BEGIN_NODE /\ d = 0)
  <2> HIDE DEF rest, root_name
  <2> QED BY <1>3, <1>8
<1> QED BY <1>4, <1>5, <1>6, <1>7, <1>8

LEMMA RootUnnamed ==
  ASSUME NEW c, NEW o, ~(fdt_get_name(c, o).len > 0), ~(fdt_get_name(c, o).len < 0),
         CString(c, At(c, o) + Cell) \in Seq(Octet)
  PROVE  CString(c, At(c, o) + Cell) = <<>>
<1> DEFINE err == IF fdt_ro_probe_(c) < 0 THEN fdt_ro_probe_(c) ELSE fdt_check_node_offset_(c, o)
<1>1. PICK s \in Seq(Octet) : s = CString(c, At(c, o) + Cell)
  OBVIOUS
<1>2. fdt_get_name(c, o) = IF err < 0 THEN Failure(err) ELSE Text(s)
  BY <1>1 DEF fdt_get_name
<1>3. Failure(err).len = err /\ Text(s).len = Len(s)
  BY DEF Failure, Text
<1>4. ~(err < 0) /\ fdt_get_name(c, o).len = Len(s)
  <2> HIDE DEF err
  <2> QED BY <1>2, <1>3
<1>5. Len(s) \in Nat
  OBVIOUS
<1>6. Len(s) = 0
  BY <1>4, <1>5
<1>7. s = <<>>
  BY <1>6
<1> QED BY <1>1, <1>7

LEMMA SignedRange == ASSUME NEW v \in Word PROVE Signed(v) \in Int /\ Signed(v) <= INT_MAX
<1>1. PICK y \in Nat, w \in Nat : y = INT_MAX /\ w = WordSize /\ w = 2 * y + 2 /\ v \in Nat /\ v < w
  BY WordFacts, WordRange
<1>2. Signed(v) = IF v > y THEN v - w ELSE v
  BY <1>1 DEF Signed
<1> QED BY <1>1, <1>2

(* A header that has been checked.                                         *)
Headed(m, c) ==
  /\ c \in BlobsIn(m) /\ c.magic = "FDT_MAGIC"
  /\ c.off_dt_strings <= c.totalsize /\ c.totalsize <= INT_MAX

LEMMA PropNamed ==
  ASSUME NEW m, NEW c, Headed(m, c), NEW o \in Nat, NEW t, NEW end, Read(c, o, t, end),
         t.tag = FDT_PROP, ~(fdt_getprop_by_offset(c, o).len < 0)
  PROVE  NameAt(c, o) \in Nat /\ HasString(c, NameAt(c, o), c.totalsize)
<1>0. c \in BlobsIn(m) /\ c.magic = "FDT_MAGIC" /\ c.off_dt_strings <= c.totalsize /\ c.totalsize <= INT_MAX
  BY DEF Headed
<1>1. PICK p, s : p = fdt_get_property_by_offset(c, o) /\ s = fdt_get_string(c, prop_nameoff(c, o))
  OBVIOUS
<1>2. ~(s.len < 0)
  <2>1. SUFFICES ASSUME s.len < 0 PROVE FALSE
    OBVIOUS
  <2>2. fdt_getprop_by_offset(c, o) =
          IF p.len < 0 THEN p
          ELSE IF s.len < 0 THEN [len |-> s.len, offset |-> s.len]
          ELSE [len |-> p.len, offset |-> o, data |-> p.data, name |-> s.str]
    BY <1>1 DEF fdt_getprop_by_offset
  <2>3. (fdt_getprop_by_offset(c, o).len = p.len /\ p.len < 0) \/ fdt_getprop_by_offset(c, o).len = s.len
    BY <2>1, <2>2
  <2> QED BY <2>1, <2>3
<1>3. PICK n \in Nat : n = 3 * Cell
  BY CellFacts
<1>4. InBlock(c, o + 2 * Cell, Cell)
  <2>1. PICK k \in Nat, c2 \in Nat, q \in Nat : k = Cell /\ c2 = 2 * Cell /\ c2 = k + k /\ q = o + k
    BY CellFacts
  <2>2. end = property_end(c, q) /\ end >= 0
    BY <2>1, TagEndIs DEF Read
  <2>3. PICK len \in Nat, y \in Nat :
          /\ len = StructCell(c, q) /\ end = q + c2 + len /\ y = INT_MAX /\ c2 + len < y + c2
    BY <1>0, <2>1, <2>2, PropertyEndIs, WordFacts
  <2>4. end - o = k + c2 + len
    BY <2>1, <2>3
  <2>5. k + c2 + len \in Nat /\ k + c2 + len < WordSize
    <3>1. PICK w \in Nat : w = WordSize /\ y + (k + c2) < w
      BY <2>1, <2>3, CellsAreSmall, WordFacts
    <3> QED BY <2>3, <3>1
  <2>6. InBlock(c, o, k + c2 + len)
    <3>1. fdt_offset_ptr(c, o, k + c2 + len)
      BY <2>4 DEF Read
    <3> QED BY <1>0, <2>5, <3>1, PtrIs
  <2>7. PICK s0 \in Nat, t0 \in Nat, z0 \in Nat : s0 = c.off_dt_struct /\ t0 = c.totalsize /\ z0 = c.size_dt_struct
    BY <1>0, BlobFacts
  <2>8. s0 + o + (k + c2 + len) <= t0 /\ (c.version >= 17 => o + (k + c2 + len) <= z0)
    BY <2>6, <2>7 DEF InBlock
  <2>9. s0 + (o + c2) + k <= t0 /\ (c.version >= 17 => (o + c2) + k <= z0) /\ o + c2 \in Nat
    BY <2>8
  <2> QED BY <2>1, <2>7, <2>9 DEF InBlock
<1>5. StructCell(c, o + 2 * Cell) \in Word
  BY <1>0, <1>4, CellLoaded DEF InBlock
<1>6. PICK x \in Int : x = prop_nameoff(c, o) /\ x <= INT_MAX
  BY <1>5, SignedRange DEF prop_nameoff
<1>7. StructCell(c, o + 2 * Cell) = LoadCell(c, At(c, o) + 2 * Cell)
  <2>1. PICK c2 \in Nat, s0 \in Nat : c2 = 2 * Cell /\ s0 = c.off_dt_struct
    BY <1>0, CellFacts, BlobFacts
  <2>2. At(c, o + 2 * Cell) = At(c, o) + 2 * Cell
    BY <2>1 DEF At
  <2> QED BY <2>2 DEF StructCell
<1>8. NameAt(c, o) = c.off_dt_strings + x
  BY <1>6, <1>7 DEF NameAt, prop_nameoff
<1>9. ~(fdt_get_string(c, x).len < 0)
  BY <1>1, <1>2, <1>6
<1>10. c.off_dt_strings + x \in Nat /\ HasString(c, c.off_dt_strings + x, c.totalsize)
  BY <1>0, <1>6, <1>9, StringFound
<1> QED BY <1>8, <1>10

(***************************************************************************)
(* One step of the walk.                                                   *)
(***************************************************************************)
Past(tag, d, e) == e \/ (tag = FDT_END_NODE /\ d = 1)

LEMMA CheckFromIs ==
  ASSUME NEW c, NEW w, NEW o, NEW d, NEW e, NEW t, t = fdt_next_tag(c, o), NEW err,
         err = refused(c, o, t.tag, d, e), t.next \in Int
  PROVE  /\ t.next < 0 => check_from(c, w, o, d, e) = t.next
         /\ t.next >= 0 /\ (err < 0 \/ t.tag = FDT_END) => check_from(c, w, o, d, e) = err
         /\ t.next >= 0 /\ ~(err < 0 \/ t.tag = FDT_END) =>
              check_from(c, w, o, d, e) = w[<<t.next, depth_after(d, t.tag), Past(t.tag, d, e)>>]
<1>1. check_from(c, w, o, d, e) =
        CASE t.next < 0 -> t.next
          [] t.next >= 0 /\ (err < 0 \/ t.tag = FDT_END) -> err
          [] OTHER -> w[<<t.next, depth_after(d, t.tag), Past(t.tag, d, e)>>]
  BY DEF check_from, Past
<1>2. t.next < 0 <=> ~(t.next >= 0)
  OBVIOUS
<1> QED BY <1>1, <1>2, Zenon

LEMMA CheckStep ==
  ASSUME NEW m, NEW c \in BlobsIn(m), NEW w, NEW o \in Int, NEW d, NEW e, check_from(c, w, o, d, e) = 0
  PROVE  \E t, end : /\ Read(c, o, t, end) /\ t.next \in Nat /\ ~(refused(c, o, t.tag, d, e) < 0)
                     /\ t.tag # FDT_END => o < t.next
                     /\ t.tag # FDT_END => w[<<t.next, depth_after(d, t.tag), Past(t.tag, d, e)>>] = 0
<1>1. PICK t : t = fdt_next_tag(c, o)
  OBVIOUS
<1>2. t.next \in Int /\ (t.tag # FDT_END => o < t.next)
  BY <1>1, NextTagFacts
<1>3. PICK err : err = refused(c, o, t.tag, d, e)
  OBVIOUS
<1>4. /\ t.next < 0 => check_from(c, w, o, d, e) = t.next
      /\ t.next >= 0 /\ (err < 0 \/ t.tag = FDT_END) => check_from(c, w, o, d, e) = err
      /\ t.next >= 0 /\ ~(err < 0 \/ t.tag = FDT_END) =>
           check_from(c, w, o, d, e) = w[<<t.next, depth_after(d, t.tag), Past(t.tag, d, e)>>]
  BY <1>1, <1>2, <1>3, CheckFromIs
<1>5. t.next >= 0
  BY <1>2, <1>4
<1>6. ~(err < 0)
  BY <1>4, <1>5
<1>7. PICK end : Read(c, o, t, end)
  BY <1>1, <1>5, TagRead
<1>8. t.tag # FDT_END => w[<<t.next, depth_after(d, t.tag), Past(t.tag, d, e)>>] = 0
  BY <1>4, <1>5, <1>6
<1>9. t.next \in Nat /\ ~(refused(c, o, t.tag, d, e) < 0)
  BY <1>2, <1>3, <1>5, <1>6
<1> QED BY <1>2, <1>7, <1>8, <1>9

(* The walk of check_structure is defined.                                 *)
CheckStates == Int \X Int \X BOOLEAN
NoRefusal(c, s) == refused(c, s[1], fdt_next_tag(c, s[1]).tag, s[2], s[3])
CheckValues(c) == Int \union {NoRefusal(c, s) : s \in CheckStates}

LEMMA CheckTyped ==
  ASSUME NEW m, NEW c \in BlobsIn(m), NEW g \in [CheckStates -> CheckValues(c)],
         NEW h \in [CheckStates -> CheckValues(c)], NEW o \in Int, NEW d \in Int, NEW e \in BOOLEAN,
         \A q \in Int, x \in Int, y \in BOOLEAN :
           o \in Nat /\ o < WordSize /\ o < q => g[<<q, x, y>>] = h[<<q, x, y>>]
  PROVE  check_from(c, g, o, d, e) \in CheckValues(c) /\ check_from(c, g, o, d, e) = check_from(c, h, o, d, e)
<1>1. PICK t : t = fdt_next_tag(c, o)
  OBVIOUS
<1>2. t.next \in Int /\ (t.tag # FDT_END => o \in Nat /\ o < WordSize /\ o < t.next)
  BY <1>1, NextTagFacts
<1>3. PICK err : err = refused(c, o, t.tag, d, e)
  OBVIOUS
<1>4. err \in CheckValues(c)
  <2>1. PICK s \in CheckStates : s = <<o, d, e>>
    BY DEF CheckStates
  <2>2. NoRefusal(c, s) = err
    BY <1>1, <1>3, <2>1 DEF NoRefusal
  <2>3. NoRefusal(c, s) \in CheckValues(c)
    BY <2>1 DEF CheckValues
  <2> QED BY <2>2, <2>3
<1>5. PICK u \in CheckStates :
        /\ u = <<t.next, depth_after(d, t.tag), Past(t.tag, d, e)>>
        /\ t.tag # FDT_END => g[u] = h[u]
  <2>1. depth_after(d, t.tag) \in Int /\ Past(t.tag, d, e) \in BOOLEAN
    BY DEF depth_after, Past
  <2>2. PICK x \in Int, y \in BOOLEAN : x = depth_after(d, t.tag) /\ y = Past(t.tag, d, e)
    BY <2>1
  <2>3. <<t.next, x, y>> \in CheckStates
    BY <1>2 DEF CheckStates
  <2>4. t.tag # FDT_END => g[<<t.next, x, y>>] = h[<<t.next, x, y>>]
    BY <1>2
  <2> QED BY <2>2, <2>3, <2>4
<1>6. ASSUME NEW k \in {g, h}
      PROVE  check_from(c, k, o, d, e) = IF t.next < 0 THEN t.next
                                         ELSE IF err < 0 \/ t.tag = FDT_END THEN err ELSE k[u]
  <2>1. /\ t.next < 0 => check_from(c, k, o, d, e) = t.next
        /\ t.next >= 0 /\ (err < 0 \/ t.tag = FDT_END) => check_from(c, k, o, d, e) = err
        /\ t.next >= 0 /\ ~(err < 0 \/ t.tag = FDT_END) => check_from(c, k, o, d, e) = k[u]
    BY <1>1, <1>2, <1>3, <1>5, CheckFromIs
  <2>2. t.next < 0 \/ t.next >= 0
    BY <1>2
  <2> QED BY <2>1, <2>2
<1>7. t.next \in CheckValues(c) /\ g[u] \in CheckValues(c)
  BY <1>2 DEF CheckValues
<1>8. ASSUME NEW k \in {g, h}
      PROVE  check_from(c, k, o, d, e) = IF t.next < 0 THEN t.next
                                         ELSE IF err < 0 \/ t.tag = FDT_END THEN err ELSE g[u]
  <2>1. CASE t.tag = FDT_END
    BY <1>6, <2>1
  <2>2. CASE t.tag # FDT_END
    BY <1>5, <1>6, <2>2
  <2> QED BY <2>1, <2>2
<1>9. check_from(c, g, o, d, e) = check_from(c, h, o, d, e)
  BY <1>8
<1>10. check_from(c, g, o, d, e) \in CheckValues(c)
  BY <1>4, <1>7, <1>8
<1> QED BY <1>9, <1>10

LEMMA CheckIsDefined ==
  ASSUME NEW m, NEW c \in BlobsIn(m)
  PROVE  \E f : /\ \A o \in Int, d \in Int, e \in BOOLEAN : f[<<o, d, e>>] = check_from(c, f, o, d, e)
                /\ check_structure(c) = f[<<0, 0, FALSE>>]
<1>1. PICK N \in Nat : N = WordSize
  BY WordFacts
<1> DEFINE S == CheckStates
           V == CheckValues(c)
           rank == [s \in S |-> IF 0 <= s[1] /\ s[1] <= N THEN N + 1 - s[1] ELSE 0]
           D == [s \in S |-> [g \in [S -> V] |-> check_from(c, g, s[1], s[2], s[3])]]
<1>0. \A s \in S : s[1] \in Int /\ s[2] \in Int /\ s[3] \in BOOLEAN /\ s = <<s[1], s[2], s[3]>>
  BY DEF CheckStates
<1>2. rank \in [S -> 0 .. N + 1]
  BY <1>0
<1>3. ASSUME NEW s \in S, NEW g \in [S -> V], NEW h \in [S -> V], Agree(g, h, S, rank, s)
      PROVE  \A q \in Int, x \in Int, y \in BOOLEAN :
               s[1] \in Nat /\ s[1] < WordSize /\ s[1] < q => g[<<q, x, y>>] = h[<<q, x, y>>]
  <2> SUFFICES ASSUME NEW q \in Int, NEW x \in Int, NEW y \in BOOLEAN,
                      s[1] \in Nat, s[1] < WordSize, s[1] < q
               PROVE  g[<<q, x, y>>] = h[<<q, x, y>>]
    OBVIOUS
  <2>1. PICK u \in S : u = <<q, x, y>> /\ u[1] = q
    <3>1. <<q, x, y>> \in S
      BY DEF CheckStates
    <3>2. <<q, x, y>>[1] = q
      OBVIOUS
    <3> HIDE DEF S
    <3> QED BY <3>1, <3>2
  <2>2. rank[u] < rank[s]
    <3>1. rank[s] = N + 1 - s[1]
      BY <1>1
    <3>2. rank[u] = IF 0 <= q /\ q <= N THEN N + 1 - q ELSE 0
      BY <2>1
    <3> HIDE DEF rank
    <3> QED BY <1>0, <1>1, <3>1, <3>2
  <2> HIDE DEF rank
  <2> QED BY <1>3, <2>1, <2>2 DEF Agree
<1>4. D \in [S -> [[S -> V] -> V]]
  <2> SUFFICES ASSUME NEW s \in S, NEW g \in [S -> V] PROVE check_from(c, g, s[1], s[2], s[3]) \in V
    OBVIOUS
  <2>1. s[1] \in Int /\ s[2] \in Int /\ s[3] \in BOOLEAN
    BY <1>0
  <2> QED BY <2>1, CheckTyped
<1>5. \A s \in S : \A g, h \in [S -> V] : Agree(g, h, S, rank, s) => D[s][g] = D[s][h]
  <2> SUFFICES ASSUME NEW s \in S, NEW g \in [S -> V], NEW h \in [S -> V], Agree(g, h, S, rank, s)
               PROVE  check_from(c, g, s[1], s[2], s[3]) = check_from(c, h, s[1], s[2], s[3])
    <3> HIDE DEF rank
    <3> QED OBVIOUS
  <2>1. s[1] \in Int /\ s[2] \in Int /\ s[3] \in BOOLEAN
    BY <1>0
  <2>2. \A q \in Int, x \in Int, y \in BOOLEAN :
          s[1] \in Nat /\ s[1] < WordSize /\ s[1] < q => g[<<q, x, y>>] = h[<<q, x, y>>]
    BY <1>3
  <2> HIDE DEF rank, D
  <2> QED BY <2>1, <2>2, CheckTyped
<1>6. Recurses(S, V, D, N + 1, rank)
  <2> HIDE DEF S, V, D, rank
  <2> QED BY <1>2, <1>4, <1>5 DEF Recurses
<1>7. PICK f : Solves(S, V, D, f)
  <2>1. 0 \in V /\ N + 1 \in Nat
    BY DEF CheckValues
  <2> HIDE DEF S, V, D, rank
  <2> QED BY <1>6, <2>1, Recursion
<1>8. f \in [S -> V] /\ \A s \in S : f[s] = check_from(c, f, s[1], s[2], s[3])
  <2>1. f \in [S -> V] /\ \A s \in S : f[s] = D[s][f]
    <3> HIDE DEF S, V, D, rank
    <3> QED BY <1>7 DEF Solves
  <2>2. \A s \in S : D[s][f] = check_from(c, f, s[1], s[2], s[3])
    BY <2>1
  <2> HIDE DEF S, V, D, rank
  <2> QED BY <2>1, <2>2
<1>9. f = [s \in S |-> check_from(c, f, s[1], s[2], s[3])]
  <2> HIDE DEF S, V, D, rank
  <2> QED BY <1>8
<1> DEFINE walk == CHOOSE g : g = [s \in S |-> check_from(c, g, s[1], s[2], s[3])]
<1>10. walk = [s \in S |-> check_from(c, walk, s[1], s[2], s[3])]
  <2> HIDE DEF S, V, D, rank
  <2> QED BY <1>9
<1>11. check_structure(c) = walk[<<0, 0, FALSE>>]
  BY DEF check_structure, CheckStates
<1> HIDE DEF walk
<1>12. ASSUME NEW o \in Int, NEW d \in Int, NEW e \in BOOLEAN
       PROVE  walk[<<o, d, e>>] = check_from(c, walk, o, d, e)
  <2>1. <<o, d, e>> \in S
    BY DEF CheckStates
  <2> HIDE DEF S, V, D, rank
  <2> QED BY <1>10, <2>1
<1> QED BY <1>11, <1>12

(***************************************************************************)
(* What the walk accepts is balanced.                                      *)
(***************************************************************************)
(* Found: the tokens from an offset on are one token t and then those from *)
(* the next offset on; d nodes are open there.                             *)
Found(c, k, w, o, n, d, t) ==
  /\ t \in Tokened /\ t.tag \in {"begin", "end", "prop"}
  /\ t.tag = "begin" /\ d = 0 => t.name = <<>> /\ t.val = <<>>
  /\ t.tag = "end" => d > 0
  /\ k[At(c, o)] = <<t>> \o k[At(c, n)]
  /\ w[<<n, d + Deep(t), t.tag = "end" /\ d = 1>>] = 0
  /\ d + Deep(t) \in Nat

IsToken(c, p, t, tag, name, val) ==
  t \in Tokened /\ Token(c, p, tag, name, val) = <<t>> /\ t.tag = tag /\ t.name = name /\ t.val = val

LEMMA TokenIs ==
  ASSUME NEW m, NEW c \in BlobsIn(m), NEW p \in Nat, NEW tag \in Kinds,
         NEW name \in Seq(Octet), NEW val \in Seq(Octet)
  PROVE  \E t : IsToken(c, p, t, tag, name, val)
<1>1. PICK x \in Int : x = p - c.off_dt_struct
  BY BlobFacts
<1>2. PICK t : t = [tag |-> tag, name |-> name, val |-> val, at |-> x]
  OBVIOUS
<1>3. t \in Tokened /\ t.tag = tag /\ t.name = name /\ t.val = val
  BY <1>2 DEF Tokened
<1>4. Token(c, p, tag, name, val) = <<t>>
  BY <1>1, <1>2 DEF Token
<1> QED BY <1>3, <1>4 DEF IsToken

(* The readings k of a blob and the walk w over it.                        *)
Walked(m, c, k, w) ==
  /\ Headed(m, c)
  /\ \A p \in Nat : k[p] = TokensFrom(c, k, p)
  /\ \A o \in Int, d \in Int, e \in BOOLEAN : w[<<o, d, e>>] = check_from(c, w, o, d, e)

LEMMA WalkStep ==
  ASSUME NEW m, NEW c, NEW k, NEW w, Walked(m, c, k, w), NEW o \in Nat, Aligned(o), NEW d \in Nat,
         NEW e \in BOOLEAN, w[<<o, d, e>>] = 0
  PROVE  \/ k[At(c, o)] = <<>> /\ d = 0
         \/ \E n \in Nat : /\ o < n /\ Aligned(n)
                           /\ \/ k[At(c, o)] = k[At(c, n)] /\ w[<<n, d, e>>] = 0
                              \/ ~e /\ \E t : Found(c, k, w, o, n, d, t)
<1>1. c \in BlobsIn(m) /\ c.magic = "FDT_MAGIC" /\ c.magic # "FDT_SW_MAGIC" /\ Headed(m, c)
  BY DEF Walked, Headed
<1>2. check_from(c, w, o, d, e) = 0
  BY DEF Walked
<1>3. PICK t, end : /\ Read(c, o, t, end) /\ t.next \in Nat /\ ~(refused(c, o, t.tag, d, e) < 0)
                    /\ t.tag # FDT_END => o < t.next
                    /\ t.tag # FDT_END => w[<<t.next, depth_after(d, t.tag), Past(t.tag, d, e)>>] = 0
  BY <1>1, <1>2, CheckStep
<1>4. At(c, o) \in Nat /\ k[At(c, o)] = TokensFrom(c, k, At(c, o))
  <2>1. At(c, o) \in Nat
    BY <1>1, BlobFacts DEF At
  <2> QED BY <2>1 DEF Walked
<1>5. /\ e => t.tag \in {FDT_END, FDT_NOP}
      /\ t.tag = FDT_END => d = 0
      /\ t.tag = FDT_END_NODE => d > 0
      /\ t.tag = FDT_BEGIN_NODE /\ d = 0 =>
           ~(fdt_get_name(c, o).len > 0) /\ ~(fdt_get_name(c, o).len < 0)
      /\ t.tag = FDT_PROP => ~(fdt_getprop_by_offset(c, o).len < 0)
  BY <1>3, NotRefused
<1>6. PICK n \in Nat : n = t.next /\ Aligned(n)
  <2>1. end \in Nat /\ t.next = FDT_TAGALIGN(end)
    BY <1>3 DEF Read
  <2> QED BY <1>3, <2>1, AlignFacts DEF Aligned
<1>7. CASE t.tag = FDT_END
  <2>1. TokensFrom(c, k, At(c, o)) = <<>>
    <3>1. Bare(c, o, t.next, t.tag)
      BY <1>1, <1>3, <1>7, ReadBare
    <3> QED BY <1>7, <3>1 DEF Bare
  <2> QED BY <1>4, <1>5, <1>7, <2>1
<1>8. CASE t.tag = FDT_NOP
  <2>1. TokensFrom(c, k, At(c, o)) = k[At(c, t.next)]
    <3>1. Bare(c, o, t.next, t.tag)
      BY <1>1, <1>3, <1>8, ReadBare
    <3> QED BY <1>8, <3>1 DEF Bare
  <2>2. depth_after(d, t.tag) = d /\ Past(t.tag, d, e) = e
    BY <1>8, TagsDiffer DEF depth_after, Past
  <2>3. t.tag # FDT_END
    BY <1>8, TagsDiffer
  <2>4. w[<<n, d, e>>] = 0 /\ o < n
    BY <1>3, <1>6, <2>2, <2>3
  <2> QED BY <1>4, <1>6, <2>1, <2>4
<1>9. <<>> \in Seq(Octet) /\ "begin" \in Kinds /\ "end" \in Kinds /\ "prop" \in Kinds
  BY DEF Kinds
<1>10. ASSUME NEW u \in Tokened, u.tag \in {"begin", "end", "prop"}, ~e, t.tag # FDT_END,
              k[At(c, o)] = <<u>> \o k[At(c, n)], depth_after(d, t.tag) = d + Deep(u), d + Deep(u) \in Nat,
              t.tag = FDT_END_NODE <=> u.tag = "end",
              u.tag = "begin" /\ d = 0 => u.name = <<>> /\ u.val = <<>>, u.tag = "end" => d > 0
       PROVE  o < n /\ ~e /\ Found(c, k, w, o, n, d, u)
  <2>1. Past(t.tag, d, e) = (u.tag = "end" /\ d = 1)
    BY <1>10 DEF Past
  <2>2. w[<<n, d + Deep(u), u.tag = "end" /\ d = 1>>] = 0
    BY <1>3, <1>6, <1>10, <2>1
  <2> QED BY <1>3, <1>6, <1>10, <2>2 DEF Found
<1>11. CASE t.tag = FDT_BEGIN_NODE
  <2>0. PICK name : name = CString(c, At(c, o) + Cell)
    OBVIOUS
  <2>1. name \in Seq(Octet) /\ TokensFrom(c, k, At(c, o)) = Token(c, At(c, o), "begin", name, <<>>) \o k[At(c, t.next)]
    <3>1. Begins(c, o, t.next, name)
      BY <1>1, <1>3, <1>11, <2>0, ReadBegin
    <3> QED BY <3>1 DEF Begins
  <2>2. PICK u \in Tokened : /\ Token(c, At(c, o), "begin", name, <<>>) = <<u>>
                             /\ u.tag = "begin" /\ u.name = name /\ u.val = <<>>
    <3>1. \E u : IsToken(c, At(c, o), u, "begin", name, <<>>)
      BY <1>1, <1>4, <1>9, <2>1, TokenIs
    <3> QED BY <3>1 DEF IsToken
  <2>3. d = 0 => name = <<>>
    BY <1>5, <1>11, <2>0, <2>1, RootUnnamed
  <2>4. Deep(u) = 1 /\ depth_after(d, t.tag) = d + 1
    BY <1>11, <2>2, DeepIs, TagsDiffer DEF depth_after
  <2>5. ~e /\ t.tag # FDT_END /\ t.tag # FDT_END_NODE
    BY <1>5, <1>11, TagsDiffer
  <2>6. k[At(c, o)] = <<u>> \o k[At(c, n)]
    BY <1>4, <1>6, <2>1, <2>2
  <2>7. d + Deep(u) \in Nat
    BY <2>4
  <2> QED BY <1>6, <1>10, <2>2, <2>3, <2>4, <2>5, <2>6, <2>7
<1>12. CASE t.tag = FDT_END_NODE
  <2>1. TokensFrom(c, k, At(c, o)) = Token(c, At(c, o), "end", <<>>, <<>>) \o k[At(c, t.next)]
    <3>1. Bare(c, o, t.next, t.tag)
      BY <1>1, <1>3, <1>12, ReadBare
    <3> QED BY <1>12, <3>1 DEF Bare
  <2>2. PICK u \in Tokened : /\ Token(c, At(c, o), "end", <<>>, <<>>) = <<u>>
                             /\ u.tag = "end" /\ u.name = <<>> /\ u.val = <<>>
    <3>1. \E u : IsToken(c, At(c, o), u, "end", <<>>, <<>>)
      BY <1>1, <1>4, <1>9, <2>1, TokenIs
    <3> QED BY <3>1 DEF IsToken
  <2>4. Deep(u) = -1 /\ depth_after(d, t.tag) = d - 1
    BY <1>12, <2>2, DeepIs, TagsDiffer DEF depth_after
  <2>5. ~e /\ t.tag # FDT_END /\ d > 0
    BY <1>5, <1>12, TagsDiffer
  <2>6. k[At(c, o)] = <<u>> \o k[At(c, n)]
    BY <1>4, <1>6, <2>1, <2>2
  <2>7. d + Deep(u) \in Nat /\ d + Deep(u) = d - 1
    BY <2>4, <2>5
  <2> QED BY <1>6, <1>10, <1>12, <2>2, <2>4, <2>5, <2>6, <2>7
<1>13. CASE t.tag = FDT_PROP
  <2>0. NameAt(c, o) \in Nat /\ HasString(c, NameAt(c, o), c.totalsize)
    BY <1>1, <1>3, <1>5, <1>13, PropNamed
  <2>1. PICK val \in Seq(Octet), name \in Seq(Octet) :
          \A f : TokensFrom(c, f, At(c, o)) = Token(c, At(c, o), "prop", name, val) \o f[At(c, t.next)]
    BY <1>1, <1>3, <1>13, <2>0, ReadProp
  <2>2. PICK u \in Tokened : /\ Token(c, At(c, o), "prop", name, val) = <<u>>
                             /\ u.tag = "prop" /\ u.name = name /\ u.val = val
    <3>1. \E u : IsToken(c, At(c, o), u, "prop", name, val)
      BY <1>1, <1>4, <1>9, <2>1, TokenIs
    <3> QED BY <3>1 DEF IsToken
  <2>4. Deep(u) = 0 /\ depth_after(d, t.tag) = d
    BY <1>13, <2>2, DeepIs, TagsDiffer DEF depth_after
  <2>5. ~e /\ t.tag # FDT_END /\ t.tag # FDT_END_NODE
    BY <1>5, <1>13, TagsDiffer
  <2>6. k[At(c, o)] = <<u>> \o k[At(c, n)]
    BY <1>4, <1>6, <2>1, <2>2
  <2>7. d + Deep(u) \in Nat /\ d + Deep(u) = d
    BY <2>4
  <2> QED BY <1>6, <1>10, <2>2, <2>4, <2>5, <2>6, <2>7
<1>14. CASE t.tag \notin {FDT_END, FDT_NOP, FDT_BEGIN_NODE, FDT_END_NODE, FDT_PROP}
  <2>1. tag_end(c, t.tag, o + Cell) = -1
    BY <1>14, TagEndOther
  <2>2. FALSE
    BY <1>3, <2>1 DEF Read
  <2> QED BY <2>2
<1> QED BY <1>7, <1>8, <1>11, <1>12, <1>13, <1>14

WellWalked(c, k, o, d, e) == k[At(c, o)] \in Seq(Tokened) /\ Balanced(k[At(c, o)], d, e)

LEMMA WalkBalanced ==
  ASSUME NEW m, NEW c, NEW k, NEW w, Walked(m, c, k, w), NEW o0 \in Nat, Aligned(o0), NEW d0 \in Nat,
         NEW e0 \in BOOLEAN, w[<<o0, d0, e0>>] = 0
  PROVE  WellWalked(c, k, o0, d0, e0)
<1>1. PICK N \in Nat : N = c.totalsize
  BY BlobFacts DEF Walked, Headed
<1>2. ASSUME NEW o \in Nat, NEW d \in Nat, NEW e \in BOOLEAN, w[<<o, d, e>>] = 0 PROVE o <= N
  <2>1. c \in BlobsIn(m) /\ check_from(c, w, o, d, e) = 0
    BY <1>2 DEF Walked, Headed
  <2>2. PICK t, end : Read(c, o, t, end)
    <3>1. o \in Int
      OBVIOUS
    <3>2. \E t, end : /\ Read(c, o, t, end) /\ t.next \in Nat /\ ~(refused(c, o, t.tag, d, e) < 0)
                      /\ t.tag # FDT_END => o < t.next
                      /\ t.tag # FDT_END => w[<<t.next, depth_after(d, t.tag), Past(t.tag, d, e)>>] = 0
      BY <2>1, <3>1, CheckStep
    <3> QED BY <3>2
  <2>3. InBlock(c, o, Cell)
    BY <2>2 DEF Read
  <2>4. PICK s \in Nat : s = c.off_dt_struct
    BY <2>1, BlobFacts
  <2> QED BY <1>1, <2>3, <2>4, CellPos DEF InBlock
<1> DEFINE Wrong(o) == \E d \in Nat, e \in BOOLEAN : w[<<o, d, e>>] = 0 /\ ~WellWalked(c, k, o, d, e)
           R == {r \in Nat : \E o \in Nat : r = N - o /\ Aligned(o) /\ Wrong(o)}
<1>3. SUFFICES ASSUME ~WellWalked(c, k, o0, d0, e0) PROVE FALSE
  OBVIOUS
<1>4. N - o0 \in R
  <2>1. Wrong(o0) /\ N - o0 \in Nat
    BY <1>2, <1>3
  <2> HIDE DEF Wrong
  <2> QED BY <2>1
<1>5. PICK r \in R : \A q \in R : r <= q
  <2>1. R \in SUBSET Nat
    OBVIOUS
  <2> HIDE DEF R
  <2> QED BY <1>4, <2>1, Least
<1>6. PICK o \in Nat : r = N - o /\ Aligned(o) /\ Wrong(o)
  <2> HIDE DEF Wrong
  <2> QED BY <1>5
<1>7. PICK d \in Nat, e \in BOOLEAN : w[<<o, d, e>>] = 0 /\ ~WellWalked(c, k, o, d, e)
  BY <1>6
<1>8. ASSUME NEW n \in Nat, o < n, Aligned(n), NEW x \in Nat, NEW y \in BOOLEAN, w[<<n, x, y>>] = 0
      PROVE  WellWalked(c, k, n, x, y)
  <2> SUFFICES ASSUME ~WellWalked(c, k, n, x, y) PROVE FALSE
    OBVIOUS
  <2>1. n <= N /\ Wrong(n)
    BY <1>2, <1>8
  <2>2. N - n \in R
    <3>1. N - n \in Nat
      BY <2>1
    <3> HIDE DEF Wrong
    <3> QED BY <1>8, <2>1, <3>1
  <2>3. r <= N - n
    BY <1>5, <2>2
  <2> HIDE DEF R, Wrong
  <2> QED BY <1>6, <1>8, <2>3
<1>9. CASE k[At(c, o)] = <<>> /\ d = 0
  <2>1. Balanced(<<>>, 0, e)
    BY BalancedEmpty
  <2>2. <<>> \in Seq(Tokened)
    OBVIOUS
  <2> QED BY <1>7, <1>9, <2>1, <2>2 DEF WellWalked
<1>10. ASSUME NEW n \in Nat, o < n, Aligned(n), k[At(c, o)] = k[At(c, n)], w[<<n, d, e>>] = 0
       PROVE  FALSE
  <2>1. WellWalked(c, k, n, d, e)
    BY <1>8, <1>10
  <2> QED BY <1>7, <1>10, <2>1 DEF WellWalked
<1>11. ASSUME NEW n \in Nat, o < n, Aligned(n), ~e, NEW t, Found(c, k, w, o, n, d, t) PROVE FALSE
  <2>1. /\ t \in Tokened /\ t.tag \in {"begin", "end", "prop"}
        /\ t.tag = "begin" /\ d = 0 => t.name = <<>> /\ t.val = <<>>
        /\ t.tag = "end" => d > 0
        /\ k[At(c, o)] = <<t>> \o k[At(c, n)]
        /\ w[<<n, d + Deep(t), t.tag = "end" /\ d = 1>>] = 0
        /\ d + Deep(t) \in Nat
    BY <1>11 DEF Found
  <2>2. PICK x \in Nat, y \in BOOLEAN : x = d + Deep(t) /\ y = (t.tag = "end" /\ d = 1)
    BY <2>1
  <2>3. WellWalked(c, k, n, x, y)
    BY <1>8, <1>11, <2>1, <2>2
  <2>4. PICK s \in Seq(Tokened) : s = k[At(c, n)] /\ Balanced(s, x, y)
    BY <2>3 DEF WellWalked
  <2>5. Balanced(<<t>> \o s, d, FALSE)
    BY <2>1, <2>2, <2>4, BalancedCons
  <2>6. <<t>> \o s \in Seq(Tokened)
    BY <2>1
  <2>7. k[At(c, o)] = <<t>> \o s /\ e = FALSE
    BY <1>11, <2>1, <2>4
  <2> QED BY <1>7, <2>5, <2>6, <2>7 DEF WellWalked
<1> HIDE DEF R, Wrong
<1>12. \/ k[At(c, o)] = <<>> /\ d = 0
       \/ \E n \in Nat : /\ o < n /\ Aligned(n)
                         /\ \/ k[At(c, o)] = k[At(c, n)] /\ w[<<n, d, e>>] = 0
                            \/ ~e /\ \E t : Found(c, k, w, o, n, d, t)
  BY <1>6, <1>7, WalkStep
<1> QED BY <1>9, <1>10, <1>11, <1>12

(***************************************************************************)
(* The full check.                                                         *)
(***************************************************************************)
LEMMA HeaderChecked ==
  ASSUME NEW c, ~(fdt_check_header(c) < 0)
  PROVE  /\ c.magic = "FDT_MAGIC" /\ ~(c.totalsize > INT_MAX) /\ c.off_dt_struct % Cell = 0
         /\ IF c.version < 17 THEN c.off_dt_struct <= c.totalsize
            ELSE /\ Wrap(c.off_dt_struct + c.size_dt_struct) >= c.off_dt_struct
                 /\ Wrap(c.off_dt_struct + c.size_dt_struct) <= c.totalsize
         /\ c.off_dt_strings <= c.totalsize
<1> DEFINE h == fdt_header_size(c)
           structure == IF c.version < 17 THEN check_off_(h, c.totalsize, c.off_dt_struct)
                        ELSE check_block_(h, c.totalsize, c.off_dt_struct, c.size_dt_struct)
           bad == c.version < FDT_FIRST_SUPPORTED_VERSION \/ c.last_comp_version > FDT_LAST_SUPPORTED_VERSION
                    \/ c.version < c.last_comp_version
           small == c.totalsize < h \/ c.totalsize > INT_MAX
           skewed == c.off_mem_rsvmap % Alignment8 # 0 \/ c.off_dt_struct % Cell # 0
           inside == /\ check_off_(h, c.totalsize, c.off_mem_rsvmap) /\ structure
                     /\ check_block_(h, c.totalsize, c.off_dt_strings, c.size_dt_strings)
<1>1. fdt_check_header(c) =
        IF c.addr % Alignment8 # 0 THEN -FDT_ERR_ALIGNMENT
        ELSE IF c.magic # "FDT_MAGIC" THEN -FDT_ERR_BADMAGIC
        ELSE IF bad THEN -FDT_ERR_BADVERSION
        ELSE IF small THEN -FDT_ERR_TRUNCATED
        ELSE IF skewed THEN -FDT_ERR_ALIGNMENT
        ELSE IF inside THEN 0 ELSE -FDT_ERR_TRUNCATED
  BY DEF fdt_check_header
<1>2. -FDT_ERR_ALIGNMENT < 0 /\ -FDT_ERR_BADMAGIC < 0 /\ -FDT_ERR_BADVERSION < 0 /\ -FDT_ERR_TRUNCATED < 0
  BY DEF FDT_ERR_ALIGNMENT, FDT_ERR_BADMAGIC, FDT_ERR_BADVERSION, FDT_ERR_TRUNCATED
<1>3. c.magic = "FDT_MAGIC" /\ ~small /\ ~skewed /\ inside
  <2> HIDE DEF bad, small, skewed, inside
  <2> QED BY <1>1, <1>2
<1>4. inside => structure /\ c.off_dt_strings <= c.totalsize
  BY DEF check_block_, check_off_
<1>5. structure => IF c.version < 17 THEN c.off_dt_struct <= c.totalsize
                   ELSE /\ Wrap(c.off_dt_struct + c.size_dt_struct) >= c.off_dt_struct
                        /\ Wrap(c.off_dt_struct + c.size_dt_struct) <= c.totalsize
  BY DEF check_block_, check_off_
<1>6. small <=> c.totalsize < h \/ c.totalsize > INT_MAX
  OBVIOUS
<1>7. skewed <=> c.off_mem_rsvmap % Alignment8 # 0 \/ c.off_dt_struct % Cell # 0
  OBVIOUS
<1> HIDE DEF bad, small, skewed, inside, structure, h
<1> QED BY <1>3, <1>4, <1>5, <1>6, <1>7, Zenon

LEMMA CheckFullIs ==
  ASSUME NEW c, NEW n, fdt_check_full(c, n) = 0
  PROVE  ~(fdt_check_header(c) < 0) /\ ~(n < c.totalsize) /\ check_structure(c) = 0
<1> DEFINE h == fdt_check_header(c)
           r == fdt_num_mem_rsv(c)
           s == check_structure(c)
<1>1. fdt_check_full(c, n) =
        IF n < fdt_header_size_(1) \/ n < fdt_header_size(c) THEN -FDT_ERR_TRUNCATED
        ELSE IF h < 0 THEN h
        ELSE IF n < c.totalsize THEN -FDT_ERR_TRUNCATED
        ELSE IF r < 0 THEN r ELSE s
  BY DEF fdt_check_full, unless_error
<1>2. -FDT_ERR_TRUNCATED < 0 /\ -FDT_ERR_TRUNCATED # 0
  BY DEF FDT_ERR_TRUNCATED
<1> HIDE DEF h, r, s
<1>3. ~(h < 0) /\ ~(n < c.totalsize) /\ s = 0
  BY <1>1, <1>2
<1> QED BY <1>3 DEF h, r, s

LEMMA ContentsOpen ==
  ASSUME NEW s \in Seq(Tokened), NEW u, u = Contents_(s)
  PROVE  /\ DOMAIN u = 1 .. Len(s) /\ DOMAIN s = 1 .. Len(s) /\ Len(u) = Len(s)
         /\ \A i \in 1 .. Len(s) : u[i] = [tag |-> s[i].tag, name |-> s[i].name, val |-> s[i].val]
         /\ \A tag : TagAt(u, tag) = TagAt(s, tag)
         /\ \A i : Open(u, i) = Open(s, i)
<1>1. PICK n \in Nat : n = Len(s) /\ DOMAIN s = 1 .. n
  OBVIOUS
<1>2. u = [i \in 1 .. n |-> [tag |-> s[i].tag, name |-> s[i].name, val |-> s[i].val]]
  BY <1>1 DEF Contents_
<1>3. DOMAIN u = 1 .. n /\ Len(u) = n
  BY <1>2
<1>4. \A i \in 1 .. n : u[i] = [tag |-> s[i].tag, name |-> s[i].name, val |-> s[i].val]
  BY <1>2
<1>5. \A i \in 1 .. n : u[i].tag = s[i].tag
  <2> TAKE i \in 1 .. n
  <2>1. PICK x : x = s[i]
    OBVIOUS
  <2>2. u[i] = [tag |-> x.tag, name |-> x.name, val |-> x.val]
    BY <1>4, <2>1
  <2>3. u[i].tag = x.tag
    BY <2>2
  <2> QED BY <2>1, <2>3
<1>6. ASSUME NEW tag PROVE TagAt(u, tag) = TagAt(s, tag)
  BY <1>1, <1>3, <1>5 DEF TagAt
<1>7. ASSUME NEW i PROVE Open(u, i) = Open(s, i)
  <2>1. TagAt(u, "begin") = TagAt(s, "begin") /\ TagAt(u, "end") = TagAt(s, "end")
    BY <1>6
  <2> QED BY <2>1 DEF Open
<1> QED BY <1>1, <1>3, <1>4, <1>6, <1>7

LEMMA AtMostOne ==
  ASSUME NEW S, \A i, j \in S : i = j
  PROVE  Cardinality(S) <= 1
<1>1. CASE S = {}
  BY <1>1, FS_EmptySet
<1>2. CASE S # {}
  <2>1. PICK x : x \in S
    BY <1>2
  <2>2. S = {x}
    BY <2>1
  <2>3. Cardinality({x}) = 1
    BY FS_Singleton
  <2> QED BY <2>2, <2>3
<1> QED BY <1>1, <1>2

(* The tree of balanced tokens.                                            *)
WellFormed(t) ==
  /\ \A i \in DOMAIN t : t[i].tag # "bad" /\ Open(t, i) >= 0
  /\ Open(t, Len(t) + 1) = 0
  /\ \A i \in Nodes(t) : Open(t, i) = 0 => t[i] = Begin(<<>>)
  /\ Cardinality({i \in Nodes(t) : Open(t, i) = 0}) <= 1

LEMMA BalancedIsTree ==
  ASSUME NEW s \in Seq(Tokened), Balanced(s, 0, FALSE) PROVE WellFormed(Contents_(s))
<1>1. PICK u : u = Contents_(s)
  OBVIOUS
<1>2. /\ DOMAIN u = 1 .. Len(s) /\ DOMAIN s = 1 .. Len(s) /\ Len(u) = Len(s)
      /\ \A i \in 1 .. Len(s) : u[i] = [tag |-> s[i].tag, name |-> s[i].name, val |-> s[i].val]
      /\ \A tag : TagAt(u, tag) = TagAt(s, tag)
      /\ \A i : Open(u, i) = Open(s, i)
  BY <1>1, ContentsOpen
<1>3. PICK n \in Nat : n = Len(s)
  OBVIOUS
<1>4. \A i \in 1 .. n + 1 : Open(s, i) \in Int /\ 0 + Open(s, i) = Open(s, i)
  BY <1>3, OpenTyped
<1>5. /\ \A i \in 1 .. n : s[i].tag # "bad" /\ Open(s, i) >= 0
      /\ Open(s, n + 1) = 0
      /\ \A i \in 1 .. n : s[i].tag = "begin" /\ Open(s, i) = 0 => s[i].name = <<>> /\ s[i].val = <<>>
      /\ \A i, j \in 1 .. n : s[i].tag = "begin" /\ Open(s, i) = 0 /\ s[j].tag = "begin" /\ Open(s, j) = 0 => i = j
  <2>1. 1 .. n \subseteq 1 .. n + 1 /\ n + 1 \in 1 .. n + 1
    OBVIOUS
  <2>2. \A i \in 1 .. n : RootAt(s, 0, i) <=> s[i].tag = "begin" /\ Open(s, i) = 0
    BY <1>4, <2>1 DEF RootAt
  <2>3. /\ \A i \in 1 .. n : s[i].tag # "bad" /\ 0 + Open(s, i) >= 0
        /\ 0 + Open(s, n + 1) = 0
        /\ \A i \in 1 .. n : RootAt(s, 0, i) => s[i].name = <<>> /\ s[i].val = <<>>
        /\ \A i, j \in 1 .. n : RootAt(s, 0, i) /\ RootAt(s, 0, j) => i = j
    BY <1>3 DEF Balanced
  <2> QED BY <1>4, <2>1, <2>2, <2>3
<1>6. \A i \in DOMAIN u : u[i].tag # "bad" /\ Open(u, i) >= 0
  <2>1. \A i \in 1 .. n : u[i].tag = s[i].tag
    BY <1>2, <1>3
  <2> QED BY <1>2, <1>3, <1>5, <2>1
<1>7. Open(u, Len(u) + 1) = 0
  BY <1>2, <1>3, <1>5
<1>8. Nodes(u) = {i \in 1 .. n : s[i].tag = "begin"}
  BY <1>2, <1>3 DEF Nodes, TagAt
<1>9. \A i \in Nodes(u) : Open(u, i) = 0 => u[i] = Begin(<<>>)
  <2> SUFFICES ASSUME NEW i \in 1 .. n, s[i].tag = "begin", Open(s, i) = 0 PROVE u[i] = Begin(<<>>)
    BY <1>2, <1>8
  <2>1. u[i] = [tag |-> "begin", name |-> s[i].name, val |-> s[i].val]
    BY <1>2, <1>3
  <2>2. s[i].name = <<>> /\ s[i].val = <<>>
    BY <1>5
  <2> QED BY <2>1, <2>2 DEF Begin
<1>10. Cardinality({i \in Nodes(u) : Open(u, i) = 0}) <= 1
  <2>1. PICK R : R = {i \in Nodes(u) : Open(u, i) = 0}
    OBVIOUS
  <2>2. \A i, j \in R : i = j
    BY <1>2, <1>5, <1>8, <2>1
  <2> QED BY <2>1, <2>2, AtMostOne
<1> QED BY <1>1, <1>6, <1>7, <1>9, <1>10 DEF WellFormed

LEMMA CheckedIsTree ==
  ASSUME NEW c \in Blobs, fdt_check_full(c, Size(c)) = 0 PROVE WellFormed(Tree(c))
<1>0. PICK n \in Nat : n = Size(c) /\ c \in BlobsOver(0 .. n - 1)
  BY BlobsAssumption
<1>1. PICK m : n = Size(c) /\ m = 0 .. n - 1 /\ c \in BlobsOver(m)
  BY <1>0
<1>2. ~(fdt_check_header(c) < 0) /\ ~(n < c.totalsize) /\ check_structure(c) = 0
  BY <1>1, CheckFullIs
<1>3. /\ c.magic = "FDT_MAGIC" /\ ~(c.totalsize > INT_MAX) /\ c.off_dt_struct % Cell = 0
      /\ IF c.version < 17 THEN c.off_dt_struct <= c.totalsize
         ELSE /\ Wrap(c.off_dt_struct + c.size_dt_struct) >= c.off_dt_struct
              /\ Wrap(c.off_dt_struct + c.size_dt_struct) <= c.totalsize
      /\ c.off_dt_strings <= c.totalsize
  BY <1>2, HeaderChecked
<1>4. c.totalsize \in Nat
  <2>1. c.totalsize \in Word
    BY <1>1 DEF BlobsOver
  <2> QED BY <2>1, WordRange
<1>5. c \in BlobsIn(m)
  <2>1. 0 .. c.totalsize - 1 \subseteq m
    BY <1>1, <1>2, <1>4
  <2> QED BY <1>1, <2>1 DEF BlobsIn
<1>6. Headed(m, c)
  <2>1. INT_MAX \in Nat
    BY WordFacts
  <2> QED BY <1>3, <1>4, <1>5, <2>1 DEF Headed
<1>7. Sound(c, m)
  <2>1. PICK s \in Nat, z \in Nat, t \in Nat, v \in Nat :
          /\ s = c.off_dt_struct /\ z = c.size_dt_struct /\ t = c.totalsize /\ v = c.version
          /\ s < WordSize /\ z < WordSize
    BY <1>5, BlobFacts, BlobWords, WordRange
  <2>2. CASE v < 17
    <3>1. StructStop(c) = t
      BY <2>1, <2>2 DEF StructStop
    <3> QED BY <1>5, <2>1, <3>1 DEF Sound
  <2>3. CASE ~(v < 17)
    <3>1. StructStop(c) = s + z
      BY <2>1, <2>3 DEF StructStop
    <3>2. Wrap(s + z) >= s /\ Wrap(s + z) <= t
      BY <1>3, <2>1, <2>3
    <3>3. s + z <= t
      BY <2>1, <3>2, NoWrap
    <3> QED BY <1>5, <2>1, <3>1, <3>3 DEF Sound
  <2> QED BY <2>2, <2>3
<1>8. PICK k : k = [p \in Nat |-> TokensFrom(c, k, p)] /\ Tokens(c) = k[c.off_dt_struct]
  BY <1>7, TokensAreDefined
<1>9. PICK w : /\ \A o \in Int, d \in Int, e \in BOOLEAN : w[<<o, d, e>>] = check_from(c, w, o, d, e)
               /\ check_structure(c) = w[<<0, 0, FALSE>>]
  BY <1>5, CheckIsDefined
<1>10. Walked(m, c, k, w)
  <2>1. \A p \in Nat : k[p] = TokensFrom(c, k, p)
    BY <1>8
  <2> QED BY <1>6, <1>9, <2>1 DEF Walked
<1>11. WellWalked(c, k, 0, 0, FALSE)
  <2>0. PICK e \in BOOLEAN : e = FALSE
    BY Zenon
  <2>1. PICK o \in Nat, d \in Nat : o = 0 /\ d = 0
    OBVIOUS
  <2>2. w[<<o, d, e>>] = 0 /\ Aligned(o)
    BY <1>2, <1>9, <2>0, <2>1, AlignedZero
  <2>3. WellWalked(c, k, o, d, e)
    BY <1>10, <2>2, WalkBalanced
  <2> QED BY <2>0, <2>1, <2>3
<1>12. At(c, 0) = c.off_dt_struct
  BY <1>5, BlobFacts DEF At
<1>13. Tokens(c) \in Seq(Tokened) /\ Balanced(Tokens(c), 0, FALSE)
  BY <1>8, <1>11, <1>12 DEF WellWalked
<1> QED BY <1>13, BalancedIsTree DEF Tree

(* A blob that fdt_check_full accepts is a tree, whatever its bytes are:   *)
(* the nodes are balanced, there is at most one root and it has no name,   *)
(* and names and values lie in the blob.                                   *)
THEOREM CheckedIsATree == BlobSpec => []CheckedBlobsAreTrees
<1>1. BlobInit => CheckedBlobsAreTrees
  <2> SUFFICES ASSUME blob \in Blobs, Accepted PROVE CheckedBlobsAreTrees
    BY DEF CheckedBlobsAreTrees, BlobInit
  <2>1. WellFormed(Tree(blob))
    BY CheckedIsTree DEF Accepted
  <2> QED BY <2>1 DEF CheckedBlobsAreTrees, WellFormed
<1>2. BlobInit /\ [BlobNext]_blob => BlobInit'
  BY DEF BlobInit, BlobNext
<1> QED BY <1>1, <1>2, PTL DEF BlobSpec

(***************************************************************************)
(* What fdt_check_full says of a blob that has been finished.              *)
(***************************************************************************)
LEMMA FinalSizes ==
  ASSUME NEW m, NEW d, NEW k \in Nat, NEW ts \in Trees, NEW off, NEW x, Final(m, d, k, ts, off, x)
  PROVE  \E s \in Nat, o \in Nat, h \in Nat, z \in Nat, t \in Nat :
           /\ s = d.off_dt_struct /\ o = off[Len(ts) + 1] /\ h = headsize(d) /\ z = d.size_dt_strings
           /\ t = d.totalsize /\ d.off_dt_strings = h /\ d.size_dt_struct = o + Cell /\ h = s + (o + Cell)
           /\ t = h + z /\ t <= INT_MAX
<1>1. d \in BlobsIn(m) /\ Laid(ts, off)
  BY DEF Final, Log
<1>2. off[Len(ts) + 1] \in Nat
  <2>1. Len(ts) \in Nat /\ Len(ts) + 1 \in 1 .. Len(ts) + 1
    BY TreeFacts
  <2> QED BY <1>1, <2>1 DEF Laid
<1>3. d.off_dt_struct \in Nat /\ d.size_dt_strings \in Nat /\ d.totalsize \in Nat /\ d.off_dt_strings \in Nat
  BY <1>1, BlobFacts
<1>4. headsize(d) = d.off_dt_struct + d.size_dt_struct
  BY DEF headsize
<1> QED BY <1>2, <1>3, <1>4 DEF Final

LEMMA EntriesAligned == ASSUME NEW j \in Nat PROVE Aligned(header_space + j * EntrySize)
<1>1. CASE Cell = 2
  <2>1. header_space = 24 /\ EntrySize = 8
    BY <1>1, SpaceIs
  <2> QED BY <1>1, <2>1 DEF Aligned
<1>2. CASE Cell = 4
  <2>1. header_space = 48 /\ EntrySize = 16
    BY <1>2, SpaceIs
  <2> QED BY <1>2, <2>1 DEF Aligned
<1> QED BY <1>1, <1>2, CellAssumption

LEMMA BlockChecked ==
  ASSUME NEW l \in Nat, NEW t \in Nat, NEW x \in Nat, NEW n \in Nat, l <= x, x + n <= t, t <= INT_MAX
  PROVE  check_block_(l, t, x, n)
<1>1. PICK w \in Nat, y \in Nat : w = WordSize /\ y = INT_MAX /\ w = 2 * y + 2
  BY WordFacts
<1>2. x < w /\ n < w /\ x + n < w /\ x <= t /\ l <= x + n /\ x <= x + n
  BY <1>1
<1>3. Wrap(x + n) = x + n
  <2>1. x < WordSize /\ n < WordSize /\ x + n < WordSize
    BY <1>1, <1>2
  <2> QED BY <2>1, NoWrap
<1> QED BY <1>2, <1>3 DEF check_block_, check_off_

LEMMA HeaderAccepted ==
  ASSUME NEW m, NEW d, NEW k \in Nat, NEW ts \in Trees, NEW off, NEW x, Final(m, d, k, ts, off, x),
         d.addr % Alignment8 = 0
  PROVE  fdt_check_header(d) = 0 /\ (d.totalsize < INT_MAX => fdt_ro_probe_(d) = d.totalsize)
<1>1. PICK s \in Nat, o \in Nat, h \in Nat, z \in Nat, t \in Nat :
        /\ s = d.off_dt_struct /\ o = off[Len(ts) + 1] /\ h = headsize(d) /\ z = d.size_dt_strings
        /\ t = d.totalsize /\ d.off_dt_strings = h /\ d.size_dt_struct = o + Cell /\ h = s + (o + Cell)
        /\ t = h + z /\ t <= INT_MAX
  BY FinalSizes, SMTT(60)
<1>2. /\ d.magic = "FDT_MAGIC" /\ d.version = 17 /\ d.last_comp_version = 16
      /\ d.off_mem_rsvmap = header_space /\ s = header_space + (k + 1) * EntrySize
  BY <1>1 DEF Final
<1>3. PICK l \in Nat : l = fdt_header_size(d) /\ l = 10 * Cell /\ l <= header_space
  <2>1. fdt_header_size(d) = Cell * 10
    BY <1>2, SMT DEF fdt_header_size, fdt_header_size_
  <2> QED BY <2>1, CellPos, SpaceIs
<1>4. PICK g \in Nat : g = header_space /\ l <= g /\ g <= s /\ g % Alignment8 = 0
  <2>2. header_space % Alignment8 = 0
    <3>1. CASE Cell = 2
      BY <3>1, SpaceIs DEF Alignment8
    <3>2. CASE Cell = 4
      BY <3>2, SpaceIs DEF Alignment8
    <3> QED BY <3>1, <3>2, CellAssumption
  <2>3. header_space <= s
    <3>1. (k + 1) * EntrySize \in Nat
      <4>1. PICK j \in Nat : j = k + 1
        OBVIOUS
      <4> QED BY <4>1, Multiples
    <3> QED BY <1>2, <3>1, SpaceIs
  <2> QED BY <1>3, <2>2, <2>3, SpaceIs
<1>5. s % Cell = 0
  <2>1. PICK j \in Nat : j = k + 1
    OBVIOUS
  <2> QED BY <1>2, <2>1, EntriesAligned DEF Aligned
<1>6. PICK n \in Nat : n = o + Cell /\ s + n <= t /\ h = s + n
  <2>1. o + Cell \in Nat
    BY CellPos
  <2> QED BY <1>1, <2>1
<1>7. check_off_(l, t, g) /\ check_block_(l, t, s, n) /\ check_block_(l, t, h, z)
  <2>0. l <= g /\ g <= s /\ h = s + n /\ t = h + z
    BY <1>1, <1>4, <1>6
  <2>1. l <= g /\ g <= t /\ l <= s /\ l <= h /\ h + z <= t /\ s + n <= t
    BY <2>0
  <2>2. check_off_(l, t, g)
    BY <2>1 DEF check_off_
  <2> QED BY <1>1, <1>6, <2>1, <2>2, BlockChecked
<1>8. /\ ~(17 < FDT_FIRST_SUPPORTED_VERSION) /\ ~(16 > FDT_LAST_SUPPORTED_VERSION) /\ ~(17 < 16) /\ ~(17 < 17)
  BY DEF FDT_FIRST_SUPPORTED_VERSION, FDT_LAST_SUPPORTED_VERSION
<1>9. ~(t < l \/ t > INT_MAX)
  <2>1. PICK y \in Nat : y = INT_MAX
    BY WordFacts
  <2>2. t <= y
    BY <1>1, <2>1
  <2>3. l <= t
    <3>1. l <= g /\ g <= s /\ s + n <= t
      BY <1>1, <1>4, <1>6
    <3> QED BY <3>1
  <2>4. ~(t < l) /\ ~(t > y)
    BY <2>2, <2>3
  <2> QED BY <2>1, <2>4
<1>10. fdt_check_header(d) = 0
  BY <1>1, <1>2, <1>3, <1>4, <1>5, <1>6, <1>7, <1>8, <1>9, ZenonT(40) DEF fdt_check_header
<1>11. ASSUME t < INT_MAX PROVE fdt_ro_probe_(d) = t
  <2>1. d.magic # "FDT_SW_MAGIC" /\ d.magic \in {"FDT_MAGIC", "FDT_SW_MAGIC"}
    BY <1>2
  <2> QED BY <1>1, <1>2, <1>8, <1>11, <2>1 DEF fdt_ro_probe_
<1> QED BY <1>1, <1>10, <1>11

Stops(c, i) == fdt_mem_rsv(c, i) => mem_rsv_size(c, i) = <<0, 0>>

LEMMA EntryInside ==
  ASSUME NEW m, NEW d, NEW k \in Nat, NEW ts \in Trees, NEW off, NEW x, Final(m, d, k, ts, off, x),
         NEW n \in 0 .. k
  PROVE  fdt_mem_rsv(d, n)
<1>1. PICK s \in Nat, o \in Nat, h \in Nat, z \in Nat, t \in Nat :
        /\ s = d.off_dt_struct /\ o = off[Len(ts) + 1] /\ h = headsize(d) /\ z = d.size_dt_strings
        /\ t = d.totalsize /\ d.off_dt_strings = h /\ d.size_dt_struct = o + Cell /\ h = s + (o + Cell)
        /\ t = h + z /\ t <= INT_MAX
  BY FinalSizes
<1>2. PICK g \in Nat, u \in Nat, p \in Nat :
        /\ g = d.off_mem_rsvmap /\ u = EntrySize /\ p = mem_rsv_at(d, n) /\ g <= p /\ p + u <= s
  <2>1. PICK j \in Nat : j = k + 1 /\ n < j
    OBVIOUS
  <2>2. PICK q \in Nat, v \in Nat : q = n * EntrySize /\ v = j * EntrySize /\ q + EntrySize <= v
    BY <2>1, Multiples
  <2>3. d.off_mem_rsvmap = header_space /\ s = header_space + v
    BY <1>1, <2>1, <2>2 DEF Final
  <2>4. PICK g \in Nat, u \in Nat : g = header_space /\ u = EntrySize
    BY SpaceIs
  <2>5. g + q \in Nat /\ g <= g + q /\ (g + q) + u <= s
    BY <2>2, <2>3, <2>4
  <2> QED BY <2>2, <2>3, <2>4, <2>5 DEF mem_rsv_at
<1>3. PICK y \in Nat, c \in Nat : y = INT_MAX /\ c = Cell /\ t <= y
  BY <1>1, WordFacts
<1>4. g <= p /\ p <= y /\ t - u \in Nat /\ t - u <= y /\ p <= t - u
  <2>1. p + u <= s /\ h = s + (o + c) /\ t = h + z /\ t <= y /\ g <= p
    BY <1>1, <1>2, <1>3
  <2> QED BY <2>1
<1>5. Wrap(p) = p /\ Wrap(t - u) = t - u
  <2>1. p \in Word /\ t - u \in Word
    BY <1>3, <1>4, SmallWord
  <2> QED BY <1>4, <2>1, WrapFacts
<1> QED BY <1>1, <1>2, <1>4, <1>5 DEF fdt_mem_rsv

LEMMA FewEntries ==
  ASSUME NEW m, NEW d, NEW k \in Nat, NEW ts \in Trees, NEW off, NEW x, Final(m, d, k, ts, off, x)
  PROVE  d.totalsize \in Nat /\ k <= d.totalsize
<1>1. PICK s \in Nat, o \in Nat, h \in Nat, z \in Nat, t \in Nat :
        /\ s = d.off_dt_struct /\ o = off[Len(ts) + 1] /\ h = headsize(d) /\ z = d.size_dt_strings
        /\ t = d.totalsize /\ d.off_dt_strings = h /\ d.size_dt_struct = o + Cell /\ h = s + (o + Cell)
        /\ t = h + z /\ t <= INT_MAX
  BY FinalSizes
<1>2. PICK j \in Nat, c \in Nat : j = k + 1 /\ c = Cell
  BY CellPos
<1>3. s = header_space + j * EntrySize
  BY <1>1, <1>2 DEF Final
<1>4. k <= j * EntrySize /\ j * EntrySize \in Nat
  <2>1. CASE EntrySize = 8
    BY <1>2, <2>1
  <2>2. CASE EntrySize = 16
    BY <1>2, <2>2
  <2> QED BY <2>1, <2>2, CellAssumption DEF EntrySize
<1>5. k <= s
  BY <1>3, <1>4, SpaceIs
<1>6. k <= t
  <2>1. h = s + (o + c) /\ t = h + z
    BY <1>1, <1>2
  <2> QED BY <1>5, <2>1
<1> QED BY <1>1, <1>6

LEMMA EntriesCounted ==
  ASSUME NEW m, NEW d, NEW k \in Nat, NEW ts \in Trees, NEW off, NEW x, Final(m, d, k, ts, off, x),
         Sealed(d, k), \A n \in 0 .. k - 1 : mem_rsv_size(d, n) # <<0, 0>>
  PROVE  fdt_num_mem_rsv(d) = k
<1>1. \A n \in 0 .. k : fdt_mem_rsv(d, n)
  BY EntryInside
<1>2. mem_rsv_size(d, k) = <<0, 0>>
  BY DEF Sealed, EntryAt
<1>3. Stops(d, k) /\ \A n \in 0 .. k - 1 : ~Stops(d, n)
  BY <1>1, <1>2 DEF Stops
<1>4. PICK t \in Nat : t = d.totalsize /\ k <= t
  BY FewEntries
<1> DEFINE Least_(i) == Stops(d, i) /\ \A j \in 0 .. i - 1 : ~Stops(d, j)
           n == CHOOSE i \in 0 .. d.totalsize : Least_(i)
<1>5. fdt_num_mem_rsv(d) = IF fdt_mem_rsv(d, n) THEN n ELSE -FDT_ERR_TRUNCATED
  BY DEF fdt_num_mem_rsv, Stops
<1>6. n \in 0 .. t /\ Least_(n)
  <2>1. k \in 0 .. t /\ Least_(k)
    BY <1>3, <1>4
  <2>2. \E i \in 0 .. t : Least_(i)
    BY <2>1
  <2> HIDE DEF Least_
  <2> QED BY <1>4, <2>2
<1>7. n = k
  <2> HIDE DEF n
  <2>1. ~(n < k)
    <3> SUFFICES ASSUME n < k PROVE FALSE
      OBVIOUS
    <3>1. n \in 0 .. k - 1
      BY <1>6
    <3> QED BY <1>3, <1>6, <3>1
  <2>2. ~(k < n)
    <3> SUFFICES ASSUME k < n PROVE FALSE
      OBVIOUS
    <3>1. k \in 0 .. n - 1
      BY <1>6
    <3> QED BY <1>3, <1>6, <3>1
  <2>3. n \in Int
    BY <1>6
  <2> QED BY <2>1, <2>2, <2>3
<1>8. fdt_mem_rsv(d, k)
  BY <1>1
<1> HIDE DEF n
<1> QED BY <1>5, <1>7, <1>8

(* A blob that is read, and its strings block at the end of it.            *)
Legible(m, d) ==
  /\ d \in BlobsIn(m) /\ d.magic = "FDT_MAGIC" /\ d.version = 17
  /\ d.totalsize = d.off_dt_strings + d.size_dt_strings /\ d.totalsize <= INT_MAX
  /\ fdt_ro_probe_(d) = d.totalsize

LEMMA StringAccepted ==
  ASSUME NEW m, NEW d, Legible(m, d), NEW y \in Nat, NEW name \in NameStrings,
         HoldsName(d, d.off_dt_strings + y, name)
  PROVE  fdt_get_string(d, y).len = Len(name)
<1>1. PICK s \in Nat, t \in Nat, z \in Nat, n \in Nat, j \in Nat :
        /\ s = d.off_dt_strings /\ t = d.totalsize /\ z = d.size_dt_strings /\ n = Len(name)
        /\ t = s + z /\ j = INT_MAX /\ t <= j /\ s + y + n < t
  <2>1. Len(name) \in Nat
    BY DEF NameStrings
  <2>2. d \in BlobsIn(m) /\ d.off_dt_strings + y + Len(name) < d.totalsize
    BY DEF Legible, HoldsName
  <2> QED BY <2>1, <2>2, BlobFacts, WordFacts DEF Legible
<1>10. s + y + n < t /\ t = s + z
  BY <1>1
<1>2. Wrap(y + d.off_dt_strings) = s + y
  <2>1. y + s = s + y /\ s + y \in Nat /\ s + y <= j
    BY <1>1
  <2>2. s + y \in Word
    BY <1>1, <2>1, SmallWord
  <2>3. Wrap(s + y) = s + y
    BY <2>1, <2>2, WrapFacts
  <2> QED BY <1>1, <2>1, <2>3
<1>3. string_room(d, y, t) = t - (s + y)
  <2>1. ~(s + y >= t) /\ ~(y < 0) /\ ~(y >= z) /\ z - y = t - (s + y)
    BY <1>10
  <2>2. d.magic # "FDT_SW_MAGIC" /\ d.version >= 17
    BY DEF Legible
  <2> DEFINE least(p, q) == IF p < q THEN p ELSE q
  <2>3. string_room(d, y, t) = least(t - (s + y), z - y)
    BY <1>1, <1>2, <2>1, <2>2 DEF string_room
  <2>4. least(t - (s + y), t - (s + y)) = t - (s + y)
    OBVIOUS
  <2> HIDE DEF least
  <2> QED BY <2>1, <2>3, <2>4
<1>4. PICK r \in Nat : r = t - (s + y) /\ n < r
  <2>1. t - (s + y) \in Nat /\ n < t - (s + y)
    BY <1>10
  <2> QED BY <2>1
<1>5. Byte(d, (s + y) + n) = 0 /\ n \in 0 .. r - 1
  <2>1. HoldsString(d, s + y, name)
    BY <1>1 DEF HoldsName
  <2> QED BY <1>1, <1>4, <2>1 DEF HoldsString
<1>6. fdt_get_string(d, y) = Text(CString(d, s + y))
  <2>1. ~(t < 0) /\ ~(r < 0) /\ fdt_ro_probe_(d) = t
    BY <1>1 DEF Legible
  <2>2. ~(\A i \in 0 .. r - 1 : Byte(d, (s + y) + i) # 0)
    BY <1>5
  <2>3. string_room(d, y, t) = r
    BY <1>3, <1>4
  <2> QED BY <1>2, <2>1, <2>2, <2>3, Zenon DEF fdt_get_string
<1>7. CString(d, s + y) = name
  <2>1. name \in Seq(Letter) /\ HoldsString(d, s + y, name) /\ s + y \in Int /\ n <= t
    BY <1>1 DEF HoldsName, NameStrings, Letter
  <2> QED BY <1>1, <2>1, StringRead
<1> QED BY <1>6, <1>7 DEF Text

LEMMA PropAccepted ==
  ASSUME NEW m, NEW d, Legible(m, d), NEW o \in Nat, Aligned(o), NEW t \in TreeTokens, t.tag = "prop",
         NEW x, HoldsToken(d, At(d, o), t, x), InBlock(d, o, TokenSize(t)),
         Signed(x) \in Nat, HoldsName(d, d.off_dt_strings + Signed(x), t.name)
  PROVE  fdt_getprop_by_offset(d, o).len \in Nat
<1>0. d \in BlobsIn(m) /\ Fits(d)
  BY DEF Legible, Fits
<1>1. PICK s \in Nat, k \in Nat, q \in Nat, z \in Nat :
      s = d.off_dt_struct /\ k = Cell /\ q = 2 * Cell /\ z = TokenSize(t)
  BY <1>0, BlobFacts, CellFacts, SizeFacts
<1>2. fdt_next_tag(d, o) = [tag |-> FDT_PROP, next |-> o + z]
  <2>1. fdt_next_tag(d, o) = [tag |-> Number(t), next |-> o + TokenSize(t)]
    BY <1>0, NextTagHeld
  <2> QED BY <1>1, <2>1, NumberFacts
<1>3. fdt_check_prop_offset_(d, o) = o + z
  <2>1. ~(o < 0 \/ o % Cell # 0)
    BY DEF Aligned
  <2>2. fdt_next_tag(d, o).tag = FDT_PROP /\ fdt_next_tag(d, o).next = o + z
    BY <1>2
  <2>3. check_offset(d, o, FDT_PROP) = o + z
    BY <2>1, <2>2 DEF check_offset
  <2> QED BY <2>3 DEF fdt_check_prop_offset_
<1>4. PICK p : p = fdt_get_property_by_offset(d, o) /\ p.len = prop_len(d, o)
  <2>1. ~(o + z < 0) /\ ~(o < 0)
    BY <1>1
  <2>2. fdt_get_property_by_offset(d, o) = Property(d, o)
    BY <1>3, <2>1 DEF fdt_get_property_by_offset, unless_error
  <2>3. Property(d, o).len = prop_len(d, o)
    BY <2>1 DEF Property
  <2> QED BY <2>2, <2>3
<1>5. prop_len(d, o) = Len(t.val) /\ prop_nameoff(d, o) = Signed(x)
  <2>0. (s + (o + k) = (s + o) + k) /\ (s + (o + q) = (s + o) + q)
    OBVIOUS
  <2>1. At(d, o + k) = At(d, o) + k /\ At(d, o + q) = At(d, o) + q
    BY <1>1, <2>0, Zenon DEF At
  <2>2. LoadCell(d, At(d, o) + Cell) = Len(t.val) /\ LoadCell(d, At(d, o) + 2 * Cell) = x
    BY DEF HoldsToken
  <2> QED BY <1>1, <2>1, <2>2 DEF prop_len, prop_nameoff, StructCell
<1>6. Len(t.val) \in Nat /\ Len(t.name) \in Nat /\ t.name \in NameStrings
  BY SizeFacts, TokenCases
<1>7. PICK r : r = fdt_get_string(d, prop_nameoff(d, o)) /\ r.len = Len(t.name)
  <2>1. PICK y \in Nat : y = Signed(x)
    OBVIOUS
  <2>2. fdt_get_string(d, y).len = Len(t.name)
    BY <1>6, <2>1, StringAccepted
  <2> QED BY <1>5, <2>1, <2>2
<1>8. ~(p.len < 0) /\ ~(r.len < 0)
  BY <1>4, <1>5, <1>6, <1>7
<1>9. fdt_getprop_by_offset(d, o) = [len |-> p.len, offset |-> o, data |-> p.data, name |-> r.str]
  BY <1>4, <1>7, <1>8 DEF fdt_getprop_by_offset
<1> QED BY <1>4, <1>5, <1>6, <1>9

LEMMA RootAccepted ==
  ASSUME NEW m, NEW d, Legible(m, d), NEW t \in TreeTokens, t.tag = "begin", t.name = <<>>,
         NEW x, HoldsToken(d, At(d, 0), t, x), InBlock(d, 0, TokenSize(t))
  PROVE  fdt_get_name(d, 0).len = 0
<1>0. d \in BlobsIn(m) /\ Fits(d)
  BY DEF Legible, Fits
<1>1. PICK s \in Nat, k \in Nat, e \in Nat, z \in Nat, o \in Nat :
        s = d.off_dt_struct /\ k = Cell /\ e = d.totalsize /\ z = TokenSize(t) /\ o = 0
  BY <1>0, BlobFacts, CellFacts, SizeFacts
<1>2. fdt_next_tag(d, o) = [tag |-> FDT_BEGIN_NODE, next |-> o + z]
  <2>1. Aligned(o) /\ HoldsToken(d, At(d, o), t, x) /\ InBlock(d, o, TokenSize(t))
    BY <1>1, AlignedZero
  <2>2. fdt_next_tag(d, o) = [tag |-> Number(t), next |-> o + TokenSize(t)]
    BY <1>0, <2>1, NextTagHeld
  <2> QED BY <1>1, <2>2, NumberFacts
<1>3. fdt_check_node_offset_(d, o) = o + z
  <2>1. ~(o < 0 \/ o % Cell # 0)
    BY <1>1, AlignedZero DEF Aligned
  <2>2. fdt_next_tag(d, o).tag = FDT_BEGIN_NODE /\ fdt_next_tag(d, o).next = o + z
    BY <1>2
  <2>3. check_offset(d, o, FDT_BEGIN_NODE) = o + z
    BY <2>1, <2>2 DEF check_offset
  <2> QED BY <2>3 DEF fdt_check_node_offset_
<1>4. CString(d, At(d, o) + Cell) = <<>>
  <2>1. HoldsString(d, At(d, o) + k, <<>>) /\ <<>> \in Seq(Letter) /\ Len(<<>>) <= e
    BY <1>1 DEF HoldsToken
  <2>2. At(d, o) + k \in Int
    BY <1>1 DEF At
  <2> QED BY <1>1, <2>1, <2>2, StringRead
<1>5. ~(fdt_ro_probe_(d) < 0) /\ ~(o + z < 0)
  BY <1>1 DEF Legible
<1>6. fdt_get_name(d, o) = Text(<<>>)
  BY <1>3, <1>4, <1>5 DEF fdt_get_name
<1> QED BY <1>1, <1>6 DEF Text

(* The state of the walk before token i.                                   *)
Ahead(ts, off, i) == <<off[i], Open(ts, i), i = Len(ts) + 1>>

LEMMA FinalProbed ==
  ASSUME NEW m, NEW d, NEW k \in Nat, NEW ts \in Trees, NEW off, NEW x, Final(m, d, k, ts, off, x),
         fdt_ro_probe_(d) = d.totalsize
  PROVE  Legible(m, d) /\ Laid(ts, off)
BY DEF Legible, Final, Log

LEMMA FinalInBlock ==
  ASSUME NEW m, NEW d, NEW k \in Nat, NEW ts \in Trees, NEW off, NEW x, Final(m, d, k, ts, off, x),
         NEW p \in Nat, NEW n \in Nat, p + n <= off[Len(ts) + 1] + Cell
  PROVE  InBlock(d, p, n)
<1>1. PICK s \in Nat, o \in Nat, h \in Nat, z \in Nat, t \in Nat :
        /\ s = d.off_dt_struct /\ o = off[Len(ts) + 1] /\ h = headsize(d) /\ z = d.size_dt_strings
        /\ t = d.totalsize /\ d.off_dt_strings = h /\ d.size_dt_struct = o + Cell /\ h = s + (o + Cell)
        /\ t = h + z /\ t <= INT_MAX
  BY FinalSizes
<1>2. PICK c \in Nat : c = Cell
  BY CellPos
<1>3. s + p + n <= t /\ p + n <= o + c
  <2>1. t = (s + (o + c)) + z /\ p + n <= o + c
    BY <1>1, <1>2
  <2> QED BY <2>1
<1> QED BY <1>1, <1>2, <1>3 DEF InBlock

LEMMA TokenInBlock ==
  ASSUME NEW m, NEW d, NEW k \in Nat, NEW ts \in Trees, NEW off, NEW x, Final(m, d, k, ts, off, x),
         NEW i \in 1 .. Len(ts)
  PROVE  /\ off[i] \in Nat /\ Aligned(off[i]) /\ InBlock(d, off[i], TokenSize(ts[i]))
         /\ ts[i] \in TreeTokens /\ off[i + 1] = off[i] + TokenSize(ts[i])
         /\ HoldsToken(d, At(d, off[i]), ts[i], x[i])
<1>1. Log(d, ts, off, x) /\ Laid(ts, off)
  BY DEF Final, Log
<1>2. PICK c \in Nat : c = Cell
  BY CellPos
<1>3. PICK p \in Nat, n \in Nat : p = off[i] /\ n = TokenSize(ts[i]) /\ p + n <= off[Len(ts) + 1] + Cell
  <2>1. PICK p \in Nat, n \in Nat, e \in Nat : p = off[i] /\ n = TokenSize(ts[i]) /\ e = off[Len(ts) + 1] /\ p + n <= e
    BY <1>1, LaidInside
  <2>2. p + n <= e + c
    BY <2>1
  <2> QED BY <1>2, <2>1, <2>2
<1>4. InBlock(d, p, n)
  BY <1>3, FinalInBlock
<1>5. i \in 1 .. Len(ts) + 1 /\ ts[i] \in TreeTokens
  BY TreeFacts
<1>6. Aligned(off[i])
  BY <1>1, <1>5, LaidAligned
<1>7. off[i + 1] = off[i] + TokenSize(ts[i])
  BY <1>1 DEF Laid
<1>8. HoldsToken(d, At(d, off[i]), ts[i], x[i])
  BY <1>1 DEF Log, At
<1> QED BY <1>3, <1>4, <1>5, <1>6, <1>7, <1>8

(* No token of the tree is refused.                                        *)
Passes(d, o, tag, v, e) == \E r \in Nat : r = refused(d, o, tag, v, e)

LEMMA TokenAccepted ==
  ASSUME NEW m, NEW d, NEW k \in Nat, NEW ts \in Trees, NEW off, NEW x, Final(m, d, k, ts, off, x),
         Legible(m, d), IsTree(ts), NEW i \in 1 .. Len(ts), NEW tag, tag = Number(ts[i]),
         NEW v, v = Open(ts, i), NEW e, ~e
  PROVE  Passes(d, off[i], tag, v, e)
<1>1. /\ off[i] \in Nat /\ Aligned(off[i]) /\ InBlock(d, off[i], TokenSize(ts[i]))
      /\ ts[i] \in TreeTokens /\ off[i + 1] = off[i] + TokenSize(ts[i])
      /\ HoldsToken(d, At(d, off[i]), ts[i], x[i])
  BY TokenInBlock
<1>2. PICK t, o, y : t \in TreeTokens /\ o \in Nat /\ t = ts[i] /\ o = off[i] /\ y = x[i]
  BY <1>1
<1>3. Named(d, ts, x) /\ Forward(ts, x)
  BY DEF Final
<1>4. ts \in Seq(TreeTokens)
  BY DEF Trees
<1>5. v \in Int
  <2>1. i \in 1 .. Len(ts) + 1
    BY TreeFacts
  <2> QED BY <1>4, <2>1, OpenTyped
<1>6. v = 0 => i = 1
  <2>1. i \in 2 .. Len(ts) => v >= 1
    BY <1>5 DEF IsTree
  <2>2. i \in 1 .. Len(ts) /\ Len(ts) \in Nat
    BY TreeFacts
  <2> QED BY <2>1, <2>2
<1> DEFINE root_name(len) == IF len > 0 THEN -FDT_ERR_BADSTRUCTURE ELSE len
<1>7. refused(d, o, tag, v, e) =
        CASE tag = FDT_BEGIN_NODE /\ v = 0 -> root_name(fdt_get_name(d, o).len)
          [] tag = FDT_END_NODE /\ v = 0 -> -FDT_ERR_BADSTRUCTURE
          [] tag = FDT_END /\ unclosed(v) -> -FDT_ERR_BADSTRUCTURE
          [] tag = FDT_PROP -> fdt_getprop_by_offset(d, o).len
          [] OTHER -> 0
  BY DEF refused
<1>11. PICK r : r = refused(d, o, tag, v, e)
  OBVIOUS
<1> SUFFICES r \in Nat
  BY <1>2, <1>11 DEF Passes
<1>12. 0 \in Nat
  OBVIOUS
<1>8. CASE t.tag = "begin"
  <2>1. tag = FDT_BEGIN_NODE
    BY <1>2, <1>8, NumberFacts
  <2>2. CASE v = 0
    <3>1. o = 0 /\ t.name = <<>>
      <4>1. i = 1 /\ off[1] = 0
        BY <1>6, <2>2 DEF Final, Log, Laid
      <4>2. ts[1] = Begin(<<>>)
        BY DEF IsTree
      <4>3. Begin(<<>>).name = <<>>
        BY DEF Begin
      <4> QED BY <1>2, <4>1, <4>2, <4>3
    <3>2. HoldsToken(d, At(d, 0), t, y) /\ InBlock(d, 0, TokenSize(t))
      BY <1>1, <1>2, <3>1
    <3>3. fdt_get_name(d, 0).len = 0
      BY <1>2, <1>8, <3>1, <3>2, RootAccepted
    <3>4. refused(d, o, tag, v, e) = root_name(fdt_get_name(d, o).len)
      BY <1>7, <2>1, <2>2, TagsDiffer, Zenon
    <3>5. root_name(0) = 0
      OBVIOUS
    <3>6. refused(d, o, tag, v, e) = 0
      <4> HIDE DEF root_name
      <4> QED BY <3>1, <3>3, <3>4, <3>5
    <3> QED BY <1>11, <1>12, <3>6, Zenon
  <2>3. CASE v # 0
    <3>1. refused(d, o, tag, v, e) = 0
      BY <1>7, <2>1, <2>3, TagsDiffer, Zenon
    <3> QED BY <1>11, <1>12, <3>1, Zenon
  <2> QED BY <2>2, <2>3
<1>9. CASE t.tag = "end"
  <2>1. tag = FDT_END_NODE
    BY <1>2, <1>9, NumberFacts
  <2>2. v # 0
    <3> SUFFICES ASSUME v = 0 PROVE FALSE
      OBVIOUS
    <3>1. t = Begin(<<>>)
      BY <1>2, <1>6 DEF IsTree
    <3> QED BY <1>9, <3>1 DEF Begin
  <2>3. refused(d, o, tag, v, e) = 0
    BY <1>7, <2>1, <2>2, TagsDiffer, Zenon
  <2> QED BY <1>11, <1>12, <2>3, Zenon
<1>10. CASE t.tag = "prop"
  <2>1. tag = FDT_PROP
    BY <1>2, <1>10, NumberFacts
  <2>2. Signed(y) \in Nat /\ HoldsName(d, d.off_dt_strings + Signed(y), t.name)
    BY <1>2, <1>3, <1>10 DEF Named, Forward
  <2>3. Aligned(o) /\ HoldsToken(d, At(d, o), t, y) /\ InBlock(d, o, TokenSize(t))
    BY <1>1, <1>2
  <2>4. fdt_getprop_by_offset(d, o).len \in Nat
    BY <1>2, <1>10, <2>2, <2>3, PropAccepted
  <2>5. refused(d, o, tag, v, e) = fdt_getprop_by_offset(d, o).len
    BY <1>7, <2>1, TagsDiffer, Zenon
  <2> QED BY <1>11, <2>4, <2>5
<1> QED BY <1>2, <1>8, <1>9, <1>10, TokenCases

LEMMA CheckFromHeld ==
  ASSUME NEW c, NEW w, NEW o \in Nat, NEW d \in Int, NEW e \in BOOLEAN, NEW t, t = fdt_next_tag(c, o), t.next \in Nat,
         NEW r,
         r = refused(c, o, t.tag, d, e)
  PROVE  /\ t.tag = FDT_END => check_from(c, w, o, d, e) = r
         /\ t.tag # FDT_END /\ ~(r < 0) =>
              check_from(c, w, o, d, e) = w[<<t.next, depth_after(d, t.tag), Past(t.tag, d, e)>>]
<1>1. ~(t.next < 0) /\ t.next >= 0
  OBVIOUS
<1>2. check_from(c, w, o, d, e) =
        CASE t.next < 0 -> t.next
          [] t.next >= 0 /\ (r < 0 \/ t.tag = FDT_END) -> r
          [] OTHER -> w[<<t.next, depth_after(d, t.tag), Past(t.tag, d, e)>>]
  BY DEF check_from, Past
<1> QED BY <1>1, <1>2, Zenon

LEMMA CheckEnds ==
  ASSUME NEW c, NEW w, NEW o \in Nat, NEW d \in Int, NEW e \in BOOLEAN, NEW t, t = fdt_next_tag(c, o),
         t.next \in Nat, t.tag = FDT_END, refused(c, o, t.tag, d, e) = 0
  PROVE  check_from(c, w, o, d, e) = 0
<1>1. ~(t.next < 0) /\ t.next >= 0
  OBVIOUS
<1>2. PICK r : r = refused(c, o, t.tag, d, e)
  OBVIOUS
<1>3. check_from(c, w, o, d, e) =
        CASE t.next < 0 -> t.next
          [] t.next >= 0 /\ (r < 0 \/ t.tag = FDT_END) -> r
          [] OTHER -> w[<<t.next, depth_after(d, t.tag), Past(t.tag, d, e)>>]
  BY <1>2 DEF check_from, Past
<1>4. check_from(c, w, o, d, e) = r
  BY <1>1, <1>3, Zenon
<1> QED BY <1>2, <1>4

WalksOver(d, w) == \A o \in Int, v \in Int, e \in BOOLEAN : w[<<o, v, e>>] = check_from(d, w, o, v, e)

LEMMA StepAccepted ==
  ASSUME NEW m, NEW d, NEW k \in Nat, NEW ts \in Trees, NEW off, NEW x, Final(m, d, k, ts, off, x),
         Legible(m, d), IsTree(ts), NEW i \in 1 .. Len(ts), NEW w, w[Ahead(ts, off, i + 1)] = 0,
         WalksOver(d, w)
  PROVE  w[Ahead(ts, off, i)] = 0
<1>1. /\ off[i] \in Nat /\ Aligned(off[i]) /\ InBlock(d, off[i], TokenSize(ts[i]))
      /\ ts[i] \in TreeTokens /\ off[i + 1] = off[i] + TokenSize(ts[i])
      /\ HoldsToken(d, At(d, off[i]), ts[i], x[i])
  BY TokenInBlock
<1>2. PICK t \in TreeTokens, o \in Nat, z \in Nat : t = ts[i] /\ o = off[i] /\ z = TokenSize(t)
  BY <1>1, SizeFacts
<1>3. PICK n \in Nat : n = Len(ts) /\ i \in 1 .. n
  BY TreeFacts
<1>4. PICK v \in Int, u \in Int : v = Open(ts, i) /\ u = Open(ts, i + 1) /\ u = v + Deep(t)
  <2>1. ts \in Seq(TreeTokens)
    BY DEF Trees
  <2>2. Open(ts, i) \in Int /\ Deep(ts[i]) \in Int /\ Open(ts, i + 1) = Open(ts, i) + Deep(ts[i])
    BY <2>1, OpenStep
  <2> QED BY <1>2, <2>2
<1>5. PICK e \in BOOLEAN, f \in BOOLEAN : e = FALSE /\ f = (i + 1 = n + 1)
  OBVIOUS
<1>6. Ahead(ts, off, i) = <<o, v, e>> /\ Ahead(ts, off, i + 1) = <<o + z, u, f>>
  <2>1. (i = n + 1) = e
    BY <1>3, <1>5
  <2> QED BY <1>1, <1>2, <1>3, <1>4, <1>5, <2>1 DEF Ahead
<1>20. PICK a : a = fdt_next_tag(d, o)
  OBVIOUS
<1>7. a.tag = Number(t) /\ a.next = o + z
  <2>1. d \in BlobsIn(m) /\ Fits(d)
    BY DEF Legible, Fits
  <2>2. fdt_next_tag(d, o) = [tag |-> Number(t), next |-> o + TokenSize(t)]
    BY <1>1, <1>2, <2>1, NextTagHeld
  <2>3. o + z \in Nat
    OBVIOUS
  <2> QED BY <1>2, <1>20, <2>2, <2>3
<1>21. a.next \in Nat
  BY <1>7
<1>8. PICK r : r = refused(d, o, a.tag, v, e) /\ ~(r < 0)
  <2>1. a.tag = Number(ts[i]) /\ v = Open(ts, i) /\ ~e
    BY <1>2, <1>4, <1>5, <1>7
  <2>2. Passes(d, off[i], a.tag, v, e)
    BY <2>1, TokenAccepted
  <2>3. Passes(d, o, a.tag, v, e)
    BY <1>2, <2>2
  <2> QED BY <2>3 DEF Passes
<1>9. a.tag # FDT_END
  BY <1>2, <1>7, NumberFacts, TagsDiffer, TokenCases
<1>11. check_from(d, w, o, v, e) = w[<<a.next, depth_after(v, a.tag), Past(a.tag, v, e)>>]
  <2>1. /\ a.tag = FDT_END => check_from(d, w, o, v, e) = r
        /\ a.tag # FDT_END /\ ~(r < 0) =>
              check_from(d, w, o, v, e) = w[<<a.next, depth_after(v, a.tag), Past(a.tag, v, e)>>]
    BY <1>20, <1>21, <1>8, CheckFromHeld
  <2> QED BY <1>8, <1>9, <2>1
<1>12. depth_after(v, a.tag) = u
  <2>1. CASE t.tag = "begin"
    <3>1. a.tag = FDT_BEGIN_NODE /\ Deep(t) = 1
      BY <1>7, <2>1, NumberFacts DEF Deep, One
    <3>2. depth_after(v, a.tag) = v + 1
      BY <3>1, TagsDiffer, Zenon DEF depth_after
    <3> QED BY <1>4, <3>1, <3>2
  <2>2. CASE t.tag = "end"
    <3>1. a.tag = FDT_END_NODE /\ Deep(t) = -1 /\ FDT_END_NODE # FDT_BEGIN_NODE
      BY <1>7, <2>2, NumberFacts, TagsDiffer DEF Deep, One
    <3>2. depth_after(v, a.tag) = v - 1
      BY <3>1, Zenon DEF depth_after
    <3> QED BY <1>4, <3>1, <3>2
  <2>3. CASE t.tag = "prop"
    <3>1. a.tag = FDT_PROP /\ Deep(t) = 0
      BY <1>7, <2>3, NumberFacts DEF Deep, One
    <3>2. depth_after(v, a.tag) = v
      BY <3>1, TagsDiffer DEF depth_after
    <3> QED BY <1>4, <3>1, <3>2
  <2> QED BY <2>1, <2>2, <2>3, TokenCases
<1>13. Past(a.tag, v, e) = f
  <2>1. i + 1 \in 2 .. n => u >= 1
    BY <1>3, <1>4 DEF IsTree
  <2>2. i + 1 = n + 1 => t.tag = "end" /\ u = 0
    <3>1. i + 1 = n + 1 => i = n
      BY <1>3
    <3> QED BY <1>2, <1>3, <1>4, <3>1 DEF IsTree
  <2>3. CASE i + 1 = n + 1
    <3>1. t.tag = "end" /\ Deep(t) = -1
      BY <2>2, <2>3 DEF Deep, One
    <3>2. v = 1 /\ a.tag = FDT_END_NODE
      BY <1>4, <1>7, <2>2, <2>3, <3>1, NumberFacts
    <3> QED BY <1>5, <2>3, <3>2 DEF Past
  <2>4. CASE ~(i + 1 = n + 1)
    <3>1. u >= 1
      BY <1>3, <2>1, <2>4
    <3>2. ~(a.tag = FDT_END_NODE /\ v = 1)
      <4> SUFFICES ASSUME a.tag = FDT_END_NODE, v = 1 PROVE FALSE
        OBVIOUS
      <4>1. t.tag = "end"
        BY <1>7, NumberFacts, TagsDiffer, TokenCases
      <4>2. Deep(t) = -1
        BY <4>1 DEF Deep, One
      <4> QED BY <1>4, <3>1, <4>2
    <3> QED BY <1>5, <2>4, <3>2 DEF Past
  <2> QED BY <2>3, <2>4
<1>14. w[<<o, v, e>>] = check_from(d, w, o, v, e)
  <2>1. o \in Int
    OBVIOUS
  <2> QED BY <2>1 DEF WalksOver
<1>15. <<a.next, depth_after(v, a.tag), Past(a.tag, v, e)>> = Ahead(ts, off, i + 1)
  BY <1>6, <1>7, <1>12, <1>13
<1> QED BY <1>6, <1>11, <1>14, <1>15

LEMMA EndAccepted ==
  ASSUME NEW m, NEW d, NEW k \in Nat, NEW ts \in Trees, NEW off, NEW x, Final(m, d, k, ts, off, x),
         IsTree(ts), NEW w,
         WalksOver(d, w)
  PROVE  w[Ahead(ts, off, Len(ts) + 1)] = 0
<1>1. PICK n \in Nat : n = Len(ts) /\ n + 1 \in 1 .. n + 1
  BY TreeFacts
<1>2. PICK o \in Nat : o = off[n + 1] /\ Aligned(o)
  <2>1. Laid(ts, off)
    BY DEF Final, Log
  <2> QED BY <1>1, <2>1, LaidAligned
<1>0. PICK e \in BOOLEAN : e = TRUE
  OBVIOUS
<1>3. PICK v \in Int : v = 0 /\ e = TRUE
  BY <1>0
<1>4. Ahead(ts, off, Len(ts) + 1) = <<o, v, e>>
  <2>1. Open(ts, n + 1) = 0
    BY <1>1 DEF IsTree
  <2> QED BY <1>1, <1>2, <1>3, <2>1 DEF Ahead
<1>5. PICK c \in Nat, p \in Nat : c = Cell /\ p = o + c
  BY CellPos
<1>6. InBlock(d, o, c)
  <2>1. o + c <= off[Len(ts) + 1] + Cell
    BY <1>1, <1>2, <1>5
  <2> QED BY <2>1, FinalInBlock
<1>20. PICK a : a = fdt_next_tag(d, o)
  OBVIOUS
<1>7. a.tag = FDT_END /\ a.next \in Nat
  <2>1. d \in BlobsIn(m) /\ LoadCell(d, At(d, o)) = FDT_END
    BY <1>1, <1>2 DEF Final
  <2>2. fdt_next_tag(d, o) = [tag |-> FDT_END, next |-> o + Cell]
    BY <1>2, <1>5, <1>6, <2>1, NextTagEnds
  <2>3. o + Cell \in Nat
    BY <1>5
  <2> QED BY <1>20, <2>2, <2>3
<1>22. PICK r : r = refused(d, o, a.tag, v, e)
  OBVIOUS
<1>8. r = 0
  <2>1. ~(a.tag = FDT_BEGIN_NODE) /\ ~(a.tag = FDT_END_NODE) /\ ~(a.tag = FDT_PROP) /\ ~unclosed(v)
    BY <1>3, <1>7, TagsDiffer DEF unclosed
  <2>2. ~(e /\ a.tag \notin {FDT_END, FDT_NOP})
    BY <1>7
  <2>3. refused(d, o, a.tag, v, e) = 0
    BY <2>1, <2>2, Zenon DEF refused
  <2> QED BY <1>22, <2>3
<1>9. check_from(d, w, o, v, e) = r
  <2>1. a.next \in Nat /\ a.tag = FDT_END /\ refused(d, o, a.tag, v, e) = 0
    BY <1>7, <1>8, <1>22
  <2>2. check_from(d, w, o, v, e) = 0
    BY <1>20, <2>1, CheckEnds
  <2> QED BY <1>8, <2>2
<1>10. w[<<o, v, e>>] = check_from(d, w, o, v, e)
  <2>1. o \in Int
    OBVIOUS
  <2> QED BY <2>1 DEF WalksOver
<1> QED BY <1>4, <1>8, <1>9, <1>10

LEMMA StructureAccepted ==
  ASSUME NEW m, NEW d, NEW k \in Nat, NEW ts \in Trees, NEW off, NEW x, Final(m, d, k, ts, off, x),
         fdt_ro_probe_(d) = d.totalsize, IsTree(ts)
  PROVE  check_structure(d) = 0
<1>1. Legible(m, d) /\ Laid(ts, off) /\ d \in BlobsIn(m)
  BY FinalProbed DEF Final
<1>2. PICK w : WalksOver(d, w) /\ check_structure(d) = w[<<0, 0, FALSE>>]
  BY <1>1, CheckIsDefined DEF WalksOver
<1>3. PICK n \in Nat : n = Len(ts) /\ n >= 2
  BY TreeFacts DEF IsTree
<1> DEFINE G == {i \in 1 .. n + 1 : w[Ahead(ts, off, i)] = 0}
<1>4. \A i \in 1 .. n + 1 : (i < n + 1 => i + 1 \in G) => i \in G
  <2> SUFFICES ASSUME NEW i \in 1 .. n + 1, i < n + 1 => i + 1 \in G PROVE w[Ahead(ts, off, i)] = 0
    OBVIOUS
  <2>1. CASE i = n + 1
    BY <1>2, <1>3, <2>1, EndAccepted
  <2>2. CASE i < n + 1
    <3>1. i \in 1 .. Len(ts) /\ w[Ahead(ts, off, i + 1)] = 0
      BY <1>3, <2>2
    <3> QED BY <1>1, <1>2, <3>1, StepAccepted
  <2> QED BY <2>1, <2>2
<1>5. 1 \in G
  <2>1. 1 \in 1 .. n + 1 /\ n + 1 \in Int /\ 1 \in Int
    OBVIOUS
  <2> HIDE DEF G
  <2>2. \A i \in 1 .. n + 1 : i \in G
    BY <1>4, <2>1, Downwards
  <2> QED BY <2>1, <2>2
<1>6. Ahead(ts, off, 1) = <<0, 0, FALSE>>
  <2>1. Open(ts, 1) = 0
    BY OpenFirst DEF Trees
  <2>2. off[1] = 0
    BY <1>1 DEF Laid
  <2>3. (1 = Len(ts) + 1) = FALSE
    BY <1>3
  <2> QED BY <2>1, <2>2, <2>3 DEF Ahead
<1> QED BY <1>2, <1>5, <1>6

LEMMA HeaderRoom == ASSUME NEW c, fdt_check_header(c) = 0 PROVE ~(c.totalsize < fdt_header_size(c))
<1> DEFINE small == c.totalsize < fdt_header_size(c) \/ c.totalsize > INT_MAX
<1>1. -FDT_ERR_ALIGNMENT # 0 /\ -FDT_ERR_BADMAGIC # 0 /\ -FDT_ERR_BADVERSION # 0 /\ -FDT_ERR_TRUNCATED # 0
  BY DEF FDT_ERR_ALIGNMENT, FDT_ERR_BADMAGIC, FDT_ERR_BADVERSION, FDT_ERR_TRUNCATED
<1>2. ~small
  BY <1>1 DEF fdt_check_header
<1> QED BY <1>2

(* What the writer finishes is accepted as a whole.                        *)
LEMMA FinalIsAccepted ==
  ASSUME NEW m, NEW d, NEW k \in Nat, NEW ts \in Trees, NEW off, NEW x, Final(m, d, k, ts, off, x),
         d.addr % Alignment8 = 0, d.totalsize < INT_MAX, IsTree(ts), fdt_num_mem_rsv(d) = k
  PROVE  fdt_check_full(d, d.totalsize) = 0
<1>1. fdt_check_header(d) = 0 /\ fdt_ro_probe_(d) = d.totalsize
  BY HeaderAccepted
<1>2. check_structure(d) = 0
  BY <1>1, StructureAccepted
<1>3. d \in BlobsIn(m) /\ d.version = 17
  BY DEF Final
<1>4. PICK t \in Nat, c \in Nat : t = d.totalsize /\ c = Cell
  BY <1>3, BlobFacts, CellPos
<1>5. fdt_header_size(d) = 10 * c /\ fdt_header_size_(1) = 7 * c
  <2>1. fdt_header_size(d) = c * 10
    BY <1>3, <1>4, SMT DEF fdt_header_size, fdt_header_size_
  <2>2. fdt_header_size_(1) = c * 7
    BY <1>4, SMT DEF fdt_header_size_
  <2> QED BY <2>1, <2>2
<1>6. ~(t < 10 * c)
  BY <1>1, <1>4, <1>5, HeaderRoom
<1>7. ~(t < 7 * c)
  BY <1>6
<1>8. ~(fdt_num_mem_rsv(d) < 0) /\ ~(t < t) /\ ~(fdt_check_header(d) < 0)
  BY <1>1
<1> QED BY <1>2, <1>4, <1>5, <1>6, <1>7, <1>8 DEF fdt_check_full, unless_error

(***************************************************************************)
(* What has been written is valid.                                         *)
(***************************************************************************)
Kept(c, k) == EntriesOf(c, k) \in Seq(Entries)
Valid(c) ==
  \/ c = NoBlob
  \/ \E k \in Nat : Reserving(c, k) /\ Kept(c, k)
  \/ \E k \in Nat, ts \in Trees : Building(c, k, ts) /\ Kept(c, k) /\ Sealed(c, k) /\ Tabled(c, ts)
  \/ \E k \in Nat, ts \in Trees : Complete(c, k, ts) /\ Kept(c, k) /\ Sealed(c, k) /\ NoStrays(c, ts)

LEMMA NextIsValid == ASSUME Valid(b), WriterNext PROVE Valid(b')
<1>1. ASSUME b = NoBlob PROVE Valid(b')
  <2>1. ASSUME Reserving(b', 0) PROVE Valid(b')
    <3>1. EntriesOf(b', 0) = <<>>
      BY DEF EntriesOf
    <3>2. Kept(b', 0)
      BY <3>1, EmptySeq DEF Kept
    <3> QED BY <2>1, <3>2 DEF Valid
  <2> QED BY <1>1, <2>1, StepFromNothing DEF Valid
<1>2. ASSUME NEW k \in Nat, Reserving(b, k), Kept(b, k) PROVE Valid(b')
  <2>1. ASSUME Reserving(b', k), EntriesOf(b', k) = EntriesOf(b, k) PROVE Valid(b')
    BY <1>2, <2>1 DEF Valid, Kept
  <2>2. ASSUME NEW e \in Entries, Reserving(b', k + 1), EntriesOf(b', k + 1) = Append(EntriesOf(b, k), e)
        PROVE  Valid(b')
    <3>1. PICK j \in Nat : j = k + 1
      OBVIOUS
    <3>2. Kept(b', j)
      BY <1>2, <2>2, <3>1, AppendProperties DEF Kept
    <3> QED BY <2>2, <3>1, <3>2 DEF Valid
  <2>3. ASSUME Building(b', k, <<>>), EntriesOf(b', k) = EntriesOf(b, k), Sealed(b', k), Tabled(b', <<>>)
        PROVE  Valid(b')
    <3>1. <<>> \in Trees /\ Kept(b', k)
      BY <1>2, <2>3 DEF Trees, Kept
    <3> QED BY <2>3, <3>1 DEF Valid
  <2> QED BY <1>2, <2>1, <2>2, <2>3, StepFromReserving DEF Valid
<1>3. ASSUME NEW k \in Nat, NEW ts \in Trees, Building(b, k, ts), Kept(b, k), Sealed(b, k), Tabled(b, ts)
      PROVE  Valid(b')
  <2>1. ASSUME NEW us \in Trees, Follows(b, b', k, us), Gains(b, b', ts, us) PROVE Valid(b')
    <3>1. EntriesOf(b', k) = EntriesOf(b, k) /\ Sealed(b', k)
      BY <1>3, <2>1, FollowsEntries, FollowsSealed
    <3>2. Building(b', k, us) /\ Kept(b', k) /\ Tabled(b', us)
      BY <1>3, <2>1, <3>1 DEF Follows, Kept, Gains
    <3> QED BY <3>1, <3>2 DEF Valid
  <2>2. ASSUME NEW t \in WrittenTokens, Follows(b, b', k, Append(ts, t)), Gains(b, b', ts, Append(ts, t))
        PROVE  Valid(b')
    <3>1. PICK us \in Trees : us = Append(ts, t)
      BY WrittenIsTyped, TokensStay
    <3> QED BY <2>1, <2>2, <3>1
  <2>3. ASSUME Complete(b', k, ts), EntriesOf(b', k) = EntriesOf(b, k), Sealed(b', k), NoStrays(b', ts)
        PROVE  Valid(b')
    <3>1. Kept(b', k)
      BY <1>3, <2>3 DEF Kept
    <3> QED BY <2>3, <3>1 DEF Valid
  <2>4. NoStrays(b, ts)
    BY <1>3 DEF Tabled
  <2>5. ASSUME b' = b PROVE Valid(b')
    BY <2>5 DEF Valid
  <2> QED BY <1>3, <2>1, <2>2, <2>3, <2>4, <2>5, StepFromBuilding
<1>4. ASSUME NEW k \in Nat, NEW ts \in Trees, Complete(b, k, ts), Kept(b, k), Sealed(b, k), NoStrays(b, ts)
      PROVE  Valid(b')
  <2>1. b' = b
    BY <1>4, StepFromComplete DEF Complete
  <2> QED BY <2>1 DEF Valid
<1> QED BY <1>1, <1>2, <1>3, <1>4 DEF Valid

(* The strings, as the properties name them.                               *)
StringsAt(c, base) == {p \in base .. base + c.size_dt_strings - 1 : p = base \/ Byte(c, p - 1) = 0}

LEMMA StartsAreStrings ==
  ASSUME NEW c, Sized(c), NEW base \in Int, base + c.size_dt_strings = c.totalsize,
         NEW p \in StringsAt(c, base)
  PROVE  \E v \in Starts(c) : v \in Nat /\ v <= c.size_dt_strings /\ p = c.totalsize - v /\ p \in Int
<1>1. PICK z \in Nat, e \in Nat : z = c.size_dt_strings /\ e = c.totalsize /\ base + z = e
  BY DEF Sized
<1>2. p \in base .. base + z - 1 /\ (p = base \/ Byte(c, p - 1) = 0)
  BY <1>1 DEF StringsAt
<1>3. PICK v \in Nat : v = e - p /\ 0 < v /\ v <= z /\ p = e - v /\ p - 1 = e - (v + 1) /\ (p = base => v = z)
  <2>1. /\ e - p \in Nat /\ 0 < e - p /\ e - p <= z /\ p = e - (e - p) /\ p - 1 = e - ((e - p) + 1)
        /\ p = base => e - p = z
    <3>1. p \in Int /\ base <= p /\ p <= base + z - 1 /\ base + z = e
      BY <1>1, <1>2
    <3> QED BY <3>1
  <2> QED BY <2>1
<1>4. v \in Starts(c)
  BY <1>1, <1>2, <1>3 DEF Starts
<1> QED BY <1>1, <1>2, <1>3, <1>4

LEMMA StringsUsed ==
  ASSUME NEW c, Sized(c), NEW base \in Int, base + c.size_dt_strings = c.totalsize, NEW ts \in Trees,
         NoStrays(c, ts), NEW p \in StringsAt(c, base)
  PROVE  \E i \in TagAt(ts, "prop") : ts[i].name = CString(c, p)
<1>1. PICK v \in Starts(c) : v \in Nat /\ v <= c.size_dt_strings /\ p = c.totalsize - v
  BY StartsAreStrings
<1>2. PICK i \in 1 .. Len(ts) : ts[i].tag = "prop" /\ Stands(c, v, ts[i].name)
  BY <1>1 DEF NoStrays
<1>3. PICK name \in NameStrings : name = ts[i].name
  BY TokensStay, TreeFacts, TokenCases
<1>4. CString(c, p) = name
  BY <1>1, <1>2, <1>3, StandsOnce
<1>5. i \in TagAt(ts, "prop")
  BY <1>2, TreeFacts DEF TagAt
<1> QED BY <1>3, <1>4, <1>5

LEMMA StringsShared ==
  ASSUME NEW c, Sized(c), NEW base \in Int, base + c.size_dt_strings = c.totalsize, NEW ts \in Trees,
         NoStrays(c, ts), NoTwins(c), NEW p \in StringsAt(c, base), NEW q \in StringsAt(c, base),
         CString(c, p) = CString(c, q)
  PROVE  p = q
<1>1. PICK v \in Starts(c) : v \in Nat /\ v <= c.size_dt_strings /\ p = c.totalsize - v
  BY StartsAreStrings
<1>2. PICK w \in Starts(c) : w \in Nat /\ w <= c.size_dt_strings /\ q = c.totalsize - w
  BY StartsAreStrings
<1>3. PICK name \in NameStrings : Stands(c, v, name)
  BY <1>1, TreeFacts, TokenCases DEF NoStrays
<1>4. PICK nm \in NameStrings : Stands(c, w, nm)
  BY <1>2, TreeFacts, TokenCases DEF NoStrays
<1>5. name = nm
  BY <1>1, <1>2, <1>3, <1>4, StandsOnce
<1>6. v = w
  BY <1>3, <1>4, <1>5 DEF NoTwins
<1> QED BY <1>1, <1>2, <1>6

(* What b shows of its strings.                                            *)
LEMMA StringsShown ==
  ASSUME Sized(b), b.magic # "none", NEW base \in Int, base + b.size_dt_strings = b.totalsize,
         NEW ts \in Trees, NoStrays(b, ts), Written = ts, StringsBase = base,
         Stage = "struct" /\ b.last_comp_version = 0 => NoTwins(b)
  PROVE  NoStrayStrings /\ NamesShared
<1>1. StringStarts = StringsAt(b, base)
  BY DEF StringStarts, StringsAt
<1>2. NoStrayStrings
  BY <1>1, StringsUsed DEF NoStrayStrings
<1>3. NamesShared
  BY <1>1, StringsShared DEF NamesShared
<1> QED BY <1>2, <1>3

LEMMA NothingIsValid == ASSUME b = NoBlob PROVE WrittenIsValid
<1>1. b.magic = "none" /\ Stage = "none"
  BY ViewNow, NothingShown DEF Shows
<1> QED BY <1>1 DEF WrittenIsValid, BlocksInPlace, Made, NoStrayStrings, NamesShared, FinishedIsValid

LEMMA ReservingIsValid == ASSUME NEW k \in Nat, Reserving(b, k) PROVE WrittenIsValid
<1>1. Stage = "reserve"
  BY ViewNow, ReservingShown DEF Shows
<1>2. headsize(b) + b.size_dt_strings <= b.totalsize
  BY DEF Reserving, Draft
<1>3. b.off_mem_rsvmap <= b.off_dt_struct
  <2>1. k * EntrySize \in Nat
    BY Multiples
  <2> QED BY <2>1, SpaceIs DEF Reserving
<1> QED BY <1>1, <1>2, <1>3 DEF WrittenIsValid, BlocksInPlace, NoStrayStrings, NamesShared, FinishedIsValid

LEMMA BuildingIsValid ==
  ASSUME NEW k \in Nat, NEW ts \in Trees, Building(b, k, ts), Tabled(b, ts) PROVE WrittenIsValid
<1>1. Stage = "struct" /\ Written = ts
  BY ViewNow, BuildingShown DEF Shows
<1>2. Draft(b) /\ Sized(b) /\ b.magic # "none"
  BY DraftSized DEF Building, Draft
<1>3. headsize(b) + b.size_dt_strings <= b.totalsize
  BY <1>2 DEF Draft
<1>4. b.off_mem_rsvmap <= b.off_dt_struct
  BY BuildingBounds DEF Building
<1>5. PICK base \in Int : base = StringsBase /\ base + b.size_dt_strings = b.totalsize
  <2>1. PICK z \in Nat, e \in Nat : z = b.size_dt_strings /\ e = b.totalsize
    BY <1>2 DEF Sized
  <2>2. StringsBase = e - z
    BY <1>1, <2>1 DEF StringsBase
  <2>3. e - z \in Int /\ (e - z) + z = e
    OBVIOUS
  <2> QED BY <2>1, <2>2, <2>3
<1>6. NoStrayStrings /\ NamesShared
  BY <1>1, <1>2, <1>5, StringsShown DEF Tabled
<1> QED BY <1>1, <1>3, <1>4, <1>6 DEF WrittenIsValid, BlocksInPlace, FinishedIsValid

LEMMA CompleteIsValid ==
  ASSUME NEW k \in Nat, NEW ts \in Trees, Complete(b, k, ts), Kept(b, k), Sealed(b, k), NoStrays(b, ts)
  PROVE  WrittenIsValid
<1>1. Stage = "complete" /\ Written = ts /\ Reserved = EntriesOf(b, k)
  BY ViewNow, CompleteShown DEF Shows
<1>2. PICK m, off, x : Final(m, b, k, ts, off, x)
  BY DEF Complete, IsFinal
<1>3. PICK s \in Nat, h \in Nat, z \in Nat, t \in Nat :
        /\ s = b.off_dt_struct /\ h = headsize(b) /\ z = b.size_dt_strings /\ t = b.totalsize
        /\ b.off_dt_strings = h /\ t = h + z
  BY <1>2, FinalSizes
<1>4. BlocksInPlace
  <2>1. h + z <= t
    BY <1>3
  <2>2. PICK j \in Nat : j = k + 1 /\ j * EntrySize \in Nat
    <3>1. PICK j \in Nat : j = k + 1
      OBVIOUS
    <3> QED BY <3>1, Multiples
  <2>3. b.off_mem_rsvmap <= b.off_dt_struct
    BY <2>2, SpaceIs DEF Complete
  <2> QED BY <1>3, <2>1, <2>3 DEF BlocksInPlace
<1>5. NoStrayStrings /\ NamesShared
  <2>1. StringsBase = h /\ h \in Int /\ h + b.size_dt_strings = b.totalsize
    BY <1>1, <1>3 DEF StringsBase
  <2>2. Sized(b) /\ b.magic # "none" /\ ~(Stage = "struct")
    BY <1>1 DEF Complete
  <2> QED BY <1>1, <2>1, <2>2, StringsShown
<1>6. fdt_num_mem_rsv(b) = k
  <2>1. ASSUME NEW n \in 0 .. k - 1 PROVE mem_rsv_size(b, n) # <<0, 0>>
    <3>1. PICK i \in 1 .. k : i = n + 1 /\ i - 1 = n
      <4>1. n + 1 \in 1 .. k /\ (n + 1) - 1 = n
        OBVIOUS
      <4> QED BY <4>1
    <3>2. EntriesOf(b, k)[i] = EntryAt(b, n)
      BY <3>1 DEF EntriesOf
    <3>3. EntriesOf(b, k)[i] \in Entries
      <4>1. PICK es \in Seq(Entries) : es = EntriesOf(b, k)
        BY DEF Kept
      <4>2. DOMAIN es = 1 .. k
        BY <4>1 DEF EntriesOf
      <4>3. i \in DOMAIN es
        BY <3>1, <4>2
      <4> QED BY <4>1, <4>3, ElementOfSeq, LenProperties
    <3>4. PICK e \in Entries : e = EntryAt(b, n) /\ e[2] # <<0, 0>>
      BY <3>2, <3>3, WriterAssumption
    <3>5. e[2] = mem_rsv_size(b, n)
      BY <3>4 DEF EntryAt
    <3> QED BY <3>4, <3>5
  <2> QED BY <1>2, <2>1, EntriesCounted
<1>7. Len(Reserved) = k
  BY <1>1 DEF EntriesOf
<1>8. ASSUME IsTree(ts), b.addr % Alignment8 = 0, b.totalsize < INT_MAX
      PROVE  fdt_check_full(b, b.totalsize) = 0
  BY <1>2, <1>6, <1>8, FinalIsAccepted
<1>9. FinishedIsValid
  BY <1>1, <1>6, <1>7, <1>8 DEF FinishedIsValid
<1> QED BY <1>4, <1>5, <1>9 DEF WrittenIsValid

(* Whatever calls fail, and wherever the blob is moved: the blocks do not  *)
(* run into one another, every string is the name of a property, no name   *)
(* is stored twice unless the flag says so, and fdt_check_full accepts a   *)
(* finished tree, whose reservations fdt_num_mem_rsv counts.               *)
THEOREM WriterIsValid == WriterSpec => []WrittenIsValid
<1> DEFINE Inv  == Writing => Valid(b)
           Step == /\ Writing => (WriterNext /\ UNCHANGED program) \/ Handed
                   /\ Writing' => Writing
<1>1. ASSUME Writing => WriterInit PROVE Inv
  BY <1>1 DEF WriterInit, Valid
<1>2. ASSUME Inv, Step PROVE Inv'
  <2> SUFFICES ASSUME Writing' PROVE Valid(b')
    OBVIOUS
  <2>1. Writing /\ Valid(b) /\ WriterNext
    BY <1>2 DEF Handed
  <2> QED BY <2>1, NextIsValid
<1>3. ASSUME Inv, UNCHANGED vars PROVE Inv'
  BY <1>3 DEF vars, Valid, Writing
<1>4. ASSUME Inv PROVE WrittenIsValid
  <2> SUFFICES ASSUME Writing PROVE WrittenIsValid
    BY DEF WrittenIsValid
  <2>1. Valid(b)
    BY <1>4
  <2> QED BY <2>1, NothingIsValid, ReservingIsValid, BuildingIsValid, CompleteIsValid DEF Valid
<1>5. WriterSpec <=> (Writing => WriterInit) /\ [][Step]_vars
  BY DEF WriterSpec
<1> HIDE DEF Inv, Step
<1>6. Inv /\ [Step]_vars => Inv'
  BY <1>2, <1>3
<1> QED BY <1>1, <1>4, <1>5, <1>6, PTL
=============================================================================
