------------------------ MODULE MemoryObjects_proofs ------------------------
(***************************************************************************)
(* What MemoryObjects::alloc and free do to the allocation list, for every *)
(* list they can meet, word size, page size and request: the list stays    *)
(* sound, and exactly one block comes or goes.                             *)
(***************************************************************************)
EXTENDS MemoryObjects, SequenceTheorems, WellFoundedInduction, TLAPS

(* The least number principle, for a set of numbers: what stands for       *)
(* induction in the proofs below.                                          *)
LEMMA LeastNumber ==
    ASSUME NEW T \in SUBSET Nat, T # {}
    PROVE  \E x \in T : \A y \in T : x <= y
  <1> DEFINE R == OpToRel(<, Nat)
  <1>1. IsWellFoundedOn(R, Nat)
    BY NatLessThanWellFounded
  <1>2. \A x, y \in Nat : x < y => <<x, y>> \in R
    BY DEF OpToRel
  <1> HIDE DEF R
  <1>3. PICK x \in T : \A y \in T : ~ (<<y, x>> \in R)
    BY <1>1, WFMin
  <1>4. \A y \in T : ~ (y < x)
    BY <1>2, <1>3
  <1>5. \A y \in T : x <= y
    BY <1>4
  <1> QED  BY <1>5

(* What holds of the first number and of the next after each holds of all. *)
LEMMA UpwardInduction ==
    ASSUME NEW a \in Nat, NEW b \in Nat, NEW T, a \in T,
           \A i \in a .. b : i < b /\ i \in T => i + 1 \in T
    PROVE  \A i \in a .. b : i \in T
  <1> DEFINE F == {i \in a .. b : i \notin T}
  <1> SUFFICES ASSUME F # {}  PROVE FALSE
    OBVIOUS
  <1>1. F \in SUBSET Nat
    OBVIOUS
  <1>2. PICK x \in F : \A y \in F : x <= y
    BY <1>1, LeastNumber
  <1>3. x # a /\ x \in a .. b
    OBVIOUS
  <1>4. x - 1 \in a .. b /\ x - 1 \notin F
    BY <1>2, <1>3
  <1> QED  BY <1>2, <1>3, <1>4

-----------------------------------------------------------------------------
(* Whole words.                                                            *)

IsWhole(x) == x % WordBytes = 0

LEMMA WholeIsMultiple ==
    \A x \in Nat : IsWhole(x) <=> \E k \in Nat : x = k * WordBytes
  <1> SUFFICES ASSUME NEW x \in Nat
               PROVE  IsWhole(x) <=> \E k \in Nat : x = k * WordBytes
    OBVIOUS
  <1>1. WordBytes \in Nat \ {0}
    BY WordAssumption
  <1>2. ASSUME IsWhole(x)  PROVE \E k \in Nat : x = k * WordBytes
    <2> DEFINE k == x \div WordBytes
    <2>1. x = WordBytes * k + (x % WordBytes) /\ k \in Nat
      BY <1>1
    <2> HIDE DEF k
    <2>2. x = WordBytes * k
      BY <1>1, <1>2, <2>1 DEF IsWhole
    <2>3. x = k * WordBytes
      BY <1>1, <2>1, <2>2
    <2> QED  BY <2>1, <2>3
  <1>3. ASSUME NEW k \in Nat, x = k * WordBytes  PROVE IsWhole(x)
    BY <1>1, <1>3 DEF IsWhole
  <1> QED  BY <1>2, <1>3

LEMMA WholeSum ==
    ASSUME NEW x \in Nat, NEW y \in Nat, IsWhole(x), IsWhole(y)
    PROVE  IsWhole(x + y)
  <1>1. WordBytes \in Nat
    BY WordAssumption
  <1>2. PICK k \in Nat : x = k * WordBytes
    BY WholeIsMultiple
  <1>3. PICK l \in Nat : y = l * WordBytes
    BY WholeIsMultiple
  <1>4. x + y = (k + l) * WordBytes
    BY <1>1, <1>2, <1>3
  <1> QED  BY <1>4, WholeIsMultiple

LEMMA WholeDifference ==
    ASSUME NEW x \in Nat, NEW y \in Nat, IsWhole(x), IsWhole(y), y <= x
    PROVE  IsWhole(x - y)
  <1>1. WordBytes \in Nat \ {0}
    BY WordAssumption
  <1>2. PICK k \in Nat : x = k * WordBytes
    BY WholeIsMultiple
  <1>3. PICK l \in Nat : y = l * WordBytes
    BY WholeIsMultiple
  <1>4. x - y = (k - l) * WordBytes
    BY <1>1, <1>2, <1>3
  <1>5. l <= k
    BY <1>1, <1>2, <1>3
  <1> QED  BY <1>4, <1>5, WholeIsMultiple

LEMMA WholePages ==
    ASSUME NEW n \in Nat
    PROVE  n * PageSize \in Nat /\ IsWhole(n * PageSize)
  <1>1. PageSize \in Nat \ {0} /\ IsWhole(PageSize) /\ WordBytes \in Nat
    BY PageAssumption, WordAssumption DEF IsWhole
  <1>2. PICK k \in Nat : PageSize = k * WordBytes
    BY <1>1, WholeIsMultiple
  <1>3. n * PageSize = (n * k) * WordBytes
    BY <1>1, <1>2
  <1>4. n * k \in Nat
    OBVIOUS
  <1>5. n * PageSize \in Nat
    BY <1>1
  <1> QED  BY <1>3, <1>4, <1>5, WholeIsMultiple

(* A request is rounded up to whole words, at least one.                   *)
LEMMA RoundedFacts ==
    ASSUME NEW size \in Nat
    PROVE  /\ Rounded(size) \in Nat /\ Rounded(size) > 0
           /\ Rounded(size) >= size
           /\ IsWhole(Rounded(size))
  <1> DEFINE x == (IF size = 0 THEN 1 ELSE size) - 1
             d == x \div WordBytes
  <1>1. WordBytes \in Nat \ {0}
    BY WordAssumption
  <1>2. x \in Nat /\ x >= size - 1
    OBVIOUS
  <1>3. d \in Nat /\ x = WordBytes * d + (x % WordBytes) /\ x % WordBytes < WordBytes
    BY <1>1, <1>2
  <1>4. Rounded(size) = (d + 1) * WordBytes
    BY DEF Rounded
  <1> HIDE DEF x, d
  <1>5. (d + 1) * WordBytes = WordBytes * d + WordBytes
    BY <1>1, <1>3
  <1>6. WordBytes * d \in Nat
    BY <1>1, <1>3
  <1>7. x % WordBytes \in Nat
    BY <1>1, <1>2
  <1>8. (d + 1) * WordBytes > x
    BY <1>1, <1>2, <1>3, <1>5, <1>6, <1>7
  <1>9. d + 1 \in Nat /\ (d + 1) * WordBytes \in Nat
    BY <1>1, <1>3
  <1> QED  BY <1>2, <1>4, <1>8, <1>9, WholeIsMultiple

-----------------------------------------------------------------------------
(* Lists.                                                                  *)

LEMMA InsertFacts ==
    ASSUME NEW s \in Seq(Allocation), NEW i \in 1 .. Len(s) + 1, NEW e \in Allocation
    PROVE  /\ InsertAt(s, i, e) \in Seq(Allocation)
           /\ Len(InsertAt(s, i, e)) = Len(s) + 1
           /\ \A j \in 1 .. Len(s) + 1 :
                 InsertAt(s, i, e)[j] = IF j < i THEN s[j] ELSE IF j = i THEN e ELSE s[j - 1]
  <1> DEFINE front == SubSeq(s, 1, i - 1)
             back == SubSeq(s, i, Len(s))
  <1>1. /\ front \in Seq(Allocation) /\ Len(front) = i - 1
        /\ \A j \in 1 .. i - 1 : front[j] = s[j]
    OBVIOUS
  <1>2. /\ back \in Seq(Allocation) /\ Len(back) = Len(s) - i + 1
        /\ \A j \in 1 .. Len(s) - i + 1 : back[j] = s[i + j - 1]
    <2>1. Len(s) \in Nat /\ \A j \in i .. Len(s) : s[j] \in Allocation
      OBVIOUS
    <2>2. /\ back \in Seq(Allocation)
          /\ Len(back) = IF i <= Len(s) THEN Len(s) - i + 1 ELSE 0
          /\ \A j \in 1 .. Len(s) - i + 1 : back[j] = s[i + j - 1]
      BY <2>1, SubSeqProperties
    <2> QED  BY <2>1, <2>2
  <1>3. InsertAt(s, i, e) = (front \o <<e>>) \o back
    BY DEF InsertAt
  <1> HIDE DEF front, back
  <1>4. /\ front \o <<e>> \in Seq(Allocation) /\ Len(front \o <<e>>) = i
        /\ \A j \in 1 .. i : (front \o <<e>>)[j] = IF j < i THEN s[j] ELSE e
    BY <1>1
  <1> DEFINE mid == front \o <<e>>
  <1> HIDE DEF mid
  <1>5. /\ mid \o back \in Seq(Allocation) /\ Len(mid \o back) = Len(s) + 1
        /\ \A j \in 1 .. Len(s) + 1 :
              (mid \o back)[j] = IF j <= i THEN mid[j] ELSE back[j - i]
    <2>1. Len(s) \in Nat /\ mid \in Seq(Allocation) /\ Len(mid) = i
      BY <1>4 DEF mid
    <2>2. /\ mid \o back \in Seq(Allocation) /\ Len(mid \o back) = Len(mid) + Len(back)
          /\ \A j \in 1 .. Len(mid) + Len(back) :
                (mid \o back)[j] = IF j <= Len(mid) THEN mid[j] ELSE back[j - Len(mid)]
      BY <1>2, <2>1, ConcatProperties
    <2>3. Len(mid) + Len(back) = Len(s) + 1
      BY <1>2, <2>1
    <2> QED  BY <2>1, <2>2, <2>3
  <1>6. ASSUME NEW j \in 1 .. Len(s) + 1, j > i  PROVE back[j - i] = s[j - 1]
    BY <1>2, <1>6
  <1> QED  BY <1>3, <1>4, <1>5, <1>6 DEF mid

LEMMA RemoveFacts ==
    ASSUME NEW s \in Seq(Allocation), NEW i \in 1 .. Len(s)
    PROVE  /\ RemoveAt(s, i) \in Seq(Allocation)
           /\ Len(RemoveAt(s, i)) = Len(s) - 1
           /\ \A j \in 1 .. Len(s) - 1 :
                 RemoveAt(s, i)[j] = IF j < i THEN s[j] ELSE s[j + 1]
  <1> DEFINE front == SubSeq(s, 1, i - 1)
             back == SubSeq(s, i + 1, Len(s))
  <1>1. /\ front \in Seq(Allocation) /\ Len(front) = i - 1
        /\ \A j \in 1 .. i - 1 : front[j] = s[j]
    OBVIOUS
  <1>2. /\ back \in Seq(Allocation) /\ Len(back) = Len(s) - i
        /\ \A j \in 1 .. Len(s) - i : back[j] = s[i + j]
    <2>1. Len(s) \in Nat /\ \A j \in i + 1 .. Len(s) : s[j] \in Allocation
      OBVIOUS
    <2>2. /\ back \in Seq(Allocation)
          /\ Len(back) = IF i + 1 <= Len(s) THEN Len(s) - (i + 1) + 1 ELSE 0
          /\ \A j \in 1 .. Len(s) - (i + 1) + 1 : back[j] = s[(i + 1) + j - 1]
      BY <2>1, SubSeqProperties
    <2> QED  BY <2>1, <2>2
  <1>3. RemoveAt(s, i) = front \o back
    BY DEF RemoveAt
  <1> HIDE DEF front, back
  <1>4. /\ front \o back \in Seq(Allocation) /\ Len(front \o back) = Len(s) - 1
        /\ \A j \in 1 .. Len(s) - 1 :
              (front \o back)[j] = IF j <= i - 1 THEN front[j] ELSE back[j - (i - 1)]
    <2>1. Len(s) \in Nat
      OBVIOUS
    <2> QED  BY <1>1, <1>2, <2>1, ConcatProperties
  <1>5. ASSUME NEW j \in 1 .. Len(s) - 1, ~ (j < i)  PROVE back[j - (i - 1)] = s[j + 1]
    BY <1>2, <1>5
  <1>6. ASSUME NEW j \in 1 .. Len(s) - 1
        PROVE  RemoveAt(s, i)[j] = IF j < i THEN s[j] ELSE s[j + 1]
    BY <1>1, <1>3, <1>4, <1>5
  <1> QED  BY <1>3, <1>4, <1>6

-----------------------------------------------------------------------------
(* A list and its length.  The lemmas speak of lists through predicates on *)
(* a list and a number of entries: how one list is made from another, entry *)
(* by entry, and what holds of the entries.                                *)

IsList(l, n) == l \in Seq(Allocation) /\ n = Len(l)

Retyped(l, n, i, type, u) ==
    \A j \in 1 .. n : /\ u[j].ptr = l[j].ptr
                      /\ u[j].type = IF j = i THEN type ELSE l[j].type

Moved(l, n, i, p, u) ==
    \A j \in 1 .. n : /\ u[j].type = l[j].type
                      /\ u[j].ptr = IF j = i THEN p ELSE l[j].ptr

Inserted(l, n, i, e, t) ==
    \A j \in 1 .. n + 1 :
        t[j] = IF j < i THEN l[j] ELSE IF j = i THEN e ELSE l[j - 1]

Removed(l, n, i, t) ==
    \A j \in 1 .. n - 1 : t[j] = IF j < i THEN l[j] ELSE l[j + 1]

SplitAt(l, n, i, p, t) ==
    /\ \A j \in 1 .. i : t[j].ptr = l[j].ptr /\ t[j].type = l[j].type
    /\ t[i + 1].ptr = p /\ t[i + 1].type = "FREE"
    /\ \A j \in i + 1 .. n : t[j + 1].ptr = l[j].ptr /\ t[j + 1].type = l[j].type

Appended(l, n, type, p, t) ==
    /\ \A j \in 1 .. n : t[j].ptr = l[j].ptr
    /\ \A j \in 1 .. n : t[j].type = IF j = n THEN type ELSE l[j].type
    /\ t[n + 1].ptr = p /\ t[n + 1].type = "END"

Stretched(l, n, p, t) ==
    /\ \A j \in 1 .. n : t[j].ptr = IF j = n THEN p ELSE l[j].ptr
    /\ \A j \in 1 .. n : t[j].type = IF j = n - 1 THEN "USED" ELSE l[j].type

Merged(l, n, i, t) ==
    /\ \A j \in 1 .. i : t[j].ptr = l[j].ptr /\ t[j].type = l[j].type
    /\ \A j \in i + 1 .. n - 1 : t[j].ptr = l[j + 1].ptr /\ t[j].type = l[j + 1].type

(* Sound lists.  A chain of n entries is what ListIsSound asks for, but    *)
(* for what it says of neighbours that are free, which does not hold in    *)
(* the middle of free.                                                     *)

Chain(l, n, brk) ==
    /\ n \in Nat /\ n >= 2
    /\ \A i \in 1 .. n : l[i].ptr \in Nat /\ l[i].type \in {"FREE", "USED", "END"}
    /\ l[1].ptr = 0
    /\ l[n].ptr = brk
    /\ \A i \in 1 .. n : (l[i].type = "END") <=> (i = n)
    /\ \A i \in 1 .. n - 1 : l[i].ptr < l[i + 1].ptr /\ IsWhole(Gap(l, i))

FreePairs(l, n) ==
    {i \in 1 .. n - 1 : l[i].type = "FREE" /\ l[i + 1].type = "FREE"}

(* The used blocks, each as its first byte and the byte after its last.    *)
UsedIndices(l, n) == {i \in 1 .. n - 1 : l[i].type = "USED"}

Blocks(l, n) == {<<l[i].ptr, l[i + 1].ptr>> : i \in UsedIndices(l, n)}

BlocksOf(h) == Blocks(h.list, Len(h.list))

(* The list of a heap without its pages.                                   *)

Sound(l, n, brk) == IsList(l, n) /\ Chain(l, n, brk) /\ FreePairs(l, n) = {}

HeapIsSound(h) ==
    /\ h \in Heap
    /\ Chain(h.list, Len(h.list), Break(h))
    /\ FreePairs(h.list, Len(h.list)) = {}

LEMMA AllocationFacts ==
    ASSUME NEW l \in Seq(Allocation)
    PROVE  /\ Len(l) \in Nat /\ DOMAIN l = 1 .. Len(l)
           /\ \A i \in 1 .. Len(l) :
                 /\ l[i] \in Allocation
                 /\ l[i].ptr \in Nat
                 /\ l[i].type \in {"FREE", "USED", "END"}
  <1>1. Len(l) \in Nat /\ DOMAIN l = 1 .. Len(l)
    OBVIOUS
  <1>2. \A i \in 1 .. Len(l) : l[i] \in Allocation
    OBVIOUS
  <1>3. \A a \in Allocation : a.ptr \in Nat /\ a.type \in {"FREE", "USED", "END"}
    BY DEF Allocation
  <1> QED  BY <1>1, <1>2, <1>3

LEMMA HeapIsSoundMeaning ==
    ASSUME NEW h \in Heap
    PROVE  HeapIsSound(h) <=> h.list # << >> /\ ListIsSound(h)
  <1> DEFINE l == h.list
             n == Len(l)
  <1>1. l \in Seq(Allocation)
    BY DEF Heap
  <1>2. /\ n \in Nat /\ DOMAIN l = 1 .. n
        /\ \A i \in 1 .. n : l[i].ptr \in Nat /\ l[i].type \in {"FREE", "USED", "END"}
    BY <1>1, AllocationFacts
  <1>3. l # << >> <=> n # 0
    BY <1>1
  <1> HIDE DEF l, n
  <1>4. (n # 0 => /\ n >= 2
                  /\ l[1].ptr = 0
                  /\ l[n].ptr = Break(h)
                  /\ \A i \in 1 .. n : (l[i].type = "END") <=> (i = n)
                  /\ \A i \in 1 .. n - 1 :
                        /\ l[i].ptr < l[i + 1].ptr
                        /\ Gap(l, i) % WordBytes = 0
                        /\ ~ (l[i].type = "FREE" /\ l[i + 1].type = "FREE"))
        <=> ListIsSound(h)
    BY <1>2, <1>3 DEF ListIsSound, l, n
  <1>5. HeapIsSound(h) <=> Chain(l, n, Break(h)) /\ FreePairs(l, n) = {}
    BY DEF HeapIsSound, l, n
  <1>6. FreePairs(l, n) = {}
        <=> \A i \in 1 .. n - 1 : ~ (l[i].type = "FREE" /\ l[i + 1].type = "FREE")
    BY DEF FreePairs
  <1>7. ASSUME Chain(l, n, Break(h)), FreePairs(l, n) = {}
        PROVE  n # 0 /\ ListIsSound(h)
    BY <1>2, <1>4, <1>6, <1>7 DEF Chain, IsWhole
  <1>8. ASSUME n # 0, ListIsSound(h)
        PROVE  Chain(l, n, Break(h)) /\ FreePairs(l, n) = {}
    BY <1>2, <1>4, <1>6, <1>8 DEF Chain, IsWhole
  <1> QED  BY <1>3, <1>5, <1>7, <1>8 DEF l

LEMMA PointersIncrease ==
    ASSUME NEW l, NEW n, NEW brk, Chain(l, n, brk)
    PROVE  \A i, j \in 1 .. n : i < j => l[i].ptr < l[j].ptr
  <1>1. n \in Nat
    BY DEF Chain
  <1> SUFFICES ASSUME NEW i \in 1 .. n, i + 1 <= n
               PROVE  \A j \in i + 1 .. n : l[i].ptr < l[j].ptr
    BY <1>1
  <1> DEFINE T == {j \in i + 1 .. n : l[i].ptr < l[j].ptr}
  <1>2. i + 1 \in T
    BY <1>1 DEF Chain
  <1>3. ASSUME NEW j \in i + 1 .. n, j < n, j \in T  PROVE j + 1 \in T
    <2>1. j \in 1 .. n - 1
      BY <1>1, <1>3
    <2>2. l[j].ptr < l[j + 1].ptr /\ l[i].ptr < l[j].ptr
      BY <1>3, <2>1 DEF Chain
    <2>3. l[i].ptr \in Nat /\ l[j].ptr \in Nat /\ l[j + 1].ptr \in Nat
      BY <1>1, <2>1 DEF Chain
    <2> QED  BY <1>1, <1>3, <2>2, <2>3
  <1> HIDE DEF T
  <1>4. \A j \in i + 1 .. n : j \in T
    <2>1. \A j \in i + 1 .. n : j < n /\ j \in T => j + 1 \in T
      BY <1>3
    <2>2. i + 1 \in Nat
      BY <1>1
    <2> QED  BY <1>1, <1>2, <2>1, <2>2, UpwardInduction
  <1> QED  BY <1>4 DEF T

(* A block has one entry, which tells where it ends.                       *)
LEMMA BlocksDiffer ==
    ASSUME NEW l, NEW n, NEW brk, Chain(l, n, brk),
           NEW i \in UsedIndices(l, n), NEW j \in UsedIndices(l, n), l[i].ptr = l[j].ptr
    PROVE  i = j
  <1>1. \A k, m \in 1 .. n : k < m => l[k].ptr < l[m].ptr
    BY PointersIncrease
  <1>2. /\ n \in Nat /\ i \in 1 .. n /\ j \in 1 .. n
        /\ \A k \in 1 .. n : l[k].ptr \in Nat
    BY DEF Chain, UsedIndices
  <1> QED  BY <1>1, <1>2

LEMMA UsedFacts ==
    ASSUME NEW h, HeapIsSound(h)
    PROVE  /\ UsedAt(h) = {b[1] : b \in BlocksOf(h)}
           /\ \A b \in BlocksOf(h) :
                 /\ b = <<b[1], b[2]>>
                 /\ b[1] \in Nat /\ b[2] \in Nat /\ b[1] < b[2] /\ b[2] <= Break(h)
                 /\ UsedSize(h, b[1]) = b[2] - b[1]
           /\ \A b, c \in BlocksOf(h) : b[1] = c[1] => b = c
  <1> DEFINE l == h.list
             n == Len(l)
  <1>1. l \in Seq(Allocation) /\ Chain(l, n, Break(h))
    BY DEF HeapIsSound, Heap
  <1>2. n \in Nat /\ DOMAIN l = 1 .. n /\ \A i \in 1 .. n : l[i].ptr \in Nat
    BY <1>1, AllocationFacts
  <1>3. \A i, j \in 1 .. n : i < j => l[i].ptr < l[j].ptr
    BY <1>1, PointersIncrease
  <1>4. UsedAt(h) = {b[1] : b \in Blocks(l, n)}
    <2>1. {j \in DOMAIN l : l[j].type = "USED"} = UsedIndices(l, n)
      BY <1>1, <1>2 DEF UsedIndices, Chain
    <2>2. UsedAt(h) = {l[i].ptr : i \in UsedIndices(l, n)}
      BY <2>1 DEF UsedAt
    <2> HIDE DEF l, n
    <2>3. \A b \in Blocks(l, n) : \E i \in UsedIndices(l, n) : b[1] = l[i].ptr
      BY DEF Blocks
    <2>4. \A i \in UsedIndices(l, n) : <<l[i].ptr, l[i + 1].ptr>> \in Blocks(l, n)
      BY DEF Blocks
    <2> QED  BY <2>2, <2>3, <2>4
  <1>5. ASSUME NEW b \in Blocks(l, n)
        PROVE  /\ b = <<b[1], b[2]>>
               /\ b[1] \in Nat /\ b[2] \in Nat /\ b[1] < b[2] /\ b[2] <= Break(h)
               /\ UsedSize(h, b[1]) = b[2] - b[1]
    <2>1. PICK i \in UsedIndices(l, n) : b = <<l[i].ptr, l[i + 1].ptr>>
      BY DEF Blocks
    <2>2. i \in 1 .. n /\ i + 1 \in 1 .. n /\ l[i].type = "USED"
      BY <1>2, <2>1 DEF UsedIndices
    <2>3. EntriesAt(h, b[1]) = {i}
      BY <1>2, <1>3, <2>1, <2>2 DEF EntriesAt
    <2>4. UsedSize(h, b[1]) = Gap(l, i)
      BY <2>2, <2>3 DEF UsedSize
    <2>5. l[i + 1].ptr <= Break(h)
      <3>1. l[n].ptr = Break(h)
        BY <1>1 DEF Chain
      <3> HIDE DEF l, n
      <3> QED  BY <1>2, <1>3, <2>2, <3>1
    <2> HIDE DEF l, n
    <2> QED  BY <1>2, <1>3, <2>1, <2>2, <2>4, <2>5 DEF Gap
  <1>6. ASSUME NEW b \in Blocks(l, n), NEW c \in Blocks(l, n), b[1] = c[1]  PROVE b = c
    <2> HIDE DEF l, n
    <2>1. PICK i \in UsedIndices(l, n) : b = <<l[i].ptr, l[i + 1].ptr>>
      BY DEF Blocks
    <2>2. PICK j \in UsedIndices(l, n) : c = <<l[j].ptr, l[j + 1].ptr>>
      BY DEF Blocks
    <2>3. i = j
      BY <1>1, <1>6, <2>1, <2>2, BlocksDiffer
    <2> QED  BY <2>1, <2>2, <2>3
  <1> QED  BY <1>4, <1>5, <1>6 DEF BlocksOf

-----------------------------------------------------------------------------
(* Steps on chains, entry by entry.                                        *)

(* A free entry is used as it is.                                          *)
LEMMA ChainUse ==
    ASSUME NEW l, NEW n, NEW brk, Chain(l, n, brk), FreePairs(l, n) = {},
           NEW i \in 1 .. n - 1, l[i].type = "FREE", NEW u, Retyped(l, n, i, "USED", u)
    PROVE  /\ Chain(u, n, brk) /\ FreePairs(u, n) = {}
           /\ Blocks(u, n) = Blocks(l, n) \cup {<<l[i].ptr, l[i + 1].ptr>>}
  <1> USE DEF Retyped
  <1>1. n \in Nat
    BY DEF Chain
  <1>2. Chain(u, n, brk)
    BY DEF Chain, Gap
  <1>3. FreePairs(u, n) = {}
    BY <1>1 DEF FreePairs
  <1>4. UsedIndices(u, n) = UsedIndices(l, n) \cup {i}
    BY <1>1 DEF UsedIndices
  <1>5. \A j \in UsedIndices(u, n) : u[j].ptr = l[j].ptr /\ u[j + 1].ptr = l[j + 1].ptr
    BY <1>1 DEF UsedIndices
  <1>6. Blocks(u, n) = {<<l[j].ptr, l[j + 1].ptr>> : j \in UsedIndices(u, n)}
    BY <1>5 DEF Blocks
  <1> QED  BY <1>2, <1>3, <1>4, <1>6 DEF Blocks

(* A used entry becomes free.                                              *)
LEMMA ChainFree ==
    ASSUME NEW l, NEW n, NEW brk, Chain(l, n, brk), FreePairs(l, n) = {},
           NEW i \in 1 .. n - 1, l[i].type = "USED", NEW u, Retyped(l, n, i, "FREE", u)
    PROVE  /\ Chain(u, n, brk) /\ FreePairs(u, n) \subseteq {i - 1, i}
           /\ Blocks(u, n) = Blocks(l, n) \ {<<l[i].ptr, l[i + 1].ptr>>}
  <1> USE DEF Retyped
  <1>1. n \in Nat
    BY DEF Chain
  <1>2. Chain(u, n, brk)
    BY DEF Chain, Gap
  <1>3. FreePairs(u, n) \subseteq {i - 1, i}
    BY <1>1 DEF FreePairs
  <1>4. UsedIndices(u, n) = UsedIndices(l, n) \ {i} /\ i \in UsedIndices(l, n)
    BY <1>1 DEF UsedIndices
  <1>5. \A j \in UsedIndices(u, n) : u[j].ptr = l[j].ptr /\ u[j + 1].ptr = l[j + 1].ptr
    BY <1>1 DEF UsedIndices
  <1>6. Blocks(u, n) = {<<l[j].ptr, l[j + 1].ptr>> : j \in UsedIndices(u, n)}
    BY <1>5 DEF Blocks
  <1>7. \A j \in UsedIndices(l, n) : l[j].ptr = l[i].ptr => j = i
    BY <1>4, BlocksDiffer
  <1>8. ASSUME NEW b \in Blocks(u, n)
        PROVE  b \in Blocks(l, n) \ {<<l[i].ptr, l[i + 1].ptr>>}
    <2>1. PICK j \in UsedIndices(u, n) : b = <<l[j].ptr, l[j + 1].ptr>>
      BY <1>6
    <2>2. j \in UsedIndices(l, n) /\ j # i
      BY <1>4
    <2> QED  BY <1>7, <2>1, <2>2 DEF Blocks
  <1>9. ASSUME NEW b \in Blocks(l, n), b # <<l[i].ptr, l[i + 1].ptr>>
        PROVE  b \in Blocks(u, n)
    <2>1. PICK j \in UsedIndices(l, n) : b = <<l[j].ptr, l[j + 1].ptr>>
      BY DEF Blocks
    <2>2. j \in UsedIndices(u, n)
      BY <1>4, <1>9, <2>1
    <2> QED  BY <1>6, <2>1, <2>2
  <1> QED  BY <1>2, <1>3, <1>8, <1>9

(* A used entry is cut short and what is left of it becomes free.          *)
LEMMA ChainSplit ==
    ASSUME NEW l, NEW n, NEW brk, Chain(l, n, brk), FreePairs(l, n) = {},
           NEW i \in 1 .. n - 1, l[i].type = "USED", l[i + 1].type # "FREE",
           NEW p \in Nat, l[i].ptr < p, p < l[i + 1].ptr, IsWhole(p - l[i].ptr),
           NEW t, SplitAt(l, n, i, p, t)
    PROVE  /\ Chain(t, n + 1, brk) /\ FreePairs(t, n + 1) = {}
           /\ Blocks(t, n + 1) =
                (Blocks(l, n) \ {<<l[i].ptr, l[i + 1].ptr>>}) \cup {<<l[i].ptr, p>>}
  <1> USE DEF SplitAt
  <1>1. /\ n \in Nat /\ n >= 2 /\ l[i].ptr \in Nat /\ l[i + 1].ptr \in Nat
        /\ \A j \in 1 .. n : l[j].ptr \in Nat /\ l[j].type \in {"FREE", "USED", "END"}
        /\ \A j \in 1 .. n - 1 : l[j].ptr < l[j + 1].ptr /\ IsWhole(l[j + 1].ptr - l[j].ptr)
    BY DEF Chain, Gap
  <1>2. IsWhole(l[i + 1].ptr - p)
    <2>1. IsWhole((l[i + 1].ptr - l[i].ptr) - (p - l[i].ptr))
      BY <1>1, WholeDifference
    <2> QED  BY <1>1, <2>1
  <1>3. ASSUME NEW j \in i + 2 .. n + 1
        PROVE  /\ j - 1 \in i + 1 .. n /\ (j - 1) + 1 = j
               /\ t[j].ptr = l[j - 1].ptr /\ t[j].type = l[j - 1].type
    BY <1>1
  <1>4. Chain(t, n + 1, brk)
    <2>1. \A j \in 1 .. n + 1 : t[j].ptr \in Nat /\ t[j].type \in {"FREE", "USED", "END"}
      BY <1>1, <1>3
    <2>2. t[1].ptr = 0 /\ t[n + 1].ptr = brk
      BY <1>1, <1>3 DEF Chain
    <2>3. ASSUME NEW j \in 1 .. n + 1  PROVE t[j].type = "END" <=> j = n + 1
      BY <1>1, <1>3 DEF Chain
    <2>4. ASSUME NEW j \in 1 .. (n + 1) - 1
          PROVE  t[j].ptr < t[j + 1].ptr /\ IsWhole(t[j + 1].ptr - t[j].ptr)
      <3>1. CASE j < i
        BY <1>1, <3>1
      <3>2. CASE j = i
        BY <1>1, <3>2
      <3>3. CASE j = i + 1
        BY <1>1, <1>2, <3>3
      <3>4. CASE j > i + 1
        <4>1. j - 1 \in 1 .. n - 1 /\ (j - 1) + 1 = j
          BY <1>1, <3>4
        <4>2. t[j].ptr = l[j - 1].ptr /\ t[j + 1].ptr = l[(j - 1) + 1].ptr
          BY <1>1, <1>3, <3>4, <4>1
        <4> QED  BY <1>1, <4>1, <4>2
      <3> QED  BY <1>1, <3>1, <3>2, <3>3, <3>4
    <2> DEFINE m == n + 1
    <2>5. m \in Nat /\ m >= 2
      BY <1>1
    <2>6. /\ \A j \in 1 .. m : t[j].ptr \in Nat /\ t[j].type \in {"FREE", "USED", "END"}
          /\ t[1].ptr = 0 /\ t[m].ptr = brk
          /\ \A j \in 1 .. m : (t[j].type = "END") <=> (j = m)
          /\ \A j \in 1 .. m - 1 : t[j].ptr < t[j + 1].ptr /\ IsWhole(t[j + 1].ptr - t[j].ptr)
      BY <2>1, <2>2, <2>3, <2>4
    <2> HIDE DEF m
    <2>7. Chain(t, m, brk)
      BY <2>5, <2>6 DEF Chain, Gap
    <2> QED  BY <2>7 DEF m
  <1>5. ASSUME NEW j \in FreePairs(t, n + 1)  PROVE FALSE
    <2>1. j \in 1 .. n /\ t[j].type = "FREE" /\ t[j + 1].type = "FREE"
      BY <1>1, <1>5 DEF FreePairs
    <2>2. CASE j < i
      <3>1. j \in FreePairs(l, n)
        BY <1>1, <2>1, <2>2 DEF FreePairs
      <3> QED  BY <3>1
    <2>3. CASE j = i
      BY <2>1, <2>3
    <2>4. CASE j = i + 1
      BY <1>1, <2>1, <2>4
    <2>5. CASE j > i + 1
      <3>1. j - 1 \in 1 .. n - 1 /\ (j - 1) + 1 = j
        BY <1>1, <2>1, <2>5
      <3>2. l[j - 1].type = "FREE" /\ l[(j - 1) + 1].type = "FREE"
        BY <1>1, <1>3, <2>1, <2>5, <3>1
      <3> QED  BY <3>1, <3>2 DEF FreePairs
    <2> QED  BY <1>1, <2>1, <2>2, <2>3, <2>4, <2>5
  <1>6. i \in UsedIndices(l, n)
    BY DEF UsedIndices
  <1>7. \A j \in UsedIndices(l, n) : l[j].ptr = l[i].ptr => j = i
    BY <1>6, BlocksDiffer
  <1>8. ASSUME NEW b \in Blocks(t, n + 1)
        PROVE  b \in (Blocks(l, n) \ {<<l[i].ptr, l[i + 1].ptr>>}) \cup {<<l[i].ptr, p>>}
    <2>1. PICK j \in UsedIndices(t, n + 1) : b = <<t[j].ptr, t[j + 1].ptr>>
      BY DEF Blocks
    <2>2. j \in 1 .. n /\ t[j].type = "USED"
      BY <1>1 DEF UsedIndices
    <2>3. CASE j < i
      <3>1. b = <<l[j].ptr, l[j + 1].ptr>> /\ j \in UsedIndices(l, n)
        BY <1>1, <2>1, <2>2, <2>3 DEF UsedIndices
      <3> QED  BY <1>7, <2>3, <3>1 DEF Blocks
    <2>4. CASE j = i
      BY <2>1, <2>4
    <2>5. CASE j = i + 1
      BY <2>2, <2>5
    <2>6. CASE j > i + 1
      <3>1. j - 1 \in 1 .. n - 1 /\ (j - 1) + 1 = j
        BY <1>1, <2>2, <2>6
      <3>2. /\ t[j].ptr = l[j - 1].ptr /\ t[j + 1].ptr = l[(j - 1) + 1].ptr
            /\ l[j - 1].type = "USED"
        BY <1>1, <1>3, <2>2, <2>6, <3>1
      <3>3. j - 1 \in UsedIndices(l, n) /\ j - 1 # i
        BY <2>6, <3>1, <3>2 DEF UsedIndices
      <3> QED  BY <1>7, <2>1, <3>2, <3>3 DEF Blocks
    <2> QED  BY <1>1, <2>2, <2>3, <2>4, <2>5, <2>6
  <1>9. ASSUME NEW b \in Blocks(l, n), b # <<l[i].ptr, l[i + 1].ptr>>
        PROVE  b \in Blocks(t, n + 1)
    <2>1. PICK j \in UsedIndices(l, n) : b = <<l[j].ptr, l[j + 1].ptr>>
      BY DEF Blocks
    <2>2. j \in 1 .. n - 1 /\ l[j].type = "USED" /\ j # i
      BY <1>9, <2>1 DEF UsedIndices
    <2>3. CASE j < i
      <3>1. b = <<t[j].ptr, t[j + 1].ptr>> /\ j \in UsedIndices(t, n + 1)
        BY <1>1, <2>1, <2>2, <2>3 DEF UsedIndices
      <3> QED  BY <3>1 DEF Blocks
    <2>4. CASE j > i
      <3>1. j \in i + 1 .. n /\ j + 1 \in i + 1 .. n
        BY <1>1, <2>2, <2>4
      <3>2. /\ t[j + 1].ptr = l[j].ptr /\ t[(j + 1) + 1].ptr = l[j + 1].ptr
            /\ t[j + 1].type = "USED"
        BY <2>2, <3>1
      <3>3. j + 1 \in UsedIndices(t, n + 1)
        BY <1>1, <3>1, <3>2 DEF UsedIndices
      <3> QED  BY <2>1, <3>2, <3>3 DEF Blocks
    <2> QED  BY <1>1, <2>2, <2>3, <2>4
  <1>10. <<l[i].ptr, p>> \in Blocks(t, n + 1)
    <2>1. i \in UsedIndices(t, n + 1)
      BY <1>1 DEF UsedIndices
    <2>2. <<t[i].ptr, t[i + 1].ptr>> \in Blocks(t, n + 1)
      BY <2>1 DEF Blocks
    <2>3. t[i].ptr = l[i].ptr
      BY <1>1
    <2> QED  BY <2>2, <2>3
  <1> QED  BY <1>4, <1>5, <1>8, <1>9, <1>10

(* The end moves up, and what was the end becomes an entry.                *)
LEMMA ChainAppend ==
    ASSUME NEW l, NEW n, NEW brk, Chain(l, n, brk), FreePairs(l, n) = {},
           NEW type \in {"FREE", "USED"}, type = "FREE" => l[n - 1].type # "FREE",
           NEW p \in Nat, brk < p, IsWhole(p - brk), NEW t, Appended(l, n, type, p, t)
    PROVE  /\ Chain(t, n + 1, p) /\ FreePairs(t, n + 1) = {}
           /\ Blocks(t, n + 1) =
                Blocks(l, n) \cup (IF type = "USED" THEN {<<brk, p>>} ELSE {})
  <1> USE DEF Appended
  <1>1. /\ n \in Nat /\ n >= 2 /\ l[n].ptr = brk
        /\ \A j \in 1 .. n : /\ l[j].ptr \in Nat /\ l[j].type \in {"FREE", "USED", "END"}
                             /\ l[j].type = "END" <=> j = n
    BY DEF Chain
  <1>2. Chain(t, n + 1, p)
    <2>1. \A j \in 1 .. n + 1 : t[j].ptr \in Nat /\ t[j].type \in {"FREE", "USED", "END"}
      BY <1>1
    <2>2. t[1].ptr = 0
      BY <1>1 DEF Chain
    <2>3. ASSUME NEW j \in 1 .. n + 1  PROVE t[j].type = "END" <=> j = n + 1
      BY <1>1
    <2>4. ASSUME NEW j \in 1 .. (n + 1) - 1
          PROVE  t[j].ptr < t[j + 1].ptr /\ IsWhole(t[j + 1].ptr - t[j].ptr)
      <3>1. CASE j = n
        BY <1>1, <3>1
      <3>2. CASE j # n
        BY <1>1, <3>2 DEF Chain, Gap
      <3> QED  BY <3>1, <3>2
    <2> DEFINE m == n + 1
    <2>5. m \in Nat /\ m >= 2
      BY <1>1
    <2>6. /\ \A j \in 1 .. m : t[j].ptr \in Nat /\ t[j].type \in {"FREE", "USED", "END"}
          /\ t[1].ptr = 0 /\ t[m].ptr = p
          /\ \A j \in 1 .. m : (t[j].type = "END") <=> (j = m)
          /\ \A j \in 1 .. m - 1 : t[j].ptr < t[j + 1].ptr /\ IsWhole(t[j + 1].ptr - t[j].ptr)
      BY <2>1, <2>2, <2>3, <2>4
    <2> HIDE DEF m
    <2>7. Chain(t, m, p)
      BY <2>5, <2>6 DEF Chain, Gap
    <2> QED  BY <2>7 DEF m
  <1>3. ASSUME NEW j \in FreePairs(t, n + 1)  PROVE FALSE
    <2>1. j \in 1 .. n /\ t[j].type = "FREE" /\ t[j + 1].type = "FREE"
      BY <1>1, <1>3 DEF FreePairs
    <2>2. CASE j = n
      BY <2>1, <2>2
    <2>3. CASE j = n - 1
      BY <1>1, <2>1, <2>3
    <2>4. CASE j < n - 1
      <3>1. j \in FreePairs(l, n)
        BY <1>1, <2>1, <2>4 DEF FreePairs
      <3> QED  BY <3>1
    <2> QED  BY <1>1, <2>1, <2>2, <2>3, <2>4
  <1>4. UsedIndices(t, n + 1) = UsedIndices(l, n) \cup (IF type = "USED" THEN {n} ELSE {})
    BY <1>1 DEF UsedIndices
  <1>5. \A j \in UsedIndices(l, n) : t[j].ptr = l[j].ptr /\ t[j + 1].ptr = l[j + 1].ptr
    BY <1>1 DEF UsedIndices
  <1>6. t[n].ptr = brk /\ t[n + 1].ptr = p
    BY <1>1
  <1>7. CASE type = "USED"
    <2>1. UsedIndices(t, n + 1) = UsedIndices(l, n) \cup {n}
      BY <1>4, <1>7
    <2> QED  BY <1>2, <1>3, <1>5, <1>6, <1>7, <2>1 DEF Blocks
  <1>8. CASE type = "FREE"
    <2>1. UsedIndices(t, n + 1) = UsedIndices(l, n)
      BY <1>4, <1>8
    <2>2. Blocks(t, n + 1) = Blocks(l, n)
      BY <1>5, <2>1 DEF Blocks
    <2> QED  BY <1>2, <1>3, <1>8, <2>2
  <1> QED  BY <1>7, <1>8

(* The end moves up and the last entry with it.                            *)
LEMMA ChainStretch ==
    ASSUME NEW l, NEW n, NEW brk, Chain(l, n, brk), FreePairs(l, n) = {},
           l[n - 1].type = "FREE",
           NEW p \in Nat, l[n - 1].ptr < p, IsWhole(p - l[n - 1].ptr), NEW t,
           Stretched(l, n, p, t)
    PROVE  /\ Chain(t, n, p) /\ FreePairs(t, n) = {}
           /\ Blocks(t, n) = Blocks(l, n) \cup {<<l[n - 1].ptr, p>>}
  <1> USE DEF Stretched
  <1>1. /\ n \in Nat /\ n >= 2
        /\ \A j \in 1 .. n : l[j].ptr \in Nat /\ l[j].type \in {"FREE", "USED", "END"}
    BY DEF Chain
  <1>2. Chain(t, n, p)
    <2>1. \A j \in 1 .. n : t[j].ptr \in Nat /\ t[j].type \in {"FREE", "USED", "END"}
      BY <1>1
    <2>2. t[1].ptr = 0 /\ t[n].ptr = p
      BY <1>1 DEF Chain
    <2>3. ASSUME NEW j \in 1 .. n  PROVE t[j].type = "END" <=> j = n
      BY <1>1 DEF Chain
    <2>4. ASSUME NEW j \in 1 .. n - 1
          PROVE  t[j].ptr < t[j + 1].ptr /\ IsWhole(t[j + 1].ptr - t[j].ptr)
      BY <1>1 DEF Chain, Gap
    <2> QED  BY <1>1, <2>1, <2>2, <2>3, <2>4 DEF Chain, Gap
  <1>3. FreePairs(t, n) = {}
    BY <1>1 DEF FreePairs
  <1>4. UsedIndices(t, n) = UsedIndices(l, n) \cup {n - 1} /\ n - 1 \notin UsedIndices(l, n)
    BY <1>1 DEF UsedIndices
  <1>5. \A j \in UsedIndices(l, n) : t[j].ptr = l[j].ptr /\ t[j + 1].ptr = l[j + 1].ptr
    BY <1>1, <1>4 DEF UsedIndices
  <1>6. t[n - 1].ptr = l[n - 1].ptr /\ t[(n - 1) + 1].ptr = p
    BY <1>1
  <1> QED  BY <1>2, <1>3, <1>4, <1>5, <1>6 DEF Blocks

(* A free entry is absorbed by the free entry before it.                   *)
LEMMA ChainMerge ==
    ASSUME NEW l, NEW n, NEW brk, Chain(l, n, brk),
           NEW i \in 1 .. n - 2, l[i].type = "FREE", l[i + 1].type = "FREE",
           FreePairs(l, n) \subseteq {i - 1, i}, NEW t,
           Merged(l, n, i, t)
    PROVE  /\ Chain(t, n - 1, brk) /\ FreePairs(t, n - 1) \subseteq {i - 1}
           /\ Blocks(t, n - 1) = Blocks(l, n)
  <1> USE DEF Merged
  <1>1. /\ n \in Nat /\ n >= 3
        /\ \A j \in 1 .. n : l[j].ptr \in Nat /\ l[j].type \in {"FREE", "USED", "END"}
        /\ \A j \in 1 .. n - 1 : l[j].ptr < l[j + 1].ptr /\ IsWhole(l[j + 1].ptr - l[j].ptr)
    BY DEF Chain, Gap
  <1>2. Chain(t, n - 1, brk)
    <2>1. \A j \in 1 .. n - 1 : t[j].ptr \in Nat /\ t[j].type \in {"FREE", "USED", "END"}
      BY <1>1
    <2>2. t[1].ptr = 0 /\ t[n - 1].ptr = brk
      BY <1>1 DEF Chain
    <2>3. ASSUME NEW j \in 1 .. n - 1  PROVE t[j].type = "END" <=> j = n - 1
      BY <1>1 DEF Chain
    <2>4. ASSUME NEW j \in 1 .. (n - 1) - 1
          PROVE  t[j].ptr < t[j + 1].ptr /\ IsWhole(t[j + 1].ptr - t[j].ptr)
      <3>1. CASE j < i
        BY <1>1, <3>1
      <3>2. CASE j = i
        <4>1. /\ l[i].ptr < l[i + 1].ptr /\ IsWhole(l[i + 1].ptr - l[i].ptr)
              /\ l[i + 1].ptr < l[i + 2].ptr /\ IsWhole(l[i + 2].ptr - l[i + 1].ptr)
              /\ l[i].ptr \in Nat /\ l[i + 1].ptr \in Nat /\ l[i + 2].ptr \in Nat
          <5>1. i \in 1 .. n - 1 /\ i + 1 \in 1 .. n - 1 /\ (i + 1) + 1 = i + 2 /\ i + 2 \in 1 .. n
            BY <1>1
          <5> QED  BY <1>1, <5>1
        <4>2. IsWhole((l[i + 2].ptr - l[i + 1].ptr) + (l[i + 1].ptr - l[i].ptr))
          BY <4>1, WholeSum
        <4>3. (l[i + 2].ptr - l[i + 1].ptr) + (l[i + 1].ptr - l[i].ptr) = l[i + 2].ptr - l[i].ptr
          BY <4>1
        <4>4. t[j].ptr = l[i].ptr /\ t[j + 1].ptr = l[i + 2].ptr
          BY <1>1, <3>2
        <4> QED  BY <4>1, <4>2, <4>3, <4>4
      <3>3. CASE j > i
        <4>1. j + 1 \in 1 .. n - 1
          BY <1>1
        <4>2. t[j].ptr = l[j + 1].ptr /\ t[j + 1].ptr = l[(j + 1) + 1].ptr
          BY <1>1, <3>3
        <4> QED  BY <1>1, <4>1, <4>2
      <3> QED  BY <1>1, <3>1, <3>2, <3>3
    <2> QED  BY <1>1, <2>1, <2>2, <2>3, <2>4 DEF Chain, Gap
  <1>3. ASSUME NEW j \in FreePairs(t, n - 1), j # i - 1  PROVE FALSE
    <2>1. j \in 1 .. n - 2 /\ t[j].type = "FREE" /\ t[j + 1].type = "FREE"
      BY <1>1, <1>3 DEF FreePairs
    <2>2. CASE j < i
      <3>1. j \in FreePairs(l, n)
        BY <1>1, <2>1, <2>2 DEF FreePairs
      <3> QED  BY <1>1, <1>3, <2>2, <3>1
    <2>3. CASE j >= i
      <3>1. l[(j + 1) + 1].type = "FREE" /\ j + 1 \in 1 .. n - 1
        BY <1>1, <2>1, <2>3
      <3>2. l[j + 1].type = "FREE"
        BY <1>1, <2>1, <2>3
      <3>3. j + 1 \in FreePairs(l, n)
        BY <3>1, <3>2 DEF FreePairs
      <3>4. j + 1 \in {i - 1, i}
        BY <3>3
      <3> QED  BY <1>1, <2>1, <2>3, <3>4
    <2> QED  BY <1>1, <2>1, <2>2, <2>3
  <1>4. ASSUME NEW b \in Blocks(t, n - 1)  PROVE b \in Blocks(l, n)
    <2>1. PICK j \in UsedIndices(t, n - 1) : b = <<t[j].ptr, t[j + 1].ptr>>
      BY DEF Blocks
    <2>2. j \in 1 .. n - 2 /\ t[j].type = "USED"
      BY <1>1 DEF UsedIndices
    <2>3. CASE j < i
      <3>1. b = <<l[j].ptr, l[j + 1].ptr>> /\ j \in UsedIndices(l, n)
        BY <1>1, <2>1, <2>2, <2>3 DEF UsedIndices
      <3> QED  BY <3>1 DEF Blocks
    <2>4. CASE j = i
      BY <2>2, <2>4
    <2>5. CASE j > i
      <3>1. /\ t[j].ptr = l[j + 1].ptr /\ t[j + 1].ptr = l[(j + 1) + 1].ptr
            /\ l[j + 1].type = "USED"
        BY <1>1, <2>2, <2>5
      <3>2. j + 1 \in UsedIndices(l, n)
        BY <1>1, <2>2, <3>1 DEF UsedIndices
      <3> QED  BY <2>1, <3>1, <3>2 DEF Blocks
    <2> QED  BY <1>1, <2>2, <2>3, <2>4, <2>5
  <1>5. ASSUME NEW b \in Blocks(l, n)  PROVE b \in Blocks(t, n - 1)
    <2>1. PICK j \in UsedIndices(l, n) : b = <<l[j].ptr, l[j + 1].ptr>>
      BY DEF Blocks
    <2>2. j \in 1 .. n - 1 /\ l[j].type = "USED" /\ j # i /\ j # i + 1
      BY DEF UsedIndices
    <2>3. CASE j < i
      <3>1. b = <<t[j].ptr, t[j + 1].ptr>> /\ j \in UsedIndices(t, n - 1)
        BY <1>1, <2>1, <2>2, <2>3 DEF UsedIndices
      <3> QED  BY <3>1 DEF Blocks
    <2>4. CASE j > i + 1
      <3>1. j - 1 \in i + 1 .. n - 1 /\ j \in i + 1 .. n - 1 /\ (j - 1) + 1 = j
        BY <1>1, <2>2, <2>4
      <3>2. /\ t[j - 1].ptr = l[j].ptr /\ t[(j - 1) + 1].ptr = l[j + 1].ptr
            /\ t[j - 1].type = "USED"
        BY <2>2, <3>1
      <3>3. j - 1 \in UsedIndices(t, n - 1)
        BY <1>1, <2>2, <2>4, <3>1, <3>2 DEF UsedIndices
      <3> QED  BY <2>1, <3>2, <3>3 DEF Blocks
    <2> QED  BY <1>1, <2>2, <2>3, <2>4
  <1> QED  BY <1>2, <1>3, <1>4, <1>5

-----------------------------------------------------------------------------
(* The operations of the model, on lists.                                  *)

LEMMA ListFacts ==
    ASSUME NEW l, NEW n, IsList(l, n)
    PROVE  /\ n \in Nat
           /\ \A i \in 1 .. n : /\ l[i].ptr \in Nat
                                /\ l[i].type \in {"FREE", "USED", "END"}
  BY AllocationFacts DEF IsList

Typed(l, i, type) == [l EXCEPT ![i].type = type]

LEMMA SetTypeFacts ==
    ASSUME NEW l, NEW n, IsList(l, n), NEW i \in 1 .. n, NEW type \in {"FREE", "USED", "END"}
    PROVE  IsList(Typed(l, i, type), n) /\ Retyped(l, n, i, type, Typed(l, i, type))
  <1>1. /\ l \in Seq(Allocation) /\ n = Len(l) /\ n \in Nat /\ DOMAIN l = 1 .. n
        /\ \A j \in 1 .. n : l[j] \in Allocation
    BY AllocationFacts DEF IsList
  <1>2. [l[i] EXCEPT !.type = type] \in Allocation
    BY <1>1 DEF Allocation
  <1> QED  BY <1>1, <1>2 DEF Allocation, Typed, Retyped, IsList

Repointed(l, i, p) == [l EXCEPT ![i].ptr = p]

LEMMA SetPtrFacts ==
    ASSUME NEW l, NEW n, IsList(l, n), NEW i \in 1 .. n, NEW p \in Nat
    PROVE  IsList(Repointed(l, i, p), n) /\ Moved(l, n, i, p, Repointed(l, i, p))
  <1>1. /\ l \in Seq(Allocation) /\ n = Len(l) /\ n \in Nat /\ DOMAIN l = 1 .. n
        /\ \A j \in 1 .. n : l[j] \in Allocation
    BY AllocationFacts DEF IsList
  <1>2. [l[i] EXCEPT !.ptr = p] \in Allocation
    BY <1>1 DEF Allocation
  <1> QED  BY <1>1, <1>2 DEF Allocation, Repointed, Moved, IsList

LEMMA ListInsert ==
    ASSUME NEW l, NEW n, IsList(l, n), NEW i \in 1 .. n + 1, NEW e \in Allocation
    PROVE  IsList(InsertAt(l, i, e), n + 1) /\ Inserted(l, n, i, e, InsertAt(l, i, e))
  <1>1. l \in Seq(Allocation) /\ n = Len(l) /\ i \in 1 .. Len(l) + 1
    BY DEF IsList
  <1>2. /\ InsertAt(l, i, e) \in Seq(Allocation)
        /\ Len(InsertAt(l, i, e)) = Len(l) + 1
        /\ \A j \in 1 .. Len(l) + 1 :
              InsertAt(l, i, e)[j] = IF j < i THEN l[j] ELSE IF j = i THEN e ELSE l[j - 1]
    BY <1>1, InsertFacts, ZenonT(60)
  <1> PICK t : t = InsertAt(l, i, e)
    OBVIOUS
  <1>3. IsList(t, n + 1)
    BY ONLY <1>1, <1>2, t = InsertAt(l, i, e) DEF IsList
  <1>4. Inserted(l, n, i, e, t)
    BY ONLY <1>1, <1>2, t = InsertAt(l, i, e) DEF Inserted
  <1> QED  BY <1>3, <1>4

LEMMA ListRemove ==
    ASSUME NEW l, NEW n, IsList(l, n), NEW i \in 1 .. n
    PROVE  IsList(RemoveAt(l, i), n - 1) /\ Removed(l, n, i, RemoveAt(l, i))
  <1>1. l \in Seq(Allocation) /\ n = Len(l) /\ i \in 1 .. Len(l)
    BY DEF IsList
  <1>2. /\ RemoveAt(l, i) \in Seq(Allocation)
        /\ Len(RemoveAt(l, i)) = Len(l) - 1
        /\ \A j \in 1 .. Len(l) - 1 : RemoveAt(l, i)[j] = IF j < i THEN l[j] ELSE l[j + 1]
    BY <1>1, RemoveFacts
  <1> QED  BY <1>1, <1>2 DEF IsList, Removed

Longer(l, e) == Append(l, e)

LEMMA ListAppend ==
    ASSUME NEW l, NEW n, IsList(l, n), NEW e \in Allocation
    PROVE  /\ IsList(Longer(l, e), n + 1)
           /\ \A j \in 1 .. n : Longer(l, e)[j] = l[j]
           /\ Longer(l, e)[n + 1] = e
  BY DEF IsList, Longer

LEMMA MoveEndFacts ==
    ASSUME NEW l, NEW n, IsList(l, n), n > 0, NEW p \in Nat, NEW type \in {"FREE", "USED"}
    PROVE  /\ IsList(MoveEnd(l, p, type), n + 1)
           /\ Appended(l, n, type, p, MoveEnd(l, p, type))
  <1> PICK u : u = Typed(l, n, type)
    OBVIOUS
  <1> PICK e : e = [ptr |-> p, type |-> "END"]
    OBVIOUS
  <1>1. n \in 1 .. n /\ type \in {"FREE", "USED", "END"}
    BY ListFacts
  <1>2. IsList(u, n) /\ Retyped(l, n, n, type, u)
    BY <1>1, SetTypeFacts
  <1>3. e \in Allocation /\ e.ptr = p /\ e.type = "END"
    BY DEF Allocation
  <1>4. MoveEnd(l, p, type) = Longer(u, e)
    BY DEF MoveEnd, Typed, IsList, Longer
  <1>5. /\ IsList(Longer(u, e), n + 1)
        /\ \A j \in 1 .. n : Longer(u, e)[j] = u[j]
        /\ Longer(u, e)[n + 1] = e
    BY <1>2, <1>3, ListAppend
  <1>6. Appended(l, n, type, p, Longer(u, e))
    BY <1>2, <1>3, <1>5 DEF Appended, Retyped
  <1> QED  BY <1>4, <1>5, <1>6

LEMMA SoundFacts ==
    ASSUME NEW l, NEW n, NEW brk, Sound(l, n, brk)
    PROVE  /\ n \in Nat /\ n >= 2 /\ n \in 1 .. n /\ brk \in Nat
           /\ \A i \in 1 .. n : l[i].ptr \in Nat
           /\ l[n].ptr = brk
           /\ \A i \in 1 .. n - 1 : l[i].ptr < l[i + 1].ptr /\ IsWhole(Gap(l, i))
           /\ \A i \in 1 .. n : l[i].type = "END" <=> i = n
  <1>1. n \in Nat /\ n >= 2 /\ n \in 1 .. n
    BY DEF Sound, Chain
  <1> QED  BY <1>1 DEF Sound, Chain

(* The entry that malloc takes is nobody's.                                *)
LEMMA OthersDiffer ==
    ASSUME NEW l, NEW n, NEW brk, Chain(l, n, brk),
           NEW i \in 1 .. n, l[i].type # "USED"
    PROVE  \A b \in Blocks(l, n) : b[1] # l[i].ptr
  <1> SUFFICES ASSUME NEW j \in UsedIndices(l, n), l[j].ptr = l[i].ptr
               PROVE  FALSE
    BY DEF Blocks
  <1>1. n \in Nat /\ j \in 1 .. n /\ j # i /\ l[i].ptr \in Nat
    BY DEF Chain, UsedIndices
  <1>2. \A k, m \in 1 .. n : k < m => l[k].ptr < l[m].ptr
    BY PointersIncrease
  <1> QED  BY <1>1, <1>2

LEMMA TakeEntryFacts ==
    ASSUME NEW l, NEW n, NEW brk, Sound(l, n, brk),
           NEW i \in 1 .. n - 1, l[i].type = "FREE",
           NEW size \in Nat, size > 0, IsWhole(size), Gap(l, i) >= size
    PROVE  LET t == TakeEntry(l, i, size)
           IN /\ Sound(t, Len(t), brk)
              /\ Blocks(t, Len(t)) = Blocks(l, n) \cup {<<l[i].ptr, l[i].ptr + size>>}
  <1> PICK u : u = Typed(l, i, "USED")
    OBVIOUS
  <1> PICK p : p = l[i].ptr + size
    OBVIOUS
  <1>1. /\ n \in Nat /\ i \in 1 .. n /\ i + 1 \in 1 .. n
        /\ l[i].ptr \in Nat /\ l[i + 1].ptr \in Nat /\ p \in Nat
    BY SoundFacts
  <1>2. IsList(l, n) /\ Chain(l, n, brk) /\ FreePairs(l, n) = {}
    BY DEF Sound
  <1>3. IsList(u, n) /\ Retyped(l, n, i, "USED", u)
    BY <1>1, <1>2, SetTypeFacts
  <1>4. /\ Chain(u, n, brk) /\ FreePairs(u, n) = {}
        /\ Blocks(u, n) = Blocks(l, n) \cup {<<l[i].ptr, l[i + 1].ptr>>}
    BY <1>2, <1>3, ChainUse
  <1>5. CASE Gap(l, i) = size
    <2>1. TakeEntry(l, i, size) = u
      BY <1>5 DEF TakeEntry, Typed
    <2>2. l[i + 1].ptr = p
      BY <1>1, <1>5 DEF Gap
    <2>3. n = Len(u)
      BY <1>3 DEF IsList
    <2> QED  BY <1>3, <1>4, <2>1, <2>2, <2>3 DEF Sound
  <1>6. CASE Gap(l, i) # size
    <2> PICK e : e = [ptr |-> p, type |-> "FREE"]
      OBVIOUS
    <2> PICK k : k = i + 1
      OBVIOUS
    <2> PICK t : t = InsertAt(u, k, e)
      OBVIOUS
    <2>1. TakeEntry(l, i, size) = t
      BY <1>6 DEF TakeEntry, Typed
    <2>2. u[i].ptr = l[i].ptr /\ u[i + 1].ptr = l[i + 1].ptr
          /\ u[i].type = "USED" /\ u[i + 1].type = l[i + 1].type
      BY <1>1, <1>3 DEF Retyped
    <2>3. Gap(l, i) = l[i + 1].ptr - l[i].ptr
      BY DEF Gap
    <2>4. u[i].ptr < p /\ p < u[i + 1].ptr /\ p - u[i].ptr = size
      BY <1>1, <1>6, <2>2, <2>3
    <2>5. e \in Allocation /\ e.ptr = p /\ e.type = "FREE"
      BY <1>1 DEF Allocation
    <2>6. IsList(t, n + 1) /\ Inserted(u, n, k, e, t)
      <3>1. k \in 1 .. n + 1
        BY <1>1
      <3> QED  BY <1>3, <2>5, <3>1, ListInsert
    <2>7. SplitAt(u, n, i, p, t)
      <3>1. \A j \in 1 .. i : t[j].ptr = u[j].ptr /\ t[j].type = u[j].type
        BY <1>1, <2>6 DEF Inserted
      <3>2. t[i + 1].ptr = p /\ t[i + 1].type = "FREE"
        BY <1>1, <2>5, <2>6 DEF Inserted
      <3>3. ASSUME NEW j \in i + 1 .. n
            PROVE  t[j + 1].ptr = u[j].ptr /\ t[j + 1].type = u[j].type
        <4>1. j + 1 \in 1 .. n + 1 /\ ~ (j + 1 < k) /\ j + 1 # k /\ (j + 1) - 1 = j
          BY <1>1
        <4> QED  BY <2>6, <4>1 DEF Inserted
      <3> QED  BY <3>1, <3>2, <3>3 DEF SplitAt
    <2>8. u[i + 1].type # "FREE"
      BY <1>2, <2>2 DEF FreePairs
    <2>9. /\ Chain(t, n + 1, brk) /\ FreePairs(t, n + 1) = {}
          /\ Blocks(t, n + 1) =
               (Blocks(u, n) \ {<<u[i].ptr, u[i + 1].ptr>>}) \cup {<<u[i].ptr, p>>}
      <3>1. IsWhole(p - u[i].ptr)
        BY <2>4
      <3> QED  BY <1>1, <1>4, <2>2, <2>4, <2>7, <2>8, <3>1, ChainSplit
    <2>10. <<l[i].ptr, l[i + 1].ptr>> \notin Blocks(l, n)
      <3>1. l[i].type # "USED" /\ \A b \in Blocks(l, n) : b[1] # l[i].ptr
        BY <1>1, <1>2, OthersDiffer
      <3> QED  BY <3>1
    <2>11. Blocks(t, n + 1) = Blocks(l, n) \cup {<<l[i].ptr, p>>}
      BY <1>4, <2>2, <2>9, <2>10
    <2>12. Len(t) = n + 1
      BY <2>6 DEF IsList
    <2> QED  BY <2>1, <2>6, <2>9, <2>11, <2>12 DEF Sound
  <1> QED  BY <1>5, <1>6

LEMMA MoveEndSound ==
    ASSUME NEW l, NEW n, NEW brk, Sound(l, n, brk), NEW type \in {"FREE", "USED"},
           type = "FREE" => l[n - 1].type # "FREE",
           NEW p \in Nat, brk < p, IsWhole(p - brk)
    PROVE  /\ Sound(MoveEnd(l, p, type), n + 1, p)
           /\ Blocks(MoveEnd(l, p, type), n + 1) =
                Blocks(l, n) \cup (IF type = "USED" THEN {<<brk, p>>} ELSE {})
  <1> PICK t : t = MoveEnd(l, p, type)
    OBVIOUS
  <1>1. IsList(l, n) /\ Chain(l, n, brk) /\ FreePairs(l, n) = {} /\ n > 0
    BY SoundFacts DEF Sound
  <1>2. IsList(t, n + 1) /\ Appended(l, n, type, p, t)
    BY <1>1, MoveEndFacts
  <1>3. /\ Chain(t, n + 1, p) /\ FreePairs(t, n + 1) = {}
        /\ Blocks(t, n + 1) = Blocks(l, n) \cup (IF type = "USED" THEN {<<brk, p>>} ELSE {})
    BY <1>1, <1>2, ChainAppend
  <1> QED  BY <1>2, <1>3 DEF Sound

(* The pages that a block asks for are enough for it.                      *)
LEMMA PagesNeeded ==
    ASSUME NEW x \in Nat, x > 0
    PROVE  LET need == (x - 1) \div PageSize + 1
           IN need \in Nat /\ need * PageSize \in Nat /\ need * PageSize >= x
  <1> DEFINE d == (x - 1) \div PageSize
  <1>1. PageSize \in Nat \ {0} /\ x - 1 \in Nat
    BY PageAssumption
  <1>2. /\ d \in Nat /\ x - 1 = PageSize * d + ((x - 1) % PageSize)
        /\ (x - 1) % PageSize \in Nat /\ (x - 1) % PageSize < PageSize
    BY <1>1
  <1> HIDE DEF d
  <1>3. (d + 1) * PageSize = PageSize * d + PageSize /\ PageSize * d \in Nat
    BY <1>1, <1>2
  <1>4. d + 1 \in Nat /\ (d + 1) * PageSize \in Nat /\ (d + 1) * PageSize >= x
    BY <1>1, <1>2, <1>3
  <1> QED  BY <1>4 DEF d

(* What GrowHeap does to the list before it gives the rest of the pages    *)
(* back to the free list: entry i of `used' becomes a block of the size,   *)
(* of n entries.                                                           *)
Grown(l, n0, brk, size, i, used) ==
    LET start == l[i].ptr
        grown == Repointed(used, i + 1, used[i].ptr + size)
    IN /\ used[i].ptr = start /\ start \in Nat /\ IsWhole(start) /\ start <= brk
       /\ Gap(used, i) = brk - start /\ brk - start < size
       /\ Sound(grown, i + 1, start + size)
       /\ i \in Nat /\ grown[i + 1].ptr = start + size /\ grown[i].type = "USED"
       /\ Blocks(grown, i + 1) = Blocks(l, n0) \cup {<<start, start + size>>}
       /\ \A b \in Blocks(l, n0) : b[1] # start

LEMMA GrownFromTail ==
    ASSUME NEW l, NEW n, NEW brk, Sound(l, n, brk), IsWhole(brk),
           NEW size \in Nat, size > 0, IsWhole(size), Fitting(l, size) = {},
           NEW i, i = n - 1, l[i].type = "FREE"
    PROVE  Grown(l, n, brk, size, i, Typed(l, i, "USED"))
  <1>1. IsList(l, n) /\ Chain(l, n, brk) /\ FreePairs(l, n) = {}
    BY DEF Sound
  <1>2. /\ n \in Nat /\ n >= 2 /\ brk \in Nat
        /\ \A j \in 1 .. n : l[j].ptr \in Nat
        /\ l[n].ptr = brk
        /\ \A j \in 1 .. n - 1 : l[j].ptr < l[j + 1].ptr /\ IsWhole(Gap(l, j))
    BY SoundFacts
  <1>3. /\ n \in 1 .. n /\ i \in 1 .. n /\ i \in 1 .. n - 1 /\ i + 1 = n /\ i # n
        /\ l[i].ptr \in Nat
    BY <1>2
  <1> PICK used : used = Typed(l, i, "USED")
    OBVIOUS
  <1> PICK start : start = l[i].ptr
    OBVIOUS
  <1> PICK p : p = start + size
    OBVIOUS
  <1> PICK grown : grown = Repointed(used, n, p)
    OBVIOUS
  <1>4. IsList(used, n) /\ Retyped(l, n, i, "USED", used)
    BY <1>1, <1>3, SetTypeFacts
  <1>5. used[i].ptr = start /\ used[i].type = "USED" /\ used[n].ptr = brk /\ start \in Nat
        /\ p \in Nat /\ p - start = size /\ start < p
    BY <1>2, <1>3, <1>4 DEF Retyped
  <1>6. IsList(grown, n) /\ Moved(used, n, n, p, grown)
    BY <1>3, <1>4, <1>5, SetPtrFacts
  <1>7. Stretched(l, n, p, grown)
    BY <1>3, <1>4, <1>6 DEF Stretched, Moved, Retyped
  <1>8. Gap(l, i) = brk - start /\ IsWhole(Gap(l, i)) /\ start < brk
    BY <1>2, <1>3 DEF Gap
  <1>9. brk - start < size
    <2>1. i \notin Fitting(l, size)
      OBVIOUS
    <2>2. brk - start \in Nat
      BY <1>2, <1>5, <1>8
    <2>3. i \in 1 .. Len(l) - 1
      BY <1>1, <1>3 DEF IsList
    <2>4. ~ (Gap(l, i) >= size)
      BY <2>1, <2>3 DEF Fitting
    <2> QED  BY <1>8, <2>2, <2>4
  <1>10. Gap(used, i) = brk - start
    BY <1>3, <1>5 DEF Gap
  <1>11. IsWhole(start)
    <2>1. brk - start \in Nat /\ brk - start <= brk
      BY <1>2, <1>5, <1>8
    <2>2. IsWhole(brk - (brk - start))
      BY <1>2, <1>8, <2>1, WholeDifference
    <2>3. brk - (brk - start) = start
      BY <1>2, <1>5
    <2> QED  BY <2>2, <2>3
  <1>12. /\ Chain(grown, n, p) /\ FreePairs(grown, n) = {}
         /\ Blocks(grown, n) = Blocks(l, n) \cup {<<l[n - 1].ptr, p>>}
    BY <1>1, <1>5, <1>7, ChainStretch
  <1>13. \A b \in Blocks(l, n) : b[1] # start
    <2>1. l[i].type # "USED"
      OBVIOUS
    <2> QED  BY <1>1, <1>3, <2>1, OthersDiffer
  <1>14. Sound(grown, n, p)
    BY <1>6, <1>12 DEF Sound
  <1>15. grown[n].ptr = p /\ grown[i].type = "USED"
    BY <1>3, <1>5, <1>6 DEF Moved
  <1>16. Repointed(used, i + 1, used[i].ptr + size) = grown
    BY <1>3, <1>5
  <1>17. start <= brk /\ i \in Nat
    BY <1>2, <1>3, <1>5, <1>8
  <1> QED
    BY <1>3, <1>5, <1>9, <1>10, <1>11, <1>12, <1>13, <1>14, <1>15, <1>16, <1>17 DEF Grown

LEMMA GrownFromEnd ==
    ASSUME NEW l, NEW n, NEW brk, Sound(l, n, brk), IsWhole(brk),
           NEW size \in Nat, size > 0, IsWhole(size)
    PROVE  Grown(l, n, brk, size, n, MoveEnd(l, l[n].ptr, "USED"))
  <1>1. IsList(l, n) /\ Chain(l, n, brk) /\ FreePairs(l, n) = {}
    BY DEF Sound
  <1>2. /\ n \in Nat /\ n >= 2 /\ n > 0 /\ brk \in Nat /\ n \in 1 .. n /\ l[n].ptr = brk
        /\ l[n].type # "USED"
    BY SoundFacts
  <1> PICK m : m = n + 1
    OBVIOUS
  <1> PICK used : used = MoveEnd(l, brk, "USED")
    OBVIOUS
  <1> PICK p : p = brk + size
    OBVIOUS
  <1> PICK grown : grown = Repointed(used, m, p)
    OBVIOUS
  <1>3. m \in Nat /\ m \in 1 .. m /\ n \in 1 .. m /\ n # m /\ p \in Nat
        /\ \A j \in 1 .. n : j \in 1 .. m /\ j # m
    BY <1>2
  <1>4. IsList(used, m) /\ Appended(l, n, "USED", brk, used)
    <2>1. IsList(used, n + 1) /\ Appended(l, n, "USED", brk, used)
      BY <1>1, <1>2, MoveEndFacts
    <2> QED  BY <2>1
  <1>5. used[n].ptr = brk /\ used[m].ptr = brk
    BY <1>2, <1>4 DEF Appended
  <1>6. IsList(grown, m) /\ Moved(used, m, m, p, grown)
    BY <1>3, <1>4, SetPtrFacts
  <1>7. Appended(l, n, "USED", p, grown)
    BY <1>3, <1>4, <1>6 DEF Appended, Moved
  <1>8. /\ Chain(grown, m, p) /\ FreePairs(grown, m) = {}
        /\ Blocks(grown, m) = Blocks(l, n) \cup {<<brk, p>>}
    <2>1. p - brk = size /\ brk < p
      BY <1>2
    <2>2. /\ Chain(grown, n + 1, p) /\ FreePairs(grown, n + 1) = {}
          /\ Blocks(grown, n + 1) =
               Blocks(l, n) \cup (IF "USED" = "USED" THEN {<<brk, p>>} ELSE {})
      BY <1>1, <1>3, <1>7, <2>1, ChainAppend
    <2> QED  BY <2>2
  <1>9. Gap(used, n) = brk - brk
    BY <1>5 DEF Gap
  <1>10. \A b \in Blocks(l, n) : b[1] # brk
    <2>1. \A b \in Blocks(l, n) : b[1] # l[n].ptr
      BY <1>1, <1>2, OthersDiffer
    <2> QED  BY <1>2, <2>1
  <1>11. Sound(grown, m, p)
    BY <1>6, <1>8 DEF Sound
  <1>12. grown[m].ptr = p /\ grown[n].type = "USED"
    BY <1>2, <1>7 DEF Appended
  <1>13. Repointed(used, n + 1, used[n].ptr + size) = grown
    BY <1>5
  <1>14. brk - brk = 0 /\ brk <= brk /\ 0 < size
    BY <1>2
  <1> QED
    BY <1>2, <1>5, <1>8, <1>9, <1>10, <1>11, <1>12, <1>13, <1>14 DEF Grown

(* What the last page has left is free.                                    *)
WithRest(pages, size, i, used) ==
    LET need  == (size - Gap(used, i) - 1) \div PageSize + 1
        grown == Repointed(used, i + 1, used[i].ptr + size)
        end   == (pages + need) * PageSize
    IN [list  |-> IF end = grown[i + 1].ptr THEN grown ELSE MoveEnd(grown, end, "FREE"),
        pages |-> pages + need]

LEMMA RestOfPages ==
    ASSUME NEW grown, NEW p \in Nat, NEW i \in Nat, NEW n, n = i + 1, Sound(grown, n, p),
           IsWhole(p), grown[i].type = "USED",
           NEW end \in Nat, IsWhole(end), p <= end,
           NEW rest, rest = IF end = p THEN grown ELSE MoveEnd(grown, end, "FREE")
    PROVE  \E m : Sound(rest, m, end) /\ Blocks(rest, m) = Blocks(grown, n)
  <1>1. CASE end = p
    BY <1>1
  <1>2. CASE end # p
    <2>1. p < end /\ IsWhole(end - p)
      BY <1>2, WholeDifference
    <2>2. grown[n - 1].type = "USED"
      <3>1. n - 1 = i
        OBVIOUS
      <3> QED  BY <3>1
    <2> PICK type : type = "FREE"
      OBVIOUS
    <2> PICK t : t = MoveEnd(grown, end, type)
      OBVIOUS
    <2>3. /\ Sound(t, n + 1, end)
          /\ Blocks(t, n + 1) =
               Blocks(grown, n) \cup (IF type = "USED" THEN {<<p, end>>} ELSE {})
      BY <2>1, <2>2, MoveEndSound
    <2> QED  BY <1>2, <2>3
  <1> QED  BY <1>1, <1>2

LEMMA HeapLists ==
    ASSUME NEW h, HeapIsSound(h)
    PROVE  /\ Sound(h.list, Len(h.list), Break(h)) /\ h.pages \in Nat
           /\ h = [list |-> h.list, pages |-> h.pages]
           /\ Break(h) = h.pages * PageSize /\ Break(h) \in Nat /\ IsWhole(Break(h))
  BY WholePages DEF HeapIsSound, Heap, Sound, Break, IsList

LEMMA RestIsFree ==
    ASSUME NEW l, NEW n0, NEW h, HeapIsSound(h),
           NEW size \in Nat, size > 0, IsWhole(size), NEW i, NEW used,
           Grown(l, n0, Break(h), size, i, used)
    PROVE  LET r == WithRest(h.pages, size, i, used)
           IN /\ HeapIsSound(r)
              /\ BlocksOf(r) = Blocks(l, n0) \cup {<<used[i].ptr, used[i].ptr + size>>}
  <1> PICK pages : pages = h.pages
    OBVIOUS
  <1> PICK brk : brk = Break(h)
    OBVIOUS
  <1> PICK start : start = l[i].ptr
    OBVIOUS
  <1> PICK p : p = start + size
    OBVIOUS
  <1> PICK lack : lack = size - Gap(used, i)
    OBVIOUS
  <1> PICK need : need = (lack - 1) \div PageSize + 1
    OBVIOUS
  <1> PICK grown : grown = Repointed(used, i + 1, used[i].ptr + size)
    OBVIOUS
  <1> PICK end : end = (pages + need) * PageSize
    OBVIOUS
  <1> PICK rest : rest = IF end = p THEN grown ELSE MoveEnd(grown, end, "FREE")
    OBVIOUS
  <1>1. /\ used[i].ptr = start /\ start \in Nat /\ IsWhole(start) /\ start <= brk
        /\ Gap(used, i) = brk - start /\ brk - start < size
        /\ Sound(grown, i + 1, p)
        /\ i \in Nat /\ grown[i + 1].ptr = p /\ grown[i].type = "USED"
        /\ Blocks(grown, i + 1) = Blocks(l, n0) \cup {<<start, p>>}
    BY DEF Grown
  <1>2. brk \in Nat /\ PageSize \in Nat \ {0} /\ pages \in Nat /\ brk = pages * PageSize
    BY PageAssumption, HeapLists
  <1>3. lack \in Nat /\ lack > 0 /\ lack = size - (brk - start)
    BY <1>1, <1>2
  <1>4. need \in Nat /\ need * PageSize \in Nat /\ need * PageSize >= lack
    BY <1>3, PagesNeeded
  <1>5. WithRest(pages, size, i, used) = [list |-> rest, pages |-> pages + need]
    BY <1>1 DEF WithRest
  <1>6. end = brk + need * PageSize /\ pages + need \in Nat
    BY <1>2, <1>4
  <1>7. end \in Nat /\ IsWhole(end)
    BY <1>6, WholePages
  <1>8. p \in Nat /\ p <= end
    BY <1>1, <1>2, <1>3, <1>4, <1>6
  <1>9. IsWhole(p)
    BY <1>1, WholeSum
  <1>10. PICK m : Sound(rest, m, end) /\ Blocks(rest, m) = Blocks(grown, i + 1)
    <2> PICK n : n = i + 1
      OBVIOUS
    <2>1. i \in Nat /\ n = i + 1 /\ Sound(grown, n, p) /\ grown[i].type = "USED"
      BY <1>1
    <2>2. rest = IF end = p THEN grown ELSE MoveEnd(grown, end, "FREE")
      OBVIOUS
    <2>3. \E m : Sound(rest, m, end) /\ Blocks(rest, m) = Blocks(grown, n)
      BY ONLY <1>7, <1>8, <1>9, <2>1, <2>2, RestOfPages
    <2> QED  BY <2>3
  <1> PICK r : r = [list |-> rest, pages |-> pages + need]
    OBVIOUS
  <1>11. r.list = rest /\ r.pages = pages + need /\ Break(r) = end
    BY DEF Break
  <1>12. rest \in Seq(Allocation) /\ m = Len(rest)
    BY <1>10 DEF Sound, IsList
  <1>13. HeapIsSound(r)
    <2>1. r \in Heap
      BY <1>6, <1>12 DEF Heap
    <2> QED  BY <1>10, <1>11, <1>12, <2>1 DEF HeapIsSound, Sound
  <1>14. BlocksOf(r) = Blocks(l, n0) \cup {<<start, p>>}
    BY <1>1, <1>10, <1>11, <1>12 DEF BlocksOf
  <1> QED  BY <1>1, <1>5, <1>13, <1>14

LEMMA HeapOfList ==
    ASSUME NEW h, HeapIsSound(h), NEW t, NEW n, Sound(t, n, Break(h))
    PROVE  /\ HeapIsSound([h EXCEPT !.list = t])
           /\ BlocksOf([h EXCEPT !.list = t]) = Blocks(t, n)
  <1> PICK g : g = [h EXCEPT !.list = t]
    OBVIOUS
  <1>1. h = [list |-> h.list, pages |-> h.pages] /\ h.pages \in Nat
    BY HeapLists
  <1>2. g.list = t /\ g.pages = h.pages /\ g = [list |-> t, pages |-> h.pages]
    BY <1>1
  <1>3. t \in Seq(Allocation) /\ n = Len(t) /\ Chain(t, n, Break(h)) /\ FreePairs(t, n) = {}
    BY DEF Sound, IsList
  <1>4. g \in Heap
    BY <1>1, <1>2, <1>3 DEF Heap
  <1> QED  BY <1>2, <1>3, <1>4 DEF HeapIsSound, BlocksOf, Break

LEMMA GrowHeapFacts ==
    ASSUME NEW h, HeapIsSound(h), NEW size \in Nat, size > 0, IsWhole(size),
           Fitting(h.list, size) = {}
    PROVE  LET g == GrowHeap(h, size)
           IN /\ HeapIsSound(g.heap) /\ g.ptr \in Nat
              /\ BlocksOf(g.heap) = BlocksOf(h) \cup {<<g.ptr, g.ptr + size>>}
              /\ \A b \in BlocksOf(h) : b[1] # g.ptr
  <1> PICK l : l = h.list
    OBVIOUS
  <1> PICK n : n = Len(l)
    OBVIOUS
  <1> PICK brk : brk = Break(h)
    OBVIOUS
  <1>1. Sound(l, n, brk) /\ brk \in Nat /\ IsWhole(brk) /\ Fitting(l, size) = {}
    BY HeapLists
  <1> PICK i : i = IF l[n - 1].type = "FREE" THEN n - 1 ELSE n
    OBVIOUS
  <1> PICK used : used = IF l[n - 1].type = "FREE" THEN Typed(l, i, "USED")
                                                   ELSE MoveEnd(l, l[n].ptr, "USED")
    OBVIOUS
  <1>2. Grown(l, n, brk, size, i, used)
    <2>1. CASE l[n - 1].type = "FREE"
      BY <1>1, <2>1, GrownFromTail
    <2>2. CASE l[n - 1].type # "FREE"
      BY <1>1, <2>2, GrownFromEnd
    <2> QED  BY <2>1, <2>2
  <1> PICK r : r = WithRest(h.pages, size, i, used)
    OBVIOUS
  <1>3. /\ HeapIsSound(r)
        /\ BlocksOf(r) = Blocks(l, n) \cup {<<used[i].ptr, used[i].ptr + size>>}
    <2>1. /\ HeapIsSound(h) /\ size \in Nat /\ size > 0 /\ IsWhole(size)
          /\ Grown(l, n, Break(h), size, i, used)
      BY <1>2
    <2>2. LET q == WithRest(h.pages, size, i, used)
          IN /\ HeapIsSound(q)
             /\ BlocksOf(q) = Blocks(l, n) \cup {<<used[i].ptr, used[i].ptr + size>>}
      BY ONLY <2>1, RestIsFree
    <2> QED  BY <2>2
  <1>4. GrowHeap(h, size) = [heap |-> r, ptr |-> used[i].ptr]
    <2>1. n \in Nat /\ (n - 1) + 1 = n
      BY <1>1, SoundFacts
    <2>2. /\ l = h.list /\ n = Len(l) /\ r = WithRest(h.pages, size, i, used)
          /\ i = IF l[n - 1].type = "FREE" THEN n - 1 ELSE n
          /\ used = IF l[n - 1].type = "FREE" THEN Typed(l, i, "USED")
                                                ELSE MoveEnd(l, l[n].ptr, "USED")
      OBVIOUS
    <2>3. CASE l[n - 1].type = "FREE"
      BY ONLY <2>1, <2>2, <2>3, SMTT(30) DEF GrowHeap, Typed, Repointed, WithRest
    <2>4. CASE l[n - 1].type # "FREE"
      <3>1. /\ (Len(h.list) - 1) + 1 = i /\ ~ (h.list[Len(h.list) - 1].type = "FREE")
            /\ used = MoveEnd(h.list, h.list[i].ptr, "USED")
        BY ONLY <2>1, <2>2, <2>4
      <3> PICK needed : needed = (size - Gap(used, i) - 1) \div PageSize + 1
        OBVIOUS
      <3> PICK grown : grown = Repointed(used, i + 1, used[i].ptr + size)
        OBVIOUS
      <3> PICK end : end = (h.pages + needed) * PageSize
        OBVIOUS
      <3>2. r = [list  |-> IF end = grown[i + 1].ptr THEN grown ELSE MoveEnd(grown, end, "FREE"),
                 pages |-> h.pages + needed]
        BY <2>2 DEF WithRest
      <3>3. /\ grown = [used EXCEPT ![i + 1].ptr = used[i].ptr + size]
            /\ end = (h.pages + ((size - Gap(used, i) - 1) \div PageSize + 1)) * PageSize
            /\ needed = (size - Gap(used, i) - 1) \div PageSize + 1
        BY DEF Repointed
      <3>4. GrowHeap(h, size) =
              [heap |-> [list  |-> IF end = grown[i + 1].ptr THEN grown
                                   ELSE MoveEnd(grown, end, "FREE"),
                         pages |-> h.pages + needed],
               ptr  |-> used[i].ptr]
        BY ONLY <3>1, <3>3, ZenonT(60) DEF GrowHeap
      <3> QED  BY ONLY <3>2, <3>4, ZenonT(60)
    <2> QED  BY <2>3, <2>4
  <1>5. /\ used[i].ptr \in Nat
        /\ \A b \in Blocks(l, n) : b[1] # used[i].ptr
    BY ONLY <1>2, SMTT(60) DEF Grown
  <1>6. BlocksOf(h) = Blocks(l, n)
    BY DEF BlocksOf
  <1> PICK g : g = GrowHeap(h, size)
    OBVIOUS
  <1>7. g.heap = r /\ g.ptr = used[i].ptr
    <2>1. g = [heap |-> r, ptr |-> used[i].ptr]
      BY <1>4
    <2> QED  BY ONLY <2>1
  <1>8. /\ HeapIsSound(g.heap) /\ g.ptr \in Nat
        /\ BlocksOf(g.heap) = BlocksOf(h) \cup {<<g.ptr, g.ptr + size>>}
        /\ \A b \in BlocksOf(h) : b[1] # g.ptr
    BY ONLY <1>3, <1>5, <1>6, <1>7
  <1> QED  BY <1>8

LEMMA FirstPageFacts ==
    ASSUME NEW h0, HeapIsSound(h0) \/ h0 = NoHeap
    PROVE  HeapIsSound(WithFirstPage(h0)) /\ BlocksOf(WithFirstPage(h0)) = BlocksOf(h0)
  <1>1. CASE HeapIsSound(h0)
    <2>1. h0.list # << >>
      BY <1>1 DEF HeapIsSound, Chain
    <2> QED  BY <1>1, <2>1 DEF WithFirstPage
  <1>2. CASE h0 = NoHeap
    <2> PICK a : a = [ptr |-> 0, type |-> "FREE"]
      OBVIOUS
    <2> PICK z : z = [ptr |-> PageSize, type |-> "END"]
      OBVIOUS
    <2> PICK l : l = <<a, z>>
      OBVIOUS
    <2> PICK h : h = [list |-> l, pages |-> 1]
      OBVIOUS
    <2>1. PageSize \in Nat \ {0} /\ IsWhole(PageSize)
      BY PageAssumption DEF IsWhole
    <2>2. WithFirstPage(h0) = h
      <3>1. h0.list = << >> /\ h0.pages = 0 /\ Break(h0) = 0
        BY <1>2, <2>1 DEF NoHeap, Break
      <3>2. 0 + PageSize = PageSize /\ 0 + 1 = 1
        BY <2>1
      <3> QED  BY <3>1, <3>2 DEF WithFirstPage
    <2>3. a \in Allocation /\ z \in Allocation
      BY <2>1 DEF Allocation
    <2>4. /\ l \in Seq(Allocation) /\ Len(l) = 2
          /\ l[1].ptr = 0 /\ l[1].type = "FREE" /\ l[2].ptr = PageSize /\ l[2].type = "END"
      BY <2>3
    <2>5. h \in Heap /\ h.list = l /\ Break(h) = PageSize
      BY <2>1, <2>4 DEF Heap, Break
    <2>6. Chain(l, 2, PageSize) /\ FreePairs(l, 2) = {} /\ UsedIndices(l, 2) = {}
      <3>1. PageSize - 0 = PageSize /\ 0 < PageSize
        BY <2>1
      <3>2. 1 .. 2 - 1 = {1} /\ 1 .. 2 = {1, 2} /\ 2 \in Nat
        OBVIOUS
      <3>3. l[1].ptr < l[2].ptr /\ IsWhole(Gap(l, 1))
        BY <2>1, <2>4, <3>1 DEF Gap
      <3> QED  BY <2>1, <2>4, <3>2, <3>3 DEF Chain, FreePairs, UsedIndices
    <2>7. HeapIsSound(h) /\ BlocksOf(h) = {}
      BY <2>4, <2>5, <2>6 DEF HeapIsSound, BlocksOf, Blocks
    <2>8. BlocksOf(h0) = {}
      <3>1. Len(h0.list) = 0
        BY <1>2 DEF NoHeap
      <3>2. UsedIndices(h0.list, 0) = {}
        BY DEF UsedIndices
      <3> QED  BY <3>1, <3>2 DEF BlocksOf, Blocks
    <2> QED  BY <2>2, <2>7, <2>8
  <1> QED  BY <1>1, <1>2

LEMMA FirstFit ==
    ASSUME NEW l, NEW size, Fitting(l, size) # {}
    PROVE  (CHOOSE j \in Fitting(l, size) : \A k \in Fitting(l, size) : j <= k)
             \in Fitting(l, size)
  <1>1. Fitting(l, size) \in SUBSET Nat
    BY DEF Fitting
  <1>2. \E j \in Fitting(l, size) : \A k \in Fitting(l, size) : j <= k
    BY <1>1, LeastNumber
  <1> QED  BY <1>2

LEMMA TakeFacts ==
    ASSUME NEW h, HeapIsSound(h), NEW size \in Nat, size > 0, IsWhole(size),
           NEW i \in Fitting(h.list, size), NEW a,
           a = [heap |-> [h EXCEPT !.list = TakeEntry(h.list, i, size)],
                ptr  |-> h.list[i].ptr]
    PROVE  /\ HeapIsSound(a.heap) /\ a.ptr \in Nat
           /\ BlocksOf(a.heap) = BlocksOf(h) \cup {<<a.ptr, a.ptr + size>>}
           /\ \A b \in BlocksOf(h) : b[1] # a.ptr
  <1> PICK l : l = h.list
    OBVIOUS
  <1> PICK n : n = Len(l)
    OBVIOUS
  <1> PICK t : t = TakeEntry(l, i, size)
    OBVIOUS
  <1> PICK brk : brk = Break(h)
    OBVIOUS
  <1>1. i \in 1 .. n - 1 /\ l[i].type = "FREE" /\ Gap(l, i) >= size
    BY DEF Fitting
  <1>2. Sound(l, n, brk)
    BY HeapLists
  <1>3. /\ Sound(t, Len(t), brk)
        /\ Blocks(t, Len(t)) = Blocks(l, n) \cup {<<l[i].ptr, l[i].ptr + size>>}
    BY <1>1, <1>2, TakeEntryFacts
  <1>4. a.heap = [h EXCEPT !.list = t] /\ a.ptr = l[i].ptr
    OBVIOUS
  <1>5. /\ HeapIsSound([h EXCEPT !.list = t])
        /\ BlocksOf([h EXCEPT !.list = t]) = Blocks(t, Len(t))
    BY <1>3, HeapOfList
  <1>6. BlocksOf(h) = Blocks(l, n)
    BY DEF BlocksOf
  <1>7. BlocksOf(a.heap) = BlocksOf(h) \cup {<<a.ptr, a.ptr + size>>}
    BY <1>3, <1>4, <1>5, <1>6
  <1>8. n \in Nat /\ i \in 1 .. n /\ l[i].ptr \in Nat
    BY <1>1, <1>2, SoundFacts
  <1>9. \A b \in BlocksOf(h) : b[1] # a.ptr
    <2>1. l[i].type # "USED"
      BY <1>1
    <2>2. Chain(l, n, brk)
      BY <1>2 DEF Sound
    <2>3. \A b \in Blocks(l, n) : b[1] # l[i].ptr
      BY <1>8, <2>1, <2>2, OthersDiffer
    <2> QED  BY <1>4, <1>6, <2>3
  <1> QED  BY <1>4, <1>5, <1>7, <1>8, <1>9

(* What MemoryObjects::alloc does: exactly one block comes, as large as    *)
(* asked for, at an address where no block was.                            *)
THEOREM AllocTakesOneBlock ==
    ASSUME NEW h0, HeapIsSound(h0) \/ h0 = NoHeap, NEW request \in Nat
    PROVE  LET a == AllocIn(h0, request)
           IN /\ HeapIsSound(a.heap) /\ a.ptr \in Nat
              /\ BlocksOf(a.heap) = BlocksOf(h0) \cup {<<a.ptr, a.ptr + Rounded(request)>>}
              /\ \A b \in BlocksOf(h0) : b[1] # a.ptr
  <1> PICK h : h = WithFirstPage(h0)
    OBVIOUS
  <1> PICK size : size = Rounded(request)
    OBVIOUS
  <1> PICK a : a = AllocIn(h0, request)
    OBVIOUS
  <1>1. HeapIsSound(h) /\ BlocksOf(h) = BlocksOf(h0)
    BY FirstPageFacts
  <1>2. size \in Nat /\ size > 0 /\ IsWhole(size)
    BY RoundedFacts
  <1>3. CASE Fitting(h.list, size) = {}
    <2>1. a = GrowHeap(h, size)
      BY <1>3 DEF AllocIn
    <2> QED  BY <1>1, <1>2, <1>3, <2>1, GrowHeapFacts
  <1>4. CASE Fitting(h.list, size) # {}
    <2>1. \E i \in Fitting(h.list, size) : a = [heap |-> [h EXCEPT !.list = TakeEntry(h.list, i, size)],
                                                ptr  |-> h.list[i].ptr]
      BY <1>4, FirstFit DEF AllocIn
    <2> QED  BY <1>1, <1>2, <2>1, TakeFacts
  <1> QED  BY <1>3, <1>4

-----------------------------------------------------------------------------
(* MemoryObjects::free.                                                    *)

LEMMA MergedFacts ==
    ASSUME NEW l, NEW n, IsList(l, n), NEW i \in 1 .. n - 1
    PROVE  IsList(RemoveAt(l, i + 1), n - 1) /\ Merged(l, n, i, RemoveAt(l, i + 1))
  <1> PICK k : k = i + 1
    OBVIOUS
  <1> PICK t : t = RemoveAt(l, k)
    OBVIOUS
  <1>1. n \in Nat /\ k \in 1 .. n
    BY ListFacts
  <1>2. IsList(t, n - 1) /\ Removed(l, n, k, t)
    BY <1>1, ListRemove
  <1>3. Merged(l, n, i, t)
    BY <1>1, <1>2 DEF Removed, Merged
  <1> QED  BY <1>2, <1>3

LEMMA MergeNextFacts ==
    ASSUME NEW l, NEW n, NEW brk, IsList(l, n), Chain(l, n, brk),
           NEW i \in 1 .. n - 1, l[i].type = "FREE", FreePairs(l, n) \subseteq {i - 1, i},
           NEW t, t = MergeNext(l, i)
    PROVE  \E m : /\ IsList(t, m) /\ Chain(t, m, brk) /\ FreePairs(t, m) \subseteq {i - 1}
                  /\ Blocks(t, m) = Blocks(l, n)
                  /\ i \in 1 .. m - 1 /\ t[i].type = "FREE"
  <1>1. n = Len(l) /\ n \in Nat /\ i \in 1 .. n /\ i < n /\ i + 1 \in 1 .. n
    BY ListFacts DEF IsList
  <1>2. CASE l[i + 1].type = "FREE"
    <2>1. t = RemoveAt(l, i + 1)
      BY <1>1, <1>2 DEF MergeNext
    <2>2. IsList(t, n - 1) /\ Merged(l, n, i, t)
      BY <2>1, MergedFacts
    <2>3. i + 1 # n /\ i \in 1 .. n - 2
      BY <1>1, <1>2 DEF Chain
    <2>4. /\ Chain(t, n - 1, brk) /\ FreePairs(t, n - 1) \subseteq {i - 1}
          /\ Blocks(t, n - 1) = Blocks(l, n)
      BY <1>2, <2>2, <2>3, ChainMerge
    <2>5. i \in 1 .. (n - 1) - 1 /\ t[i].type = "FREE"
      BY <1>1, <2>2, <2>3 DEF Merged
    <2> QED  BY <2>2, <2>4, <2>5
  <1>3. CASE l[i + 1].type # "FREE"
    <2>1. t = l
      BY <1>3 DEF MergeNext
    <2>2. i \notin FreePairs(l, n)
      BY <1>3 DEF FreePairs
    <2>3. FreePairs(l, n) \subseteq {i - 1}
      BY <2>2
    <2> QED  BY <2>1, <2>3
  <1> QED  BY <1>2, <1>3

LEMMA MergePreviousFacts ==
    ASSUME NEW l, NEW n, NEW brk, IsList(l, n), Chain(l, n, brk),
           NEW i \in 1 .. n - 1, l[i].type = "FREE", FreePairs(l, n) \subseteq {i - 1},
           NEW t, t = MergePrevious(l, i)
    PROVE  \E m : Sound(t, m, brk) /\ Blocks(t, m) = Blocks(l, n)
  <1>1. n = Len(l) /\ n \in Nat /\ i \in 1 .. n
    BY ListFacts DEF IsList
  <1>2. CASE i > 1 /\ l[i - 1].type = "FREE"
    <2> PICK k : k = i - 1
      OBVIOUS
    <2>1. k \in 1 .. n - 2 /\ k \in 1 .. n - 1 /\ k + 1 = i /\ l[k].type = "FREE"
      BY <1>1, <1>2
    <2>2. t = RemoveAt(l, k + 1)
      BY <1>2, <2>1 DEF MergePrevious
    <2>3. IsList(t, n - 1) /\ Merged(l, n, k, t)
      BY <2>1, <2>2, MergedFacts
    <2>4. FreePairs(l, n) \subseteq {k - 1, k} /\ l[k + 1].type = "FREE"
      BY <2>1
    <2>5. /\ Chain(t, n - 1, brk) /\ FreePairs(t, n - 1) \subseteq {k - 1}
          /\ Blocks(t, n - 1) = Blocks(l, n)
      BY <2>1, <2>3, <2>4, ChainMerge
    <2>6. k - 1 \notin FreePairs(t, n - 1)
      <3> SUFFICES ASSUME k - 1 \in FreePairs(t, n - 1)  PROVE FALSE
        OBVIOUS
      <3>1. k - 1 \in 1 .. n - 1 /\ t[k - 1].type = "FREE" /\ t[(k - 1) + 1].type = "FREE"
        BY <1>1 DEF FreePairs
      <3>2. t[k - 1].type = l[k - 1].type /\ t[k].type = l[k].type /\ (k - 1) + 1 = k
        BY <1>1, <2>1, <2>3, <3>1 DEF Merged
      <3>3. k - 1 \in FreePairs(l, n)
        BY <2>1, <3>1, <3>2 DEF FreePairs
      <3> QED  BY <2>1, <3>3
    <2>7. FreePairs(t, n - 1) = {}
      BY <2>5, <2>6
    <2> QED  BY <2>3, <2>5, <2>7 DEF Sound
  <1>3. CASE ~ (i > 1 /\ l[i - 1].type = "FREE")
    <2>1. t = l
      BY <1>3 DEF MergePrevious
    <2>2. i - 1 \notin FreePairs(l, n)
      BY <1>1, <1>3 DEF FreePairs
    <2>3. FreePairs(l, n) = {}
      BY <2>2
    <2> QED  BY <2>1, <2>3 DEF Sound
  <1> QED  BY <1>2, <1>3

(* Freeing takes away the block of the entry and nothing else.             *)
LEMMA FreeEntryFacts ==
    ASSUME NEW l, NEW n, NEW brk, Sound(l, n, brk),
           NEW i \in 1 .. n - 1, l[i].type = "USED",
           NEW t, t = MergePrevious(MergeNext([l EXCEPT ![i].type = "FREE"], i), i)
    PROVE  \E m : /\ Sound(t, m, brk)
                  /\ Blocks(t, m) = Blocks(l, n) \ {<<l[i].ptr, l[i + 1].ptr>>}
  <1> PICK u : u = Typed(l, i, "FREE")
    OBVIOUS
  <1> PICK v : v = MergeNext(u, i)
    OBVIOUS
  <1>1. IsList(l, n) /\ Chain(l, n, brk) /\ FreePairs(l, n) = {} /\ i \in 1 .. n
    BY SoundFacts DEF Sound
  <1>2. IsList(u, n) /\ Retyped(l, n, i, "FREE", u)
    BY <1>1, SetTypeFacts
  <1>3. /\ Chain(u, n, brk) /\ FreePairs(u, n) \subseteq {i - 1, i}
        /\ Blocks(u, n) = Blocks(l, n) \ {<<l[i].ptr, l[i + 1].ptr>>}
    BY <1>1, <1>2, ChainFree
  <1>4. u[i].type = "FREE"
    BY <1>1, <1>2 DEF Retyped
  <1>5. PICK m : /\ IsList(v, m) /\ Chain(v, m, brk) /\ FreePairs(v, m) \subseteq {i - 1}
                 /\ Blocks(v, m) = Blocks(u, n)
                 /\ i \in 1 .. m - 1 /\ v[i].type = "FREE"
    BY <1>2, <1>3, <1>4, MergeNextFacts, SMTT(60)
  <1>6. t = MergePrevious(v, i)
    BY DEF Typed
  <1>7. PICK k : Sound(t, k, brk) /\ Blocks(t, k) = Blocks(v, m)
    BY <1>5, <1>6, MergePreviousFacts
  <1> QED  BY <1>3, <1>5, <1>7

(* What MemoryObjects::free does for the address of a block: that block    *)
(* goes, free neighbours are one again, and every other block stays.       *)
THEOREM FreeReturnsOneBlock ==
    ASSUME NEW h, HeapIsSound(h), NEW p \in UsedAt(h)
    PROVE  /\ HeapIsSound(FreeIn(h, p))
           /\ BlocksOf(FreeIn(h, p)) = {b \in BlocksOf(h) : b[1] # p}
  <1> PICK l : l = h.list
    OBVIOUS
  <1> PICK n : n = Len(l)
    OBVIOUS
  <1> PICK brk : brk = Break(h)
    OBVIOUS
  <1>1. Sound(l, n, brk) /\ DOMAIN l = 1 .. n
    BY HeapLists DEF HeapIsSound, Heap
  <1>2. Chain(l, n, brk) /\ n \in Nat
    BY <1>1, SoundFacts DEF Sound
  <1>3. PICK i \in 1 .. n : l[i].type = "USED" /\ l[i].ptr = p
    BY <1>1 DEF UsedAt
  <1>4. i \in 1 .. n - 1
    BY <1>2, <1>3 DEF Chain
  <1>5. \A j, k \in 1 .. n : j < k => l[j].ptr < l[k].ptr
    BY <1>2, PointersIncrease
  <1>6. \A j \in 1 .. n : l[j].ptr \in Nat
    BY <1>1, SoundFacts
  <1>7. EntriesAt(h, p) = {i}
    <2>1. \A j \in 1 .. n : l[j].ptr = p => j = i
      BY <1>2, <1>3, <1>5, <1>6
    <2>2. EntriesAt(h, p) = {j \in 1 .. n : l[j].ptr = p}
      BY <1>1 DEF EntriesAt
    <2> QED  BY <1>3, <2>1, <2>2
  <1> PICK t : t = MergePrevious(MergeNext([l EXCEPT ![i].type = "FREE"], i), i)
    OBVIOUS
  <1>8. FreeIn(h, p) = [h EXCEPT !.list = t]
    <2>1. (CHOOSE j \in {i} : \A k \in {i} : j <= k) = i
      BY <1>3
    <2> QED  BY <1>7, <2>1 DEF FreeIn
  <1>9. PICK m : Sound(t, m, brk) /\ Blocks(t, m) = Blocks(l, n) \ {<<l[i].ptr, l[i + 1].ptr>>}
    BY <1>1, <1>3, <1>4, FreeEntryFacts
  <1>10. /\ HeapIsSound(FreeIn(h, p))
         /\ BlocksOf(FreeIn(h, p)) = BlocksOf(h) \ {<<l[i].ptr, l[i + 1].ptr>>}
    <2>1. BlocksOf(h) = Blocks(l, n)
      BY DEF BlocksOf
    <2>2. /\ HeapIsSound([h EXCEPT !.list = t])
          /\ BlocksOf([h EXCEPT !.list = t]) = Blocks(t, m)
      BY <1>9, HeapOfList, ZenonT(60)
    <2> PICK g : g = [h EXCEPT !.list = t]
      OBVIOUS
    <2>3. HeapIsSound(g) /\ BlocksOf(g) = BlocksOf(h) \ {<<l[i].ptr, l[i + 1].ptr>>}
      BY <1>9, <2>1, <2>2
    <2> QED  BY <1>8, <2>3
  <1>11. <<l[i].ptr, l[i + 1].ptr>> \in BlocksOf(h)
    BY <1>3, <1>4 DEF BlocksOf, Blocks, UsedIndices
  <1>12. \A b, c \in BlocksOf(h) : b[1] = c[1] => b = c
    BY UsedFacts
  <1>13. \A b \in BlocksOf(h) : b[1] = p <=> b = <<l[i].ptr, l[i + 1].ptr>>
    BY <1>3, <1>11, <1>12
  <1> QED  BY <1>10, <1>13

-----------------------------------------------------------------------------
(* The frames of ExecutionContext::free: a fold of FreeIn.                 *)

IsFold(g, h, ptrs, D) ==
    g = [s \in SUBSET D |-> IF s = {} THEN h
                            ELSE FreeIn(g[s \ {Max(s)}], ptrs[Max(s)])]

LEMMA FoldMeaning ==
    ASSUME NEW h, NEW ptrs, \E g : IsFold(g, h, ptrs, DOMAIN ptrs)
    PROVE  \E g : /\ IsFold(g, h, ptrs, DOMAIN ptrs)
                  /\ FoldLeft(FreeIn, h, ptrs) = g[DOMAIN ptrs]
  <1> DEFINE g == CHOOSE g : g = [s \in SUBSET DOMAIN ptrs |->
                                    IF s = {} THEN h
                                    ELSE FreeIn(g[s \ {Max(s)}], ptrs[Max(s)])]
  <1>1. IsFold(g, h, ptrs, DOMAIN ptrs)
    BY DEF IsFold
  <1>2. FoldLeft(FreeIn, h, ptrs) = g[DOMAIN ptrs]
    BY DEF FoldLeft, MapThenFoldSet
  <1> HIDE DEF g
  <1> QED  BY <1>1, <1>2

LEMMA MaxFacts ==
    ASSUME NEW n \in Nat, NEW s \in SUBSET (1 .. n + 1), n + 1 \in s
    PROVE  Max(s) = n + 1
  <1>1. \A y \in s : n + 1 >= y
    OBVIOUS
  <1>2. \A x \in s : (\A y \in s : x >= y) => x = n + 1
    OBVIOUS
  <1> QED  BY <1>1, <1>2 DEF Max

LEMMA FoldStep ==
    ASSUME NEW h, NEW ptrs, NEW n \in Nat, NEW f, IsFold(f, h, ptrs, 1 .. n)
    PROVE  /\ f[1 .. 0] = h
           /\ \A k \in 0 .. n - 1 : f[1 .. k + 1] = FreeIn(f[1 .. k], ptrs[k + 1])
  <1>1. f[1 .. 0] = h
    <2>1. 1 .. 0 = {}
      OBVIOUS
    <2> QED  BY <2>1 DEF IsFold
  <1>2. ASSUME NEW k \in 0 .. n - 1  PROVE f[1 .. k + 1] = FreeIn(f[1 .. k], ptrs[k + 1])
    <2> PICK s : s = 1 .. k + 1
      OBVIOUS
    <2>1. k \in Nat /\ k + 1 \in s /\ s \in SUBSET (1 .. k + 1)
      OBVIOUS
    <2>2. s \in SUBSET (1 .. n)
      OBVIOUS
    <2>3. s # {} /\ Max(s) = k + 1
      BY <2>1, MaxFacts
    <2>4. f[s] = FreeIn(f[s \ {Max(s)}], ptrs[Max(s)])
      BY <2>2, <2>3 DEF IsFold
    <2>5. s \ {k + 1} = 1 .. k
      <3>1. \A x : x \in s /\ x # k + 1 <=> x \in 1 .. k
        BY <2>1
      <3> QED  BY <3>1
    <2> QED  BY <2>3, <2>4, <2>5
  <1> QED  BY <1>1, <1>2

LEMMA FoldExists ==
    ASSUME NEW h, NEW ptrs, NEW n \in Nat
    PROVE  \E g : IsFold(g, h, ptrs, 1 .. n)
  <1> DEFINE T == {k \in 0 .. n : \E g : IsFold(g, h, ptrs, 1 .. k)}
  <1>1. 0 \in T
    <2>1. 1 .. 0 = {} /\ SUBSET {} = {{}}
      OBVIOUS
    <2>2. IsFold([s \in {{}} |-> h], h, ptrs, 1 .. 0)
      BY <2>1 DEF IsFold
    <2> QED  BY <2>2
  <1>2. ASSUME NEW k \in 0 .. n, k < n, k \in T  PROVE k + 1 \in T
    <2>1. PICK f : IsFold(f, h, ptrs, 1 .. k)
      BY <1>2
    <2> DEFINE g == [s \in SUBSET (1 .. k + 1) |->
                        IF k + 1 \in s THEN FreeIn(f[s \ {k + 1}], ptrs[k + 1]) ELSE f[s]]
               step(s) == IF s = {} THEN h ELSE FreeIn(g[s \ {Max(s)}], ptrs[Max(s)])
    <2>2. ASSUME NEW s \in SUBSET (1 .. k + 1)  PROVE g[s] = step(s)
      <3>1. CASE k + 1 \in s
        <4>1. Max(s) = k + 1
          BY <3>1, MaxFacts
        <4>2. s \ {k + 1} \in SUBSET (1 .. k + 1) /\ k + 1 \notin s \ {k + 1}
          OBVIOUS
        <4>3. g[s \ {k + 1}] = f[s \ {k + 1}]
          BY <4>2
        <4>4. g[s] = FreeIn(f[s \ {k + 1}], ptrs[k + 1])
          BY <3>1
        <4> HIDE DEF g
        <4> QED  BY <3>1, <4>1, <4>3, <4>4
      <3>2. CASE k + 1 \notin s
        <4>1. s \in SUBSET (1 .. k)
          BY <3>2
        <4>2. f[s] = IF s = {} THEN h ELSE FreeIn(f[s \ {Max(s)}], ptrs[Max(s)])
          BY <2>1, <4>1 DEF IsFold
        <4> PICK r : r = s \ {Max(s)}
          OBVIOUS
        <4>3. r \in SUBSET (1 .. k + 1) /\ k + 1 \notin r
          BY <3>2
        <4>4. g[r] = f[r] /\ g[s] = f[s]
          BY <3>2, <4>3
        <4> HIDE DEF g
        <4> QED  BY <4>2, <4>4
      <3> QED  BY <3>1, <3>2
    <2>3. IsFold(g, h, ptrs, 1 .. k + 1)
      <3>1. g = [s \in SUBSET (1 .. k + 1) |-> g[s]]
        OBVIOUS
      <3> HIDE DEF g
      <3> QED  BY <2>2, <3>1 DEF IsFold
    <2> HIDE DEF g
    <2> QED  BY <1>2, <2>3
  <1> HIDE DEF T
  <1>3. \A k \in 0 .. n : k \in T
    BY <1>1, <1>2, UpwardInduction
  <1>4. n \in T
    BY <1>3
  <1> QED  BY <1>4 DEF T

(* Freeing the allocas of a frame, one by one (ExecutionContext::free),    *)
(* takes away their blocks and no other.                                   *)
THEOREM ReturnFreesItsAllocas ==
    ASSUME NEW h, HeapIsSound(h), NEW ptrs, NEW n \in Nat, DOMAIN ptrs = 1 .. n,
           \A i, j \in 1 .. n : ptrs[i] = ptrs[j] => i = j,
           \A i \in 1 .. n : ptrs[i] \in UsedAt(h)
    PROVE  LET g == FoldLeft(FreeIn, h, ptrs)
           IN /\ HeapIsSound(g)
              /\ BlocksOf(g) = {b \in BlocksOf(h) : \A i \in 1 .. n : b[1] # ptrs[i]}
  <1>1. PICK f : IsFold(f, h, ptrs, 1 .. n) /\ FoldLeft(FreeIn, h, ptrs) = f[1 .. n]
    <2>1. \E g : IsFold(g, h, ptrs, DOMAIN ptrs)
      BY FoldExists
    <2> QED  BY <2>1, FoldMeaning
  <1> DEFINE Freed(k) == {b \in BlocksOf(h) : \A i \in 1 .. k : b[1] # ptrs[i]}
             T == {k \in 0 .. n : HeapIsSound(f[1 .. k]) /\ BlocksOf(f[1 .. k]) = Freed(k)}
  <1>2. 0 \in T
    <2>1. 1 .. 0 = {}
      OBVIOUS
    <2>2. f[{}] = h
      BY <1>1 DEF IsFold
    <2> QED  BY <2>1, <2>2
  <1>3. ASSUME NEW k \in 0 .. n, k < n, k \in T  PROVE k + 1 \in T
    <2> PICK m : m = k + 1
      OBVIOUS
    <2> PICK g : g = f[1 .. k]
      OBVIOUS
    <2> PICK p : p = ptrs[m]
      OBVIOUS
    <2>1. m \in 1 .. n /\ m \in 0 .. n
      BY <1>3
    <2>2. f[1 .. m] = FreeIn(g, p)
      <3>1. k \in 0 .. n - 1
        BY <1>3
      <3> QED  BY <1>1, <3>1, FoldStep
    <2>3. HeapIsSound(g) /\ BlocksOf(g) = Freed(k)
      BY <1>3
    <2>4. p \in UsedAt(g)
      <3>1. PICK b \in BlocksOf(h) : b[1] = p
        BY <2>1, UsedFacts
      <3>2. \A i \in 1 .. k : b[1] # ptrs[i]
        BY <2>1, <3>1
      <3>3. b \in BlocksOf(g)
        BY <2>3, <3>2
      <3> QED  BY <2>3, <3>1, <3>3, UsedFacts
    <2>5. HeapIsSound(f[1 .. m]) /\ BlocksOf(f[1 .. m]) = {b \in BlocksOf(g) : b[1] # p}
      BY <2>2, <2>3, <2>4, FreeReturnsOneBlock
    <2>6. {b \in Freed(k) : b[1] # p} = Freed(m)
      <3>1. 1 .. m = (1 .. k) \cup {m}
        BY <2>1
      <3> QED  BY <3>1
    <2>7. BlocksOf(f[1 .. m]) = Freed(m)
      BY <2>3, <2>5, <2>6
    <2> HIDE DEF Freed
    <2> QED  BY <2>1, <2>5, <2>7
  <1> HIDE DEF T
  <1>4. \A k \in 0 .. n : k \in T
    BY <1>2, <1>3, UpwardInduction
  <1>5. n \in T
    BY <1>4
  <1> QED  BY <1>1, <1>5 DEF T
=============================================================================
