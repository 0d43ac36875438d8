---------------------------- MODULE MemoryObjects ---------------------------
(***************************************************************************)
(* The heap of one process: MemoryObjects keeps a list of allocations that *)
(* covers the pages of the process from the first byte to the break.  An   *)
(* entry is free or used up to the next one; the last entry is the end.    *)
(*                                                                         *)
(* Addresses are counted from the start of the address space and in bytes; *)
(* `pages' is the length of the MemoryMapping.  A request that wraps       *)
(* around the size_t when it is rounded up is left out.                    *)
(***************************************************************************)
EXTENDS Naturals, SequencesExt

CONSTANTS
    WordBytes,      \* sizeof(void*)
    PageSize,       \* in bytes, a multiple of WordBytes
    AddressPages    \* AddressSpaceSize / PageSize

ASSUME WordAssumption == WordBytes \in Nat \ {0}
ASSUME PageAssumption == PageSize \in Nat \ {0} /\ PageSize % WordBytes = 0
ASSUME AddressAssumption == AddressPages \in Nat

Allocation == [ptr : Nat, type : {"FREE", "USED", "END"}]

Heap == [list : Seq(Allocation), pages : Nat]

NoHeap == [list |-> << >>, pages |-> 0]

Break(h) == h.pages * PageSize

Gap(list, i) == list[i + 1].ptr - list[i].ptr

(* Zero bytes count as one, and everything as whole words.                 *)
Rounded(size) ==
    (((IF size = 0 THEN 1 ELSE size) - 1) \div WordBytes + 1) * WordBytes

(* The first allocation of all takes a page.                               *)
WithFirstPage(h) ==
    IF h.list # << >> THEN h
    ELSE [list |-> << [ptr |-> Break(h), type |-> "FREE"],
                      [ptr |-> Break(h) + PageSize, type |-> "END"] >>,
          pages |-> h.pages + 1]

Fitting(list, size) ==
    {i \in 1 .. Len(list) - 1 : list[i].type = "FREE" /\ Gap(list, i) >= size}

(* What is left of a free entry stays free.                                *)
TakeEntry(list, i, size) ==
    LET used == [list EXCEPT ![i].type = "USED"]
    IN IF Gap(list, i) = size THEN used
       ELSE InsertAt(used, i + 1, [ptr |-> list[i].ptr + size, type |-> "FREE"])

MoveEnd(list, p, type) ==
    Append([list EXCEPT ![Len(list)].type = type], [ptr |-> p, type |-> "END"])

(* Nothing fits: the block starts in the free tail, or at the end, and the *)
(* mapping grows by the pages it needs; what they leave is free.           *)
GrowHeap(h, size) ==
    LET last  == Len(h.list) - 1
        tail  == h.list[last].type = "FREE"
        i     == IF tail THEN last ELSE last + 1
        used  == IF tail THEN [h.list EXCEPT ![i].type = "USED"]
                         ELSE MoveEnd(h.list, h.list[i].ptr, "USED")
        need  == (size - Gap(used, i) - 1) \div PageSize + 1
        grown == [used EXCEPT ![i + 1].ptr = used[i].ptr + size]
        brk   == (h.pages + need) * PageSize
    IN [heap |-> [list |-> IF brk = grown[i + 1].ptr THEN grown ELSE MoveEnd(grown, brk, "FREE"),
                  pages |-> h.pages + need],
        ptr  |-> used[i].ptr]

(* MemoryObjects::alloc, by first fit.                                     *)
AllocIn(h0, request) ==
    LET size == Rounded(request)
        h    == WithFirstPage(h0)
        fits == Fitting(h.list, size)
        i    == CHOOSE j \in fits : \A k \in fits : j <= k
    IN IF fits = {} THEN GrowHeap(h, size)
       ELSE [heap |-> [h EXCEPT !.list = TakeEntry(h.list, i, size)],
             ptr  |-> h.list[i].ptr]

(* allocPage ends the verifier with "Address space is full".               *)
AddressSpaceIsFull(h) == h.pages > AddressPages

EntriesAt(h, p) == {i \in DOMAIN h.list : h.list[i].ptr = p}

(* A free entry absorbs a free entry behind it, then one before it takes   *)
(* the result.                                                             *)
MergeNext(list, i) ==
    IF i < Len(list) /\ list[i + 1].type = "FREE" THEN RemoveAt(list, i + 1) ELSE list

MergePrevious(list, i) ==
    IF i > 1 /\ list[i - 1].type = "FREE" THEN RemoveAt(list, i) ELSE list

(* Mutant of FreeIn: merges with the entry behind only.                    *)
FreeInForwards(h, p) ==
    LET i == CHOOSE j \in EntriesAt(h, p) : \A k \in EntriesAt(h, p) : j <= k
    IN [h EXCEPT !.list = MergeNext([h.list EXCEPT ![i].type = "FREE"], i)]

(* MemoryObjects::free of an address that is in the list.                  *)
FreeIn(h, p) ==
    LET i == CHOOSE j \in EntriesAt(h, p) : \A k \in EntriesAt(h, p) : j <= k
    IN [h EXCEPT !.list =
            MergePrevious(MergeNext([h.list EXCEPT ![i].type = "FREE"], i), i)]
-----------------------------------------------------------------------------
UsedAt(h) == {h.list[i].ptr : i \in {j \in DOMAIN h.list : h.list[j].type = "USED"}}

UsedSize(h, p) == LET i == CHOOSE j \in EntriesAt(h, p) : h.list[j].type = "USED"
                  IN Gap(h.list, i)

(* The list covers the pages of the process without a hole or an overlap,  *)
(* and free space is never cut into neighbouring pieces: after any history *)
(* of alloc and free (MemoryObjects.cpp) the pointers increase in whole    *)
(* words up to the one end, which is the break, and no two neighbours are  *)
(* free.                                                                   *)
ListIsSound(h) ==
    h.list # << >> =>
        /\ Len(h.list) >= 2
        /\ h.list[1].ptr = 0
        /\ h.list[Len(h.list)].ptr = Break(h)
        /\ \A i \in DOMAIN h.list : (h.list[i].type = "END") <=> (i = Len(h.list))
        /\ \A i \in 1 .. Len(h.list) - 1 :
              /\ h.list[i].ptr < h.list[i + 1].ptr
              /\ Gap(h.list, i) % WordBytes = 0
              /\ ~ (h.list[i].type = "FREE" /\ h.list[i + 1].type = "FREE")
=============================================================================
