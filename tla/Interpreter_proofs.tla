------------------------- MODULE Interpreter_proofs -------------------------
(***************************************************************************)
(* Proofs about Interpreter, for every number of processes, every program, *)
(* page and word size: what the call stacks, the heaps and the pauses of   *)
(* the processes keep in step, and that it implements CallStack.           *)
(***************************************************************************)
EXTENDS Interpreter, MemoryObjects_proofs

-----------------------------------------------------------------------------
(* The blocks of a heap and the blocks that the program holds.             *)

IsHold(hold) == hold \in [DOMAIN hold -> HeldBlock]

GoodHeap(h) == h = NoHeap \/ HeapIsSound(h)

Holds(h, hold) ==
    /\ GoodHeap(h)
    /\ IsHold(hold)
    /\ \A a \in DOMAIN hold : \E b \in BlocksOf(h) : b[1] = a
    /\ \A b \in BlocksOf(h) : b[1] \in DOMAIN hold /\ b[2] - b[1] >= hold[b[1]].size

LEMMA NoHeapFacts == BlocksOf(NoHeap) = {} /\ UsedAt(NoHeap) = {}
  <1>1. NoHeap.list = << >>
    BY DEF NoHeap
  <1>2. Len(<< >>) = 0 /\ DOMAIN << >> = {}
    OBVIOUS
  <1>3. UsedIndices(<< >>, 0) = {}
    BY DEF UsedIndices
  <1> QED  BY <1>1, <1>2, <1>3 DEF BlocksOf, Blocks, UsedAt

LEMMA HoldsMeaning ==
    ASSUME NEW h, NEW hold, Holds(h, hold)
    PROVE  /\ UsedAt(h) = DOMAIN hold
           /\ \A a \in DOMAIN hold : UsedSize(h, a) >= hold[a].size
  <1>1. CASE h = NoHeap
    BY <1>1, NoHeapFacts DEF Holds
  <1>2. CASE HeapIsSound(h)
    <2>1. UsedAt(h) = {b[1] : b \in BlocksOf(h)}
      BY <1>2, UsedFacts
    <2>2. \A b \in BlocksOf(h) : UsedSize(h, b[1]) = b[2] - b[1]
      BY <1>2, UsedFacts
    <2> QED  BY <2>1, <2>2 DEF Holds
  <1> QED  BY <1>1, <1>2 DEF Holds, GoodHeap

LEMMA HeldAddresses ==
    ASSUME NEW h, NEW hold, Holds(h, hold), NEW a \in DOMAIN hold
    PROVE  a \in Nat /\ HeapIsSound(h)
  <1>1. PICK b \in BlocksOf(h) : b[1] = a
    BY DEF Holds
  <1>2. HeapIsSound(h)
    BY NoHeapFacts DEF Holds, GoodHeap
  <1> QED  BY <1>1, <1>2, UsedFacts

LEMMA WithFacts ==
    ASSUME NEW hold, IsHold(hold), NEW a, NEW block \in HeldBlock
    PROVE  /\ DOMAIN With(hold, a, block) = DOMAIN hold \cup {a}
           /\ With(hold, a, block)[a] = block
           /\ \A x \in DOMAIN hold : x # a => With(hold, a, block)[x] = hold[x]
           /\ IsHold(With(hold, a, block))
  BY DEF With, IsHold

LEMMA WithoutFacts ==
    ASSUME NEW hold, IsHold(hold), NEW A
    PROVE  /\ DOMAIN Without(hold, A) = DOMAIN hold \ A
           /\ \A x \in DOMAIN hold \ A : Without(hold, A)[x] = hold[x]
           /\ IsHold(Without(hold, A))
  BY DEF Without, Restrict, IsHold

LEMMA AllocHolds ==
    ASSUME NEW h, NEW hold, Holds(h, hold), NEW size \in Nat,
           NEW owner \in {"globals", "frame", "malloc", "main", "lost"}
    PROVE  LET a == AllocIn(h, size)
           IN /\ Holds(a.heap, With(hold, a.ptr, Block(size, owner)))
              /\ HeapIsSound(a.heap)
              /\ a.ptr \in Nat /\ a.ptr <= Break(a.heap) /\ a.ptr \notin DOMAIN hold
  <1> PICK a : a = AllocIn(h, size)
    OBVIOUS
  <1> PICK p : p = a.ptr
    OBVIOUS
  <1> PICK g : g = a.heap
    OBVIOUS
  <1> PICK block : block = Block(size, owner)
    OBVIOUS
  <1> PICK room : room = Rounded(size)
    OBVIOUS
  <1> PICK after : after = With(hold, p, block)
    OBVIOUS
  <1>1. /\ HeapIsSound(g) /\ p \in Nat
        /\ BlocksOf(g) = BlocksOf(h) \cup {<<p, p + room>>}
        /\ \A b \in BlocksOf(h) : b[1] # p
    BY AllocTakesOneBlock DEF Holds, GoodHeap
  <1>2. room \in Nat /\ room >= size
    BY RoundedFacts
  <1>3. p \notin DOMAIN hold
    BY <1>1 DEF Holds
  <1>4. block \in HeldBlock /\ block.size = size
    BY DEF Block, HeldBlock
  <1>5. /\ DOMAIN after = DOMAIN hold \cup {p}
        /\ after[p] = block
        /\ \A x \in DOMAIN hold : x # p => after[x] = hold[x]
        /\ IsHold(after)
    <2>1. IsHold(hold) /\ block \in HeldBlock
      BY <1>4 DEF Holds
    <2>2. /\ DOMAIN With(hold, p, block) = DOMAIN hold \cup {p}
          /\ With(hold, p, block)[p] = block
          /\ \A x \in DOMAIN hold : x # p => With(hold, p, block)[x] = hold[x]
          /\ IsHold(With(hold, p, block))
      BY ONLY <2>1, WithFacts
    <2> QED  BY <2>2
  <1>6. <<p, p + room>> \in BlocksOf(g)
    BY <1>1
  <1>7. p <= Break(g)
    <2>1. \A b \in BlocksOf(g) : b[1] \in Nat /\ b[2] \in Nat /\ b[1] < b[2] /\ b[2] <= Break(g)
      BY <1>1, UsedFacts
    <2>2. Break(g) \in Nat
      BY <1>1, HeapLists
    <2>3. PICK b \in BlocksOf(g) : b[1] = p
      BY <1>6
    <2>4. p \in Nat /\ b[2] \in Nat /\ p < b[2] /\ b[2] <= Break(g)
      BY <2>1, <2>3
    <2> QED  BY ONLY <2>2, <2>4
  <1>8. Holds(g, after)
    <2>1. \A x \in DOMAIN after : \E b \in BlocksOf(g) : b[1] = x
      BY <1>1, <1>5, <1>6 DEF Holds
    <2>2. ASSUME NEW b \in BlocksOf(g)
          PROVE  b[1] \in DOMAIN after /\ b[2] - b[1] >= after[b[1]].size
      <3>1. CASE b \in BlocksOf(h)
        BY <1>1, <1>5, <3>1 DEF Holds
      <3>2. CASE b = <<p, p + room>>
        <4>1. b[1] = p /\ b[2] = p + room /\ (p + room) - p = room
          BY <1>1, <1>2, <3>2
        <4> QED  BY <1>2, <1>4, <1>5, <4>1
      <3> QED  BY <1>1, <3>1, <3>2
    <2> QED  BY <1>1, <1>5, <2>1, <2>2 DEF Holds, GoodHeap
  <1> QED  BY <1>1, <1>3, <1>7, <1>8

LEMMA FreeHolds ==
    ASSUME NEW h, NEW hold, Holds(h, hold), NEW p \in DOMAIN hold
    PROVE  Holds(FreeIn(h, p), Without(hold, {p}))
  <1> PICK g : g = FreeIn(h, p)
    OBVIOUS
  <1> PICK after : after = Without(hold, {p})
    OBVIOUS
  <1>1. HeapIsSound(h)
    BY HeldAddresses
  <1>2. p \in UsedAt(h)
    BY HoldsMeaning
  <1>3. HeapIsSound(g) /\ BlocksOf(g) = {b \in BlocksOf(h) : b[1] # p}
    BY <1>1, <1>2, FreeReturnsOneBlock
  <1>4. /\ DOMAIN after = DOMAIN hold \ {p}
        /\ \A x \in DOMAIN hold \ {p} : after[x] = hold[x]
        /\ IsHold(after)
    <2>1. IsHold(hold)
      BY DEF Holds
    <2> QED  BY <2>1, WithoutFacts
  <1> QED  BY <1>3, <1>4, ZenonT(60) DEF Holds, GoodHeap

LEMMA FoldEmpty ==
    ASSUME NEW h
    PROVE  FoldLeft(FreeIn, h, << >>) = h
  <1>1. DOMAIN << >> = 1 .. 0
    OBVIOUS
  <1>2. \E f : IsFold(f, h, << >>, DOMAIN << >>)
    BY <1>1, FoldExists
  <1>3. PICK f : IsFold(f, h, << >>, DOMAIN << >>) /\ FoldLeft(FreeIn, h, << >>) = f[DOMAIN << >>]
    BY <1>2, FoldMeaning
  <1>4. IsFold(f, h, << >>, 1 .. 0) /\ FoldLeft(FreeIn, h, << >>) = f[1 .. 0]
    BY <1>1, <1>3
  <1> QED  BY <1>4, FoldStep, ZenonT(60)

LEMMA FreeAllHolds ==
    ASSUME NEW h, NEW hold, Holds(h, hold), NEW ptrs, NEW n \in Nat, DOMAIN ptrs = 1 .. n,
           \A i, j \in 1 .. n : ptrs[i] = ptrs[j] => i = j,
           \A i \in 1 .. n : ptrs[i] \in DOMAIN hold,
           n = 0 => ptrs = << >>
    PROVE  Holds(FoldLeft(FreeIn, h, ptrs), Without(hold, Range(ptrs)))
  <1> PICK g : g = FoldLeft(FreeIn, h, ptrs)
    OBVIOUS
  <1> PICK after : after = Without(hold, Range(ptrs))
    OBVIOUS
  <1>1. Range(ptrs) = {ptrs[i] : i \in 1 .. n}
    BY DEF Range
  <1>2. /\ DOMAIN after = DOMAIN hold \ Range(ptrs)
        /\ \A x \in DOMAIN hold \ Range(ptrs) : after[x] = hold[x]
        /\ IsHold(after)
    <2>1. IsHold(hold)
      BY DEF Holds
    <2> QED  BY <2>1, WithoutFacts
  <1>3. CASE n = 0
    <2>1. g = h /\ Range(ptrs) = {}
      BY <1>1, <1>3, FoldEmpty
    <2> QED  BY <1>2, <2>1 DEF Holds
  <1>4. CASE n # 0
    <2>1. HeapIsSound(h)
      <3>1. ptrs[1] \in DOMAIN hold
        BY <1>4
      <3> QED  BY <3>1, HeldAddresses
    <2>2. \A i \in 1 .. n : ptrs[i] \in UsedAt(h)
      BY HoldsMeaning
    <2>3. /\ HeapIsSound(g)
          /\ BlocksOf(g) = {b \in BlocksOf(h) : \A i \in 1 .. n : b[1] # ptrs[i]}
      BY <2>1, <2>2, ReturnFreesItsAllocas
    <2>4. BlocksOf(g) = {b \in BlocksOf(h) : b[1] \notin Range(ptrs)}
      BY <1>1, <2>3
    <2> QED  BY <1>2, <2>3, <2>4 DEF Holds, GoodHeap
  <1> QED  BY <1>3, <1>4

-----------------------------------------------------------------------------
(* Stacks: what a call and a return make of them.                          *)

IsStack(st, n) == st \in Seq(Frame) /\ n = Len(st)

LEMMA StackFacts ==
    ASSUME NEW st, NEW n, IsStack(st, n)
    PROVE  /\ n \in Nat /\ DOMAIN st = 1 .. n
           /\ \A i \in 1 .. n : st[i] \in Frame
           /\ n = 0 <=> st = << >>
  BY DEF IsStack

LEMMA FrameFacts ==
    ASSUME NEW f \in Frame
    PROVE  /\ f.external \in BOOLEAN /\ f.Caller \in Sites \cup {NULL}
           /\ f.Value \in (Sites \X Results) \cup {NULL} /\ f.Allocas \in Seq(Nat)
  BY DEF Frame

Replaced(st, i, frame) == [st EXCEPT ![i] = frame]

LEMMA ReplacedFacts ==
    ASSUME NEW st, NEW n, IsStack(st, n), NEW i \in 1 .. n, NEW frame \in Frame
    PROVE  /\ IsStack(Replaced(st, i, frame), n)
           /\ Replaced(st, i, frame)[i] = frame
           /\ \A j \in 1 .. n : j # i => Replaced(st, i, frame)[j] = st[j]
  BY DEF IsStack, Replaced

Pushed(st, frame) == Append(st, frame)

LEMMA PushedFacts ==
    ASSUME NEW st, NEW n, IsStack(st, n), NEW frame \in Frame
    PROVE  /\ IsStack(Pushed(st, frame), n + 1)
           /\ Pushed(st, frame)[n + 1] = frame
           /\ \A j \in 1 .. n : Pushed(st, frame)[j] = st[j]
  BY DEF IsStack, Pushed

Below(st, n) == SubSeq(st, 1, n - 1)

LEMMA BelowFacts ==
    ASSUME NEW st, NEW n, IsStack(st, n), n > 0
    PROVE  /\ IsStack(Below(st, n), n - 1)
           /\ \A j \in 1 .. n - 1 : Below(st, n)[j] = st[j]
  BY DEF IsStack, Below

Called(frame, site) == [frame EXCEPT !.Caller = site, !.Value = NULL]

LEMMA CalledFacts ==
    ASSUME NEW frame \in Frame, NEW site \in Sites
    PROVE  /\ Called(frame, site) \in Frame
           /\ Called(frame, site).Caller = site
           /\ Called(frame, site).Value = NULL
           /\ Called(frame, site).Allocas = frame.Allocas
           /\ Called(frame, site).external = frame.external
  BY DEF Frame, Called

LEMMA NewFrameFacts ==
    ASSUME NEW external \in BOOLEAN
    PROVE  /\ NewFrame(external) \in Frame
           /\ NewFrame(external).external = external
           /\ NewFrame(external).Caller = NULL
           /\ NewFrame(external).Value = NULL
           /\ NewFrame(external).Allocas = << >>
  BY DEF Frame, NewFrame

LEMMA SetReturnedFacts ==
    ASSUME NEW frame \in Frame, frame.Caller # NULL, NEW value \in Results \cup {Void}
    PROVE  /\ SetReturned(frame, value) \in Frame
           /\ SetReturned(frame, value).Caller = NULL
           /\ SetReturned(frame, value).Value =
                 IF value = Void THEN frame.Value ELSE <<frame.Caller, value>>
           /\ SetReturned(frame, value).Allocas = frame.Allocas
           /\ SetReturned(frame, value).external = frame.external
  <1> PICK got : got = IF value = Void THEN frame.Value ELSE <<frame.Caller, value>>
    OBVIOUS
  <1>1. got \in (Sites \X Results) \cup {NULL}
    BY FrameFacts
  <1>2. SetReturned(frame, value) = [frame EXCEPT !.Caller = NULL, !.Value = got]
    BY DEF SetReturned
  <1> QED  BY <1>1, <1>2 DEF Frame

(* A process up to its heap.                                               *)
IsProcess(r, n) ==
    /\ r = [ECStack |-> r.ECStack, MObjects |-> r.MObjects, Status |-> r.Status]
    /\ r.Status \in Statuses
    /\ IsStack(r.ECStack, n)

LEMMA PushFacts ==
    ASSUME NEW r, NEW n, IsProcess(r, n), NEW external \in BOOLEAN,
           NEW t, t = Push(r, external)
    PROVE  /\ IsProcess(t, n + 1) /\ t.MObjects = r.MObjects /\ t.Status = r.Status
           /\ \A i \in 1 .. n : t.ECStack[i] = r.ECStack[i]
           /\ t.ECStack[n + 1] = NewFrame(external)
  <1>1. t = [ECStack |-> Pushed(r.ECStack, NewFrame(external)), MObjects |-> r.MObjects,
             Status |-> r.Status]
    BY DEF IsProcess, Push, Pushed
  <1>2. IsStack(r.ECStack, n) /\ r.Status \in Statuses
    BY DEF IsProcess
  <1>3. /\ IsStack(Pushed(r.ECStack, NewFrame(external)), n + 1)
        /\ Pushed(r.ECStack, NewFrame(external))[n + 1] = NewFrame(external)
        /\ \A j \in 1 .. n : Pushed(r.ECStack, NewFrame(external))[j] = r.ECStack[j]
    BY <1>2, NewFrameFacts, PushedFacts
  <1> QED  BY <1>1, <1>2, <1>3 DEF IsProcess

LEMMA EnterCallFacts ==
    ASSUME NEW r, NEW n, IsProcess(r, n), n > 0, NEW site \in Sites,
           NEW external \in BOOLEAN, NEW t, t = EnterCall(r, site, external)
    PROVE  /\ IsProcess(t, n + 1) /\ t.MObjects = r.MObjects /\ t.Status = r.Status
           /\ \A i \in 1 .. n - 1 : t.ECStack[i] = r.ECStack[i]
           /\ t.ECStack[n] = Called(r.ECStack[n], site)
           /\ t.ECStack[n + 1] = NewFrame(external)
  <1> PICK st : st = r.ECStack
    OBVIOUS
  <1>1. IsStack(st, n) /\ r.Status \in Statuses /\ n = Depth(r) /\ n \in 1 .. n
    BY DEF IsProcess, IsStack, Depth
  <1> PICK top : top = Called(st[n], site)
    OBVIOUS
  <1> PICK mid : mid = [ECStack |-> Replaced(st, n, top), MObjects |-> r.MObjects,
                        Status |-> r.Status]
    OBVIOUS
  <1>2. top \in Frame
    BY <1>1, StackFacts, CalledFacts
  <1>3. /\ IsStack(Replaced(st, n, top), n) /\ Replaced(st, n, top)[n] = top
        /\ \A j \in 1 .. n : j # n => Replaced(st, n, top)[j] = st[j]
    BY <1>1, <1>2, ReplacedFacts
  <1>4. IsProcess(mid, n)
    BY <1>1, <1>3 DEF IsProcess
  <1>5. t = Push(mid, external)
    <2>1. [r EXCEPT !.ECStack[Depth(r)] = [@ EXCEPT !.Caller = site, !.Value = NULL]] = mid
      BY <1>1 DEF IsProcess, Replaced, Called
    <2> QED  BY <2>1 DEF EnterCall
  <1>6. /\ IsProcess(t, n + 1) /\ t.MObjects = mid.MObjects /\ t.Status = mid.Status
        /\ \A i \in 1 .. n : t.ECStack[i] = mid.ECStack[i]
        /\ t.ECStack[n + 1] = NewFrame(external)
    BY <1>4, <1>5, PushFacts
  <1>7. \A i \in 1 .. n - 1 : i \in 1 .. n /\ i # n
    BY <1>1
  <1> QED  BY <1>1, <1>3, <1>6, <1>7

LEMMA PopStackFacts ==
    ASSUME NEW r, NEW n, IsProcess(r, n), n > 0, NEW value \in Results \cup {Void},
           NEW t, t = PopStack(r, value)
    PROVE  /\ IsProcess(t, n - 1) /\ t.Status = r.Status
           /\ t.MObjects = FoldLeft(FreeIn, r.MObjects, r.ECStack[n].Allocas)
           /\ \A i \in 1 .. n - 2 : t.ECStack[i] = r.ECStack[i]
           /\ n > 1 => t.ECStack[n - 1] = IF r.ECStack[n - 1].Caller = NULL THEN r.ECStack[n - 1]
                                          ELSE SetReturned(r.ECStack[n - 1], value)
  <1> PICK st : st = r.ECStack
    OBVIOUS
  <1>1. IsStack(st, n) /\ r.Status \in Statuses /\ n = Depth(r) /\ n \in Nat
    BY DEF IsProcess, IsStack, Depth
  <1> PICK rest : rest = Below(st, n)
    OBVIOUS
  <1> PICK m : m = n - 1
    OBVIOUS
  <1>2. /\ IsStack(rest, m) /\ m \in Nat
        /\ \A j \in 1 .. m : rest[j] = st[j]
    BY <1>1, BelowFacts
  <1> PICK freed : freed = FoldLeft(FreeIn, r.MObjects, st[n].Allocas)
    OBVIOUS
  <1> PICK back : back = IF rest = << >> THEN rest
                         ELSE IF rest[m].Caller = NULL THEN rest
                         ELSE Replaced(rest, m, SetReturned(rest[m], value))
    OBVIOUS
  <1>3. t = [ECStack |-> back, MObjects |-> freed, Status |-> r.Status]
    <2>1. t = [r EXCEPT !.ECStack = back, !.MObjects = freed]
      BY <1>1 DEF PopStack, Below, Replaced
    <2> QED  BY <2>1 DEF IsProcess
  <1>4. /\ IsStack(back, m)
        /\ \A i \in 1 .. m - 1 : back[i] = st[i]
        /\ m > 0 => back[m] = IF st[m].Caller = NULL THEN st[m] ELSE SetReturned(st[m], value)
    <2>1. CASE m = 0
      <3>1. back = rest
        BY <1>2, <2>1, StackFacts
      <3> QED  BY <1>2, <2>1, <3>1
    <2>2. CASE m # 0 /\ st[m].Caller = NULL
      <3>1. m \in 1 .. m /\ m > 0
        BY ONLY <1>2, <2>2
      <3>2. rest[m] = st[m]
        BY ONLY <1>2, <3>1
      <3>3. back = rest
        BY <2>2, <3>2
      <3> QED  BY ONLY <1>2, <2>2, <3>1, <3>2, <3>3
    <2>3. CASE m # 0 /\ st[m].Caller # NULL
      <3>0. m \in 1 .. m
        BY ONLY <1>2, <2>3
      <3>1. m \in 1 .. m /\ rest # << >> /\ rest[m] = st[m]
        BY ONLY <1>2, <2>3, <3>0, StackFacts
      <3>2. SetReturned(rest[m], value) \in Frame
        <4>1. rest[m] \in Frame
          BY <1>2, <3>1, StackFacts
        <4> QED  BY <2>3, <3>1, <4>1, SetReturnedFacts
      <3>3. back = Replaced(rest, m, SetReturned(rest[m], value))
        BY <2>3, <3>1
      <3>4. /\ IsStack(back, m) /\ back[m] = SetReturned(rest[m], value)
            /\ \A j \in 1 .. m : j # m => back[j] = rest[j]
        BY <1>2, <3>1, <3>2, <3>3, ReplacedFacts
      <3> QED  BY <1>2, <2>3, <3>1, <3>4
    <2> QED  BY <2>1, <2>2, <2>3
  <1> QED  BY <1>1, <1>3, <1>4 DEF IsProcess

(* A call that returns at once leaves nothing but its answer.              *)
LEMMA ReturnAtOnceFacts ==
    ASSUME NEW r, NEW n, IsProcess(r, n), n > 0, NEW site \in Sites,
           NEW value \in Results \cup {Void}, NEW t, t = ReturnAtOnce(r, site, value)
    PROVE  /\ IsProcess(t, n) /\ t.Status = r.Status /\ t.MObjects = r.MObjects
           /\ \A i \in 1 .. n - 1 : t.ECStack[i] = r.ECStack[i]
           /\ t.ECStack[n] = SetReturned(Called(r.ECStack[n], site), value)
  <1> PICK external \in BOOLEAN : external = TRUE
    OBVIOUS
  <1> PICK mid : mid = EnterCall(r, site, external)
    OBVIOUS
  <1> PICK m : m = n + 1
    OBVIOUS
  <1>1. n \in Nat /\ r.ECStack[n] \in Frame
    BY StackFacts DEF IsProcess
  <1>2. /\ IsProcess(mid, m) /\ mid.MObjects = r.MObjects /\ mid.Status = r.Status
        /\ \A i \in 1 .. n - 1 : mid.ECStack[i] = r.ECStack[i]
        /\ mid.ECStack[n] = Called(r.ECStack[n], site)
        /\ mid.ECStack[m] = NewFrame(external)
    <2>1. /\ IsProcess(r, n) /\ n > 0 /\ site \in Sites /\ external \in BOOLEAN
          /\ mid = EnterCall(r, site, external)
      OBVIOUS
    <2>2. /\ IsProcess(mid, n + 1) /\ mid.MObjects = r.MObjects /\ mid.Status = r.Status
          /\ \A i \in 1 .. n - 1 : mid.ECStack[i] = r.ECStack[i]
          /\ mid.ECStack[n] = Called(r.ECStack[n], site)
          /\ mid.ECStack[n + 1] = NewFrame(external)
      BY ONLY <2>1, EnterCallFacts
    <2> QED  BY <2>2
  <1>3. t = PopStack(mid, value)
    BY DEF ReturnAtOnce
  <1>b. m = n + 1 /\ n > 0 /\ n \in Nat
    BY <1>1
  <1>4. m > 1 /\ m > 0 /\ m - 1 = n /\ m - 2 = n - 1
    BY ONLY <1>b
  <1>a. value \in Results \cup {Void}
    OBVIOUS
  <1>5. /\ IsProcess(t, m - 1) /\ t.Status = mid.Status
        /\ t.MObjects = FoldLeft(FreeIn, mid.MObjects, mid.ECStack[m].Allocas)
        /\ \A i \in 1 .. m - 2 : t.ECStack[i] = mid.ECStack[i]
        /\ m > 1 => t.ECStack[m - 1] = IF mid.ECStack[m - 1].Caller = NULL THEN mid.ECStack[m - 1]
                                       ELSE SetReturned(mid.ECStack[m - 1], value)
    BY ONLY <1>2, <1>3, <1>4, <1>a, PopStackFacts
  <1>6. mid.ECStack[m].Allocas = << >> /\ mid.ECStack[n].Caller # NULL
    <2>1. NewFrame(external).Allocas = << >>
      BY ONLY NewFrameFacts, external \in BOOLEAN
    <2>2. Called(r.ECStack[n], site).Caller = site
      BY <1>1, CalledFacts
    <2> QED  BY <1>2, <2>1, <2>2, SitesAssumption
  <1>7. t.MObjects = r.MObjects
    BY ONLY <1>2, <1>5, <1>6, FoldEmpty
  <1>8. \A i \in 1 .. n - 1 : t.ECStack[i] = r.ECStack[i]
    BY ONLY <1>2, <1>4, <1>5
  <1>9. t.ECStack[n] = SetReturned(Called(r.ECStack[n], site), value)
    BY ONLY <1>2, <1>4, <1>5, <1>6
  <1> QED  BY ONLY <1>2, <1>4, <1>5, <1>7, <1>8, <1>9

-----------------------------------------------------------------------------
(* Frames and the blocks they list.                                        *)

Listed(st, n, i, k, a) ==
    /\ i \in 1 .. n
    /\ k \in DOMAIN st[i].Allocas
    /\ st[i].Allocas[k] = a

Owns(st, n, hold) ==
    /\ \A i, k, a : Listed(st, n, i, k, a) => a \in DOMAIN hold /\ hold[a].owner = "frame"
    /\ \A a \in DOMAIN hold : hold[a].owner = "frame" => \E i, k : Listed(st, n, i, k, a)
    /\ \A i, k, j, l, a :
          Listed(st, n, i, k, a) /\ Listed(st, n, j, l, a) => i = j /\ k = l

LEMMA OwnsMeaning ==
    ASSUME NEW st, NEW n, IsStack(st, n), NEW hold, Owns(st, n, hold)
    PROVE  /\ UNION {Range(st[i].Allocas) : i \in DOMAIN st}
                  = {a \in DOMAIN hold : hold[a].owner = "frame"}
           /\ \A i \in DOMAIN st : IsInjective(st[i].Allocas)
           /\ \A i, j \in DOMAIN st :
                 i # j => Range(st[i].Allocas) \cap Range(st[j].Allocas) = {}
  <1>1. DOMAIN st = 1 .. n
    BY StackFacts
  <1>2. \A i \in DOMAIN st : \A a : a \in Range(st[i].Allocas) <=> \E k : Listed(st, n, i, k, a)
    BY <1>1 DEF Listed, Range
  <1>3. ASSUME NEW i \in DOMAIN st
        PROVE  IsInjective(st[i].Allocas)
    <2>1. ASSUME NEW k \in DOMAIN st[i].Allocas, NEW l \in DOMAIN st[i].Allocas,
                 st[i].Allocas[k] = st[i].Allocas[l]
          PROVE  k = l
      <3>1. /\ Listed(st, n, i, k, st[i].Allocas[k])
            /\ Listed(st, n, i, l, st[i].Allocas[k])
        BY <1>1, <2>1 DEF Listed
      <3> QED  BY <3>1 DEF Owns
    <2> QED  BY <2>1 DEF IsInjective
  <1>4. UNION {Range(st[i].Allocas) : i \in DOMAIN st}
            = {a \in DOMAIN hold : hold[a].owner = "frame"}
    <2>1. ASSUME NEW i \in DOMAIN st, NEW a \in Range(st[i].Allocas)
          PROVE  a \in DOMAIN hold /\ hold[a].owner = "frame"
      BY <1>2 DEF Owns
    <2>2. ASSUME NEW a \in DOMAIN hold, hold[a].owner = "frame"
          PROVE  \E i \in DOMAIN st : a \in Range(st[i].Allocas)
      <3>1. PICK i, k : Listed(st, n, i, k, a)
        BY <2>2 DEF Owns
      <3>2. i \in DOMAIN st
        BY <1>1, <3>1 DEF Listed
      <3> QED  BY <1>2, <3>1, <3>2
    <2> QED  BY <2>1, <2>2
  <1>5. ASSUME NEW i \in DOMAIN st, NEW j \in DOMAIN st, i # j
        PROVE  Range(st[i].Allocas) \cap Range(st[j].Allocas) = {}
    <2>1. ASSUME NEW a \in Range(st[i].Allocas), a \in Range(st[j].Allocas)
          PROVE  FALSE
      <3>1. PICK k : Listed(st, n, i, k, a)
        BY <1>2
      <3>2. PICK l : Listed(st, n, j, l, a)
        BY <1>2, <2>1
      <3> QED  BY <1>5, <3>1, <3>2 DEF Owns
    <2> QED  BY <2>1
  <1> QED  BY <1>3, <1>4, <1>5

(* What the frames list did not change.                                    *)
LEMMA OwnsSame ==
    ASSUME NEW st, NEW n, NEW hold, Owns(st, n, hold), NEW t, NEW m,
           \A i, k, a : Listed(t, m, i, k, a) <=> Listed(st, n, i, k, a)
    PROVE  Owns(t, m, hold)
  BY DEF Owns

(* A frame lists a new block.                                              *)
LEMMA OwnsMore ==
    ASSUME NEW st, NEW n, NEW hold, Owns(st, n, hold), IsHold(hold), NEW t, NEW j, NEW l,
           NEW p, p \notin DOMAIN hold, NEW block \in HeldBlock, block.owner = "frame",
           \A k, a : ~ Listed(st, n, j, l, a),
           \A i, k, a : Listed(t, n, i, k, a) <=>
                            Listed(st, n, i, k, a) \/ (i = j /\ k = l /\ a = p)
    PROVE  Owns(t, n, With(hold, p, block))
  <1> PICK after : after = With(hold, p, block)
    OBVIOUS
  <1>1. /\ DOMAIN after = DOMAIN hold \cup {p} /\ after[p] = block
        /\ \A x \in DOMAIN hold : x # p => after[x] = hold[x]
    <2>1. IsHold(hold) /\ block \in HeldBlock
      OBVIOUS
    <2>2. /\ DOMAIN With(hold, p, block) = DOMAIN hold \cup {p}
          /\ With(hold, p, block)[p] = block
          /\ \A x \in DOMAIN hold : x # p => With(hold, p, block)[x] = hold[x]
          /\ IsHold(With(hold, p, block))
      BY ONLY <2>1, WithFacts
    <2> QED  BY <2>2
  <1>2. \A i, k, a : Listed(st, n, i, k, a) => a # p
    BY DEF Owns
  <1>3. \A i, k, a : Listed(t, n, i, k, a) => a \in DOMAIN after /\ after[a].owner = "frame"
    BY <1>1, <1>2 DEF Owns
  <1>4. \A a \in DOMAIN after : after[a].owner = "frame" => \E i, k : Listed(t, n, i, k, a)
    BY <1>1 DEF Owns
  <1>5. \A i, k, x, y, a : Listed(t, n, i, k, a) /\ Listed(t, n, x, y, a) => i = x /\ k = y
    BY <1>2 DEF Owns
  <1> QED  BY <1>3, <1>4, <1>5 DEF Owns

(* The program gets a block that no frame lists.                           *)
LEMMA OwnsOther ==
    ASSUME NEW st, NEW n, NEW hold, Owns(st, n, hold), IsHold(hold),
           NEW p, p \notin DOMAIN hold, NEW block \in HeldBlock, block.owner # "frame"
    PROVE  Owns(st, n, With(hold, p, block))
  <1> PICK after : after = With(hold, p, block)
    OBVIOUS
  <1>1. /\ DOMAIN after = DOMAIN hold \cup {p} /\ after[p] = block
        /\ \A x \in DOMAIN hold : x # p => after[x] = hold[x]
    <2>1. IsHold(hold) /\ block \in HeldBlock
      OBVIOUS
    <2>2. /\ DOMAIN With(hold, p, block) = DOMAIN hold \cup {p}
          /\ With(hold, p, block)[p] = block
          /\ \A x \in DOMAIN hold : x # p => With(hold, p, block)[x] = hold[x]
          /\ IsHold(With(hold, p, block))
      BY ONLY <2>1, WithFacts
    <2> QED  BY <2>2
  <1> QED  BY <1>1 DEF Owns

(* The program gives a block back that no frame lists.                     *)
LEMMA OwnsWithout ==
    ASSUME NEW st, NEW n, NEW hold, Owns(st, n, hold), IsHold(hold),
           NEW p \in DOMAIN hold, hold[p].owner # "frame"
    PROVE  Owns(st, n, Without(hold, {p}))
  <1> PICK after : after = Without(hold, {p})
    OBVIOUS
  <1>1. /\ DOMAIN after = DOMAIN hold \ {p}
        /\ \A x \in DOMAIN hold \ {p} : after[x] = hold[x]
    BY WithoutFacts
  <1> QED  BY <1>1 DEF Owns

(* The last frame goes with the blocks it lists.                           *)
LEMMA OwnsPop ==
    ASSUME NEW st, NEW n, NEW hold, Owns(st, n, hold), IsHold(hold), n \in Nat, n > 0, NEW t, NEW m,
           \A i, k, a : Listed(t, m, i, k, a) <=> Listed(st, n, i, k, a) /\ i # n
    PROVE  Owns(t, m, Without(hold, Range(st[n].Allocas)))
  <1> PICK gone : gone = Range(st[n].Allocas)
    OBVIOUS
  <1> PICK after : after = Without(hold, gone)
    OBVIOUS
  <1>1. /\ DOMAIN after = DOMAIN hold \ gone
        /\ \A x \in DOMAIN hold \ gone : after[x] = hold[x]
    BY WithoutFacts
  <1>2. \A a : a \in gone <=> \E k : Listed(st, n, n, k, a)
    BY DEF Range, Listed
  <1>3. \A i, k, a : Listed(t, m, i, k, a) => a \notin gone
    BY <1>2 DEF Owns
  <1>4. \A i, k, a : Listed(t, m, i, k, a) => a \in DOMAIN after /\ after[a].owner = "frame"
    BY <1>1, <1>3 DEF Owns
  <1>5. ASSUME NEW a \in DOMAIN after, after[a].owner = "frame"
        PROVE  \E i, k : Listed(t, m, i, k, a)
    <2>1. a \in DOMAIN hold /\ hold[a].owner = "frame" /\ a \notin gone
      BY <1>1, <1>5
    <2>2. PICK i, k : Listed(st, n, i, k, a)
      BY <2>1 DEF Owns
    <2> QED  BY <1>2, <2>1, <2>2
  <1>6. \A i, k, x, y, a : Listed(t, m, i, k, a) /\ Listed(t, m, x, y, a) => i = x /\ k = y
    BY DEF Owns
  <1> QED  BY <1>4, <1>5, <1>6 DEF Owns

Lost(hold) == [a \in DOMAIN hold |-> Block(hold[a].size, "lost")]

(* exit leaves every block where it is.                                    *)
LEMMA LostFacts ==
    ASSUME NEW h, NEW hold, Holds(h, hold), NEW t, NEW m,
           \A i, k, a : ~ Listed(t, m, i, k, a)
    PROVE  Holds(h, Lost(hold)) /\ Owns(t, m, Lost(hold))
  <1> PICK after : after = Lost(hold)
    OBVIOUS
  <1>1. IsHold(hold)
    BY DEF Holds
  <1>2. /\ DOMAIN after = DOMAIN hold
        /\ \A x \in DOMAIN hold : after[x].size = hold[x].size /\ after[x].owner = "lost"
        /\ IsHold(after)
    BY <1>1 DEF Lost, Block, IsHold, HeldBlock
  <1>3. Holds(h, after)
    BY <1>2 DEF Holds
  <1>4. Owns(t, m, after)
    BY <1>2 DEF Owns
  <1> QED  BY <1>3, <1>4

-----------------------------------------------------------------------------
(* One process with what it holds.                                         *)

InPlace(st, n) ==
    \A i \in 1 .. n :
        /\ st[i].Caller = NULL <=> i = n
        /\ st[i].external => i = n /\ n >= 2 /\ st[i].Allocas = << >>

External(st, n) == n > 0 /\ st[n].external = TRUE

IsProper(r, n, hold) ==
    /\ IsProcess(r, n)
    /\ Holds(r.MObjects, hold)
    /\ Owns(r.ECStack, n, hold)
    /\ InPlace(r.ECStack, n)

LEMMA ProperFacts ==
    ASSUME NEW r, NEW n, NEW hold, IsProper(r, n, hold)
    PROVE  /\ IsProcess(r, n) /\ IsStack(r.ECStack, n) /\ IsHold(hold)
           /\ n \in Nat /\ n = Len(r.ECStack) /\ n = Depth(r)
           /\ n = 0 <=> r.ECStack = << >>
           /\ DOMAIN r.ECStack = 1 .. n
           /\ r.Status \in Statuses
           /\ \A i \in 1 .. n : r.ECStack[i] \in Frame
  <1>1. IsProcess(r, n) /\ IsHold(hold)
    BY DEF IsProper, Holds
  <1>2. IsStack(r.ECStack, n) /\ r.Status \in Statuses
    BY <1>1 DEF IsProcess
  <1> QED  BY <1>1, <1>2, StackFacts DEF IsStack, Depth

(* Frames with the allocas of the frames before list the same blocks.      *)
LEMMA ListedSame ==
    ASSUME NEW st, NEW n \in Nat, NEW t, \A i \in 1 .. n : t[i].Allocas = st[i].Allocas
    PROVE  \A i, k, a : Listed(t, n, i, k, a) <=> Listed(st, n, i, k, a)
  BY DEF Listed

LEMMA ListedLess ==
    ASSUME NEW st, NEW n \in Nat, n > 0, NEW t, \A i \in 1 .. n - 1 : t[i].Allocas = st[i].Allocas
    PROVE  \A i, k, a : Listed(t, n - 1, i, k, a) <=> Listed(st, n, i, k, a) /\ i # n
  <1>1. \A i : i \in 1 .. n - 1 <=> i \in 1 .. n /\ i # n
    OBVIOUS
  <1> QED  BY <1>1 DEF Listed

LEMMA ListedNone ==
    ASSUME NEW st, NEW n \in Nat, NEW t, \A i \in 1 .. n : t[i].Allocas = st[i].Allocas,
           t[n + 1].Allocas = << >>
    PROVE  \A i, k, a : Listed(t, n + 1, i, k, a) <=> Listed(st, n, i, k, a)
  <1>1. \A i : i \in 1 .. n + 1 <=> i \in 1 .. n \/ i = n + 1
    OBVIOUS
  <1>2. \A k : k \notin DOMAIN t[n + 1].Allocas
    OBVIOUS
  <1>3. n + 1 \notin 1 .. n
    OBVIOUS
  <1> QED  BY <1>1, <1>2, <1>3 DEF Listed

LEMMA ProperCall ==
    ASSUME NEW r, NEW n, NEW hold, IsProper(r, n, hold), n > 0, ~ External(r.ECStack, n),
           NEW site \in Sites, NEW external \in BOOLEAN, NEW t, t = EnterCall(r, site, external)
    PROVE  /\ IsProper(t, n + 1, hold) /\ t.Status = r.Status
           /\ t.ECStack[n + 1].external = external
  <1> PICK st : st = r.ECStack
    OBVIOUS
  <1> PICK s : s = t.ECStack
    OBVIOUS
  <1>1. /\ IsProcess(r, n) /\ n \in Nat /\ n > 0
        /\ st[n] \in Frame /\ \A i \in 1 .. n : st[i] \in Frame
    BY ProperFacts
  <1>2. /\ IsProcess(t, n + 1) /\ t.MObjects = r.MObjects /\ t.Status = r.Status
        /\ \A i \in 1 .. n - 1 : s[i] = st[i]
        /\ s[n] = Called(st[n], site)
        /\ s[n + 1] = NewFrame(external)
    <2>1. /\ IsProcess(r, n) /\ n > 0 /\ site \in Sites /\ external \in BOOLEAN
          /\ t = EnterCall(r, site, external)
      BY <1>1
    <2>2. /\ IsProcess(t, n + 1) /\ t.MObjects = r.MObjects /\ t.Status = r.Status
          /\ \A i \in 1 .. n - 1 : t.ECStack[i] = r.ECStack[i]
          /\ t.ECStack[n] = Called(r.ECStack[n], site)
          /\ t.ECStack[n + 1] = NewFrame(external)
      BY ONLY <2>1, EnterCallFacts
    <2> QED  BY <2>2
  <1>3. /\ s[n].Caller = site /\ s[n].Allocas = st[n].Allocas
        /\ s[n].external = st[n].external
    BY <1>1, <1>2, CalledFacts
  <1>4. /\ s[n + 1].external = external /\ s[n + 1].Caller = NULL
        /\ s[n + 1].Allocas = << >>
    <2>1. external \in BOOLEAN
      OBVIOUS
    <2>2. /\ NewFrame(external).external = external /\ NewFrame(external).Caller = NULL
          /\ NewFrame(external).Allocas = << >>
      BY ONLY <2>1, NewFrameFacts
    <2> QED  BY <1>2, <2>2
  <1>5. \A i \in 1 .. n : i = n \/ i \in 1 .. n - 1
    BY ONLY <1>1
  <1>6. Owns(s, n + 1, hold)
    <2>1. \A i \in 1 .. n : s[i].Allocas = st[i].Allocas
      BY ONLY <1>2, <1>3, <1>5
    <2>2. \A i, k, a : Listed(s, n + 1, i, k, a) <=> Listed(st, n, i, k, a)
      BY ONLY <1>1, <1>4, <2>1, ListedNone
    <2>3. Owns(st, n, hold)
      BY DEF IsProper
    <2> QED  BY ONLY <2>2, <2>3, OwnsSame
  <1>7. InPlace(s, n + 1)
    <2>1. site # NULL
      BY SitesAssumption
    <2>2. InPlace(st, n)
      BY DEF IsProper
    <2>3. st[n].external = FALSE
      BY <1>1, FrameFacts DEF External
    <2>4. \A i \in 1 .. n - 1 : st[i].Caller # NULL /\ ~ st[i].external
      BY ONLY <1>1, <2>2 DEF InPlace
    <2>5. \A i \in 1 .. n : s[i].Caller # NULL /\ ~ s[i].external
      BY ONLY <1>2, <1>3, <1>5, <2>1, <2>3, <2>4
    <2>6. \A i \in 1 .. n + 1 : i \in 1 .. n \/ i = n + 1
      BY ONLY <1>1
    <2>7. n + 1 \notin 1 .. n /\ n + 1 >= 2
      BY ONLY <1>1
    <2> QED  BY ONLY <1>4, <2>5, <2>6, <2>7 DEF InPlace
  <1>8. Holds(t.MObjects, hold)
    BY <1>2 DEF IsProper
  <1> QED  BY <1>2, <1>4, <1>6, <1>7, <1>8 DEF IsProper

LEMMA ProperAtOnce ==
    ASSUME NEW r, NEW n, NEW hold, IsProper(r, n, hold), n > 0, ~ External(r.ECStack, n),
           NEW site \in Sites, NEW value \in Results \cup {Void},
           NEW t, t = ReturnAtOnce(r, site, value)
    PROVE  IsProper(t, n, hold) /\ t.Status = r.Status /\ ~ External(t.ECStack, n)
  <1> PICK st : st = r.ECStack
    OBVIOUS
  <1> PICK s : s = t.ECStack
    OBVIOUS
  <1> PICK called : called = Called(st[n], site)
    OBVIOUS
  <1>1. /\ IsProcess(r, n) /\ n \in Nat /\ n > 0 /\ n \in 1 .. n
        /\ st[n] \in Frame
    BY ProperFacts
  <1>2. /\ IsProcess(t, n) /\ t.Status = r.Status /\ t.MObjects = r.MObjects
        /\ \A i \in 1 .. n - 1 : s[i] = st[i]
        /\ s[n] = SetReturned(called, value)
    <2>1. /\ IsProcess(r, n) /\ n > 0 /\ site \in Sites /\ value \in Results \cup {Void}
          /\ t = ReturnAtOnce(r, site, value)
      BY <1>1
    <2>2. /\ IsProcess(t, n) /\ t.Status = r.Status /\ t.MObjects = r.MObjects
          /\ \A i \in 1 .. n - 1 : t.ECStack[i] = r.ECStack[i]
          /\ t.ECStack[n] = SetReturned(Called(r.ECStack[n], site), value)
      BY ONLY <2>1, ReturnAtOnceFacts
    <2> QED  BY <2>2
  <1>3. /\ called \in Frame /\ called.Caller # NULL /\ called.Allocas = st[n].Allocas
        /\ called.external = st[n].external
    BY <1>1, CalledFacts, SitesAssumption
  <1>4. /\ s[n].Caller = NULL /\ s[n].Allocas = st[n].Allocas
        /\ s[n].external = st[n].external
    <2>1. value \in Results \cup {Void}
      OBVIOUS
    <2>2. /\ SetReturned(called, value).Caller = NULL
          /\ SetReturned(called, value).Allocas = called.Allocas
          /\ SetReturned(called, value).external = called.external
      BY ONLY <1>3, <2>1, SetReturnedFacts
    <2> QED  BY <1>2, <1>3, <2>2
  <1>5. \A i \in 1 .. n : i = n \/ i \in 1 .. n - 1
    BY ONLY <1>1
  <1>6. \A i \in 1 .. n : s[i].Allocas = st[i].Allocas /\ s[i].external = st[i].external
    BY ONLY <1>2, <1>4, <1>5
  <1>7. Owns(s, n, hold)
    <2>1. \A i, k, a : Listed(s, n, i, k, a) <=> Listed(st, n, i, k, a)
      BY ONLY <1>1, <1>6, ListedSame
    <2>2. Owns(st, n, hold)
      BY DEF IsProper
    <2> QED  BY ONLY <2>1, <2>2, OwnsSame
  <1>8. InPlace(s, n)
    <2>1. InPlace(st, n)
      BY DEF IsProper
    <2>2. \A i \in 1 .. n - 1 : i \in 1 .. n /\ i # n
      BY ONLY <1>1
    <2>3. \A i \in 1 .. n : s[i].Caller = NULL <=> i = n
      BY ONLY <1>2, <1>4, <1>5, <2>1, <2>2 DEF InPlace
    <2> QED  BY ONLY <1>6, <2>1, <2>3 DEF InPlace
  <1>9. ~ External(s, n)
    BY <1>4 DEF External
  <1> QED  BY <1>2, <1>7, <1>8, <1>9 DEF IsProper

LEMMA ProperReturn ==
    ASSUME NEW r, NEW n, NEW hold, IsProper(r, n, hold), n > 0,
           NEW value \in Results \cup {Void}, NEW t, t = PopStack(r, value)
    PROVE  /\ IsProper(t, n - 1, Without(hold, Range(r.ECStack[n].Allocas)))
           /\ t.Status = r.Status /\ ~ External(t.ECStack, n - 1)
           /\ r.ECStack[n].Allocas = << >> => IsProper(t, n - 1, hold)
  <1> PICK st : st = r.ECStack
    OBVIOUS
  <1> PICK s : s = t.ECStack
    OBVIOUS
  <1> PICK m : m = n - 1
    OBVIOUS
  <1> PICK ptrs : ptrs = st[n].Allocas
    OBVIOUS
  <1> PICK after : after = Without(hold, Range(ptrs))
    OBVIOUS
  <1>1. /\ IsProcess(r, n) /\ n \in Nat /\ n > 0 /\ n \in 1 .. n /\ m = n - 1
        /\ \A i \in 1 .. n : st[i] \in Frame
    BY ProperFacts
  <1>2. /\ IsProcess(t, m) /\ t.Status = r.Status
        /\ t.MObjects = FoldLeft(FreeIn, r.MObjects, ptrs)
        /\ \A i \in 1 .. m - 1 : s[i] = st[i]
        /\ m > 0 => s[m] = IF st[m].Caller = NULL THEN st[m] ELSE SetReturned(st[m], value)
    <2>1. /\ IsProcess(r, n) /\ n > 0 /\ value \in Results \cup {Void} /\ t = PopStack(r, value)
      BY <1>1
    <2>2. /\ IsProcess(t, n - 1) /\ t.Status = r.Status
          /\ t.MObjects = FoldLeft(FreeIn, r.MObjects, r.ECStack[n].Allocas)
          /\ \A i \in 1 .. n - 2 : t.ECStack[i] = r.ECStack[i]
          /\ n > 1 => t.ECStack[n - 1] = IF r.ECStack[n - 1].Caller = NULL THEN r.ECStack[n - 1]
                                         ELSE SetReturned(r.ECStack[n - 1], value)
      BY ONLY <2>1, PopStackFacts
    <2>3. n - 2 = m - 1 /\ (n > 1 <=> m > 0)
      BY ONLY <1>1
    <2>4. st = r.ECStack /\ s = t.ECStack /\ ptrs = st[n].Allocas
      OBVIOUS
    <2> QED  BY ONLY <1>1, <2>2, <2>3, <2>4
  <1>3. /\ Owns(st, n, hold) /\ InPlace(st, n) /\ IsHold(hold) /\ Holds(r.MObjects, hold)
    BY ProperFacts DEF IsProper
  <1>4. m \in Nat /\ \A i \in 1 .. m : (i = m /\ m > 0 /\ i \in 1 .. n /\ i # n)
                                          \/ (i \in 1 .. m - 1 /\ i \in 1 .. n /\ i # n /\ i # m)
    BY ONLY <1>1
  <1>5. m > 0 => /\ s[m].Caller = NULL /\ s[m].Allocas = st[m].Allocas
                 /\ s[m].external = st[m].external /\ m \in 1 .. n /\ m # n
    <2>1. SUFFICES ASSUME m > 0
                   PROVE  /\ s[m].Caller = NULL /\ s[m].Allocas = st[m].Allocas
                          /\ s[m].external = st[m].external /\ m \in 1 .. n /\ m # n
      OBVIOUS
    <2>2. m \in 1 .. n /\ m # n
      BY ONLY <1>1, <2>1
    <2>3. st[m] \in Frame /\ st[m].Caller # NULL /\ value \in Results \cup {Void}
      BY <1>1, <1>3, <2>2 DEF InPlace
    <2>4. s[m] = SetReturned(st[m], value)
      BY ONLY <1>2, <2>1, <2>3
    <2>5. /\ SetReturned(st[m], value).Caller = NULL
          /\ SetReturned(st[m], value).Allocas = st[m].Allocas
          /\ SetReturned(st[m], value).external = st[m].external
      BY ONLY <2>3, SetReturnedFacts
    <2> QED  BY ONLY <2>2, <2>4, <2>5
  <1>6. \A i \in 1 .. m : s[i].Allocas = st[i].Allocas /\ s[i].external = st[i].external
    BY ONLY <1>2, <1>4, <1>5
  <1>7. \A i, k, a : Listed(s, m, i, k, a) <=> Listed(st, n, i, k, a) /\ i # n
    BY ONLY <1>1, <1>6, ListedLess
  <1>8. Owns(s, m, after)
    BY <1>1, <1>3, <1>7, OwnsPop
  <1>9. InPlace(s, m)
    <2>1. \A i \in 1 .. m : s[i].Caller = NULL <=> i = m
      BY ONLY <1>2, <1>3, <1>4, <1>5 DEF InPlace
    <2>2. \A i \in 1 .. m : ~ st[i].external
      BY ONLY <1>3, <1>4 DEF InPlace
    <2> QED  BY ONLY <1>6, <2>1, <2>2 DEF InPlace
  <1>10. ~ External(s, m)
    <2>1. m > 0 => m \in 1 .. n /\ m # n /\ s[m].external = st[m].external
      BY <1>5
    <2>2. m > 0 => ~ st[m].external
      BY ONLY <1>3, <2>1 DEF InPlace
    <2> QED  BY ONLY <2>1, <2>2 DEF External
  <1>11. Holds(t.MObjects, after)
    <2>1. st[n] \in Frame
      BY <1>1
    <2>2. ptrs \in Seq(Nat)
      BY <2>1, FrameFacts
    <2> PICK l \in Nat : l = Len(ptrs)
      BY <2>2
    <2>3. DOMAIN ptrs = 1 .. l /\ (l = 0 => ptrs = << >>)
      BY <2>2
    <2>4. \A k \in 1 .. l : Listed(st, n, n, k, ptrs[k])
      BY <1>1, <2>3 DEF Listed
    <2>5. \A k \in 1 .. l : ptrs[k] \in DOMAIN hold
      BY <1>3, <2>4 DEF Owns
    <2>6. \A i, j \in 1 .. l : ptrs[i] = ptrs[j] => i = j
      BY <1>3, <2>4 DEF Owns
    <2> PICK h : h = r.MObjects
      OBVIOUS
    <2>7. Holds(h, hold) /\ l \in Nat
      BY <1>3
    <2>8. Holds(FoldLeft(FreeIn, h, ptrs), Without(hold, Range(ptrs)))
      BY ONLY <2>3, <2>5, <2>6, <2>7, FreeAllHolds
    <2> QED  BY <1>2, <2>8
  <1>12. IsProper(t, m, after)
    BY <1>2, <1>8, <1>9, <1>11 DEF IsProper
  <1>13. ptrs = << >> => IsProper(t, m, hold)
    <2>1. SUFFICES ASSUME ptrs = << >>
                   PROVE  IsProper(t, m, hold)
      OBVIOUS
    <2>2. Range(ptrs) = {}
      BY <2>1 DEF Range
    <2>3. /\ DOMAIN Without(hold, {}) = DOMAIN hold \ {}
          /\ \A x \in DOMAIN hold \ {} : Without(hold, {})[x] = hold[x]
          /\ IsHold(Without(hold, {}))
      BY ONLY <1>3, WithoutFacts
    <2>4. after = hold
      BY <1>3, <2>2, <2>3 DEF IsHold
    <2> QED  BY <1>12, <2>4
  <1> QED  BY <1>2, <1>10, <1>12, <1>13

LEMMA ProperHeap ==
    ASSUME NEW r, NEW n, NEW hold, IsProper(r, n, hold), NEW h, NEW after, Holds(h, after),
           Owns(r.ECStack, n, after), NEW t, t = [r EXCEPT !.MObjects = h]
    PROVE  /\ IsProper(t, n, after) /\ t.ECStack = r.ECStack /\ t.Status = r.Status
           /\ t.MObjects = h
  <1>1. t = [ECStack |-> r.ECStack, MObjects |-> h, Status |-> r.Status]
    BY DEF IsProper, IsProcess
  <1>2. t.ECStack = r.ECStack /\ t.Status = r.Status /\ t.MObjects = h
    BY <1>1
  <1>3. IsProcess(t, n)
    BY <1>1, <1>2 DEF IsProper, IsProcess
  <1> QED  BY <1>2, <1>3 DEF IsProper

LEMMA ProperStatus ==
    ASSUME NEW r, NEW n, NEW hold, IsProper(r, n, hold), NEW status \in Statuses,
           NEW t, t = [r EXCEPT !.Status = status]
    PROVE  /\ IsProper(t, n, hold) /\ t.ECStack = r.ECStack /\ t.Status = status
  <1>1. t = [ECStack |-> r.ECStack, MObjects |-> r.MObjects, Status |-> status]
    BY DEF IsProper, IsProcess
  <1>2. t.ECStack = r.ECStack /\ t.Status = status /\ t.MObjects = r.MObjects
    BY <1>1
  <1>3. IsProcess(t, n)
    BY <1>1, <1>2 DEF IsProper, IsProcess
  <1> QED  BY <1>2, <1>3 DEF IsProper

LEMMA BlockFacts ==
    ASSUME NEW size \in Nat, NEW owner \in {"globals", "frame", "malloc", "main", "lost"}
    PROVE  /\ Block(size, owner) \in HeldBlock /\ Block(size, owner).owner = owner
           /\ Block(size, owner).size = size
  BY DEF Block, HeldBlock

(* A block for main or from malloc.                                        *)
LEMMA ProperAlloc ==
    ASSUME NEW r, NEW n, NEW hold, IsProper(r, n, hold), NEW size \in Nat,
           NEW owner \in {"malloc", "main"},
           NEW a, a = AllocIn(r.MObjects, size), NEW t, t = [r EXCEPT !.MObjects = a.heap]
    PROVE  /\ IsProper(t, n, With(hold, a.ptr, Block(size, owner)))
           /\ t.ECStack = r.ECStack /\ t.Status = r.Status /\ t.MObjects = a.heap
           /\ a.ptr \in Nat /\ a.ptr <= Break(a.heap)
  <1> PICK p : p = a.ptr
    OBVIOUS
  <1> PICK h : h = a.heap
    OBVIOUS
  <1> PICK block : block = Block(size, owner)
    OBVIOUS
  <1> PICK after : after = With(hold, p, block)
    OBVIOUS
  <1> PICK st : st = r.ECStack
    OBVIOUS
  <1>1. Holds(r.MObjects, hold) /\ Owns(st, n, hold) /\ IsHold(hold)
    BY ProperFacts DEF IsProper
  <1>2. owner \in {"globals", "frame", "malloc", "main", "lost"} /\ owner # "frame"
    OBVIOUS
  <1>3. block \in HeldBlock /\ block.owner # "frame"
    BY <1>2, BlockFacts
  <1>4. Holds(h, after) /\ p \in Nat /\ p <= Break(h) /\ p \notin DOMAIN hold
    BY <1>1, <1>2, AllocHolds
  <1>5. Owns(st, n, after)
    BY ONLY <1>1, <1>3, <1>4, after = With(hold, p, block), OwnsOther
  <1> QED  BY <1>4, <1>5, ProperHeap

LEMMA ProperFree ==
    ASSUME NEW r, NEW n, NEW hold, IsProper(r, n, hold), NEW p \in DOMAIN hold,
           hold[p].owner = "malloc", NEW t, t = [r EXCEPT !.MObjects = FreeIn(@, p)]
    PROVE  /\ IsProper(t, n, Without(hold, {p}))
           /\ t.ECStack = r.ECStack /\ t.Status = r.Status
  <1> PICK after : after = Without(hold, {p})
    OBVIOUS
  <1> PICK h : h = FreeIn(r.MObjects, p)
    OBVIOUS
  <1>1. Holds(r.MObjects, hold) /\ Owns(r.ECStack, n, hold) /\ IsHold(hold)
    BY ProperFacts DEF IsProper
  <1>2. Holds(h, after)
    BY <1>1, FreeHolds
  <1>3. Owns(r.ECStack, n, after)
    BY <1>1, OwnsWithout
  <1>4. t = [r EXCEPT !.MObjects = h]
    BY DEF IsProper, IsProcess
  <1> QED  BY <1>2, <1>3, <1>4, ProperHeap

IsExtended(list, ptrs, p) ==
    \E l \in Nat : /\ l \notin DOMAIN ptrs
                   /\ DOMAIN list = DOMAIN ptrs \cup {l}
                   /\ list[l] = p
                   /\ \A k \in DOMAIN ptrs : list[k] = ptrs[k]

WithAlloca(frame, p) == [frame EXCEPT !.Allocas = Append(@, p)]

LEMMA WithAllocaFacts ==
    ASSUME NEW frame \in Frame, NEW p \in Nat, NEW t, t = WithAlloca(frame, p)
    PROVE  /\ t \in Frame /\ t.Caller = frame.Caller /\ t.external = frame.external
           /\ t.Value = frame.Value
           /\ IsExtended(t.Allocas, frame.Allocas, p)
  <1> PICK s : s = frame.Allocas
    OBVIOUS
  <1>1. s \in Seq(Nat)
    BY FrameFacts
  <1> PICK l \in Nat : l = Len(s) + 1
    BY <1>1
  <1>2. /\ Append(s, p) \in Seq(Nat) /\ l \notin DOMAIN s
        /\ DOMAIN Append(s, p) = DOMAIN s \cup {l} /\ Append(s, p)[l] = p
        /\ \A k \in DOMAIN s : Append(s, p)[k] = s[k]
    BY <1>1
  <1>3. t = [external |-> frame.external, Caller |-> frame.Caller, Value |-> frame.Value,
             Allocas |-> Append(s, p)]
    BY DEF WithAlloca, Frame
  <1>4. IsExtended(Append(s, p), s, p)
    BY <1>2 DEF IsExtended
  <1> QED  BY <1>2, <1>3, <1>4 DEF Frame

AfterAlloca(r, n, h, p) ==
    [r EXCEPT !.MObjects = h, !.ECStack[n].Allocas = Append(@, p)]

LEMMA AfterAllocaFacts ==
    ASSUME NEW r, NEW n, IsProcess(r, n), n > 0, NEW h, NEW p
    PROVE  AfterAlloca(r, n, h, p) =
              [ECStack  |-> Replaced(r.ECStack, n, WithAlloca(r.ECStack[n], p)),
               MObjects |-> h, Status |-> r.Status]
  <1> PICK st : st = r.ECStack
    OBVIOUS
  <1>1. r = [ECStack |-> st, MObjects |-> r.MObjects, Status |-> r.Status]
    BY DEF IsProcess
  <1> PICK list : list = Append(st[n].Allocas, p)
    OBVIOUS
  <1>2. AfterAlloca(r, n, h, p) = [r EXCEPT !.MObjects = h, !.ECStack[n].Allocas = list]
    BY Zenon DEF AfterAlloca
  <1>3. WithAlloca(st[n], p) = [st[n] EXCEPT !.Allocas = list]
    BY Zenon DEF WithAlloca
  <1>4. [r EXCEPT !.MObjects = h, !.ECStack[n].Allocas = list] =
           [ECStack |-> Replaced(st, n, [st[n] EXCEPT !.Allocas = list]),
            MObjects |-> h, Status |-> r.Status]
    <2> PICK s : s = [st EXCEPT ![n] = [st[n] EXCEPT !.Allocas = list]]
      OBVIOUS
    <2>2. [r EXCEPT !.MObjects = h, !.ECStack[n].Allocas = list]
             = [[r EXCEPT !.MObjects = h] EXCEPT !.ECStack = s]
      <3>1. [r EXCEPT !.MObjects = h].ECStack = st
        BY <1>1
      <3> QED  BY <3>1
    <2>3. [[r EXCEPT !.MObjects = h] EXCEPT !.ECStack = s] =
             [ECStack |-> s, MObjects |-> h, Status |-> r.Status]
      <3>1. [r EXCEPT !.MObjects = h] = [ECStack |-> st, MObjects |-> h, Status |-> r.Status]
        BY ONLY <1>1
      <3> PICK u : u = [r EXCEPT !.MObjects = h]
        OBVIOUS
      <3> PICK q : q = r.Status
        OBVIOUS
      <3>2. u = [ECStack |-> st, MObjects |-> h, Status |-> q]
        BY <3>1
      <3>3. [u EXCEPT !.ECStack = s] = [ECStack |-> s, MObjects |-> h, Status |-> q]
        BY ONLY <3>2
      <3> QED  BY <3>3
    <2> QED  BY <2>2, <2>3 DEF Replaced
  <1> QED  BY <1>2, <1>3, <1>4

LEMMA ProperAlloca ==
    ASSUME NEW r, NEW n, NEW hold, IsProper(r, n, hold), n > 0, ~ External(r.ECStack, n),
           NEW size \in Nat, NEW a, a = AllocIn(r.MObjects, size), NEW t,
           t = AfterAlloca(r, n, a.heap, a.ptr)
    PROVE  /\ IsProper(t, n, With(hold, a.ptr, Block(size, "frame")))
           /\ t.Status = r.Status /\ ~ External(t.ECStack, n)
           /\ \A i \in 1 .. n : /\ t.ECStack[i].Caller = r.ECStack[i].Caller
                                /\ t.ECStack[i].Value = r.ECStack[i].Value
                                /\ t.ECStack[i].external = r.ECStack[i].external
  <1> PICK p : p = a.ptr
    OBVIOUS
  <1> PICK h : h = a.heap
    OBVIOUS
  <1> PICK block : block = Block(size, "frame")
    OBVIOUS
  <1> PICK after : after = With(hold, p, block)
    OBVIOUS
  <1> PICK st : st = r.ECStack
    OBVIOUS
  <1> PICK top : top = WithAlloca(st[n], p)
    OBVIOUS
  <1> PICK s : s = Replaced(st, n, top)
    OBVIOUS
  <1>1. /\ Holds(r.MObjects, hold) /\ Owns(st, n, hold) /\ IsHold(hold) /\ InPlace(st, n)
        /\ IsStack(st, n) /\ n \in Nat /\ n > 0 /\ n \in 1 .. n
        /\ r.Status \in Statuses /\ st[n] \in Frame
    <2>1. Holds(r.MObjects, hold) /\ Owns(st, n, hold) /\ InPlace(st, n)
      BY DEF IsProper
    <2>2. /\ IsHold(hold) /\ IsStack(st, n) /\ n \in Nat /\ r.Status \in Statuses
          /\ \A i \in 1 .. n : st[i] \in Frame
      BY ProperFacts
    <2>3. n > 0
      OBVIOUS
    <2>4. n \in 1 .. n
      BY ONLY <2>2, <2>3
    <2> QED  BY <2>1, <2>2, <2>3, <2>4
  <1>0. "frame" \in {"globals", "frame", "malloc", "main", "lost"}
    OBVIOUS
  <1>2. block \in HeldBlock /\ block.owner = "frame"
    BY <1>0, BlockFacts
  <1>3. Holds(h, after) /\ p \in Nat /\ p \notin DOMAIN hold
    BY <1>0, <1>1, AllocHolds
  <1>4. /\ top \in Frame /\ top.Caller = st[n].Caller /\ top.external = st[n].external
        /\ top.Value = st[n].Value
        /\ IsExtended(top.Allocas, st[n].Allocas, p)
    <2>1. st[n] \in Frame /\ p \in Nat /\ top = WithAlloca(st[n], p)
      BY <1>1, <1>3
    <2> QED  BY ONLY <2>1, WithAllocaFacts
  <1>5. /\ IsStack(s, n) /\ s[n] = top
        /\ \A j \in 1 .. n : j # n => s[j] = st[j]
    BY <1>1, <1>4, ReplacedFacts
  <1>6. t = [ECStack |-> s, MObjects |-> h, Status |-> r.Status]
    <2>1. IsProcess(r, n)
      BY DEF IsProper
    <2> QED  BY <2>1, AfterAllocaFacts
  <1>7. t.ECStack = s /\ t.MObjects = h /\ t.Status = r.Status
    BY <1>6
  <1>8. IsProcess(t, n)
    BY <1>1, <1>5, <1>6, <1>7 DEF IsProcess
  <1>9. Owns(s, n, after)
    <2>1. PICK l \in Nat :
              /\ l \notin DOMAIN st[n].Allocas
              /\ DOMAIN top.Allocas = DOMAIN st[n].Allocas \cup {l}
              /\ top.Allocas[l] = p
              /\ \A k \in DOMAIN st[n].Allocas : top.Allocas[k] = st[n].Allocas[k]
      BY <1>4 DEF IsExtended
    <2>2. \A k, x : ~ Listed(st, n, n, l, x)
      BY <2>1 DEF Listed
    <2>3. \A i, k, x : Listed(s, n, i, k, x) <=>
                           Listed(st, n, i, k, x) \/ (i = n /\ k = l /\ x = p)
      BY ONLY <1>1, <1>5, <2>1 DEF Listed
    <2> QED  BY <1>1, <1>2, <1>3, <2>2, <2>3, OwnsMore
  <1>10. \A i \in 1 .. n : /\ s[i].Caller = st[i].Caller /\ s[i].external = st[i].external
                           /\ s[i].Value = st[i].Value
    BY <1>4, <1>5
  <1>11. ~ External(s, n)
    BY <1>1, <1>10 DEF External
  <1>12. InPlace(s, n)
    <2>1. st[n].external \in BOOLEAN
      BY <1>1, FrameFacts
    <2>2. \A i \in 1 .. n : ~ st[i].external
      BY <1>1, <2>1 DEF InPlace, External
    <2> QED  BY <1>1, <1>10, <2>2 DEF InPlace
  <1> QED  BY <1>3, <1>7, <1>8, <1>9, <1>10, <1>11, <1>12 DEF IsProper

(* The first frame of main or of an exit handler.                          *)
LEMMA ProperPush ==
    ASSUME NEW r, NEW hold, IsProper(r, 0, hold), NEW t, t = Push(r, FALSE)
    PROVE  /\ IsProper(t, 1, hold) /\ t.Status = r.Status /\ ~ External(t.ECStack, 1)
           /\ t.ECStack[1].Caller = NULL /\ t.ECStack[1].Value = NULL
  <1> PICK no \in BOOLEAN : no = FALSE
    OBVIOUS
  <1> PICK s : s = t.ECStack
    OBVIOUS
  <1>1. IsProcess(r, 0) /\ Holds(r.MObjects, hold) /\ Owns(r.ECStack, 0, hold)
    BY DEF IsProper
  <1>2. t = Push(r, no)
    OBVIOUS
  <1>3. /\ IsProcess(t, 0 + 1) /\ t.MObjects = r.MObjects /\ t.Status = r.Status
        /\ \A i \in 1 .. 0 : t.ECStack[i] = r.ECStack[i]
        /\ t.ECStack[0 + 1] = NewFrame(no)
    <2>1. IsProcess(r, 0) /\ no \in BOOLEAN /\ t = Push(r, no)
      BY <1>1, <1>2
    <2> QED  BY ONLY <2>1, PushFacts
  <1>4. IsProcess(t, 1) /\ s[1] = NewFrame(no)
    <2>1. s = t.ECStack /\ 0 + 1 = 1
      OBVIOUS
    <2> QED  BY ONLY <1>3, <2>1
  <1>5. /\ NewFrame(no).external = no /\ NewFrame(no).Caller = NULL
        /\ NewFrame(no).Value = NULL /\ NewFrame(no).Allocas = << >>
    <2>1. no \in BOOLEAN
      OBVIOUS
    <2> QED  BY ONLY <2>1, NewFrameFacts
  <1>6. s[1].external = FALSE /\ s[1].Caller = NULL /\ s[1].Value = NULL /\ s[1].Allocas = << >>
    BY <1>4, <1>5
  <1>7. \A i, k, a : Listed(s, 1, i, k, a) <=> Listed(r.ECStack, 0, i, k, a)
    <2>1. \A i : (i \in 1 .. 1 <=> i = 1) /\ i \notin 1 .. 0
      OBVIOUS
    <2>2. DOMAIN << >> = {}
      OBVIOUS
    <2>3. \A k : k \notin DOMAIN s[1].Allocas
      BY ONLY <1>6, <2>2
    <2> QED  BY ONLY <2>1, <2>3 DEF Listed
  <1>8. Owns(s, 1, hold)
    BY ONLY <1>1, <1>7, OwnsSame
  <1>9. InPlace(s, 1)
    <2>1. \A i : i \in 1 .. 1 <=> i = 1
      OBVIOUS
    <2> QED  BY ONLY <1>6, <2>1 DEF InPlace
  <1> QED  BY <1>1, <1>3, <1>4, <1>6, <1>8, <1>9 DEF IsProper, External

(* exit drops the stack.                                                   *)
LEMMA ProperExit ==
    ASSUME NEW r, NEW n, NEW hold, IsProper(r, n, hold), NEW t, t = [r EXCEPT !.ECStack = << >>]
    PROVE  /\ IsProper(t, 0, Lost(hold)) /\ t.Status = r.Status /\ t.ECStack = << >>
  <1>1. t = [ECStack |-> << >>, MObjects |-> r.MObjects, Status |-> r.Status]
    BY DEF IsProper, IsProcess
  <1>2. t.ECStack = << >> /\ t.Status = r.Status /\ t.MObjects = r.MObjects
    BY <1>1
  <1>3. IsProcess(t, 0)
    BY <1>1, <1>2 DEF IsProper, IsProcess, IsStack
  <1>4. \A i, k, a : ~ Listed(<< >>, 0, i, k, a)
    BY DEF Listed
  <1>5. Holds(r.MObjects, Lost(hold)) /\ Owns(<< >>, 0, Lost(hold))
    BY <1>4, LostFacts DEF IsProper
  <1>6. InPlace(<< >>, 0)
    BY DEF InPlace
  <1> QED  BY <1>2, <1>3, <1>5, <1>6 DEF IsProper

-----------------------------------------------------------------------------
(* The inductive invariant: every process is proper, and what the          *)
(* interpreter does with it fits its stack.                                *)

Mode(p) ==
    IF running /\ State = p THEN IF PauseFlag THEN "paused" ELSE "runs" ELSE "away"

Situated(r, n, mode) ==
    /\ mode = "runs" => ~ External(r.ECStack, n)
    /\ mode = "paused" => External(r.ECStack, n)
    /\ External(r.ECStack, n) => r.Status = "PS_WAIT"
    /\ mode = "away" /\ r.Status = "PS_WAIT" => External(r.ECStack, n)
    /\ mode = "away" /\ r.Status = "PS_FINISHED" => n = 0
    /\ r.Status = "NONE" => n = 0 /\ mode = "away"

Good(r, hold, mode) == \E n : IsProper(r, n, hold) /\ Situated(r, n, mode)

Globals ==
    /\ State \in Processes
    /\ running \in BOOLEAN /\ PauseFlag \in BOOLEAN /\ exiting \in BOOLEAN
    /\ ExitValue \in Results
    /\ AtExitHandlers \in Seq(Handlers)
    /\ exited \in {NULL, "exit", "Address space is full"}

Tables ==
    /\ process = [p \in Processes |-> process[p]]
    /\ held = [p \in Processes |-> held[p]]

IInv ==
    /\ Globals
    /\ Tables
    /\ \A p \in Processes : Good(process[p], held[p], Mode(p))

LEMMA TableStep ==
    ASSUME Tables, NEW p \in Processes, NEW r, NEW hold,
           process' = [process EXCEPT ![p] = r], held' = [held EXCEPT ![p] = hold]
    PROVE  /\ Tables' /\ process'[p] = r /\ held'[p] = hold
           /\ \A q \in Processes : q # p => process'[q] = process[q] /\ held'[q] = held[q]
  BY DEF Tables

LEMMA OneStep ==
    ASSUME IInv, Globals', NEW p \in Processes, NEW r, NEW hold,
           process' = [process EXCEPT ![p] = r], held' = [held EXCEPT ![p] = hold],
           Good(r, hold, Mode(p)'),
           \A q \in Processes : q # p => Mode(q)' = Mode(q)
    PROVE  IInv'
  <1>1. /\ Tables' /\ process'[p] = r /\ held'[p] = hold
        /\ \A q \in Processes : q # p => process'[q] = process[q] /\ held'[q] = held[q]
    BY TableStep DEF IInv
  <1>2. ASSUME NEW q \in Processes
        PROVE  Good(process'[q], held'[q], Mode(q)')
    <2>1. CASE q = p
      BY <1>1, <2>1
    <2>2. CASE q # p
      BY <1>1, <2>2 DEF IInv
    <2> QED  BY <2>1, <2>2
  <1> QED  BY <1>1, <1>2 DEF IInv

(* The process that runs is proper and outside of external calls.          *)
LEMMA RunningFacts ==
    ASSUME IInv, Executing
    PROVE  /\ State \in Processes /\ Mode(State) = "runs"
           /\ Current.Status # "NONE"
           /\ \E n : /\ IsProper(Current, n, held[State]) /\ n = Depth(Current)
                     /\ n > 0 /\ ~ External(Current.ECStack, n)
  <1>1. State \in Processes /\ Mode(State) = "runs"
    BY DEF IInv, Globals, Executing, Mode
  <1>2. PICK n : IsProper(Current, n, held[State]) /\ Situated(Current, n, "runs")
    BY <1>1 DEF IInv, Good, Current
  <1>3. n \in Nat /\ n = Depth(Current) /\ (n = 0 <=> Current.ECStack = << >>)
    BY <1>2, ProperFacts
  <1>4. n > 0
    BY <1>3 DEF Executing
  <1>5. Current.Status # "NONE"
    BY <1>2, <1>4 DEF Situated
  <1> QED  BY <1>1, <1>2, <1>3, <1>4, <1>5 DEF Situated

(* A step of the running process that goes on.                             *)
LEMMA RunStep ==
    ASSUME IInv, Executing, SameRun, NEW r, NEW m, NEW hold,
           process' = [process EXCEPT ![State] = r], held' = [held EXCEPT ![State] = hold],
           IsProper(r, m, hold), r.Status = Current.Status, ~ External(r.ECStack, m),
           ExitValue' \in Results, AtExitHandlers' \in Seq(Handlers)
    PROVE  IInv'
  <1>1. State \in Processes /\ Mode(State) = "runs" /\ Current.Status # "NONE"
    BY RunningFacts
  <1>2. Mode(State)' = "runs" /\ \A q \in Processes : Mode(q)' = Mode(q)
    BY <1>1 DEF SameRun, Mode
  <1>3. Situated(r, m, "runs")
    BY <1>1 DEF Situated
  <1>4. Good(r, hold, Mode(State)')
    BY <1>2, <1>3 DEF Good
  <1>5. Globals'
    BY DEF IInv, Globals, SameRun
  <1> QED  BY <1>1, <1>2, <1>4, <1>5, OneStep

LEMMA SameHeld ==
    ASSUME IInv, NEW p \in Processes, held' = held
    PROVE  held' = [held EXCEPT ![p] = held[p]]
  BY DEF IInv, Tables

LEMMA OutOfMemoryKeeps ==
    ASSUME IInv, OutOfMemory
    PROVE  IInv'
  <1>1. Globals'
    BY DEF IInv, Globals, OutOfMemory
  <1>2. Tables'
    BY DEF IInv, Tables, OutOfMemory
  <1>3. \A p \in Processes : Mode(p)' = Mode(p) /\ process'[p] = process[p] /\ held'[p] = held[p]
    BY DEF OutOfMemory, Mode
  <1> QED  BY <1>1, <1>2, <1>3 DEF IInv

-----------------------------------------------------------------------------
(* Every action keeps it.                                                  *)

LEMMA AddressIsResult ==
    ASSUME NEW h, NEW p \in Nat, p <= Break(h), h.pages \in Nat, ~ AddressSpaceIsFull(h)
    PROVE  p \in Results /\ p # Void
  <1>1. p # Void
    BY VoidAssumption
  <1>2. h.pages <= AddressPages /\ AddressPages \in Nat /\ PageSize \in Nat
    BY AddressAssumption, PageAssumption DEF AddressSpaceIsFull
  <1>3. h.pages * PageSize <= AddressPages * PageSize
    BY ONLY <1>2, h.pages \in Nat
  <1>4. h.pages * PageSize \in Nat /\ AddressPages * PageSize \in Nat
    BY <1>2
  <1>5. p <= AddressPages * PageSize
    BY <1>3, <1>4 DEF Break
  <1> QED  BY <1>1, <1>4, <1>5 DEF Results

LEMMA HandlerLists ==
    ASSUME NEW list \in Seq(Handlers), NEW handler \in Handlers
    PROVE  Append(list, handler) \in Seq(Handlers)
  OBVIOUS

LEMMA HandlersLeft ==
    ASSUME NEW list \in Seq(Handlers), list # << >>
    PROVE  Front(list) \in Seq(Handlers)
  BY DEF Front

LEMMA VisitCallKeeps ==
    ASSUME IInv, NEW site \in Sites, VisitCall(site)
    PROVE  IInv'
  <1> PICK no \in BOOLEAN : no = FALSE
    OBVIOUS
  <1>1. Executing /\ SameRun /\ held' = held /\ ExitValue' = ExitValue
        /\ AtExitHandlers' = AtExitHandlers
    BY DEF VisitCall
  <1> PICK r : r = EnterCall(Current, site, no)
    OBVIOUS
  <1>2. process' = [process EXCEPT ![State] = r]
    BY DEF VisitCall, SetProcess
  <1>3. PICK n : /\ State \in Processes
                 /\ IsProper(Current, n, held[State]) /\ n > 0 /\ ~ External(Current.ECStack, n)
    BY <1>1, RunningFacts
  <1>4. /\ IsProper(r, n + 1, held[State]) /\ r.Status = Current.Status
        /\ r.ECStack[n + 1].external = no
    <2>1. no \in BOOLEAN /\ site \in Sites /\ r = EnterCall(Current, site, no)
      OBVIOUS
    <2> QED  BY ONLY <1>3, <2>1, ProperCall
  <1>5. ~ External(r.ECStack, n + 1)
    BY <1>4 DEF External
  <1>6. held' = [held EXCEPT ![State] = held[State]]
    BY <1>1, <1>3, SameHeld
  <1>7. ExitValue' \in Results /\ AtExitHandlers' \in Seq(Handlers)
    BY <1>1 DEF IInv, Globals
  <1> QED  BY <1>1, <1>2, <1>4, <1>5, <1>6, <1>7, RunStep

LEMMA CallExternalKeeps ==
    ASSUME IInv, NEW site \in Sites, NEW value \in Results, Executing,
           SetProcess(ReturnAtOnce(Current, site, value)),
           SameRun, ExitValue' = ExitValue, AtExitHandlers' \in Seq(Handlers), held' = held
    PROVE  IInv'
  <1> PICK r : r = ReturnAtOnce(Current, site, value)
    OBVIOUS
  <1>2. process' = [process EXCEPT ![State] = r]
    BY DEF SetProcess
  <1>3. PICK n : /\ State \in Processes
                 /\ IsProper(Current, n, held[State]) /\ n > 0 /\ ~ External(Current.ECStack, n)
    BY RunningFacts
  <1>4. /\ IsProper(r, n, held[State]) /\ r.Status = Current.Status
        /\ ~ External(r.ECStack, n)
    <2>1. /\ value \in Results \cup {Void} /\ site \in Sites
          /\ r = ReturnAtOnce(Current, site, value)
      OBVIOUS
    <2> QED  BY ONLY <1>3, <2>1, ProperAtOnce
  <1>6. held' = [held EXCEPT ![State] = held[State]]
    BY <1>3, SameHeld
  <1>7. ExitValue' \in Results
    BY DEF IInv, Globals
  <1> QED  BY <1>2, <1>4, <1>6, <1>7, RunStep

LEMMA ZeroIsResult == 0 \in Results
  BY AddressAssumption, PageAssumption DEF Results

LEMMA VisitAllocaKeeps ==
    ASSUME IInv, NEW size \in Sizes, VisitAlloca(size)
    PROVE  IInv'
  <1> PICK a : a = AllocIn(Current.MObjects, size)
    OBVIOUS
  <1> PICK m : m = Depth(Current)
    OBVIOUS
  <1>1. CASE AddressSpaceIsFull(a.heap)
    <2>1. OutOfMemory
      BY <1>1 DEF VisitAlloca
    <2> QED  BY <2>1, OutOfMemoryKeeps
  <1>2. CASE ~ AddressSpaceIsFull(a.heap)
    <2> PICK r : r = AfterAlloca(Current, m, a.heap, a.ptr)
      OBVIOUS
    <2> PICK hold : hold = With(held[State], a.ptr, Block(size, "frame"))
      OBVIOUS
    <2>1. Executing /\ SameRun /\ ExitValue' = ExitValue /\ AtExitHandlers' = AtExitHandlers
      BY <1>2 DEF VisitAlloca
    <2>2. process' = [process EXCEPT ![State] = r]
      BY <1>2 DEF VisitAlloca, SetProcess, AfterAlloca
    <2>3. held' = [held EXCEPT ![State] = hold]
      BY <1>2 DEF VisitAlloca, Hold
    <2>4. /\ IsProper(Current, m, held[State]) /\ m > 0 /\ ~ External(Current.ECStack, m)
      BY <2>1, RunningFacts
    <2>5. size \in Nat
      BY SizesAssumption
    <2>6. /\ IsProper(r, m, hold) /\ r.Status = Current.Status /\ ~ External(r.ECStack, m)
      BY <2>4, <2>5, ProperAlloca
    <2>7. ExitValue' \in Results /\ AtExitHandlers' \in Seq(Handlers)
      BY <2>1 DEF IInv, Globals
    <2> QED  BY <2>1, <2>2, <2>3, <2>6, <2>7, RunStep
  <1> QED  BY <1>1, <1>2

LEMMA VisitReturnKeeps ==
    ASSUME IInv, NEW value \in ExitCodes \cup {Void}, VisitReturn(value)
    PROVE  IInv'
  <1> PICK r : r = PopStack(Current, value)
    OBVIOUS
  <1> PICK m : m = Depth(Current)
    OBVIOUS
  <1> PICK hold : hold = Without(held[State], Range(Current.ECStack[m].Allocas))
    OBVIOUS
  <1>1. Executing /\ SameRun /\ AtExitHandlers' = AtExitHandlers
    BY DEF VisitReturn
  <1>2. process' = [process EXCEPT ![State] = r]
    BY DEF VisitReturn, SetProcess
  <1>3. held' = [held EXCEPT ![State] = hold]
    BY DEF VisitReturn, LetGo
  <1>4. /\ IsProper(Current, m, held[State]) /\ m > 0 /\ ~ External(Current.ECStack, m)
    BY <1>1, RunningFacts
  <1>5. value \in Results \cup {Void}
    BY DEF Results
  <1>6. /\ IsProper(r, m - 1, hold) /\ r.Status = Current.Status /\ ~ External(r.ECStack, m - 1)
    BY <1>4, <1>5, ProperReturn
  <1>7. ExitValue' \in Results /\ AtExitHandlers' \in Seq(Handlers)
    <2>1. ExitValue' = IF Depth(Current) = 1 /\ value # Void THEN value ELSE ExitValue
      BY DEF VisitReturn, ExitValueAfter
    <2> QED  BY <1>1, <1>5, <2>1 DEF IInv, Globals
  <1> QED  BY <1>1, <1>2, <1>3, <1>6, <1>7, RunStep

LEMMA CallMallocKeeps ==
    ASSUME IInv, NEW site \in Sites, NEW size \in Sizes, CallMalloc(site, size)
    PROVE  IInv'
  <1> PICK a : a = AllocIn(Current.MObjects, size)
    OBVIOUS
  <1>1. CASE AddressSpaceIsFull(a.heap)
    <2>1. OutOfMemory
      BY <1>1 DEF CallMalloc
    <2> QED  BY <2>1, OutOfMemoryKeeps
  <1>2. CASE ~ AddressSpaceIsFull(a.heap)
    <2> PICK mid : mid = [Current EXCEPT !.MObjects = a.heap]
      OBVIOUS
    <2> PICK r : r = ReturnAtOnce(mid, site, a.ptr)
      OBVIOUS
    <2> PICK owner \in {"malloc", "main"} : owner = "malloc"
      OBVIOUS
    <2> PICK hold : hold = With(held[State], a.ptr, Block(size, owner))
      OBVIOUS
    <2>1. Executing /\ SameRun /\ ExitValue' = ExitValue /\ AtExitHandlers' = AtExitHandlers
      BY <1>2 DEF CallMalloc
    <2>2. process' = [process EXCEPT ![State] = r]
      BY <1>2 DEF CallMalloc, SetProcess
    <2>3. held' = [held EXCEPT ![State] = hold]
      BY <1>2 DEF CallMalloc, Hold
    <2>4. PICK n : /\ IsProper(Current, n, held[State]) /\ n > 0
                   /\ ~ External(Current.ECStack, n)
      BY <2>1, RunningFacts
    <2>5. size \in Nat
      BY SizesAssumption
    <2>6. /\ IsProper(mid, n, hold) /\ mid.ECStack = Current.ECStack
          /\ mid.Status = Current.Status /\ mid.MObjects = a.heap
          /\ a.ptr \in Nat /\ a.ptr <= Break(a.heap)
      BY <2>4, <2>5, ProperAlloc
    <2>7. a.heap.pages \in Nat
      <3>1. GoodHeap(a.heap)
        BY <2>6 DEF IsProper, Holds
      <3> QED  BY <3>1 DEF GoodHeap, NoHeap, HeapIsSound, Heap
    <2>8. a.ptr \in Results \cup {Void}
      BY <1>2, <2>6, <2>7, AddressIsResult
    <2>9. /\ IsProper(r, n, hold) /\ r.Status = mid.Status /\ ~ External(r.ECStack, n)
      <3>1. /\ n > 0 /\ ~ External(mid.ECStack, n) /\ site \in Sites
            /\ r = ReturnAtOnce(mid, site, a.ptr)
        BY <2>4, <2>6
      <3> QED  BY ONLY <2>6, <2>8, <3>1, ProperAtOnce
    <2>10. ExitValue' \in Results /\ AtExitHandlers' \in Seq(Handlers)
      BY <2>1 DEF IInv, Globals
    <2> QED  BY <2>1, <2>2, <2>3, <2>6, <2>9, <2>10, RunStep
  <1> QED  BY <1>1, <1>2

LEMMA CallFreeKeeps ==
    ASSUME IInv, NEW site \in Sites, CallFree(site)
    PROVE  IInv'
  <1>1. Executing /\ SameRun /\ ExitValue' = ExitValue /\ AtExitHandlers' = AtExitHandlers
    BY DEF CallFree
  <1>2. PICK p \in DOMAIN held[State] :
            /\ held[State][p].owner = "malloc"
            /\ SetProcess(ReturnAtOnce([Current EXCEPT !.MObjects = FreeIn(@, p)], site, Void))
            /\ LetGo({p})
    BY DEF CallFree
  <1> PICK mid : mid = [Current EXCEPT !.MObjects = FreeIn(@, p)]
    OBVIOUS
  <1> PICK r : r = ReturnAtOnce(mid, site, Void)
    OBVIOUS
  <1> PICK hold : hold = Without(held[State], {p})
    OBVIOUS
  <1>3. process' = [process EXCEPT ![State] = r] /\ held' = [held EXCEPT ![State] = hold]
    BY <1>2 DEF SetProcess, LetGo
  <1>4. PICK n : /\ IsProper(Current, n, held[State]) /\ n > 0
                 /\ ~ External(Current.ECStack, n)
    BY <1>1, RunningFacts
  <1>5. /\ IsProper(mid, n, hold) /\ mid.ECStack = Current.ECStack /\ mid.Status = Current.Status
    BY <1>2, <1>4, ProperFree
  <1>6. /\ IsProper(r, n, hold) /\ r.Status = mid.Status /\ ~ External(r.ECStack, n)
    <2>1. /\ n > 0 /\ ~ External(mid.ECStack, n) /\ site \in Sites
          /\ r = ReturnAtOnce(mid, site, Void) /\ Void \in Results \cup {Void}
      BY <1>4, <1>5
    <2> QED  BY ONLY <1>5, <2>1, ProperAtOnce
  <1>7. ExitValue' \in Results /\ AtExitHandlers' \in Seq(Handlers)
    BY <1>1 DEF IInv, Globals
  <1> QED  BY <1>1, <1>3, <1>5, <1>6, <1>7, RunStep

LEMMA CallAtExitKeeps ==
    ASSUME IInv, NEW site \in Sites, NEW handler \in Handlers, CallAtExit(site, handler)
    PROVE  IInv'
  <1>1. /\ Executing /\ SetProcess(ReturnAtOnce(Current, site, 0)) /\ SameRun
        /\ ExitValue' = ExitValue /\ held' = held
        /\ AtExitHandlers' = Append(AtExitHandlers, handler)
    BY DEF CallAtExit
  <1>2. AtExitHandlers' \in Seq(Handlers)
    <2>1. AtExitHandlers \in Seq(Handlers)
      BY DEF IInv, Globals
    <2> QED  BY <1>1, <2>1, HandlerLists
  <1> QED  BY <1>1, <1>2, ZeroIsResult, CallExternalKeeps

LEMMA CallBlockingKeeps ==
    ASSUME IInv, NEW site \in Sites, CallBlocking(site)
    PROVE  IInv'
  <1> PICK yes \in BOOLEAN : yes = TRUE
    OBVIOUS
  <1> PICK mid : mid = EnterCall(Current, site, yes)
    OBVIOUS
  <1> PICK r : r = [mid EXCEPT !.Status = "PS_WAIT"]
    OBVIOUS
  <1>1. /\ Executing /\ process' = [process EXCEPT ![State] = r] /\ PauseFlag' = TRUE
        /\ State' = State /\ running' = running /\ ExitValue' = ExitValue
        /\ AtExitHandlers' = AtExitHandlers /\ exiting' = exiting /\ exited' = exited
        /\ held' = held
    BY DEF CallBlocking, SetProcess
  <1>2. PICK n : /\ State \in Processes
                 /\ IsProper(Current, n, held[State]) /\ n > 0 /\ ~ External(Current.ECStack, n)
    BY <1>1, RunningFacts
  <1>3. /\ IsProper(mid, n + 1, held[State]) /\ mid.ECStack[n + 1].external = yes
    <2>1. yes \in BOOLEAN /\ site \in Sites /\ mid = EnterCall(Current, site, yes)
      OBVIOUS
    <2> QED  BY ONLY <1>2, <2>1, ProperCall
  <1> PICK wait \in Statuses : wait = "PS_WAIT"
    BY DEF Statuses
  <1>4. IsProper(r, n + 1, held[State]) /\ r.ECStack = mid.ECStack /\ r.Status = wait
    <2>1. wait \in Statuses /\ r = [mid EXCEPT !.Status = wait]
      OBVIOUS
    <2> QED  BY ONLY <1>3, <2>1, ProperStatus
  <1>5. External(r.ECStack, n + 1)
    <2>1. n \in Nat
      BY <1>2, ProperFacts
    <2>2. n + 1 > 0
      BY ONLY <2>1
    <2>3. yes = TRUE
      OBVIOUS
    <2> QED  BY ONLY <1>3, <1>4, <2>2, <2>3 DEF External
  <1>6. Situated(r, n + 1, "paused")
    BY <1>4, <1>5 DEF Situated
  <1>7. running = TRUE
    BY <1>1 DEF Executing, IInv, Globals
  <1>8. Mode(State)' = "paused" /\ \A q \in Processes : q # State => Mode(q)' = Mode(q)
    BY <1>1, <1>7 DEF Mode
  <1>9. held' = [held EXCEPT ![State] = held[State]]
    BY <1>1, <1>2, SameHeld
  <1>10. Globals'
    BY <1>1 DEF IInv, Globals
  <1>11. Good(r, held[State], Mode(State)')
    BY <1>4, <1>6, <1>8 DEF Good
  <1> QED  BY <1>1, <1>2, <1>8, <1>9, <1>10, <1>11, OneStep

(* What exit and the return of a handler have in common: a process with an *)
(* empty stack, which ends the verifier or runs the next handler.          *)
LEMMA RunLastHandlerKeeps ==
    ASSUME IInv, State \in Processes, NEW p, NEW hold, IsProper(p, 0, hold),
           p.Status = Current.Status, Current.Status # "NONE", Mode(State) = "runs",
           RunLastHandler(p), held' = [held EXCEPT ![State] = hold],
           State' = State, running' = running, PauseFlag' = PauseFlag, ExitValue' = ExitValue,
           exiting' \in BOOLEAN
    PROVE  IInv'
  <1>1. \A q : Mode(q)' = Mode(q)
    BY DEF Mode
  <1>2. CASE AtExitHandlers = << >>
    <2>1. exited' = "exit" /\ process' = [process EXCEPT ![State] = p]
          /\ AtExitHandlers' = AtExitHandlers
      BY <1>2 DEF RunLastHandler, SetProcess
    <2>2. Globals'
      BY <2>1 DEF IInv, Globals
    <2>3. Situated(p, 0, "runs")
      BY DEF Situated, External
    <2>4. Good(p, hold, Mode(State)')
      BY <1>1, <2>3 DEF Good
    <2> QED  BY <1>1, <2>1, <2>2, <2>4, OneStep
  <1>3. CASE AtExitHandlers # << >>
    <2> PICK r : r = Push(p, FALSE)
      OBVIOUS
    <2>1. exited' = exited /\ process' = [process EXCEPT ![State] = r]
          /\ AtExitHandlers' = Front(AtExitHandlers)
      BY <1>3 DEF RunLastHandler, SetProcess
    <2>2. Front(AtExitHandlers) \in Seq(Handlers)
      BY <1>3, HandlersLeft DEF IInv, Globals
    <2>3. Globals'
      BY <2>1, <2>2 DEF IInv, Globals
    <2>4. IsProper(r, 1, hold) /\ r.Status = p.Status /\ ~ External(r.ECStack, 1)
      BY ProperPush
    <2>5. Situated(r, 1, "runs")
      BY <2>4 DEF Situated
    <2>6. Good(r, hold, Mode(State)')
      BY <1>1, <2>4, <2>5 DEF Good
    <2> QED  BY <1>1, <2>1, <2>3, <2>6, OneStep
  <1> QED  BY <1>2, <1>3

LEMMA CallExitKeeps ==
    ASSUME IInv, CallExit
    PROVE  IInv'
  <1> PICK p : p = [Current EXCEPT !.ECStack = << >>]
    OBVIOUS
  <1> PICK hold : hold = Lost(held[State])
    OBVIOUS
  <1>1. /\ Executing /\ exiting' = TRUE /\ RunLastHandler(p)
        /\ State' = State /\ running' = running /\ PauseFlag' = PauseFlag
        /\ ExitValue' = ExitValue
    BY DEF CallExit
  <1>2. held' = [held EXCEPT ![State] = hold]
    BY DEF CallExit, Lost
  <1>3. PICK n : /\ State \in Processes /\ Mode(State) = "runs" /\ Current.Status # "NONE"
                 /\ IsProper(Current, n, held[State])
    BY <1>1, RunningFacts
  <1>4. IsProper(p, 0, hold) /\ p.Status = Current.Status
    BY <1>3, ProperExit
  <1> QED  BY <1>1, <1>2, <1>3, <1>4, RunLastHandlerKeeps

LEMMA HandlerReturnsKeeps ==
    ASSUME IInv, HandlerReturns
    PROVE  IInv'
  <1>1. /\ running /\ Current.ECStack = << >> /\ RunLastHandler(Current)
        /\ State' = State /\ running' = running /\ PauseFlag' = PauseFlag
        /\ ExitValue' = ExitValue /\ exiting' = exiting /\ held' = held
    BY DEF HandlerReturns
  <1>2. State \in Processes /\ exiting' \in BOOLEAN
    BY <1>1 DEF IInv, Globals
  <1>3. PICK n : IsProper(Current, n, held[State]) /\ Situated(Current, n, Mode(State))
    BY <1>2 DEF IInv, Good, Current
  <1>4. n = 0
    BY <1>1, <1>3, ProperFacts
  <1>5. Mode(State) \in {"paused", "runs"}
    BY <1>1 DEF Mode
  <1>6. Mode(State) = "runs" /\ Current.Status # "NONE"
    BY <1>3, <1>4, <1>5 DEF Situated, External
  <1>7. held' = [held EXCEPT ![State] = held[State]]
    BY <1>1, <1>2, SameHeld
  <1> QED  BY <1>1, <1>2, <1>3, <1>4, <1>6, <1>7, RunLastHandlerKeeps

LEMMA AwayFacts ==
    ASSUME IInv, ~ running, NEW p \in Processes
    PROVE  /\ Mode(p) = "away"
           /\ \E n : /\ IsProper(process[p], n, held[p]) /\ Situated(process[p], n, "away")
                     /\ n \in Nat /\ (n = 0 <=> process[p].ECStack = << >>)
  <1>1. Mode(p) = "away"
    BY DEF Mode
  <1>2. PICK n : IsProper(process[p], n, held[p]) /\ Situated(process[p], n, "away")
    BY <1>1 DEF IInv, Good
  <1> QED  BY <1>1, <1>2, ProperFacts

(* The interpreter turns to a process that it left.                        *)
LEMMA TurnStep ==
    ASSUME IInv, ~ running, NEW p \in Processes, NEW r, NEW m, NEW hold,
           process' = [process EXCEPT ![p] = r], held' = [held EXCEPT ![p] = hold],
           IsProper(r, m, hold), r.Status \in {"PS_INITED", "PS_WAIT"},
           ~ External(r.ECStack, m),
           State' = p, running' = TRUE, PauseFlag' = FALSE, ExitValue' = ExitValue,
           AtExitHandlers' = AtExitHandlers, exiting' = exiting, exited' = exited
    PROVE  IInv'
  <1>1. Globals'
    BY DEF IInv, Globals
  <1>2. Mode(p)' = "runs" /\ \A q \in Processes : q # p => Mode(q)' = Mode(q)
    BY DEF Mode
  <1>3. Situated(r, m, "runs")
    BY DEF Situated
  <1>4. Good(r, hold, Mode(p)')
    BY <1>2, <1>3 DEF Good
  <1> QED  BY <1>1, <1>2, <1>4, OneStep

LEMMA HeapTwice ==
    ASSUME NEW r, NEW n, IsProcess(r, n), NEW g, NEW h
    PROVE  [[r EXCEPT !.MObjects = g] EXCEPT !.MObjects = h] = [r EXCEPT !.MObjects = h]
  BY DEF IsProcess

LEMMA StartKeeps ==
    ASSUME IInv, NEW p \in Processes, NEW arity \in MainArities, Start(p, arity)
    PROVE  IInv'
  <1> PICK rec : rec = process[p]
    OBVIOUS
  <1> PICK list : list = AllocIn(rec.MObjects, 2 * WordBytes)
    OBVIOUS
  <1> PICK chars : chars = AllocIn(list.heap, 1)
    OBVIOUS
  <1>1. /\ ~ running /\ rec.Status = "PS_INITED" /\ rec.ECStack = << >>
        /\ ExitValue' = ExitValue /\ AtExitHandlers' = AtExitHandlers /\ exiting' = exiting
    BY DEF Start, Idle
  <1>2. IsProper(rec, 0, held[p])
    BY <1>1, AwayFacts
  <1>3. CASE arity = 2 /\ AddressSpaceIsFull(chars.heap)
    <2>1. OutOfMemory
      BY <1>1, <1>3 DEF Start, OutOfMemory
    <2> QED  BY <2>1, OutOfMemoryKeeps
  <1>4. CASE ~ (arity = 2 /\ AddressSpaceIsFull(chars.heap))
    <2>1. State' = p /\ running' = TRUE /\ PauseFlag' = FALSE /\ exited' = exited
      BY <1>4 DEF Start
    <2> PICK owner \in {"malloc", "main"} : owner = "main"
      OBVIOUS
    <2>2. CASE arity = 2
      <3> PICK one : one = With(held[p], list.ptr, Block(2 * WordBytes, owner))
        OBVIOUS
      <3> PICK two : two = With(one, chars.ptr, Block(1, owner))
        OBVIOUS
      <3> PICK mid : mid = [rec EXCEPT !.MObjects = list.heap]
        OBVIOUS
      <3> PICK full : full = [rec EXCEPT !.MObjects = chars.heap]
        OBVIOUS
      <3> PICK r : r = Push(full, FALSE)
        OBVIOUS
      <3>1. process' = [process EXCEPT ![p] = r]
        BY <1>4, <2>2 DEF Start
      <3>2. held' = [held EXCEPT ![p] = two]
        BY <1>4, <2>2 DEF Start
      <3>3. 2 * WordBytes \in Nat /\ 1 \in Nat
        BY WordAssumption
      <3>4. /\ IsProper(mid, 0, one) /\ mid.ECStack = rec.ECStack
            /\ mid.Status = rec.Status /\ mid.MObjects = list.heap
        BY <1>2, <3>3, ProperAlloc
      <3>5. full = [mid EXCEPT !.MObjects = chars.heap]
        <4>1. IsProcess(rec, 0)
          BY <1>2 DEF IsProper
        <4> QED  BY <4>1, HeapTwice
      <3>6. IsProper(full, 0, two) /\ full.Status = mid.Status
        <4>1. /\ chars = AllocIn(mid.MObjects, 1) /\ two = With(one, chars.ptr, Block(1, owner))
              /\ owner \in {"malloc", "main"}
          BY <3>4
        <4>2. /\ IsProper(full, 0, With(one, chars.ptr, Block(1, owner)))
              /\ full.ECStack = mid.ECStack /\ full.Status = mid.Status
              /\ full.MObjects = chars.heap
              /\ chars.ptr \in Nat /\ chars.ptr <= Break(chars.heap)
          BY ONLY <3>3, <3>4, <3>5, <4>1, ProperAlloc
        <4> QED  BY <4>1, <4>2
      <3>7. IsProper(r, 1, two) /\ r.Status = full.Status /\ ~ External(r.ECStack, 1)
        BY <3>6, ProperPush, ZenonT(60)
      <3>8. r.Status \in {"PS_INITED", "PS_WAIT"}
        BY <1>1, <3>4, <3>6, <3>7
      <3> QED  BY <1>1, <2>1, <3>1, <3>2, <3>7, <3>8, TurnStep
    <2>3. CASE arity # 2
      <3> PICK r : r = Push(rec, FALSE)
        OBVIOUS
      <3>1. process' = [process EXCEPT ![p] = r]
        BY <1>4, <2>3 DEF Start
      <3>2. held' = [held EXCEPT ![p] = held[p]]
        BY <1>4, <2>3 DEF Start
      <3>3. IsProper(r, 1, held[p]) /\ r.Status = rec.Status /\ ~ External(r.ECStack, 1)
        BY <1>2, ProperPush
      <3>4. r.Status \in {"PS_INITED", "PS_WAIT"}
        BY <1>1, <3>3
      <3> QED  BY <1>1, <2>1, <3>1, <3>2, <3>3, <3>4, TurnStep
    <2> QED  BY <2>2, <2>3
  <1> QED  BY <1>3, <1>4

LEMMA RunReturnsKeeps ==
    ASSUME IInv, RunReturns
    PROVE  IInv'
  <1> PICK r : r = IF PauseFlag THEN Current ELSE [Current EXCEPT !.Status = "PS_FINISHED"]
    OBVIOUS
  <1>1. /\ running /\ (PauseFlag \/ Current.ECStack = << >>)
        /\ running' = FALSE /\ process' = [process EXCEPT ![State] = r]
        /\ State' = State /\ PauseFlag' = PauseFlag /\ ExitValue' = ExitValue
        /\ AtExitHandlers' = AtExitHandlers /\ exiting' = exiting /\ exited' = exited
        /\ held' = held
    BY DEF RunReturns, SetProcess
  <1>2. State \in Processes
    BY DEF IInv, Globals
  <1>3. PICK n : IsProper(Current, n, held[State]) /\ Situated(Current, n, Mode(State))
    BY <1>2 DEF IInv, Good, Current
  <1>4. Mode(State)' = "away" /\ \A q \in Processes : q # State => Mode(q)' = Mode(q)
    BY <1>1 DEF Mode
  <1>5. held' = [held EXCEPT ![State] = held[State]]
    BY <1>1, <1>2, SameHeld
  <1>6. Globals'
    BY <1>1 DEF IInv, Globals
  <1>7. Good(r, held[State], "away")
    <2>1. CASE PauseFlag
      <3>1. r = Current /\ Mode(State) = "paused"
        BY <1>1, <2>1 DEF Mode
      <3>2. Situated(r, n, "away")
        BY <1>3, <3>1 DEF Situated
      <3> QED  BY <1>3, <3>1, <3>2 DEF Good
    <2>2. CASE ~ PauseFlag
      <3> PICK finished \in Statuses : finished = "PS_FINISHED"
        BY DEF Statuses
      <3>1. r = [Current EXCEPT !.Status = finished]
        BY <2>2
      <3>2. IsProper(r, n, held[State]) /\ r.ECStack = Current.ECStack /\ r.Status = finished
        BY <1>3, <3>1, ProperStatus
      <3>3. n = 0
        BY <1>1, <1>3, <2>2, ProperFacts
      <3>4. Situated(r, n, "away")
        BY <3>2, <3>3 DEF Situated, External
      <3> QED  BY <3>2, <3>4 DEF Good
    <2> QED  BY <2>1, <2>2
  <1> QED  BY <1>1, <1>2, <1>4, <1>5, <1>6, <1>7, OneStep

LEMMA ResumeKeeps ==
    ASSUME IInv, NEW p \in Processes, Resume(p)
    PROVE  IInv'
  <1> PICK rec : rec = process[p]
    OBVIOUS
  <1> PICK r : r = PopStack(rec, 0)
    OBVIOUS
  <1>1. /\ ~ running /\ rec.Status = "PS_WAIT" /\ State' = p /\ running' = TRUE
        /\ PauseFlag' = FALSE /\ process' = [process EXCEPT ![p] = r]
        /\ ExitValue' = ExitValue /\ AtExitHandlers' = AtExitHandlers /\ exiting' = exiting
        /\ exited' = exited /\ held' = held
    BY DEF Resume, Idle
  <1>2. PICK n : IsProper(rec, n, held[p]) /\ Situated(rec, n, "away") /\ n \in Nat
    BY <1>1, AwayFacts
  <1>3. External(rec.ECStack, n)
    BY <1>1, <1>2 DEF Situated
  <1>4. n > 0 /\ rec.ECStack[n].Allocas = << >>
    <2>1. n > 0 /\ rec.ECStack[n].external
      BY <1>3 DEF External
    <2>2. n \in 1 .. n
      BY <1>2, <2>1
    <2> QED  BY <1>2, <2>1, <2>2 DEF IsProper, InPlace
  <1>5. 0 \in Results \cup {Void}
    BY ZeroIsResult
  <1>6. IsProper(r, n - 1, held[p]) /\ r.Status = rec.Status /\ ~ External(r.ECStack, n - 1)
    BY <1>2, <1>4, <1>5, ProperReturn
  <1>7. held' = [held EXCEPT ![p] = held[p]]
    BY <1>1, SameHeld
  <1>8. r.Status \in {"PS_INITED", "PS_WAIT"}
    BY <1>1, <1>6
  <1> QED  BY <1>1, <1>6, <1>7, <1>8, TurnStep

LEMMA CopyKeeps ==
    ASSUME IInv, NEW p \in Processes, NEW q \in Processes, Copy(p, q)
    PROVE  IInv'
  <1>1. /\ ~ running /\ process' = [process EXCEPT ![q] = process[p]]
        /\ held' = [held EXCEPT ![q] = held[p]]
        /\ State' = State /\ running' = running /\ PauseFlag' = PauseFlag
        /\ ExitValue' = ExitValue /\ AtExitHandlers' = AtExitHandlers
        /\ exiting' = exiting /\ exited' = exited
    BY DEF Copy, Idle
  <1>2. Globals'
    BY <1>1 DEF IInv, Globals
  <1>3. \A x \in Processes : Mode(x) = "away" /\ Mode(x)' = "away"
    BY <1>1 DEF Mode
  <1>4. Good(process[p], held[p], Mode(q)')
    BY <1>3 DEF IInv
  <1> QED  BY <1>1, <1>2, <1>3, <1>4, OneStep

LEMMA InitKeeps == Init => IInv
  <1> SUFFICES ASSUME Init PROVE IInv
    OBVIOUS
  <1> PICK owner \in {"globals", "frame", "malloc", "main", "lost"} : owner = "globals"
    OBVIOUS
  <1> PICK a : a = AllocIn(NoHeap, GlobalSize)
    OBVIOUS
  <1> PICK blocks : blocks = With(NoBlocks, a.ptr, Block(GlobalSize, owner))
    OBVIOUS
  <1>1. Globals
    <2>1. State \in Processes
      BY RanksAssumption DEF Init
    <2>2. << >> \in Seq(Handlers)
      OBVIOUS
    <2> QED  BY <2>1, <2>2, ZeroIsResult DEF Init, Globals
  <1>2. Tables
    BY DEF Init, Tables
  <1>3. \A p \in Processes : Mode(p) = "away"
    BY DEF Init, Mode
  <1>4. Holds(NoHeap, NoBlocks)
    <2>1. DOMAIN NoBlocks = {} /\ IsHold(NoBlocks)
      BY DEF NoBlocks, IsHold
    <2> QED  BY <2>1, NoHeapFacts DEF Holds, GoodHeap
  <1>5. Holds(a.heap, blocks)
    <2>1. GlobalSize \in Nat
      BY SizesAssumption
    <2> QED  BY <1>4, <2>1, AllocHolds
  <1>6. \A i, k, x : ~ Listed(<< >>, 0, i, k, x)
    BY DEF Listed
  <1>7. Owns(<< >>, 0, NoBlocks)
    <2>1. DOMAIN NoBlocks = {}
      BY DEF NoBlocks
    <2> QED  BY <1>6, <2>1 DEF Owns
  <1>8. Owns(<< >>, 0, blocks)
    <2>1. DOMAIN NoBlocks = {} /\ IsHold(NoBlocks)
      BY DEF NoBlocks, IsHold
    <2>2. Block(GlobalSize, owner) \in HeldBlock /\ Block(GlobalSize, owner).owner # "frame"
      BY SizesAssumption, BlockFacts
    <2>3. a.ptr \notin DOMAIN NoBlocks
      BY <2>1
    <2> QED  BY <1>7, <2>1, <2>2, <2>3, OwnsOther
  <1>9. ASSUME NEW h, NEW status \in {"NONE", "PS_INITED"}, NEW hold,
               Holds(h, hold), Owns(<< >>, 0, hold),
               NEW r, r = [ECStack |-> << >>, MObjects |-> h, Status |-> status]
        PROVE  Good(r, hold, "away")
    <2>1. IsStack(<< >>, 0)
      BY DEF IsStack
    <2>2. r.ECStack = << >> /\ r.MObjects = h /\ r.Status = status /\ status \in Statuses
      BY <1>9 DEF Statuses
    <2>3. IsProcess(r, 0)
      BY <1>9, <2>1, <2>2 DEF IsProcess
    <2>4. InPlace(<< >>, 0)
      BY DEF InPlace
    <2>5. IsProper(r, 0, hold)
      BY <1>9, <2>2, <2>3, <2>4 DEF IsProper
    <2>6. Situated(r, 0, "away")
      BY <2>2 DEF Situated, External
    <2> QED  BY <2>5, <2>6 DEF Good
  <1>10. ASSUME NEW p \in Processes
         PROVE  Good(process[p], held[p], "away")
    <2>1. CASE p \in Ranks
      <3>1. process[p] = [ECStack |-> << >>, MObjects |-> a.heap, Status |-> "PS_INITED"]
        BY <2>1 DEF Init, InitialHeap
      <3>2. held[p] = blocks
        BY <2>1 DEF Init, InitialBlocks, InitialHeap
      <3> QED  BY <1>5, <1>8, <1>9, <3>1, <3>2
    <2>2. CASE p \notin Ranks
      <3>1. process[p] = [ECStack |-> << >>, MObjects |-> NoHeap, Status |-> "NONE"]
        BY <2>2 DEF Init
      <3>2. held[p] = NoBlocks
        BY <2>2 DEF Init
      <3> QED  BY <1>4, <1>7, <1>9, <3>1, <3>2
    <2> QED  BY <2>1, <2>2
  <1> QED  BY <1>1, <1>2, <1>3, <1>10 DEF IInv

LEMMA NextKeeps == IInv /\ [Next]_vars => IInv'
  <1> SUFFICES ASSUME IInv, [Next]_vars PROVE IInv'
    OBVIOUS
  <1>1. CASE UNCHANGED vars
    <2>1. \A p : Mode(p)' = Mode(p)
      BY <1>1 DEF vars, Mode
    <2> QED  BY <1>1, <2>1 DEF vars, IInv, Globals, Tables
  <1>2. ASSUME NEW size \in Sizes, VisitAlloca(size) PROVE IInv'
    BY <1>2, VisitAllocaKeeps
  <1>3. ASSUME NEW value \in ExitCodes \cup {Void}, VisitReturn(value) PROVE IInv'
    BY <1>3, VisitReturnKeeps
  <1>4. ASSUME NEW site \in Sites, VisitCall(site) PROVE IInv'
    BY <1>4, VisitCallKeeps
  <1>5. ASSUME NEW site \in Sites, CallFree(site) PROVE IInv'
    BY <1>5, CallFreeKeeps
  <1>6. ASSUME NEW site \in Sites, CallBlocking(site) PROVE IInv'
    BY <1>6, CallBlockingKeeps
  <1>7. ASSUME NEW site \in Sites, CallExternal(site) PROVE IInv'
    <2>1. AtExitHandlers' \in Seq(Handlers)
      BY <1>7 DEF CallExternal, IInv, Globals
    <2>2. /\ Executing /\ SetProcess(ReturnAtOnce(Current, site, 0)) /\ SameRun
          /\ ExitValue' = ExitValue /\ held' = held
      BY <1>7 DEF CallExternal
    <2> QED  BY <2>1, <2>2, ZeroIsResult, CallExternalKeeps
  <1>8. ASSUME NEW site \in Sites, NEW size \in Sizes, CallMalloc(site, size) PROVE IInv'
    BY <1>8, CallMallocKeeps
  <1>9. ASSUME NEW site \in Sites, NEW handler \in Handlers, CallAtExit(site, handler)
        PROVE  IInv'
    BY <1>9, CallAtExitKeeps
  <1>10. CASE CallExit
    BY <1>10, CallExitKeeps
  <1>11. CASE HandlerReturns
    BY <1>11, HandlerReturnsKeeps
  <1>12. CASE RunReturns
    BY <1>12, RunReturnsKeeps
  <1>13. ASSUME NEW p \in Processes, NEW arity \in MainArities, Start(p, arity) PROVE IInv'
    BY <1>13, StartKeeps
  <1>14. ASSUME NEW p \in Processes, Resume(p) PROVE IInv'
    BY <1>14, ResumeKeeps
  <1>15. ASSUME NEW p \in Processes, NEW q \in Processes, Copy(p, q) PROVE IInv'
    BY <1>15, CopyKeeps
  <1> QED  BY <1>1, <1>2, <1>3, <1>4, <1>5, <1>6, <1>7, <1>8, <1>9, <1>10, <1>11, <1>12,
              <1>13, <1>14, <1>15 DEF Next

-----------------------------------------------------------------------------
(* What it means for the properties of the runs.                           *)

LEMMA ProcessMeaning ==
    ASSUME IInv, NEW p \in Processes
    PROVE  \E n : IsProper(process[p], n, held[p]) /\ Situated(process[p], n, Mode(p))
  BY DEF IInv, Good

LEMMA HeapMeaning ==
    ASSUME NEW h, GoodHeap(h)
    PROVE  /\ h \in Heap /\ ListIsSound(h)
           /\ h.list = << >> => h = NoHeap
  <1>1. CASE h = NoHeap
    <2>1. h \in Heap /\ h.list = << >>
      BY <1>1 DEF NoHeap, Heap
    <2> QED  BY <1>1, <2>1 DEF ListIsSound
  <1>2. CASE HeapIsSound(h)
    <2>1. h \in Heap
      BY <1>2 DEF HeapIsSound
    <2> QED  BY <1>2, <2>1, HeapIsSoundMeaning
  <1> QED  BY <1>1, <1>2 DEF GoodHeap

LEMMA SoundMeaning == IInv => HeapListsAreSound
  <1> SUFFICES ASSUME IInv, NEW p \in Processes PROVE ListIsSound(process[p].MObjects)
    BY DEF HeapListsAreSound
  <1> QED  BY ProcessMeaning, HeapMeaning DEF IsProper, Holds

LEMMA IntactMeaning == IInv => HeldBlocksAreIntact
  <1> SUFFICES ASSUME IInv, NEW p \in Processes
               PROVE  /\ UsedAt(process[p].MObjects) = DOMAIN held[p]
                      /\ \A address \in DOMAIN held[p] :
                            UsedSize(process[p].MObjects, address) >= held[p][address].size
    BY DEF HeldBlocksAreIntact
  <1>1. Holds(process[p].MObjects, held[p])
    BY ProcessMeaning DEF IsProper
  <1> QED  BY <1>1, HoldsMeaning

LEMMA AllocasMeaning == IInv => FramesOwnTheirAllocas
  <1> SUFFICES ASSUME IInv, NEW p \in Processes
               PROVE  LET frames == DOMAIN process[p].ECStack
                          owned(i) == process[p].ECStack[i].Allocas
                      IN /\ UNION {Range(owned(i)) : i \in frames}
                                = {a \in DOMAIN held[p] : held[p][a].owner = "frame"}
                         /\ \A i \in frames : IsInjective(owned(i))
                         /\ \A i, j \in frames : i # j => Range(owned(i)) \cap Range(owned(j)) = {}
    BY DEF FramesOwnTheirAllocas
  <1>1. PICK n : IsProper(process[p], n, held[p])
    BY ProcessMeaning
  <1>2. IsStack(process[p].ECStack, n) /\ Owns(process[p].ECStack, n, held[p])
    BY <1>1, ProperFacts DEF IsProper
  <1> QED  BY <1>2, OwnsMeaning

LEMMA PlaceMeaning ==
    ASSUME IInv, NEW p \in Processes
    PROVE  FramesAreInPlace(p) /\ (process[p].Status = "NONE" => process[p].ECStack = << >>)
  <1> PICK st : st = process[p].ECStack
    OBVIOUS
  <1>1. PICK n : IsProper(process[p], n, held[p]) /\ Situated(process[p], n, Mode(p))
    BY ProcessMeaning
  <1>2. /\ n \in Nat /\ n = Len(st) /\ (n = 0 <=> st = << >>)
        /\ \A i \in 1 .. n : st[i] \in Frame
    BY <1>1, ProperFacts
  <1>3. InPlace(st, n)
    BY <1>1 DEF IsProper
  <1>4. process[p].Status = "NONE" => st = << >>
    BY <1>1, <1>2 DEF Situated
  <1>5. \A i \in 1 .. n : st[i].Caller = NULL <=> i = n
    BY <1>3 DEF InPlace
  <1>6. ASSUME NEW i \in 1 .. n, st[i].external
        PROVE  /\ i = n /\ n >= 2
               /\ st[i].Allocas = << >>
               /\ process[p].Status = "PS_WAIT"
               /\ ~ (running /\ State = p /\ ~ PauseFlag)
    <2>1. i = n /\ n >= 2 /\ st[i].Allocas = << >>
      BY <1>3, <1>6 DEF InPlace
    <2>2. st[i].external \in BOOLEAN
      BY <1>2, FrameFacts
    <2>3. External(st, n)
      BY <1>2, <1>6, <2>1, <2>2 DEF External
    <2>4. process[p].Status = "PS_WAIT" /\ Mode(p) # "runs"
      BY <1>1, <2>3 DEF Situated
    <2> QED  BY <2>1, <2>4 DEF Mode
  <1> QED  BY <1>2, <1>4, <1>5, <1>6 DEF FramesAreInPlace

LEMMA PausedMeaning ==
    ASSUME IInv
    PROVE  PausedInCall /\ (running => Current.Status # "NONE")
  <1> PICK st : st = Current.ECStack
    OBVIOUS
  <1>1. State \in Processes
    BY DEF IInv, Globals
  <1>2. PICK n : IsProper(Current, n, held[State]) /\ Situated(Current, n, Mode(State))
    BY <1>1, ProcessMeaning DEF Current
  <1>3. running => Current.Status # "NONE"
    BY <1>2 DEF Situated, Mode
  <1>4. /\ n \in Nat /\ n = Len(st) /\ (n = 0 <=> st = << >>)
    BY <1>2, ProperFacts
  <1>5. ASSUME running, PauseFlag
        PROVE  Current.Status = "PS_WAIT" /\ st # << >> /\ Last(st).external
    <2>1. External(st, n) /\ Current.Status = "PS_WAIT"
      BY <1>2, <1>5 DEF Situated, Mode
    <2> QED  BY <1>4, <2>1 DEF External, Last
  <1> QED  BY <1>3, <1>5 DEF PausedInCall

LEMMA WaitMeaning == IInv => LeftProcessesWait
  <1> SUFFICES ASSUME IInv, NEW p \in Processes,
                      process[p].Status \in {"PS_WAIT", "PS_FINISHED"},
                      ~ (running /\ State = p)
               PROVE  LET stack == process[p].ECStack
                          n     == Len(stack)
                      IN IF process[p].Status = "PS_FINISHED" THEN n = 0
                         ELSE n >= 2 /\ stack[n].external /\ stack[n - 1].Caller # NULL
    BY DEF LeftProcessesWait
  <1> PICK st : st = process[p].ECStack
    OBVIOUS
  <1>1. PICK n : IsProper(process[p], n, held[p]) /\ Situated(process[p], n, Mode(p))
    BY ProcessMeaning
  <1>2. n \in Nat /\ n = Len(st)
    BY <1>1, ProperFacts
  <1>3. Mode(p) = "away"
    BY DEF Mode
  <1>4. CASE process[p].Status = "PS_FINISHED"
    BY <1>1, <1>2, <1>3, <1>4 DEF Situated
  <1>5. CASE process[p].Status = "PS_WAIT"
    <2>1. External(st, n) /\ InPlace(st, n)
      BY <1>1, <1>3, <1>5 DEF Situated, IsProper
    <2>2. n > 0 /\ st[n].external /\ n \in 1 .. n
      BY <1>2, <2>1 DEF External
    <2>3. n >= 2
      BY <2>1, <2>2 DEF InPlace
    <2>4. n - 1 \in 1 .. n /\ n - 1 # n
      BY ONLY <1>2, <2>3
    <2>5. st[n - 1].Caller # NULL
      BY ONLY <2>1, <2>4 DEF InPlace
    <2> QED  BY <1>2, <1>5, <2>2, <2>3, <2>5
  <1> QED  BY <1>4, <1>5

LEMMA TypeMeaning == IInv => TypeOK
  <1> SUFFICES ASSUME IInv PROVE TypeOK
    OBVIOUS
  <1>1. ASSUME NEW p \in Processes
        PROVE  process[p] \in ProcessRecord /\ held[p] \in [DOMAIN held[p] -> HeldBlock]
    <2>1. PICK n : IsProper(process[p], n, held[p])
      BY ProcessMeaning
    <2>2. IsProcess(process[p], n) /\ Holds(process[p].MObjects, held[p])
      BY <2>1 DEF IsProper
    <2>3. process[p].MObjects \in Heap
      BY <2>2, HeapMeaning DEF Holds
    <2>4. process[p].ECStack \in Seq(Frame) /\ process[p].Status \in Statuses
      BY <2>2 DEF IsProcess, IsStack
    <2>5. process[p] \in ProcessRecord
      BY <2>2, <2>3, <2>4 DEF IsProcess, ProcessRecord
    <2> QED  BY <2>2, <2>5 DEF Holds, IsHold
  <1>2. process \in [Processes -> ProcessRecord] /\ DOMAIN held = Processes
    BY <1>1 DEF IInv, Tables
  <1> QED  BY <1>1, <1>2 DEF IInv, Globals, TypeOK

LEMMA InvMeaning == IInv => InterpreterInv
  <1> SUFFICES ASSUME IInv PROVE InterpreterInv
    OBVIOUS
  <1>1. \A p \in Processes : process[p].MObjects.list = << >> => process[p].MObjects = NoHeap
    BY ProcessMeaning, HeapMeaning DEF IsProper, Holds
  <1> QED  BY <1>1, TypeMeaning, PlaceMeaning, PausedMeaning, SoundMeaning, IntactMeaning,
              AllocasMeaning, WaitMeaning DEF InterpreterInv

THEOREM ProcessesStayProper == Spec => []IInv
  <1>1. Init => IInv
    BY InitKeeps
  <1>2. IInv /\ [Next]_vars => IInv'
    BY NextKeeps
  <1> QED  BY <1>1, <1>2, PTL DEF Spec

(* The invariant of the run: the types, the places of the frames, the      *)
(* pauses and the four properties below, of every program on any number of *)
(* processes.                                                              *)
THEOREM InterpreterIsSound == Spec => []InterpreterInv
  BY ProcessesStayProper, InvMeaning, PTL

(* No history of allocations, returns, exits and copies leaves a hole, an  *)
(* overlap or two free neighbours in the list of a process                 *)
(* (MemoryObjects::alloc and free).                                        *)
THEOREM HeapListsStaySound == Spec => []HeapListsAreSound
  BY ProcessesStayProper, SoundMeaning, PTL

(* The used entries of a process are the blocks its program holds, at      *)
(* least as large as asked for: no return, free or exit takes a block of   *)
(* another frame or process, and none is lost (ExecutionContext::free).    *)
THEOREM BlocksStayIntact == Spec => []HeldBlocksAreIntact
  BY ProcessesStayProper, IntactMeaning, PTL

(* Every block of alloca is listed by one frame, once, so that the return  *)
(* of that frame frees it and no other return does.                        *)
THEOREM AllocasStayOwned == Spec => []FramesOwnTheirAllocas
  BY ProcessesStayProper, AllocasMeaning, PTL

(* resumeRun finds the frame of the external call on top, and under it a   *)
(* frame that knows the call; a finished process has no frame.             *)
THEOREM LeftProcessesKeepWaiting == Spec => []LeftProcessesWait
  BY ProcessesStayProper, WaitMeaning, PTL

-----------------------------------------------------------------------------
(* The interpreter implements CallStack: every step of it is one step of   *)
(* plain procedure calls, or none.                                         *)

(* Sequences of activations.                                               *)

Activated == [pending : Sites \cup {NULL}, got : (Sites \X Results) \cup {NULL}]

IsActs(acts, m) == acts \in Seq(Activated) /\ m = Len(acts)

LEMMA ActsFacts ==
    ASSUME NEW acts, NEW m, IsActs(acts, m)
    PROVE  /\ m \in Nat /\ DOMAIN acts = 1 .. m
           /\ \A i \in 1 .. m : acts[i] \in Activated
           /\ m = 0 <=> acts = << >>
  BY DEF IsActs

LEMMA ActsEqual ==
    ASSUME NEW acts, NEW other, NEW m, IsActs(acts, m), IsActs(other, m),
           \A i \in 1 .. m : acts[i] = other[i]
    PROVE  acts = other
  <1>1. acts \in Seq(Activated) /\ other \in Seq(Activated) /\ Len(acts) = Len(other)
    BY DEF IsActs
  <1>2. \A i \in 1 .. Len(acts) : acts[i] = other[i]
    BY DEF IsActs
  <1> QED  BY ONLY <1>1, <1>2, SeqEqual

ChangeAct(acts, i, a) == [acts EXCEPT ![i] = a]

LEMMA ChangeActFacts ==
    ASSUME NEW acts, NEW m, IsActs(acts, m), NEW i \in 1 .. m, NEW a \in Activated
    PROVE  /\ IsActs(ChangeAct(acts, i, a), m)
           /\ ChangeAct(acts, i, a)[i] = a
           /\ \A j \in 1 .. m : j # i => ChangeAct(acts, i, a)[j] = acts[j]
  BY DEF IsActs, ChangeAct

PushAct(acts, a) == Append(acts, a)

LEMMA PushActFacts ==
    ASSUME NEW acts, NEW m, IsActs(acts, m), NEW a \in Activated
    PROVE  /\ IsActs(PushAct(acts, a), m + 1)
           /\ PushAct(acts, a)[m + 1] = a
           /\ \A j \in 1 .. m : PushAct(acts, a)[j] = acts[j]
  BY DEF IsActs, PushAct

DropAct(acts, m) == SubSeq(acts, 1, m - 1)

LEMMA DropActFacts ==
    ASSUME NEW acts, NEW m, IsActs(acts, m), m > 0
    PROVE  /\ IsActs(DropAct(acts, m), m - 1)
           /\ \A j \in 1 .. m - 1 : DropAct(acts, m)[j] = acts[j]
  BY DEF IsActs, DropAct

LEMMA ActivationFacts ==
    ASSUME NEW frame \in Frame
    PROVE  /\ Activation(frame) \in Activated
           /\ Activation(frame).pending = frame.Caller
           /\ Activation(frame).got = frame.Value
           /\ Activation(frame) = [pending |-> frame.Caller, got |-> frame.Value]
  BY FrameFacts DEF Activation, Activated

-----------------------------------------------------------------------------
(* What a stack looks like from outside: without an external frame.        *)

Own(st, n) == IF External(st, n) THEN n - 1 ELSE n

LEMMA ViewFacts ==
    ASSUME NEW st, NEW n, IsStack(st, n), NEW acts, acts = ActivationsOf(st), NEW m, m = Own(st, n)
    PROVE  /\ IsActs(acts, m)
           /\ \A i \in 1 .. m : acts[i] = Activation(st[i])
  <1> PICK own : own = IF st # << >> /\ Last(st).external THEN Front(st) ELSE st
    OBVIOUS
  <1>1. /\ n \in Nat /\ n = Len(st) /\ (n = 0 <=> st = << >>)
        /\ \A i \in 1 .. n : st[i] \in Frame
    BY StackFacts DEF IsStack
  <1>2. st # << >> /\ Last(st).external <=> External(st, n)
    <2>1. CASE n = 0
      BY <1>1, <2>1 DEF External
    <2>2. CASE n # 0
      <3>1. n \in 1 .. n /\ n > 0
        BY ONLY <1>1, <2>2
      <3>2. st[n].external \in BOOLEAN
        BY <1>1, <3>1, FrameFacts
      <3>3. st # << >> /\ Last(st) = st[n]
        BY <1>1, <2>2 DEF Last
      <3> QED  BY <3>1, <3>2, <3>3 DEF External
    <2> QED  BY <2>1, <2>2
  <1>3. IsStack(own, m) /\ \A i \in 1 .. m : own[i] = st[i]
    <2>1. CASE External(st, n)
      <3>1. n > 0 /\ m = n - 1
        BY <2>1 DEF External, Own
      <3>2. own = Below(st, n)
        BY <1>1, <1>2, <2>1 DEF Front, Below
      <3> QED  BY <3>1, <3>2, BelowFacts
    <2>2. CASE ~ External(st, n)
      BY <1>2, <2>2 DEF Own
    <2> QED  BY <2>1, <2>2
  <1>4. m \in Nat /\ DOMAIN own = 1 .. m /\ \A i \in 1 .. m : own[i] \in Frame
    BY <1>3, StackFacts
  <1>5. acts = [i \in 1 .. m |-> Activation(own[i])]
    BY <1>4 DEF ActivationsOf
  <1>6. \A i \in 1 .. m : Activation(own[i]) \in Activated
    BY <1>4, ActivationFacts
  <1>7. acts \in Seq(Activated) /\ Len(acts) = m
    BY <1>4, <1>5, <1>6
  <1> QED  BY <1>3, <1>5, <1>7 DEF IsActs

LEMMA ViewStep ==
    ASSUME Tables, NEW p \in Processes, NEW r, process' = [process EXCEPT ![p] = r]
    PROVE  /\ Activations[p] = ActivationsOf(process[p].ECStack)
           /\ Activations' = [Activations EXCEPT ![p] = ActivationsOf(r.ECStack)]
  BY DEF Tables, Activations

FreshAct == [pending |-> NULL, got |-> NULL]

Waiting(site) == [pending |-> site, got |-> NULL]

Reply(a, value) ==
    [pending |-> NULL, got |-> IF value = Void THEN a.got ELSE <<a.pending, value>>]

LEMMA ActFacts ==
    /\ FreshAct \in Activated /\ FreshAct.pending = NULL
    /\ \A site \in Sites : /\ Waiting(site) \in Activated
                           /\ Waiting(site).pending = site /\ Waiting(site).got = NULL
  BY DEF FreshAct, Waiting, Activated

LEMMA ReplyFacts ==
    ASSUME NEW a \in Activated, a.pending # NULL, NEW value \in Results \cup {Void}
    PROVE  Reply(a, value) \in Activated
  <1> PICK got : got = IF value = Void THEN a.got ELSE <<a.pending, value>>
    OBVIOUS
  <1>1. a.pending \in Sites /\ a.got \in (Sites \X Results) \cup {NULL}
    BY DEF Activated
  <1>2. got \in (Sites \X Results) \cup {NULL}
    BY <1>1
  <1>3. Reply(a, value) = [pending |-> NULL, got |-> got]
    BY DEF Reply
  <1> QED  BY <1>2, <1>3 DEF Activated

LEMMA CalledView ==
    ASSUME NEW frame \in Frame, NEW site \in Sites
    PROVE  Activation(Called(frame, site)) = Waiting(site)
  <1>1. Called(frame, site).Caller = site /\ Called(frame, site).Value = NULL
    BY CalledFacts
  <1> QED  BY <1>1 DEF Activation, Waiting

LEMMA NewFrameView ==
    ASSUME NEW external \in BOOLEAN
    PROVE  Activation(NewFrame(external)) = FreshAct
  <1>1. NewFrame(external).Caller = NULL /\ NewFrame(external).Value = NULL
    BY NewFrameFacts
  <1> QED  BY <1>1 DEF Activation, FreshAct

LEMMA SetReturnedView ==
    ASSUME NEW frame \in Frame, frame.Caller # NULL, NEW value \in Results \cup {Void}
    PROVE  Activation(SetReturned(frame, value)) = Reply(Activation(frame), value)
  <1>1. /\ SetReturned(frame, value).Caller = NULL
        /\ SetReturned(frame, value).Value =
              IF value = Void THEN frame.Value ELSE <<frame.Caller, value>>
    BY SetReturnedFacts
  <1>2. Activation(frame).pending = frame.Caller /\ Activation(frame).got = frame.Value
    BY ActivationFacts
  <1> QED  BY <1>1, <1>2 DEF Activation, Reply

(* The view of a proper process.                                           *)
LEMMA ProperView ==
    ASSUME NEW r, NEW n, NEW hold, IsProper(r, n, hold), NEW m, m = Own(r.ECStack, n)
    PROVE  /\ IsActs(ActivationsOf(r.ECStack), m)
           /\ \A i \in 1 .. m : ActivationsOf(r.ECStack)[i] = Activation(r.ECStack[i])
  <1>1. IsStack(r.ECStack, n)
    BY ProperFacts
  <1> PICK acts : acts = ActivationsOf(r.ECStack)
    OBVIOUS
  <1>2. IsActs(acts, m) /\ \A i \in 1 .. m : acts[i] = Activation(r.ECStack[i])
    BY <1>1, ViewFacts
  <1> QED  BY <1>2

(* A call of a function of the program, or out of it.                      *)
Calling(external, acts, n, site) ==
    IF external THEN ChangeAct(acts, n, Waiting(site))
    ELSE PushAct(ChangeAct(acts, n, Waiting(site)), FreshAct)

LEMMA CallView ==
    ASSUME NEW r, NEW n, NEW hold, IsProper(r, n, hold), n > 0, ~ External(r.ECStack, n),
           NEW site \in Sites, NEW external \in BOOLEAN, NEW t, t = EnterCall(r, site, external),
           NEW acts, acts = ActivationsOf(r.ECStack), NEW after, after = ActivationsOf(t.ECStack)
    PROVE  after = Calling(external, acts, n, site)
  <1> PICK st : st = r.ECStack
    OBVIOUS
  <1> PICK s : s = t.ECStack
    OBVIOUS
  <1> PICK mid : mid = ChangeAct(acts, n, Waiting(site))
    OBVIOUS
  <1>1. /\ IsProcess(r, n) /\ n \in Nat /\ n > 0 /\ n \in 1 .. n
        /\ st[n] \in Frame
    BY ProperFacts
  <1>2. /\ IsProcess(t, n + 1)
        /\ \A i \in 1 .. n - 1 : s[i] = st[i]
        /\ s[n] = Called(st[n], site)
        /\ s[n + 1] = NewFrame(external)
    <2>1. /\ IsProcess(r, n) /\ n > 0 /\ site \in Sites /\ external \in BOOLEAN
          /\ t = EnterCall(r, site, external)
      BY <1>1
    <2>2. /\ IsProcess(t, n + 1) /\ t.MObjects = r.MObjects /\ t.Status = r.Status
          /\ \A i \in 1 .. n - 1 : t.ECStack[i] = r.ECStack[i]
          /\ t.ECStack[n] = Called(r.ECStack[n], site)
          /\ t.ECStack[n + 1] = NewFrame(external)
      BY ONLY <2>1, EnterCallFacts
    <2> QED  BY <2>2
  <1>3. IsActs(acts, n) /\ \A i \in 1 .. n : acts[i] = Activation(st[i])
    <2>1. Own(st, n) = n
      BY DEF Own
    <2> QED  BY <2>1, ProperView
  <1>4. /\ IsActs(mid, n) /\ mid[n] = Waiting(site)
        /\ \A j \in 1 .. n : j # n => mid[j] = acts[j]
    BY <1>1, <1>3, ActFacts, ChangeActFacts
  <1>5. \A i \in 1 .. n : i = n \/ i \in 1 .. n - 1
    BY ONLY <1>1
  <1>6. Activation(s[n]) = Waiting(site)
    BY <1>1, <1>2, CalledView
  <1>7. \A i \in 1 .. n : mid[i] = Activation(s[i])
    BY ONLY <1>2, <1>3, <1>4, <1>5, <1>6
  <1>8. s[n + 1].external = external
    <2>1. external \in BOOLEAN
      OBVIOUS
    <2>2. NewFrame(external).external = external
      BY ONLY <2>1, NewFrameFacts
    <2> QED  BY <1>2, <2>2
  <1>9. IsStack(s, n + 1) /\ n + 1 > 0
    BY <1>1, <1>2 DEF IsProcess
  <1>10. ASSUME external = TRUE
         PROVE  after = mid
    <2>1. External(s, n + 1)
      BY ONLY <1>8, <1>9, <1>10 DEF External
    <2>2. Own(s, n + 1) = n
      BY <1>1, <2>1 DEF Own
    <2>3. IsActs(after, n) /\ \A i \in 1 .. n : after[i] = Activation(s[i])
      BY <1>9, <2>2, ViewFacts
    <2> QED  BY ONLY <1>4, <1>7, <2>3, ActsEqual
  <1>11. ASSUME external = FALSE
         PROVE  after = PushAct(mid, FreshAct)
    <2> PICK pushed : pushed = PushAct(mid, FreshAct)
      OBVIOUS
    <2>1. ~ External(s, n + 1)
      BY ONLY <1>8, <1>11 DEF External
    <2>2. Own(s, n + 1) = n + 1
      BY <1>1, <2>1 DEF Own
    <2>3. IsActs(after, n + 1) /\ \A i \in 1 .. n + 1 : after[i] = Activation(s[i])
      BY <1>9, <2>2, ViewFacts
    <2>4. /\ IsActs(pushed, n + 1) /\ pushed[n + 1] = FreshAct
          /\ \A j \in 1 .. n : pushed[j] = mid[j]
      BY <1>4, ActFacts, PushActFacts
    <2>5. Activation(s[n + 1]) = FreshAct
      <3>1. external \in BOOLEAN
        OBVIOUS
      <3> QED  BY <1>2, <3>1, NewFrameView
    <2>6. \A i \in 1 .. n + 1 : i = n + 1 \/ i \in 1 .. n
      BY ONLY <1>1
    <2>7. \A i \in 1 .. n + 1 : after[i] = pushed[i]
      BY ONLY <1>7, <2>3, <2>4, <2>5, <2>6
    <2> QED  BY ONLY <2>3, <2>4, <2>7, pushed = PushAct(mid, FreshAct), ActsEqual
  <1> QED  BY <1>10, <1>11 DEF Calling

LEMMA AtOnceView ==
    ASSUME NEW r, NEW n, NEW hold, IsProper(r, n, hold), n > 0, ~ External(r.ECStack, n),
           NEW site \in Sites, NEW value \in Results \cup {Void},
           NEW t, t = ReturnAtOnce(r, site, value),
           NEW acts, acts = ActivationsOf(r.ECStack), NEW after, after = ActivationsOf(t.ECStack)
    PROVE  after = ChangeAct(ChangeAct(acts, n, Waiting(site)), n, Reply(Waiting(site), value))
  <1> PICK st : st = r.ECStack
    OBVIOUS
  <1> PICK s : s = t.ECStack
    OBVIOUS
  <1> PICK reply : reply = Reply(Waiting(site), value)
    OBVIOUS
  <1> PICK mid : mid = ChangeAct(acts, n, Waiting(site))
    OBVIOUS
  <1> PICK last : last = ChangeAct(mid, n, reply)
    OBVIOUS
  <1>1. /\ IsProcess(r, n) /\ n \in Nat /\ n > 0 /\ n \in 1 .. n
        /\ st[n] \in Frame
    BY ProperFacts
  <1>2. /\ IsProcess(t, n)
        /\ \A i \in 1 .. n - 1 : s[i] = st[i]
        /\ s[n] = SetReturned(Called(st[n], site), value)
    <2>1. /\ IsProcess(r, n) /\ n > 0 /\ site \in Sites /\ value \in Results \cup {Void}
          /\ t = ReturnAtOnce(r, site, value)
      BY <1>1
    <2>2. /\ IsProcess(t, n) /\ t.Status = r.Status /\ t.MObjects = r.MObjects
          /\ \A i \in 1 .. n - 1 : t.ECStack[i] = r.ECStack[i]
          /\ t.ECStack[n] = SetReturned(Called(r.ECStack[n], site), value)
      BY ONLY <2>1, ReturnAtOnceFacts
    <2> QED  BY <2>2
  <1>3. IsActs(acts, n) /\ \A i \in 1 .. n : acts[i] = Activation(st[i])
    <2>1. Own(st, n) = n
      BY DEF Own
    <2> QED  BY <2>1, ProperView
  <1>4. /\ IsActs(mid, n) /\ \A j \in 1 .. n : j # n => mid[j] = acts[j]
    BY <1>1, <1>3, ActFacts, ChangeActFacts
  <1>5. reply \in Activated
    <2>1. /\ Waiting(site) \in Activated /\ Waiting(site).pending # NULL
          /\ value \in Results \cup {Void}
      BY ActFacts, SitesAssumption
    <2>2. Reply(Waiting(site), value) \in Activated
      BY ONLY <2>1, ReplyFacts
    <2> QED  BY <2>2
  <1>6. /\ IsActs(last, n) /\ last[n] = reply
        /\ \A j \in 1 .. n : j # n => last[j] = mid[j]
    BY <1>1, <1>4, <1>5, ChangeActFacts
  <1>7. Activation(s[n]) = reply
    <2>1. Called(st[n], site) \in Frame /\ Called(st[n], site).Caller # NULL
      BY <1>1, CalledFacts, SitesAssumption
    <2>2. Activation(SetReturned(Called(st[n], site), value))
             = Reply(Activation(Called(st[n], site)), value)
      BY <2>1, SetReturnedView
    <2>3. Activation(Called(st[n], site)) = Waiting(site)
      BY <1>1, CalledView
    <2> QED  BY <1>2, <2>2, <2>3
  <1>8. IsActs(after, n) /\ \A i \in 1 .. n : after[i] = Activation(s[i])
    <2>1. IsStack(s, n)
      BY <1>2 DEF IsProcess
    <2>2. ~ External(s, n)
      <3>1. IsProper(t, n, hold) /\ t.Status = r.Status /\ ~ External(t.ECStack, n)
        BY ProperAtOnce
      <3> QED  BY <3>1
    <2>3. Own(s, n) = n
      BY <2>2 DEF Own
    <2> QED  BY <2>1, <2>3, ViewFacts
  <1>9. \A i \in 1 .. n : i = n \/ (i # n /\ i \in 1 .. n - 1)
    BY ONLY <1>1
  <1>10. \A i \in 1 .. n : after[i] = last[i]
    BY ONLY <1>2, <1>3, <1>4, <1>6, <1>7, <1>8, <1>9
  <1>11. after = last
    BY ONLY <1>6, <1>8, <1>10, ActsEqual
  <1> QED  BY <1>11

(* What a return leaves of the frames below.                               *)
LEMMA PopView ==
    ASSUME NEW r, NEW n, NEW hold, IsProper(r, n, hold), n > 0,
           NEW value \in Results \cup {Void}, NEW t, t = PopStack(r, value)
    PROVE  LET m == n - 1
           IN /\ m \in Nat
              /\ IsActs(ActivationsOf(t.ECStack), m)
              /\ \A i \in 1 .. m - 1 : ActivationsOf(t.ECStack)[i] = Activation(r.ECStack[i])
              /\ m > 0 => /\ m \in 1 .. n /\ r.ECStack[m] \in Frame
                          /\ r.ECStack[m].Caller # NULL
                          /\ ActivationsOf(t.ECStack)[m] = Reply(Activation(r.ECStack[m]), value)
  <1> PICK st : st = r.ECStack
    OBVIOUS
  <1> PICK s : s = t.ECStack
    OBVIOUS
  <1> PICK after : after = ActivationsOf(s)
    OBVIOUS
  <1> PICK m : m = n - 1
    OBVIOUS
  <1>1. /\ IsProcess(r, n) /\ n \in Nat /\ n > 0 /\ m = n - 1
        /\ \A i \in 1 .. n : st[i] \in Frame
    BY ProperFacts
  <1>2. /\ IsProcess(t, m)
        /\ \A i \in 1 .. m - 1 : s[i] = st[i]
        /\ m > 0 => s[m] = IF st[m].Caller = NULL THEN st[m] ELSE SetReturned(st[m], value)
    <2>1. /\ IsProcess(r, n) /\ n > 0 /\ value \in Results \cup {Void} /\ t = PopStack(r, value)
      BY <1>1
    <2>2. /\ IsProcess(t, n - 1) /\ t.Status = r.Status
          /\ t.MObjects = FoldLeft(FreeIn, r.MObjects, r.ECStack[n].Allocas)
          /\ \A i \in 1 .. n - 2 : t.ECStack[i] = r.ECStack[i]
          /\ n > 1 => t.ECStack[n - 1] = IF r.ECStack[n - 1].Caller = NULL THEN r.ECStack[n - 1]
                                         ELSE SetReturned(r.ECStack[n - 1], value)
      BY ONLY <2>1, PopStackFacts
    <2>3. n - 2 = m - 1 /\ (n > 1 <=> m > 0)
      BY ONLY <1>1
    <2>4. st = r.ECStack /\ s = t.ECStack
      OBVIOUS
    <2> QED  BY ONLY <1>1, <2>2, <2>3, <2>4
  <1>3. InPlace(st, n)
    BY DEF IsProper
  <1>4. IsActs(after, m) /\ \A i \in 1 .. m : after[i] = Activation(s[i])
    <2>1. IsStack(s, m)
      BY <1>2 DEF IsProcess
    <2>2. /\ IsProper(t, n - 1, Without(hold, Range(r.ECStack[n].Allocas)))
          /\ t.Status = r.Status /\ ~ External(t.ECStack, n - 1)
          /\ r.ECStack[n].Allocas = << >> => IsProper(t, n - 1, hold)
      <3>1. /\ IsProper(r, n, hold) /\ n > 0 /\ value \in Results \cup {Void}
            /\ t = PopStack(r, value)
        BY <1>1
      <3> QED  BY ONLY <3>1, ProperReturn
    <2>3. Own(s, m) = m
      BY <2>2 DEF Own
    <2> QED  BY <2>1, <2>3, ViewFacts
  <1>5. m \in Nat /\ \A i \in 1 .. m - 1 : i \in 1 .. m
    BY ONLY <1>1
  <1>6. m > 0 => /\ m \in 1 .. n /\ st[m] \in Frame /\ st[m].Caller # NULL
                 /\ after[m] = Reply(Activation(st[m]), value)
    <2>1. SUFFICES ASSUME m > 0
                   PROVE  /\ m \in 1 .. n /\ st[m] \in Frame /\ st[m].Caller # NULL
                          /\ after[m] = Reply(Activation(st[m]), value)
      OBVIOUS
    <2>2. m \in 1 .. n /\ m \in 1 .. m /\ m # n
      BY ONLY <1>1, <2>1
    <2>3. st[m] \in Frame /\ st[m].Caller # NULL /\ value \in Results \cup {Void}
      BY <1>1, <1>3, <2>2 DEF InPlace
    <2>4. s[m] = SetReturned(st[m], value)
      BY ONLY <1>2, <2>1, <2>3
    <2>5. Activation(SetReturned(st[m], value)) = Reply(Activation(st[m]), value)
      BY ONLY <2>3, SetReturnedView
    <2> QED  BY ONLY <1>4, <2>2, <2>3, <2>4, <2>5
  <1>7. \A i \in 1 .. m - 1 : after[i] = Activation(st[i])
    BY ONLY <1>2, <1>4, <1>5
  <1> QED  BY <1>4, <1>5, <1>6, <1>7

LEMMA ReturnView ==
    ASSUME NEW r, NEW n, NEW hold, IsProper(r, n, hold), n > 0, ~ External(r.ECStack, n),
           NEW value \in Results \cup {Void}, NEW t, t = PopStack(r, value),
           NEW acts, acts = ActivationsOf(r.ECStack), NEW after, after = ActivationsOf(t.ECStack)
    PROVE  /\ n = 1 => after = << >>
           /\ n > 1 => after = ChangeAct(DropAct(acts, n), n - 1,
                                         Reply(DropAct(acts, n)[n - 1], value))
  <1> PICK st : st = r.ECStack
    OBVIOUS
  <1> PICK m : m = n - 1
    OBVIOUS
  <1> PICK rest : rest = DropAct(acts, n)
    OBVIOUS
  <1>1. n \in Nat /\ n > 0 /\ m = n - 1
    BY ProperFacts
  <1>2. /\ m \in Nat /\ IsActs(after, m)
        /\ \A i \in 1 .. m - 1 : after[i] = Activation(st[i])
        /\ m > 0 => /\ m \in 1 .. n /\ st[m] \in Frame /\ st[m].Caller # NULL
                    /\ after[m] = Reply(Activation(st[m]), value)
    BY PopView
  <1>3. IsActs(acts, n) /\ \A i \in 1 .. n : acts[i] = Activation(st[i])
    <2>1. Own(st, n) = n
      BY DEF Own
    <2> QED  BY <2>1, ProperView
  <1>4. IsActs(rest, m) /\ \A j \in 1 .. m : rest[j] = acts[j]
    BY <1>1, <1>3, DropActFacts
  <1>5. ASSUME n = 1
        PROVE  after = << >>
    <2>1. m = 0
      BY ONLY <1>1, <1>5
    <2> QED  BY <1>2, <2>1, ActsFacts
  <1>6. ASSUME n > 1
        PROVE  after = ChangeAct(rest, m, Reply(rest[m], value))
    <2>1. m > 0 /\ m \in 1 .. m
      BY ONLY <1>1, <1>6
    <2>2. /\ st[m] \in Frame /\ st[m].Caller # NULL /\ m \in 1 .. n
          /\ after[m] = Reply(Activation(st[m]), value)
      BY <1>2, <2>1
    <2>3. rest[m] = Activation(st[m]) /\ rest[m] \in Activated /\ rest[m].pending # NULL
      BY <1>3, <1>4, <2>1, <2>2, ActivationFacts
    <2> PICK reply : reply = Reply(rest[m], value)
      OBVIOUS
    <2>4. reply \in Activated
      <3>1. value \in Results \cup {Void}
        OBVIOUS
      <3>2. Reply(rest[m], value) \in Activated
        BY ONLY <2>3, <3>1, ReplyFacts
      <3> QED  BY <3>2
    <2> PICK last : last = ChangeAct(rest, m, reply)
      OBVIOUS
    <2>5. /\ IsActs(last, m) /\ last[m] = reply
          /\ \A j \in 1 .. m : j # m => last[j] = rest[j]
      BY <1>4, <2>1, <2>4, ChangeActFacts
    <2>6. \A i \in 1 .. m : i = m \/ (i # m /\ i \in 1 .. m - 1)
      BY ONLY <1>2
    <2>7. \A i \in 1 .. m : i \in 1 .. n
      BY ONLY <1>1
    <2>8. after[m] = reply
      BY <2>2, <2>3
    <2>9. \A i \in 1 .. m : after[i] = last[i]
      BY ONLY <1>2, <1>3, <1>4, <2>5, <2>6, <2>7, <2>8
    <2>10. after = last
      BY ONLY <1>2, <2>5, <2>9, ActsEqual
    <2> QED  BY <2>10
  <1> QED  BY <1>5, <1>6

LEMMA ResumeView ==
    ASSUME NEW r, NEW n, NEW hold, IsProper(r, n, hold), External(r.ECStack, n),
           NEW value \in Results, NEW t, t = PopStack(r, value),
           NEW acts, acts = ActivationsOf(r.ECStack), NEW after, after = ActivationsOf(t.ECStack),
           NEW m, m = n - 1
    PROVE  /\ m \in Nat /\ m > 0 /\ IsActs(acts, m) /\ acts[m].pending # NULL
           /\ after = ChangeAct(acts, m, Reply(acts[m], value))
  <1> PICK st : st = r.ECStack
    OBVIOUS
  <1>0. n \in Nat /\ m = n - 1 /\ n > 0 /\ st[n].external /\ InPlace(st, n)
    BY ProperFacts DEF External, IsProper
  <1>1. n \in Nat /\ n > 0 /\ m = n - 1 /\ n >= 2
    <2>1. n \in 1 .. n
      BY ONLY <1>0
    <2> QED  BY ONLY <1>0, <2>1 DEF InPlace
  <1>2. /\ m \in Nat /\ IsActs(after, m)
        /\ \A i \in 1 .. m - 1 : after[i] = Activation(st[i])
        /\ m > 0 => /\ m \in 1 .. n /\ st[m] \in Frame /\ st[m].Caller # NULL
                    /\ after[m] = Reply(Activation(st[m]), value)
    <2>1. value \in Results \cup {Void}
      OBVIOUS
    <2> QED  BY <1>1, <2>1, PopView
  <1>3. IsActs(acts, m) /\ \A i \in 1 .. m : acts[i] = Activation(st[i])
    <2>1. Own(st, n) = m
      BY DEF Own
    <2> QED  BY <2>1, ProperView
  <1>4. m > 0 /\ m \in 1 .. m
    BY ONLY <1>1
  <1>5. /\ st[m] \in Frame /\ st[m].Caller # NULL
        /\ after[m] = Reply(Activation(st[m]), value)
    BY <1>2, <1>4
  <1>6. acts[m] = Activation(st[m]) /\ acts[m] \in Activated /\ acts[m].pending # NULL
    BY <1>3, <1>4, <1>5, ActivationFacts
  <1> PICK reply : reply = Reply(acts[m], value)
    OBVIOUS
  <1>7. reply \in Activated
    <2>1. value \in Results \cup {Void}
      OBVIOUS
    <2>2. Reply(acts[m], value) \in Activated
      BY ONLY <1>6, <2>1, ReplyFacts
    <2> QED  BY <2>2
  <1> PICK last : last = ChangeAct(acts, m, reply)
    OBVIOUS
  <1>8. /\ IsActs(last, m) /\ last[m] = reply
        /\ \A j \in 1 .. m : j # m => last[j] = acts[j]
    BY <1>3, <1>4, <1>7, ChangeActFacts
  <1>9. \A i \in 1 .. m : i = m \/ (i # m /\ i \in 1 .. m - 1)
    BY ONLY <1>2
  <1>10. after[m] = reply
    BY <1>5, <1>6
  <1>11. \A i \in 1 .. m : after[i] = last[i]
    BY ONLY <1>2, <1>3, <1>8, <1>9, <1>10
  <1>12. after = last
    BY ONLY <1>2, <1>8, <1>11, ActsEqual
  <1> QED  BY <1>1, <1>3, <1>4, <1>6, <1>12, <1>2

LEMMA AllocaView ==
    ASSUME NEW r, NEW n, NEW hold, IsProper(r, n, hold), n > 0, ~ External(r.ECStack, n),
           NEW size \in Nat, NEW a, a = AllocIn(r.MObjects, size), NEW t,
           t = AfterAlloca(r, n, a.heap, a.ptr)
    PROVE  ActivationsOf(t.ECStack) = ActivationsOf(r.ECStack)
  <1> PICK acts : acts = ActivationsOf(r.ECStack)
    OBVIOUS
  <1> PICK after : after = ActivationsOf(t.ECStack)
    OBVIOUS
  <1>1. PICK kept : /\ IsProper(t, n, kept) /\ ~ External(t.ECStack, n)
                    /\ \A i \in 1 .. n : /\ t.ECStack[i].Caller = r.ECStack[i].Caller
                                         /\ t.ECStack[i].Value = r.ECStack[i].Value
    <2> PICK kept : kept = With(hold, a.ptr, Block(size, "frame"))
      OBVIOUS
    <2> PICK old : old = r.ECStack
      OBVIOUS
    <2> PICK new : new = t.ECStack
      OBVIOUS
    <2>1. IsProper(t, n, kept) /\ ~ External(new, n)
      BY ProperAlloca
    <2>2. \A i \in 1 .. n : new[i].Caller = old[i].Caller /\ new[i].Value = old[i].Value
      BY ProperAlloca
    <2> QED  BY <2>1, <2>2
  <1>2. IsActs(acts, n) /\ \A i \in 1 .. n : acts[i] = Activation(r.ECStack[i])
    <2>1. Own(r.ECStack, n) = n
      BY DEF Own
    <2> QED  BY <2>1, ProperView
  <1>3. IsActs(after, n) /\ \A i \in 1 .. n : after[i] = Activation(t.ECStack[i])
    <2>1. Own(t.ECStack, n) = n
      BY <1>1 DEF Own
    <2> QED  BY <1>1, <2>1, ProperView, SMTT(30)
  <1>4. \A i \in 1 .. n : after[i] = acts[i]
    BY ONLY <1>1, <1>2, <1>3 DEF Activation
  <1>5. after = acts
    BY ONLY <1>2, <1>3, <1>4, ActsEqual
  <1> QED  BY <1>5

LEMMA EmptyView == ActivationsOf(<< >>) = << >>
  <1>1. IsStack(<< >>, 0) /\ Own(<< >>, 0) = 0
    BY DEF IsStack, Own, External
  <1>2. IsActs(ActivationsOf(<< >>), 0)
    BY <1>1, ViewFacts
  <1> QED  BY <1>2, ActsFacts

LEMMA PushView ==
    ASSUME NEW r, NEW hold, IsProper(r, 0, hold), NEW t, t = Push(r, FALSE)
    PROVE  ActivationsOf(t.ECStack) = <<FreshAct>>
  <1> PICK after : after = ActivationsOf(t.ECStack)
    OBVIOUS
  <1>1. /\ IsProper(t, 1, hold) /\ ~ External(t.ECStack, 1)
        /\ t.ECStack[1].Caller = NULL /\ t.ECStack[1].Value = NULL
    BY ProperPush
  <1>2. IsActs(after, 1) /\ after[1] = Activation(t.ECStack[1])
    <2>1. Own(t.ECStack, 1) = 1
      BY <1>1 DEF Own
    <2> PICK m : m = 1
      OBVIOUS
    <2>4. 1 \in 1 .. 1
      OBVIOUS
    <2>2. IsProper(t, m, hold) /\ m = Own(t.ECStack, m) /\ m \in 1 .. m
      BY ONLY <1>1, <2>1, <2>4, m = 1
    <2>3. /\ IsActs(ActivationsOf(t.ECStack), m)
          /\ \A i \in 1 .. m : ActivationsOf(t.ECStack)[i] = Activation(t.ECStack[i])
      BY ONLY <2>2, ProperView
    <2> QED  BY <2>2, <2>3
  <1>3. after[1] = FreshAct
    BY <1>1, <1>2 DEF Activation, FreshAct
  <1>4. IsActs(<<FreshAct>>, 1)
    BY ActFacts DEF IsActs
  <1>5. ASSUME NEW i \in 1 .. 1 PROVE after[i] = <<FreshAct>>[i]
    <2>1. i = 1
      OBVIOUS
    <2>2. <<FreshAct>>[1] = FreshAct
      OBVIOUS
    <2> QED  BY ONLY <1>3, <2>1, <2>2
  <1>6. after = <<FreshAct>>
    BY ONLY <1>2, <1>4, <1>5, ActsEqual
  <1> QED  BY <1>6

-----------------------------------------------------------------------------
(* What the actions of CallStack do with this view.                        *)

LEMMA RunningView ==
    ASSUME Tables, NEW p \in Processes, NEW n, NEW hold, IsProper(process[p], n, hold),
           n > 0, ~ External(process[p].ECStack, n)
    PROVE  /\ IsActs(Activations[p], n) /\ n \in Nat /\ n \in 1 .. n
           /\ Activations[p] = ActivationsOf(process[p].ECStack)
           /\ Calls!Top(p) = n
           /\ Calls!Runs(p)
  <1> PICK acts : acts = Activations[p]
    OBVIOUS
  <1> PICK st : st = process[p].ECStack
    OBVIOUS
  <1>1. acts = ActivationsOf(st)
    BY DEF Activations
  <1>2. n \in Nat /\ n \in 1 .. n /\ st[n] \in Frame
    BY ProperFacts
  <1>3. IsActs(acts, n) /\ \A i \in 1 .. n : acts[i] = Activation(st[i])
    <2>1. Own(st, n) = n
      BY DEF Own
    <2> QED  BY <1>1, <2>1, ProperView
  <1>4. Calls!Top(p) = n
    BY <1>3 DEF Calls!Top, IsActs
  <1>5. acts[n].pending = NULL
    <2>1. st[n].Caller = NULL
      BY <1>2 DEF IsProper, InPlace
    <2> QED  BY <1>2, <1>3, <2>1, ActivationFacts
  <1>6. Calls!Runs(p)
    BY <1>4, <1>5 DEF Calls!Runs
  <1> QED  BY <1>1, <1>2, <1>3, <1>4, <1>6

(* The calls of CallStack as changes of a sequence of activations.         *)
LEMMA AsCall ==
    ASSUME NEW p \in Processes, NEW n, Calls!Top(p) = n, Calls!Runs(p), NEW site \in Sites,
           NEW acts, acts = Activations[p], ExitValue' = ExitValue
    PROVE  /\ Activations' = [Activations EXCEPT
                 ![p] = PushAct(ChangeAct(acts, n, Waiting(site)), FreshAct)]
                   => Calls!Call(p, site)
           /\ Activations' = [Activations EXCEPT ![p] = ChangeAct(acts, n, Waiting(site))]
                   => Calls!Block(p, site)
  BY DEF Calls!Call, Calls!Block, Calls!Calling, Calls!Fresh, PushAct, ChangeAct, Waiting, FreshAct

LEMMA AsCallOut ==
    ASSUME NEW p \in Processes, NEW n, Calls!Top(p) = n, Calls!Runs(p), NEW site \in Sites,
           NEW value, NEW acts, acts = Activations[p], IsActs(acts, n), n \in 1 .. n,
           ExitValue' = ExitValue,
           Activations' = [Activations EXCEPT ![p] =
               ChangeAct(ChangeAct(acts, n, Waiting(site)), n, Reply(Waiting(site), value))]
    PROVE  Calls!CallOut(p, site, value)
  <1> PICK mid : mid = ChangeAct(acts, n, Waiting(site))
    OBVIOUS
  <1>1. Calls!Calling(p, site) = mid
    BY DEF Calls!Calling, ChangeAct, Waiting
  <1>2. IsActs(mid, n) /\ mid[n] = Waiting(site)
    BY ActFacts, ChangeActFacts
  <1>3. Len(mid) = n
    BY <1>2 DEF IsActs
  <1>4. Calls!Answered(mid, value) = ChangeAct(mid, n, Reply(Waiting(site), value))
    BY <1>2, <1>3 DEF Calls!Answered, ChangeAct, Reply
  <1> QED  BY <1>1, <1>4 DEF Calls!CallOut

LEMMA AsReturn ==
    ASSUME NEW p \in Processes, NEW n \in Nat, Calls!Top(p) = n, Calls!Runs(p),
           NEW value, NEW acts, acts = Activations[p], IsActs(acts, n), NEW after,
           Activations' = [Activations EXCEPT ![p] = after]
    PROVE  /\ n = 1 /\ after = << >> /\ ExitValue' = (IF value = Void THEN ExitValue ELSE value)
                 => Calls!Return(p, value)
           /\ n > 1 /\ ExitValue' = ExitValue
                 /\ after = ChangeAct(DropAct(acts, n), n - 1, Reply(DropAct(acts, n)[n - 1], value))
                 => Calls!Return(p, value)
  <1> PICK rest : rest = DropAct(acts, n)
    OBVIOUS
  <1>1. ASSUME n = 1, after = << >>, ExitValue' = (IF value = Void THEN ExitValue ELSE value)
        PROVE  Calls!Return(p, value)
    BY <1>1 DEF Calls!Return
  <1>2. ASSUME n > 1, ExitValue' = ExitValue,
               after = ChangeAct(rest, n - 1, Reply(rest[n - 1], value))
        PROVE  Calls!Return(p, value)
    <2>1. IsActs(rest, n - 1)
      BY <1>2, DropActFacts
    <2>2. Len(rest) = n - 1
      BY <2>1 DEF IsActs
    <2>3. Calls!Answered(rest, value) = after
      BY <1>2, <2>2 DEF Calls!Answered, ChangeAct, Reply
    <2>4. SubSeq(Activations[p], 1, n - 1) = rest /\ n # 1
      BY <1>2 DEF DropAct
    <2> QED  BY <1>2, <2>3, <2>4 DEF Calls!Return
  <1> QED  BY <1>1, <1>2

LEMMA AsAnswer ==
    ASSUME NEW p \in Processes, NEW m \in Nat, m > 0, NEW value, NEW acts, acts = Activations[p],
           IsActs(acts, m), acts[m].pending # NULL, ExitValue' = ExitValue,
           Activations' = [Activations EXCEPT ![p] = ChangeAct(acts, m, Reply(acts[m], value))]
    PROVE  Calls!Answer(p, value)
  <1>1. Len(acts) = m
    BY DEF IsActs
  <1>2. Calls!Top(p) > 0 /\ ~ Calls!Runs(p)
    BY <1>1 DEF Calls!Top, Calls!Runs
  <1>3. Calls!Answered(acts, value) = ChangeAct(acts, m, Reply(acts[m], value))
    BY <1>1 DEF Calls!Answered, ChangeAct, Reply
  <1> QED  BY <1>2, <1>3 DEF Calls!Answer

LEMMA AsBegin ==
    ASSUME NEW p \in Processes, ExitValue' = ExitValue
    PROVE  /\ Activations[p] = << >> /\ Activations' = [Activations EXCEPT ![p] = <<FreshAct>>]
                 => Calls!Begin(p)
           /\ Calls!Runs(p) /\ Activations' = [Activations EXCEPT ![p] = << >>]
                 => Calls!Abandon(p)
           /\ Calls!Runs(p) /\ Activations' = [Activations EXCEPT ![p] = <<FreshAct>>]
                 => Calls!AbandonAndBegin(p)
  BY DEF Calls!Begin, Calls!Abandon, Calls!AbandonAndBegin, Calls!Top, Calls!Fresh, FreshAct

-----------------------------------------------------------------------------
(* Every step of the interpreter is one step of CallStack or none.         *)

CallsStep == Calls!CallStackNext \/ (Activations' = Activations /\ ExitValue' = ExitValue)

LEMMA StepFacts ==
    ASSUME NEW p \in Processes
    PROVE  /\ Calls!Begin(p) => CallsStep
           /\ \A q \in Processes : Calls!Copy(p, q) => CallsStep
           /\ \A v \in Results \cup {Void} : Calls!Answer(p, v) => CallsStep
           /\ Calls!Runs(p) =>
                 /\ Calls!Abandon(p) => CallsStep
                 /\ Calls!AbandonAndBegin(p) => CallsStep
                 /\ \A v \in Results \cup {Void} : Calls!Return(p, v) => CallsStep
                 /\ \A c \in Sites : Calls!Call(p, c) \/ Calls!Block(p, c) => CallsStep
                 /\ \A c \in Sites : \A v \in Results \cup {Void} :
                       Calls!CallOut(p, c, v) => CallsStep
  BY DEF CallsStep, Calls!CallStackNext

LEMMA ViewSame ==
    ASSUME Tables, NEW p \in Processes, NEW r, process' = [process EXCEPT ![p] = r],
           ActivationsOf(r.ECStack) = ActivationsOf(process[p].ECStack)
    PROVE  Activations' = Activations
  <1>1. /\ Activations[p] = ActivationsOf(process[p].ECStack)
        /\ Activations' = [Activations EXCEPT ![p] = ActivationsOf(r.ECStack)]
    BY ViewStep
  <1>2. Activations = [q \in Processes |-> Activations[q]]
    BY DEF Activations
  <1> QED  BY <1>1, <1>2

LEMMA VisitCallMaps ==
    ASSUME IInv, NEW site \in Sites, VisitCall(site)
    PROVE  CallsStep
  <1> PICK no \in BOOLEAN : no = FALSE
    OBVIOUS
  <1> PICK t : t = EnterCall(Current, site, no)
    OBVIOUS
  <1> PICK acts : acts = Activations[State]
    OBVIOUS
  <1> PICK after : after = ActivationsOf(t.ECStack)
    OBVIOUS
  <1>1. Executing /\ ExitValue' = ExitValue /\ process' = [process EXCEPT ![State] = t]
    BY DEF VisitCall, SetProcess
  <1>2. PICK n : /\ State \in Processes /\ Tables
                 /\ IsProper(Current, n, held[State]) /\ n > 0 /\ ~ External(Current.ECStack, n)
    BY <1>1, RunningFacts DEF IInv
  <1>3. /\ IsActs(acts, n) /\ n \in Nat /\ n \in 1 .. n
        /\ acts = ActivationsOf(Current.ECStack)
        /\ Calls!Top(State) = n
        /\ Calls!Runs(State)
    BY <1>2, RunningView DEF Current
  <1>4. Activations' = [Activations EXCEPT ![State] = after]
    BY <1>1, <1>2, ViewStep
  <1>5. after = PushAct(ChangeAct(acts, n, Waiting(site)), FreshAct)
    <2>1. /\ no \in BOOLEAN /\ site \in Sites /\ t = EnterCall(Current, site, no)
          /\ after = ActivationsOf(t.ECStack)
      OBVIOUS
    <2> PICK rec : rec = Current
      OBVIOUS
    <2>3. /\ IsProper(rec, n, held[State]) /\ n > 0 /\ ~ External(rec.ECStack, n)
          /\ t = EnterCall(rec, site, no) /\ acts = ActivationsOf(rec.ECStack)
      BY <1>2, <1>3
    <2>2. after = Calling(no, acts, n, site)
      BY ONLY <2>1, <2>3, CallView
    <2> QED  BY <2>2 DEF Calling
  <1>6. Calls!Call(State, site)
    BY <1>1, <1>2, <1>3, <1>4, <1>5, AsCall
  <1> QED  BY <1>2, <1>3, <1>6, StepFacts

LEMMA CallBlockingMaps ==
    ASSUME IInv, NEW site \in Sites, CallBlocking(site)
    PROVE  CallsStep
  <1> PICK yes \in BOOLEAN : yes = TRUE
    OBVIOUS
  <1> PICK mid : mid = EnterCall(Current, site, yes)
    OBVIOUS
  <1> PICK t : t = [mid EXCEPT !.Status = "PS_WAIT"]
    OBVIOUS
  <1> PICK acts : acts = Activations[State]
    OBVIOUS
  <1> PICK after : after = ActivationsOf(mid.ECStack)
    OBVIOUS
  <1>1. Executing /\ ExitValue' = ExitValue /\ process' = [process EXCEPT ![State] = t]
    BY DEF CallBlocking, SetProcess
  <1>2. PICK n : /\ State \in Processes /\ Tables
                 /\ IsProper(Current, n, held[State]) /\ n > 0 /\ ~ External(Current.ECStack, n)
    BY <1>1, RunningFacts DEF IInv
  <1>3. /\ IsActs(acts, n) /\ n \in Nat /\ n \in 1 .. n
        /\ acts = ActivationsOf(Current.ECStack)
        /\ Calls!Top(State) = n
        /\ Calls!Runs(State)
    BY <1>2, RunningView DEF Current
  <1>4. t.ECStack = mid.ECStack
    <2>1. yes \in BOOLEAN /\ site \in Sites /\ mid = EnterCall(Current, site, yes)
      OBVIOUS
    <2>2. IsProper(mid, n + 1, held[State])
      BY ONLY <1>2, <2>1, ProperCall
    <2>3. PICK wait \in Statuses : wait = "PS_WAIT"
      BY DEF Statuses
    <2>4. IsProper(t, n + 1, held[State]) /\ t.ECStack = mid.ECStack /\ t.Status = wait
      <3>1. wait \in Statuses /\ t = [mid EXCEPT !.Status = wait]
        BY <2>3
      <3> QED  BY ONLY <2>2, <3>1, ProperStatus
    <2> QED  BY <2>4
  <1>5. Activations' = [Activations EXCEPT ![State] = after]
    <2> PICK view : view = ActivationsOf(t.ECStack)
      OBVIOUS
    <2>1. Activations' = [Activations EXCEPT ![State] = view]
      BY <1>1, <1>2, ViewStep
    <2>2. view = after
      BY <1>4
    <2> QED  BY <2>1, <2>2
  <1>6. after = ChangeAct(acts, n, Waiting(site))
    <2>1. /\ yes \in BOOLEAN /\ site \in Sites /\ mid = EnterCall(Current, site, yes)
          /\ after = ActivationsOf(mid.ECStack)
      OBVIOUS
    <2> PICK rec : rec = Current
      OBVIOUS
    <2>3. /\ IsProper(rec, n, held[State]) /\ n > 0 /\ ~ External(rec.ECStack, n)
          /\ mid = EnterCall(rec, site, yes) /\ acts = ActivationsOf(rec.ECStack)
      BY <1>2, <1>3
    <2>2. after = Calling(yes, acts, n, site)
      BY ONLY <2>1, <2>3, CallView
    <2> QED  BY <2>2 DEF Calling
  <1>7. Calls!Block(State, site)
    BY <1>1, <1>2, <1>3, <1>5, <1>6, AsCall
  <1> QED  BY <1>2, <1>3, <1>7, StepFacts

(* MPI_Comm_rank and the like, atexit; malloc and free with another heap.  *)
LEMMA AtOnceMaps ==
    ASSUME Tables, State \in Processes, NEW n, IsProper(Current, n, held[State]), n > 0,
           ~ External(Current.ECStack, n), NEW site \in Sites, NEW value \in Results \cup {Void},
           NEW mid, NEW hold, IsProper(mid, n, hold), mid.ECStack = Current.ECStack,
           SetProcess(ReturnAtOnce(mid, site, value)), ExitValue' = ExitValue
    PROVE  CallsStep
  <1> PICK t : t = ReturnAtOnce(mid, site, value)
    OBVIOUS
  <1> PICK acts : acts = Activations[State]
    OBVIOUS
  <1> PICK after : after = ActivationsOf(t.ECStack)
    OBVIOUS
  <1>1. process' = [process EXCEPT ![State] = t]
    BY DEF SetProcess
  <1>2. /\ IsActs(acts, n) /\ n \in Nat /\ n \in 1 .. n
        /\ acts = ActivationsOf(Current.ECStack)
        /\ Calls!Top(State) = n
        /\ Calls!Runs(State)
    BY RunningView DEF Current
  <1>3. Activations' = [Activations EXCEPT ![State] = after]
    BY <1>1, ViewStep
  <1>4. after = ChangeAct(ChangeAct(acts, n, Waiting(site)), n, Reply(Waiting(site), value))
    <2>1. /\ IsProper(mid, n, hold) /\ n > 0 /\ ~ External(mid.ECStack, n)
          /\ site \in Sites /\ value \in Results \cup {Void} /\ t = ReturnAtOnce(mid, site, value)
          /\ acts = ActivationsOf(mid.ECStack) /\ after = ActivationsOf(t.ECStack)
      BY <1>2
    <2> QED  BY ONLY <2>1, AtOnceView
  <1>5. Calls!CallOut(State, site, value)
    <2>1. /\ State \in Processes /\ Calls!Top(State) = n /\ Calls!Runs(State) /\ site \in Sites
          /\ acts = Activations[State] /\ IsActs(acts, n) /\ n \in 1 .. n
          /\ ExitValue' = ExitValue
          /\ Activations' = [Activations EXCEPT ![State] =
                ChangeAct(ChangeAct(acts, n, Waiting(site)), n, Reply(Waiting(site), value))]
      BY <1>2, <1>3, <1>4
    <2> QED  BY ONLY <2>1, AsCallOut
  <1>6. value \in Results \cup {Void}
    OBVIOUS
  <1> QED  BY <1>2, <1>5, <1>6, StepFacts

LEMMA CallExternalMaps ==
    ASSUME IInv, NEW site \in Sites,
           CallExternal(site) \/ \E handler \in Handlers : CallAtExit(site, handler)
    PROVE  CallsStep
  <1>1. /\ Executing /\ ExitValue' = ExitValue
        /\ SetProcess(ReturnAtOnce(Current, site, 0))
    BY DEF CallExternal, CallAtExit
  <1>2. PICK n : /\ State \in Processes /\ Tables
                 /\ IsProper(Current, n, held[State]) /\ n > 0 /\ ~ External(Current.ECStack, n)
    BY <1>1, RunningFacts DEF IInv
  <1>3. 0 \in Results \cup {Void}
    BY ZeroIsResult
  <1> QED  BY <1>1, <1>2, <1>3, AtOnceMaps

LEMMA OutOfMemoryMaps ==
    ASSUME OutOfMemory
    PROVE  CallsStep
  <1>1. process' = process /\ ExitValue' = ExitValue
    BY DEF OutOfMemory
  <1>2. Activations' = Activations
    BY <1>1 DEF Activations
  <1> QED  BY <1>1, <1>2 DEF CallsStep

LEMMA CallMallocMaps ==
    ASSUME IInv, NEW site \in Sites, NEW size \in Sizes, CallMalloc(site, size)
    PROVE  CallsStep
  <1> PICK a : a = AllocIn(Current.MObjects, size)
    OBVIOUS
  <1>1. CASE AddressSpaceIsFull(a.heap)
    <2>1. OutOfMemory
      BY <1>1 DEF CallMalloc
    <2> QED  BY <2>1, OutOfMemoryMaps
  <1>2. CASE ~ AddressSpaceIsFull(a.heap)
    <2> PICK mid : mid = [Current EXCEPT !.MObjects = a.heap]
      OBVIOUS
    <2> PICK owner \in {"malloc", "main"} : owner = "malloc"
      OBVIOUS
    <2> PICK hold : hold = With(held[State], a.ptr, Block(size, owner))
      OBVIOUS
    <2> PICK value : value = a.ptr
      OBVIOUS
    <2>1. /\ Executing /\ ExitValue' = ExitValue
          /\ SetProcess(ReturnAtOnce(mid, site, value))
      BY <1>2 DEF CallMalloc
    <2>2. PICK n : /\ State \in Processes /\ Tables
                   /\ IsProper(Current, n, held[State]) /\ n > 0 /\ ~ External(Current.ECStack, n)
      BY <2>1, RunningFacts DEF IInv
    <2>3. size \in Nat
      BY SizesAssumption
    <2>4. /\ IsProper(mid, n, hold) /\ mid.ECStack = Current.ECStack
          /\ mid.MObjects = a.heap /\ value \in Nat /\ value <= Break(a.heap)
      BY <2>2, <2>3, ProperAlloc
    <2>5. a.heap.pages \in Nat
      <3>1. GoodHeap(a.heap)
        BY <2>4 DEF IsProper, Holds
      <3> QED  BY <3>1 DEF GoodHeap, NoHeap, HeapIsSound, Heap
    <2>6. value \in Results \cup {Void}
      BY <1>2, <2>4, <2>5, AddressIsResult
    <2> QED  BY <2>1, <2>2, <2>4, <2>6, AtOnceMaps
  <1> QED  BY <1>1, <1>2

LEMMA CallFreeMaps ==
    ASSUME IInv, NEW site \in Sites, CallFree(site)
    PROVE  CallsStep
  <1>1. Executing /\ ExitValue' = ExitValue
    BY DEF CallFree
  <1>2. PICK p \in DOMAIN held[State] :
            /\ held[State][p].owner = "malloc"
            /\ SetProcess(ReturnAtOnce([Current EXCEPT !.MObjects = FreeIn(@, p)], site, Void))
    BY DEF CallFree
  <1> PICK mid : mid = [Current EXCEPT !.MObjects = FreeIn(@, p)]
    OBVIOUS
  <1> PICK hold : hold = Without(held[State], {p})
    OBVIOUS
  <1> PICK none : none = Void
    OBVIOUS
  <1>3. SetProcess(ReturnAtOnce(mid, site, none)) /\ none \in Results \cup {Void}
    BY <1>2
  <1>4. PICK n : /\ State \in Processes /\ Tables
                 /\ IsProper(Current, n, held[State]) /\ n > 0 /\ ~ External(Current.ECStack, n)
    BY <1>1, RunningFacts DEF IInv
  <1>5. IsProper(mid, n, hold) /\ mid.ECStack = Current.ECStack
    BY <1>2, <1>4, ProperFree
  <1> QED  BY <1>1, <1>3, <1>4, <1>5, AtOnceMaps

LEMMA VisitAllocaMaps ==
    ASSUME IInv, NEW size \in Sizes, VisitAlloca(size)
    PROVE  CallsStep
  <1> PICK a : a = AllocIn(Current.MObjects, size)
    OBVIOUS
  <1> PICK m : m = Depth(Current)
    OBVIOUS
  <1>1. CASE AddressSpaceIsFull(a.heap)
    <2>1. OutOfMemory
      BY <1>1 DEF VisitAlloca
    <2> QED  BY <2>1, OutOfMemoryMaps
  <1>2. CASE ~ AddressSpaceIsFull(a.heap)
    <2> PICK t : t = AfterAlloca(Current, m, a.heap, a.ptr)
      OBVIOUS
    <2>1. Executing /\ ExitValue' = ExitValue
      BY <1>2 DEF VisitAlloca
    <2>2. process' = [process EXCEPT ![State] = t]
      BY <1>2 DEF VisitAlloca, SetProcess, AfterAlloca
    <2>3. /\ State \in Processes /\ Tables
          /\ IsProper(Current, m, held[State]) /\ m > 0 /\ ~ External(Current.ECStack, m)
      BY <2>1, RunningFacts DEF IInv
    <2>4. size \in Nat
      BY SizesAssumption
    <2>5. ActivationsOf(t.ECStack) = ActivationsOf(Current.ECStack)
      BY <2>3, <2>4, AllocaView
    <2>6. Activations' = Activations
      BY <2>2, <2>3, <2>5, ViewSame DEF Current
    <2> QED  BY <2>1, <2>6 DEF CallsStep
  <1> QED  BY <1>1, <1>2

LEMMA VisitReturnMaps ==
    ASSUME IInv, NEW value \in ExitCodes \cup {Void}, VisitReturn(value)
    PROVE  CallsStep
  <1> PICK rec : rec = Current
    OBVIOUS
  <1> PICK t : t = PopStack(rec, value)
    OBVIOUS
  <1> PICK n : n = Depth(rec)
    OBVIOUS
  <1> PICK acts : acts = Activations[State]
    OBVIOUS
  <1> PICK after : after = ActivationsOf(t.ECStack)
    OBVIOUS
  <1>1. Executing
    BY DEF VisitReturn
  <1>2. process' = [process EXCEPT ![State] = t]
    BY DEF VisitReturn, SetProcess
  <1>3. ExitValue' = IF n = 1 /\ value # Void THEN value ELSE ExitValue
    BY DEF VisitReturn, ExitValueAfter
  <1>4. /\ State \in Processes /\ Tables
        /\ IsProper(rec, n, held[State]) /\ n > 0 /\ ~ External(rec.ECStack, n)
    BY <1>1, RunningFacts DEF IInv
  <1>5. value \in Results \cup {Void}
    BY DEF Results
  <1>6. /\ IsActs(acts, n) /\ n \in Nat /\ n \in 1 .. n
        /\ acts = ActivationsOf(rec.ECStack)
        /\ Calls!Top(State) = n
        /\ Calls!Runs(State)
    BY <1>4, RunningView DEF Current
  <1>7. Activations' = [Activations EXCEPT ![State] = after]
    BY <1>2, <1>4, ViewStep
  <1>8. /\ n = 1 => after = << >>
        /\ n > 1 => after = ChangeAct(DropAct(acts, n), n - 1,
                                      Reply(DropAct(acts, n)[n - 1], value))
    <2>1. t = PopStack(rec, value) /\ after = ActivationsOf(t.ECStack)
      OBVIOUS
    <2> QED  BY ONLY <1>4, <1>5, <1>6, <2>1, ReturnView
  <1>9. Calls!Return(State, value)
    <2>1. acts = Activations[State]
      OBVIOUS
    <2>2. /\ n = 1 /\ after = << >> /\ ExitValue' = (IF value = Void THEN ExitValue ELSE value)
                => Calls!Return(State, value)
          /\ n > 1 /\ ExitValue' = ExitValue
                /\ after = ChangeAct(DropAct(acts, n), n - 1, Reply(DropAct(acts, n)[n - 1], value))
                => Calls!Return(State, value)
      BY ONLY <1>4, <1>6, <1>7, <2>1, AsReturn
    <2>3. CASE n = 1
      <3>1. ExitValue' = (IF value = Void THEN ExitValue ELSE value)
        BY <1>3, <2>3
      <3> QED  BY ONLY <1>8, <2>2, <2>3, <3>1
    <2>4. CASE n # 1
      <3>1. n > 1 /\ ExitValue' = ExitValue
        <4>1. n > 1
          BY ONLY <1>4, <1>6, <2>4
        <4> QED  BY <1>3, <2>4, <4>1
      <3> QED  BY ONLY <1>8, <2>2, <3>1
    <2> QED  BY ONLY <2>3, <2>4
  <1> QED  BY <1>4, <1>5, <1>6, <1>9, StepFacts

LEMMA ResumeMaps ==
    ASSUME IInv, NEW p \in Processes, Resume(p)
    PROVE  CallsStep
  <1> PICK rec : rec = process[p]
    OBVIOUS
  <1> PICK zero \in Results : zero = 0
    BY ZeroIsResult
  <1> PICK t : t = PopStack(rec, zero)
    OBVIOUS
  <1> PICK acts : acts = Activations[p]
    OBVIOUS
  <1> PICK after : after = ActivationsOf(t.ECStack)
    OBVIOUS
  <1>1. /\ ~ running /\ rec.Status = "PS_WAIT" /\ process' = [process EXCEPT ![p] = t]
        /\ ExitValue' = ExitValue
    BY DEF Resume, Idle
  <1>2. PICK n : IsProper(rec, n, held[p]) /\ Situated(rec, n, "away") /\ n \in Nat
    BY <1>1, AwayFacts
  <1>3. External(rec.ECStack, n) /\ Tables
    BY <1>1, <1>2 DEF Situated, IInv
  <1>4. Activations' = [Activations EXCEPT ![p] = after] /\ acts = ActivationsOf(rec.ECStack)
    BY <1>1, <1>3, ViewStep
  <1> PICK m : m = n - 1
    OBVIOUS
  <1>5. /\ m \in Nat /\ m > 0 /\ IsActs(acts, m) /\ acts[m].pending # NULL
        /\ after = ChangeAct(acts, m, Reply(acts[m], zero))
    <2>1. zero \in Results /\ t = PopStack(rec, zero) /\ after = ActivationsOf(t.ECStack)
          /\ m = n - 1
      OBVIOUS
    <2> QED  BY ONLY <1>2, <1>3, <1>4, <2>1, ResumeView
  <1>6. Calls!Answer(p, zero)
    <2>1. /\ p \in Processes /\ acts = Activations[p]
          /\ Activations' = [Activations EXCEPT ![p] = ChangeAct(acts, m, Reply(acts[m], zero))]
      BY <1>4, <1>5
    <2> QED  BY ONLY <1>1, <1>5, <2>1, AsAnswer
  <1>7. zero \in Results \cup {Void}
    OBVIOUS
  <1> QED  BY <1>6, <1>7, StepFacts

LEMMA BeginMaps ==
    ASSUME Tables, NEW p \in Processes, process[p].ECStack = << >>, NEW r, NEW hold,
           IsProper(r, 0, hold), process' = [process EXCEPT ![p] = Push(r, FALSE)],
           ExitValue' = ExitValue
    PROVE  CallsStep
  <1> PICK t : t = Push(r, FALSE)
    OBVIOUS
  <1>1. ActivationsOf(t.ECStack) = <<FreshAct>>
    BY PushView
  <1>2. Activations' = [Activations EXCEPT ![p] = <<FreshAct>>]
    <2> PICK view : view = ActivationsOf(t.ECStack)
      OBVIOUS
    <2>1. process' = [process EXCEPT ![p] = t]
      OBVIOUS
    <2>2. Activations' = [Activations EXCEPT ![p] = view]
      BY <2>1, ViewStep
    <2> QED  BY <1>1, <2>2
  <1>3. Activations[p] = << >>
    BY EmptyView DEF Activations
  <1>4. Calls!Begin(p)
    BY <1>2, <1>3, AsBegin
  <1> QED  BY <1>4, StepFacts

LEMMA StartMaps ==
    ASSUME IInv, NEW p \in Processes, NEW arity \in MainArities, Start(p, arity)
    PROVE  CallsStep
  <1> PICK rec : rec = process[p]
    OBVIOUS
  <1> PICK list : list = AllocIn(rec.MObjects, 2 * WordBytes)
    OBVIOUS
  <1> PICK chars : chars = AllocIn(list.heap, 1)
    OBVIOUS
  <1>1. /\ ~ running /\ rec.Status = "PS_INITED" /\ rec.ECStack = << >>
        /\ ExitValue' = ExitValue /\ AtExitHandlers' = AtExitHandlers /\ exiting' = exiting
    BY DEF Start, Idle
  <1>2. IsProper(rec, 0, held[p]) /\ Tables
    BY <1>1, AwayFacts DEF IInv
  <1>3. CASE arity = 2 /\ AddressSpaceIsFull(chars.heap)
    <2>1. OutOfMemory
      BY <1>1, <1>3 DEF Start, OutOfMemory
    <2> QED  BY <2>1, OutOfMemoryMaps
  <1>4. CASE ~ (arity = 2 /\ AddressSpaceIsFull(chars.heap))
    <2>1. CASE arity = 2
      <3> PICK owner \in {"malloc", "main"} : owner = "main"
        OBVIOUS
      <3> PICK one : one = With(held[p], list.ptr, Block(2 * WordBytes, owner))
        OBVIOUS
      <3> PICK two : two = With(one, chars.ptr, Block(1, owner))
        OBVIOUS
      <3> PICK mid : mid = [rec EXCEPT !.MObjects = list.heap]
        OBVIOUS
      <3> PICK full : full = [rec EXCEPT !.MObjects = chars.heap]
        OBVIOUS
      <3>1. process' = [process EXCEPT ![p] = Push(full, FALSE)]
        BY <1>4, <2>1 DEF Start
      <3>2. 2 * WordBytes \in Nat /\ 1 \in Nat
        BY WordAssumption
      <3>3. IsProper(mid, 0, one) /\ mid.MObjects = list.heap
        BY <1>2, <3>2, ProperAlloc
      <3>4. full = [mid EXCEPT !.MObjects = chars.heap]
        <4>1. IsProcess(rec, 0)
          BY <1>2 DEF IsProper
        <4> QED  BY <4>1, HeapTwice
      <3>5. IsProper(full, 0, two)
        <4>1. /\ chars = AllocIn(mid.MObjects, 1) /\ two = With(one, chars.ptr, Block(1, owner))
              /\ owner \in {"malloc", "main"}
          BY <3>3
        <4>2. /\ IsProper(full, 0, With(one, chars.ptr, Block(1, owner)))
              /\ full.ECStack = mid.ECStack /\ full.Status = mid.Status
              /\ full.MObjects = chars.heap
              /\ chars.ptr \in Nat /\ chars.ptr <= Break(chars.heap)
          BY ONLY <3>2, <3>3, <3>4, <4>1, ProperAlloc
        <4> QED  BY <4>1, <4>2
      <3> QED  BY <1>1, <1>2, <3>1, <3>5, BeginMaps
    <2>2. CASE arity # 2
      <3>1. process' = [process EXCEPT ![p] = Push(rec, FALSE)]
        BY <1>4, <2>2 DEF Start
      <3> QED  BY <1>1, <1>2, <3>1, BeginMaps
    <2> QED  BY <2>1, <2>2
  <1> QED  BY <1>3, <1>4

LEMMA HandlerReturnsMaps ==
    ASSUME IInv, HandlerReturns
    PROVE  CallsStep
  <1>1. /\ Current.ECStack = << >> /\ RunLastHandler(Current) /\ ExitValue' = ExitValue
    BY DEF HandlerReturns
  <1>2. State \in Processes /\ Tables
    BY DEF IInv, Globals
  <1>3. PICK n : IsProper(Current, n, held[State])
    BY <1>2 DEF IInv, Good, Current
  <1>4. n = 0
    BY <1>1, <1>3, ProperFacts
  <1>5. CASE AtExitHandlers = << >>
    <2>1. process' = [process EXCEPT ![State] = process[State]]
      BY <1>5, <1>1 DEF RunLastHandler, SetProcess, Current
    <2>2. process' = process
      BY <1>2, <2>1 DEF Tables
    <2>3. Activations' = Activations
      BY <2>2 DEF Activations
    <2> QED  BY <1>1, <2>3 DEF CallsStep
  <1>6. CASE AtExitHandlers # << >>
    <2>1. process' = [process EXCEPT ![State] = Push(Current, FALSE)]
      BY <1>6, <1>1 DEF RunLastHandler, SetProcess
    <2> QED  BY <1>1, <1>2, <1>3, <1>4, <2>1, BeginMaps DEF Current
  <1> QED  BY <1>5, <1>6

LEMMA CallExitMaps ==
    ASSUME IInv, CallExit
    PROVE  CallsStep
  <1> PICK p : p = [Current EXCEPT !.ECStack = << >>]
    OBVIOUS
  <1> PICK hold : hold = Lost(held[State])
    OBVIOUS
  <1>1. Executing /\ RunLastHandler(p) /\ ExitValue' = ExitValue
    BY DEF CallExit
  <1>2. PICK n : /\ State \in Processes /\ Tables
                 /\ IsProper(Current, n, held[State]) /\ n > 0 /\ ~ External(Current.ECStack, n)
    BY <1>1, RunningFacts DEF IInv
  <1>3. Calls!Runs(State)
    BY <1>2, RunningView DEF Current
  <1>4. IsProper(p, 0, hold) /\ p.ECStack = << >>
    BY <1>2, ProperExit
  <1>5. CASE AtExitHandlers = << >>
    <2>1. process' = [process EXCEPT ![State] = p]
      BY <1>1, <1>5 DEF RunLastHandler, SetProcess
    <2> PICK view : view = ActivationsOf(p.ECStack)
      OBVIOUS
    <2>2. Activations' = [Activations EXCEPT ![State] = view]
      BY <1>2, <2>1, ViewStep
    <2>3. view = << >>
      BY <1>4, EmptyView
    <2>4. Calls!Abandon(State)
      BY <1>1, <1>2, <1>3, <2>2, <2>3, AsBegin
    <2> QED  BY <1>2, <1>3, <2>4, StepFacts
  <1>6. CASE AtExitHandlers # << >>
    <2> PICK t : t = Push(p, FALSE)
      OBVIOUS
    <2> PICK view : view = ActivationsOf(t.ECStack)
      OBVIOUS
    <2>1. process' = [process EXCEPT ![State] = t]
      BY <1>1, <1>6 DEF RunLastHandler, SetProcess
    <2>2. Activations' = [Activations EXCEPT ![State] = view]
      BY <1>2, <2>1, ViewStep
    <2>3. view = <<FreshAct>>
      BY <1>4, PushView
    <2>4. Calls!AbandonAndBegin(State)
      BY <1>1, <1>2, <1>3, <2>2, <2>3, AsBegin
    <2> QED  BY <1>2, <1>3, <2>4, StepFacts
  <1> QED  BY <1>5, <1>6

LEMMA RunReturnsMaps ==
    ASSUME IInv, RunReturns
    PROVE  CallsStep
  <1> PICK t : t = IF PauseFlag THEN Current ELSE [Current EXCEPT !.Status = "PS_FINISHED"]
    OBVIOUS
  <1>1. process' = [process EXCEPT ![State] = t] /\ ExitValue' = ExitValue
    BY DEF RunReturns, SetProcess
  <1>2. State \in Processes /\ Tables
    BY DEF IInv, Globals
  <1>3. PICK n : IsProper(Current, n, held[State])
    BY <1>2 DEF IInv, Good, Current
  <1>4. t.ECStack = Current.ECStack
    <2>1. CASE PauseFlag
      BY <2>1
    <2>2. CASE ~ PauseFlag
      <3> PICK finished \in Statuses : finished = "PS_FINISHED"
        BY DEF Statuses
      <3>1. t = [Current EXCEPT !.Status = finished]
        BY <2>2
      <3> QED  BY <1>3, <3>1, ProperStatus
    <2> QED  BY <2>1, <2>2
  <1>5. Activations' = Activations
    BY <1>1, <1>2, <1>4, ViewSame DEF Current
  <1> QED  BY <1>1, <1>5 DEF CallsStep

LEMMA CopyMaps ==
    ASSUME IInv, NEW p \in Processes, NEW q \in Processes, Copy(p, q)
    PROVE  CallsStep
  <1> PICK r : r = process[p]
    OBVIOUS
  <1>1. /\ ~ running /\ process' = [process EXCEPT ![q] = r] /\ process[q].Status = "NONE"
        /\ ExitValue' = ExitValue
    BY DEF Copy, Idle
  <1>2. PICK n : /\ IsProper(process[q], n, held[q]) /\ Situated(process[q], n, "away")
                 /\ (n = 0 <=> process[q].ECStack = << >>)
    BY <1>1, AwayFacts
  <1>3. process[q].ECStack = << >>
    BY <1>1, <1>2 DEF Situated
  <1>4. Activations[q] = << >> /\ Activations[p] = ActivationsOf(r.ECStack)
    BY <1>3, EmptyView DEF Activations
  <1>5. Activations' = [Activations EXCEPT ![q] = ActivationsOf(r.ECStack)]
    BY <1>1, ViewStep DEF IInv
  <1>6. Calls!Copy(p, q)
    <2>1. Calls!Top(q) = 0
      BY <1>4 DEF Calls!Top
    <2> QED  BY <1>1, <1>4, <1>5, <2>1 DEF Calls!Copy
  <1> QED  BY <1>6, StepFacts

LEMMA InitMaps == Init => Calls!CallStackInit
  <1> SUFFICES ASSUME Init PROVE Calls!CallStackInit
    OBVIOUS
  <1>1. \A p \in Processes : process[p].ECStack = << >>
    BY DEF Init
  <1>2. Activations = [p \in Processes |-> << >>]
    BY <1>1, EmptyView DEF Activations
  <1> QED  BY <1>2 DEF Init, Calls!CallStackInit

LEMMA NextMaps == IInv /\ [Next]_vars => CallsStep
  <1> SUFFICES ASSUME IInv, [Next]_vars PROVE CallsStep
    OBVIOUS
  <1>1. CASE UNCHANGED vars
    <2>1. process' = process /\ ExitValue' = ExitValue
      BY <1>1 DEF vars
    <2>2. Activations' = Activations
      BY <2>1 DEF Activations
    <2> QED  BY <2>1, <2>2 DEF CallsStep
  <1>2. ASSUME NEW size \in Sizes, VisitAlloca(size) PROVE CallsStep
    BY <1>2, VisitAllocaMaps
  <1>3. ASSUME NEW value \in ExitCodes \cup {Void}, VisitReturn(value) PROVE CallsStep
    BY <1>3, VisitReturnMaps
  <1>4. ASSUME NEW site \in Sites, VisitCall(site) PROVE CallsStep
    BY <1>4, VisitCallMaps
  <1>5. ASSUME NEW site \in Sites, CallFree(site) PROVE CallsStep
    BY <1>5, CallFreeMaps
  <1>6. ASSUME NEW site \in Sites, CallBlocking(site) PROVE CallsStep
    BY <1>6, CallBlockingMaps
  <1>7. ASSUME NEW site \in Sites, CallExternal(site) PROVE CallsStep
    BY <1>7, CallExternalMaps
  <1>8. ASSUME NEW site \in Sites, NEW size \in Sizes, CallMalloc(site, size) PROVE CallsStep
    BY <1>8, CallMallocMaps
  <1>9. ASSUME NEW site \in Sites, NEW handler \in Handlers, CallAtExit(site, handler)
        PROVE  CallsStep
    BY <1>9, CallExternalMaps
  <1>10. CASE CallExit
    BY <1>10, CallExitMaps
  <1>11. CASE HandlerReturns
    BY <1>11, HandlerReturnsMaps
  <1>12. CASE RunReturns
    BY <1>12, RunReturnsMaps
  <1>13. ASSUME NEW p \in Processes, NEW arity \in MainArities, Start(p, arity) PROVE CallsStep
    BY <1>13, StartMaps
  <1>14. ASSUME NEW p \in Processes, Resume(p) PROVE CallsStep
    BY <1>14, ResumeMaps
  <1>15. ASSUME NEW p \in Processes, NEW q \in Processes, Copy(p, q) PROVE CallsStep
    BY <1>15, CopyMaps
  <1> QED  BY <1>1, <1>2, <1>3, <1>4, <1>5, <1>6, <1>7, <1>8, <1>9, <1>10, <1>11, <1>12,
              <1>13, <1>14, <1>15 DEF Next

(* The interpreter implements plain procedure calls: every call gets one   *)
(* answer, at its own site, from the activation it started or from the     *)
(* interpreter (visitCallSite, popStackAndReturnValueToCaller, resumeRun), *)
(* for every program, any number of processes, and any copies of them.     *)
THEOREM InterpreterImplementsCallStack == Spec => ImplementsCallStack
  <1>1. Init => Calls!CallStackInit
    BY InitMaps
  <1>2. IInv /\ [Next]_vars => [Calls!CallStackNext]_<<Activations, ExitValue>>
    BY NextMaps DEF CallsStep
  <1> QED  BY <1>1, <1>2, ProcessesStayProper, PTL
           DEF Spec, ImplementsCallStack, Calls!CallStackSpec
=============================================================================
