-------------------------- MODULE StateSpace_proofs -------------------------
(***************************************************************************)
(* Theorems about the explorer, for every program, every state space and   *)
(* every digest function that the assumptions of StateSpace allow.         *)
(***************************************************************************)
EXTENDS StateSpace, TLAPS

USE DEF Nodes

(* Whatever runs is an outcome, its digest is a digest and no object.      *)
LEMMA RunTypes ==
    ASSUME NEW p \in Programs, NEW v \in Values
    PROVE  /\ Digest(v) \in Digests /\ Digest(v) # InitialNode /\ Digest(v) # NULL
           /\ InitialRun(p) \in Outcome
           /\ FastRun(p, v) \subseteq Outcome /\ Forks(p, v) \subseteq Outcome
           /\ Runs(p, v) \subseteq Outcome
    BY NodeAssumption, ProgramAssumption DEF Digests, Runs

(* What is appended to, or popped from, the queue.                         *)
LEMMA QueueAfterGetNode ==
    ASSUME NEW q \in Seq(Entry), NEW e \in Entry
    PROVE  /\ Append(q, e) \in Seq(Entry)
           /\ DOMAIN Append(q, e) = 1 .. Len(q) + 1
           /\ DOMAIN q = 1 .. Len(q)
           /\ Len(Append(q, e)) = Len(q) + 1
           /\ \A i \in 1 .. Len(q) : Append(q, e)[i] = q[i]
           /\ Append(q, e)[Len(q) + 1] = e
           /\ Append(q, e) # << >>
    OBVIOUS

LEMMA EntryTypes ==
    ASSUME NEW q \in Seq(Entry), NEW i \in DOMAIN q
    PROVE  q[i] \in Entry /\ q[i].obj \in Objects /\ q[i].node \in Digests
  <1>1. q[i] \in Entry
    OBVIOUS
  <1> QED
    BY <1>1 DEF Entry

LEMMA EmptyQueue ==
    ASSUME NEW q \in Seq(Entry), Len(q) = 0
    PROVE  q = << >>
    OBVIOUS

LEMMA QueueAfterPop ==
    ASSUME NEW q \in Seq(Entry), q # << >>
    PROVE  /\ Tail(q) \in Seq(Entry)
           /\ Head(q) \in Entry
           /\ Head(q) = q[1]
           /\ 1 \in DOMAIN q
           /\ DOMAIN q = 1 .. Len(q)
           /\ Len(q) \in Nat \ {0}
           /\ Len(Tail(q)) = Len(q) - 1
           /\ DOMAIN Tail(q) = 1 .. Len(q) - 1
           /\ \A i \in 1 .. Len(q) - 1 : Tail(q)[i] = q[i + 1]
    OBVIOUS

-----------------------------------------------------------------------------
(* Types.                                                                  *)

(* GetNode and AddArc keep the types of the queue and the graph.           *)
LEMMA GraphTypes ==
    ASSUME TypeOK, NEW v \in Values, NEW o \in Objects, NEW rest \in Seq(Entry),
           NEW from \in Nodes, NEW acts \in Nat,
           GetNode(o, v, rest), AddArc(from, Digest(v), acts)
    PROVE  /\ queue' \in Seq(Entry)
           /\ nodes' \subseteq Digests
           /\ arcs' \subseteq [from : Nodes, to : Digests, acts : Nat]
           /\ prev' \in [Nodes -> Nodes \cup {NULL}]
           /\ dist' \in [Nodes -> Nat]
  <1>1. Digest(v) \in Digests
    BY DEF Digests
  <1>2. [node |-> Digest(v), obj |-> o] \in Entry
    BY <1>1 DEF Entry
  <1>3. queue' \in Seq(Entry)
    BY <1>2, QueueAfterGetNode DEF GetNode
  <1>4. nodes' \subseteq Digests
    BY <1>1 DEF GetNode, TypeOK
  <1>5. dist[from] + acts \in Nat
    BY DEF TypeOK
  <1>6. /\ arcs' \subseteq [from : Nodes, to : Digests, acts : Nat]
        /\ prev' \in [Nodes -> Nodes \cup {NULL}]
        /\ dist' \in [Nodes -> Nat]
    BY <1>1, <1>5 DEF AddArc, TypeOK
  <1> QED
    BY <1>3, <1>4, <1>6

(* Exit codes are reported for a node or, in the first run, for none.      *)
LEMMA ExitErrorTypes ==
    ASSUME NEW x \in Outcome, NEW n \in Nodes \cup {NULL}
    PROVE  ExitErrors(x, n) \subseteq
             [kind : {"deadlock", "exitcode"}, node : Nodes \cup {NULL},
              rank : Processes \cup {NULL}]
    BY DEF ExitErrors, Outcome

(* The state that is popped, and the one that is being forked, are live.   *)
LEMMA PoppedIsLive ==
    ASSUME TypeOK, EntriesAreLive, Popping
    PROVE  /\ Head(queue) \in Entry
           /\ Head(queue).obj \in Objects /\ Head(queue).node \in Digests
           /\ heap[Head(queue).obj] \in HeapObject
           /\ heap[Head(queue).obj].value \in Values
           /\ heap[Head(queue).obj].acts \in Nat
           /\ Digest(heap[Head(queue).obj].value) = Head(queue).node
           /\ Head(queue).node \in nodes
           /\ Tail(queue) \in Seq(Entry)
  <1>1. queue \in Seq(Entry) /\ queue # << >>
    BY DEF TypeOK, Popping
  <1>2. /\ Tail(queue) \in Seq(Entry) /\ Head(queue) \in Entry
        /\ Head(queue) = queue[1] /\ 1 \in DOMAIN queue
    BY <1>1, QueueAfterPop
  <1>3. Head(queue).obj \in Objects /\ Head(queue).node \in Digests
    BY <1>2 DEF Entry
  <1>4. /\ heap[Head(queue).obj] # NULL
        /\ Digest(heap[Head(queue).obj].value) = Head(queue).node
        /\ Head(queue).node \in nodes
    BY <1>2 DEF EntriesAreLive
  <1>5. heap[Head(queue).obj] \in HeapObject
    BY <1>3, <1>4 DEF TypeOK
  <1> QED
    BY <1>2, <1>3, <1>4, <1>5 DEF HeapObject

LEMMA CurrentIsLive ==
    ASSUME TypeOK, EntriesAreLive, current # NULL
    PROVE  /\ current \in Branching
           /\ current.obj \in Objects /\ current.node \in Digests
           /\ current.todo \subseteq Outcome
           /\ heap[current.obj] \in HeapObject
           /\ heap[current.obj].value \in Values
           /\ heap[current.obj].acts \in Nat
           /\ Digest(heap[current.obj].value) = current.node
           /\ current.node \in nodes
    BY DEF TypeOK, EntriesAreLive, Branching, HeapObject

(* What a step that runs the program does, with the types of what it uses. *)
LEMMA ConstructStep ==
    ASSUME TypeOK, Construct
    PROVE  LET x == InitialRun(program)
           IN  /\ x \in Outcome /\ x.value \in Values /\ x.acts \in Nat
               /\ 0 \in Objects /\ 1 \in 0 .. MaxObjects
               /\ Digest(x.value) \in Digests
               /\ nodes = {}
               /\ heap' = [heap EXCEPT ![0] = [value |-> x.value, acts |-> 0]]
               /\ fresh' = 1 /\ intr' = 0
               /\ GetNode(0, x.value, queue)
               /\ AddArc(InitialNode, Digest(x.value), x.acts)
               /\ errors' = ExitErrors(x, NULL)
               /\ program' = program /\ current' = current
    BY ProgramAssumption, MaxObjectsAssumption
       DEF Construct, TypeOK, Outcome, Objects, Digests

LEMMA FastRunStep ==
    ASSUME TypeOK, EntriesAreLive, FastRunChild
    PROVE  LET e == Head(queue)
               old == heap[e.obj]
           IN  \E x \in FastRun(program, old.value) :
                  /\ x \in Outcome /\ x.value \in Values /\ x.acts \in Nat
                  /\ Digest(x.value) \in Digests
                  /\ old.acts + x.acts \in Nat
                  /\ current = NULL /\ current' = NULL
                  /\ program' = program /\ fresh' = fresh
                  /\ intr' = e.obj
                  /\ heap' = [heap EXCEPT ![e.obj] = [value |-> x.value, acts |-> 0]]
                  /\ GetNode(e.obj, x.value, Tail(queue))
                  /\ AddArc(e.node, Digest(x.value), old.acts + x.acts)
                  /\ errors' = errors \cup ExitErrors(x, e.node)
  <1> DEFINE e == Head(queue)
             old == heap[e.obj]
  <1>1. old.value \in Values /\ old.acts \in Nat
    BY PoppedIsLive DEF FastRunChild
  <1>2. PICK x \in FastRun(program, old.value) :
           /\ intr' = e.obj
           /\ heap' = [heap EXCEPT ![e.obj] = [value |-> x.value, acts |-> 0]]
           /\ GetNode(e.obj, x.value, Tail(queue))
           /\ AddArc(e.node, Digest(x.value), old.acts + x.acts)
           /\ errors' = errors \cup ExitErrors(x, e.node)
    BY DEF FastRunChild
  <1>3. /\ current = NULL /\ current' = NULL
        /\ program' = program /\ fresh' = fresh
    BY DEF FastRunChild, Popping
  <1>4. x \in Outcome /\ x.value \in Values /\ x.acts \in Nat
    BY <1>1, ProgramAssumption DEF TypeOK, Outcome
  <1>5. Digest(x.value) \in Digests /\ old.acts + x.acts \in Nat
    BY <1>1, <1>4 DEF Digests
  <1> QED
    BY <1>2, <1>3, <1>4, <1>5

LEMMA ForkStep ==
    ASSUME TypeOK, EntriesAreLive, ForkChild
    PROVE  \E x \in current.todo :
              /\ x \in Outcome /\ x.value \in Values /\ x.acts \in Nat
              /\ Digest(x.value) \in Digests
              /\ current # NULL
              /\ fresh \in Objects /\ fresh + 1 \in 0 .. MaxObjects
              /\ heap[fresh] = NULL /\ current.obj # fresh
              /\ heap' = [heap EXCEPT ![current.obj].acts = 0,
                                      ![fresh] = [value |-> x.value, acts |-> x.acts]]
              /\ fresh' = fresh + 1 /\ intr' = fresh /\ program' = program
              /\ GetNode(fresh, x.value, queue)
              /\ AddArc(current.node, Digest(x.value), heap[current.obj].acts)
              /\ errors' = errors \cup ExitErrors(x, current.node)
              /\ current' \in Branching /\ current'.node = current.node
              /\ current'.obj = current.obj /\ current'.todo = current.todo \ {x}
  <1>1. /\ current \in Branching /\ current # NULL
        /\ current.obj \in Objects /\ current.todo \subseteq Outcome
        /\ heap[current.obj] # NULL
    BY CurrentIsLive DEF ForkChild, EntriesAreLive
  <1>2. PICK x \in current.todo :
           /\ heap' = [heap EXCEPT ![current.obj].acts = 0,
                                   ![fresh] = [value |-> x.value, acts |-> x.acts]]
           /\ fresh' = fresh + 1 /\ intr' = fresh
           /\ GetNode(fresh, x.value, queue)
           /\ AddArc(current.node, Digest(x.value), heap[current.obj].acts)
           /\ errors' = errors \cup ExitErrors(x, current.node)
           /\ current' = [current EXCEPT !.todo = @ \ {x}]
    BY DEF ForkChild
  <1>3. x \in Outcome /\ x.value \in Values /\ x.acts \in Nat /\ Digest(x.value) \in Digests
    BY <1>1, <1>2 DEF Outcome, Digests
  <1>4. fresh \in Objects /\ fresh + 1 \in 0 .. MaxObjects /\ program' = program
    BY MaxObjectsAssumption DEF ForkChild, TypeOK, Objects
  <1>5. heap[fresh] = NULL
    BY <1>4 DEF EntriesAreLive, Objects
  <1>6. /\ current' \in Branching /\ current'.node = current.node
        /\ current'.obj = current.obj /\ current'.todo = current.todo \ {x}
    BY <1>1, <1>2 DEF Branching
  <1> QED
    BY <1>1, <1>2, <1>3, <1>4, <1>5, <1>6

LEMMA StartForkingStep ==
    ASSUME TypeOK, EntriesAreLive, StartForking
    PROVE  LET e == Head(queue)
               v == heap[e.obj].value
           IN  /\ current = NULL /\ queue # << >>
               /\ FastRun(program, v) = {}
               /\ current' = [node |-> e.node, obj |-> e.obj, todo |-> Forks(program, v)]
               /\ current' \in Branching /\ current' # NULL
               /\ current'.node = e.node /\ current'.obj = e.obj
               /\ current'.todo = Forks(program, v)
               /\ queue' = Tail(queue)
  <1> DEFINE e == Head(queue)
             v == heap[e.obj].value
  <1>1. e.obj \in Objects /\ e.node \in Digests /\ v \in Values
    BY PoppedIsLive DEF StartForking
  <1>2. Forks(program, v) \subseteq Outcome
    BY <1>1, ProgramAssumption DEF TypeOK
  <1>3. [node |-> e.node, obj |-> e.obj, todo |-> Forks(program, v)] \in Branching
    BY <1>1, <1>2 DEF Branching
  <1> QED
    BY <1>3, NullAssumption DEF StartForking, Popping

LEMMA TypeOKInit == Init => TypeOK
    BY MaxObjectsAssumption DEF Init, TypeOK, Objects

LEMMA TypeOKNext ==
    ASSUME TypeOK, EntriesAreLive, [Next]_vars
    PROVE  TypeOK'
  <1>1. CASE Construct
    <2> DEFINE x == InitialRun(program)
    <2>1. /\ queue' \in Seq(Entry) /\ nodes' \subseteq Digests
          /\ arcs' \subseteq [from : Nodes, to : Digests, acts : Nat]
          /\ prev' \in [Nodes -> Nodes \cup {NULL}] /\ dist' \in [Nodes -> Nat]
      BY <1>1, ConstructStep, GraphTypes DEF TypeOK
    <2>2. errors' \subseteq [kind : {"deadlock", "exitcode"}, node : Nodes \cup {NULL},
                             rank : Processes \cup {NULL}]
      BY <1>1, ConstructStep, ExitErrorTypes
    <2>3. heap' \in [Objects -> HeapObject \cup {NULL}]
      <3>1. x.value \in Values /\ heap' = [heap EXCEPT ![0] = [value |-> x.value, acts |-> 0]]
        BY <1>1, ConstructStep
      <3> QED
        BY <3>1 DEF TypeOK, HeapObject
    <2>4. /\ fresh' \in 0 .. MaxObjects /\ intr' \in Objects
          /\ program' = program /\ current' = current
      BY <1>1, ConstructStep
    <2> QED
      BY <2>1, <2>2, <2>3, <2>4 DEF TypeOK
  <1>2. CASE FastRunChild
    <2> DEFINE e == Head(queue)
               old == heap[e.obj]
    <2>1. /\ e.obj \in Objects /\ e.node \in Nodes /\ Tail(queue) \in Seq(Entry)
      BY <1>2, PoppedIsLive DEF FastRunChild
    <2>2. PICK x \in FastRun(program, old.value) :
             /\ x \in Outcome /\ x.value \in Values
             /\ old.acts + x.acts \in Nat
             /\ current' = current /\ program' = program /\ fresh' = fresh
             /\ intr' = e.obj
             /\ heap' = [heap EXCEPT ![e.obj] = [value |-> x.value, acts |-> 0]]
             /\ GetNode(e.obj, x.value, Tail(queue))
             /\ AddArc(e.node, Digest(x.value), old.acts + x.acts)
             /\ errors' = errors \cup ExitErrors(x, e.node)
      BY <1>2, FastRunStep
    <2>3. /\ queue' \in Seq(Entry) /\ nodes' \subseteq Digests
          /\ arcs' \subseteq [from : Nodes, to : Digests, acts : Nat]
          /\ prev' \in [Nodes -> Nodes \cup {NULL}] /\ dist' \in [Nodes -> Nat]
      BY <2>1, <2>2, GraphTypes
    <2>4. ExitErrors(x, e.node) \subseteq
            [kind : {"deadlock", "exitcode"}, node : Nodes \cup {NULL},
             rank : Processes \cup {NULL}]
      BY <2>1, <2>2, ExitErrorTypes
    <2>5. heap' \in [Objects -> HeapObject \cup {NULL}]
      BY <2>1, <2>2 DEF TypeOK, HeapObject
    <2> QED
      BY <2>1, <2>2, <2>3, <2>4, <2>5 DEF TypeOK
  <1>3. CASE StartForking
    BY <1>3, StartForkingStep, PoppedIsLive DEF StartForking, TypeOK
  <1>4. CASE ForkChild
    <2>1. /\ current.obj \in Objects /\ current.node \in Nodes
          /\ heap[current.obj] \in HeapObject /\ heap[current.obj].acts \in Nat
      BY <1>4, CurrentIsLive DEF ForkChild
    <2>2. PICK x \in current.todo :
             /\ x \in Outcome /\ x.value \in Values /\ x.acts \in Nat
             /\ fresh \in Objects /\ fresh + 1 \in 0 .. MaxObjects
             /\ heap' = [heap EXCEPT ![current.obj].acts = 0,
                                     ![fresh] = [value |-> x.value, acts |-> x.acts]]
             /\ fresh' = fresh + 1 /\ intr' = fresh /\ program' = program
             /\ GetNode(fresh, x.value, queue)
             /\ AddArc(current.node, Digest(x.value), heap[current.obj].acts)
             /\ errors' = errors \cup ExitErrors(x, current.node)
             /\ current' \in Branching
      BY <1>4, ForkStep
    <2>3. /\ queue' \in Seq(Entry) /\ nodes' \subseteq Digests
          /\ arcs' \subseteq [from : Nodes, to : Digests, acts : Nat]
          /\ prev' \in [Nodes -> Nodes \cup {NULL}] /\ dist' \in [Nodes -> Nat]
      BY <2>1, <2>2, GraphTypes DEF TypeOK
    <2>4. ExitErrors(x, current.node) \subseteq
            [kind : {"deadlock", "exitcode"}, node : Nodes \cup {NULL},
             rank : Processes \cup {NULL}]
      BY <2>1, <2>2, ExitErrorTypes
    <2>5. heap' \in [Objects -> HeapObject \cup {NULL}]
      BY <2>1, <2>2 DEF TypeOK, HeapObject
    <2> QED
      BY <2>2, <2>3, <2>4, <2>5 DEF TypeOK
  <1>5. CASE FinishNode
    <2>1. current.obj \in Objects /\ current.node \in Nodes
      BY <1>5, CurrentIsLive DEF FinishNode
    <2>2. errors' \subseteq [kind : {"deadlock", "exitcode"}, node : Nodes \cup {NULL},
                             rank : Processes \cup {NULL}]
      BY <1>5, <2>1 DEF FinishNode, TypeOK
    <2>3. heap' \in [Objects -> HeapObject \cup {NULL}]
      BY <1>5, <2>1 DEF FinishNode, TypeOK
    <2> QED
      BY <1>5, <2>2, <2>3 DEF FinishNode, TypeOK
  <1>6. CASE UNCHANGED vars
    BY <1>6 DEF vars, TypeOK
  <1> QED
    BY <1>1, <1>2, <1>3, <1>4, <1>5, <1>6 DEF Next

-----------------------------------------------------------------------------
(* The entries of the queue and the objects of the heap.                   *)

(* The queue q, with heap h and nodes ns: the part of EntriesAreLive that  *)
(* does not speak of current.                                              *)
LiveEntries(q, h, ns) ==
    /\ \A i \in DOMAIN q : /\ h[q[i].obj] # NULL
                           /\ Digest(h[q[i].obj].value) = q[i].node
                           /\ q[i].node \in ns
    /\ \A i, j \in DOMAIN q : (q[i].obj = q[j].obj \/ q[i].node = q[j].node) => i = j

(* What getNode appends is live if it is a new object, or one that is not  *)
(* queued, whose contents have the digest.                                 *)
LEMMA LiveAfterGetNode ==
    ASSUME NEW q \in Seq(Entry), NEW o \in Objects, NEW v \in Values, NEW h,
           Digest(v) \in Digests,
           LiveEntries(q, h, nodes), GetNode(o, v, q),
           h[o] # NULL, h[o].value = v,
           \A i \in DOMAIN q : q[i].obj # o
    PROVE  LiveEntries(queue', h, nodes')
  <1> DEFINE e == [node |-> Digest(v), obj |-> o]
  <1>1. e \in Entry
    BY DEF Entry
  <1>2. CASE Digest(v) \in nodes
    BY <1>2 DEF GetNode, LiveEntries
  <1>3. CASE Digest(v) \notin nodes
    <2>1. queue' = Append(q, e) /\ nodes' = nodes \cup {Digest(v)}
      BY <1>3 DEF GetNode
    <2>2. /\ DOMAIN queue' = 1 .. Len(q) + 1 /\ DOMAIN q = 1 .. Len(q) /\ Len(q) \in Nat
          /\ \A i \in 1 .. Len(q) : queue'[i] = q[i]
          /\ queue'[Len(q) + 1] = e
      BY <1>1, <2>1, QueueAfterGetNode
    <2>3. \A i \in 1 .. Len(q) : q[i].obj # o /\ q[i].node # Digest(v)
      BY <1>3, <2>2 DEF LiveEntries
    <2>4. \A i \in DOMAIN queue' : i \in 1 .. Len(q) \/ i = Len(q) + 1
      BY <2>2
    <2>5. \A i \in DOMAIN queue' : /\ h[queue'[i].obj] # NULL
                                   /\ Digest(h[queue'[i].obj].value) = queue'[i].node
                                   /\ queue'[i].node \in nodes'
      BY <2>1, <2>2, <2>4 DEF LiveEntries
    <2>6. \A i, j \in DOMAIN queue' :
             (queue'[i].obj = queue'[j].obj \/ queue'[i].node = queue'[j].node) => i = j
      BY <2>2, <2>3, <2>4 DEF LiveEntries
    <2> QED
      BY <2>5, <2>6 DEF LiveEntries
  <1> QED
    BY <1>2, <1>3

(* The queue without its first element keeps what it had.                  *)
LEMMA LiveAfterPop ==
    ASSUME TypeOK, EntriesAreLive, queue # << >>
    PROVE  /\ LiveEntries(Tail(queue), heap, nodes)
           /\ Tail(queue) \in Seq(Entry)
           /\ \A i \in DOMAIN Tail(queue) : /\ Tail(queue)[i].obj # Head(queue).obj
                                            /\ Tail(queue)[i].node # Head(queue).node
           /\ \A i \in DOMAIN Tail(queue) : /\ i \in Nat
                                            /\ i + 1 \in DOMAIN queue
                                            /\ Tail(queue)[i] = queue[i + 1]
           /\ \A i \in DOMAIN queue : queue[i] = Head(queue)
                 \/ \E j \in DOMAIN Tail(queue) : queue[i] = Tail(queue)[j]
  <1>1. queue \in Seq(Entry)
    BY DEF TypeOK
  <1>2. /\ Tail(queue) \in Seq(Entry)
        /\ Head(queue) = queue[1] /\ 1 \in DOMAIN queue
        /\ DOMAIN queue = 1 .. Len(queue) /\ Len(queue) \in Nat \ {0}
        /\ DOMAIN Tail(queue) = 1 .. Len(queue) - 1
        /\ \A i \in 1 .. Len(queue) - 1 : Tail(queue)[i] = queue[i + 1]
    BY <1>1, QueueAfterPop
  <1>3. \A i \in DOMAIN Tail(queue) :
           i \in Nat /\ i + 1 \in DOMAIN queue /\ i + 1 # 1 /\ Tail(queue)[i] = queue[i + 1]
    BY <1>2
  <1>4. \A i \in DOMAIN Tail(queue) : /\ Tail(queue)[i].obj # Head(queue).obj
                                      /\ Tail(queue)[i].node # Head(queue).node
    BY <1>2, <1>3 DEF EntriesAreLive
  <1>5. \A i \in DOMAIN Tail(queue) :
           /\ heap[Tail(queue)[i].obj] # NULL
           /\ Digest(heap[Tail(queue)[i].obj].value) = Tail(queue)[i].node
           /\ Tail(queue)[i].node \in nodes
    BY <1>3 DEF EntriesAreLive
  <1>6. \A i, j \in DOMAIN Tail(queue) :
           (Tail(queue)[i].obj = Tail(queue)[j].obj
              \/ Tail(queue)[i].node = Tail(queue)[j].node) => i = j
    <2> TAKE i, j \in DOMAIN Tail(queue)
    <2>1. (queue[i + 1].obj = queue[j + 1].obj \/ queue[i + 1].node = queue[j + 1].node)
            => i + 1 = j + 1
      BY <1>3 DEF EntriesAreLive
    <2> QED
      BY <1>3, <2>1
  <1>7. \A i \in DOMAIN queue : queue[i] = Head(queue)
                 \/ \E j \in DOMAIN Tail(queue) : queue[i] = Tail(queue)[j]
    <2> TAKE i \in DOMAIN queue
    <2>1. CASE i = 1
      BY <1>2, <2>1
    <2>2. CASE i # 1
      <3>1. i - 1 \in DOMAIN Tail(queue) /\ (i - 1) + 1 = i
        BY <1>2, <2>2
      <3> QED
        BY <1>2, <3>1
    <2> QED
      BY <2>1, <2>2
  <1> QED
    BY <1>2, <1>3, <1>4, <1>5, <1>6, <1>7 DEF LiveEntries

(* LiveEntries sees of the heap only the objects that are queued.          *)
LEMMA LiveEntriesDepend ==
    ASSUME NEW q, NEW h, NEW g, NEW ns, LiveEntries(q, h, ns),
           \A i \in DOMAIN q : /\ g[q[i].obj] # NULL
                               /\ g[q[i].obj].value = h[q[i].obj].value
    PROVE  LiveEntries(q, g, ns)
    BY DEF LiveEntries

LEMMA EntriesAreLiveNext ==
    ASSUME TypeOK, EntriesAreLive, NodesAreReached, [Next]_vars
    PROVE  EntriesAreLive'
  <1>0. LiveEntries(queue, heap, nodes) /\ queue \in Seq(Entry)
    BY DEF EntriesAreLive, LiveEntries, TypeOK
  <1>1. CASE Construct
    <2> DEFINE x == InitialRun(program)
    <2>1. /\ x.value \in Values /\ 0 \in Objects /\ Digest(x.value) \in Digests
          /\ heap' = [heap EXCEPT ![0] = [value |-> x.value, acts |-> 0]]
          /\ fresh' = 1 /\ nodes = {} /\ current' = current
          /\ GetNode(0, x.value, queue)
      BY <1>1, ConstructStep
    <2>2. /\ queue = << >> /\ current = NULL /\ fresh = 0
          /\ \A i \in DOMAIN queue : queue[i].obj # 0
      BY <2>1 DEF NodesAreReached
    <2>3. \A o \in Objects : heap'[o] # NULL => o < fresh'
      BY <2>1, <2>2 DEF EntriesAreLive, TypeOK, Objects
    <2>4. heap'[0] # NULL /\ heap'[0].value = x.value
      <3>1. [value |-> x.value, acts |-> 0] \in HeapObject
        BY <2>1 DEF HeapObject
      <3> QED
        BY <2>1, <3>1, NullAssumption DEF TypeOK
    <2>5. LiveEntries(queue, heap', nodes)
      BY <2>2 DEF LiveEntries
    <2>6. LiveEntries(queue', heap', nodes')
      BY <1>0, <2>1, <2>2, <2>4, <2>5, LiveAfterGetNode
    <2> QED
      BY <2>1, <2>2, <2>3, <2>6 DEF EntriesAreLive, LiveEntries
  <1>2. CASE FastRunChild
    <2> DEFINE e == Head(queue)
               old == heap[e.obj]
    <2>1. PICK x \in FastRun(program, old.value) :
             /\ x.value \in Values /\ Digest(x.value) \in Digests
             /\ current' = NULL /\ fresh' = fresh
             /\ heap' = [heap EXCEPT ![e.obj] = [value |-> x.value, acts |-> 0]]
             /\ GetNode(e.obj, x.value, Tail(queue))
      BY <1>2, FastRunStep
    <2>2. e.obj \in Objects /\ old \in HeapObject /\ queue # << >>
      BY <1>2, PoppedIsLive DEF FastRunChild, Popping
    <2>3. heap'[e.obj] # NULL /\ heap'[e.obj].value = x.value
      <3>1. [value |-> x.value, acts |-> 0] \in HeapObject
        BY <2>1 DEF HeapObject
      <3> QED
        BY <2>1, <2>2, <3>1, NullAssumption DEF TypeOK
    <2>4. /\ LiveEntries(Tail(queue), heap, nodes)
          /\ Tail(queue) \in Seq(Entry)
          /\ \A i \in DOMAIN Tail(queue) : Tail(queue)[i].obj # e.obj
      BY <2>2, LiveAfterPop
    <2>5. \A i \in DOMAIN Tail(queue) : /\ heap'[Tail(queue)[i].obj] # NULL
                 /\ heap'[Tail(queue)[i].obj].value = heap[Tail(queue)[i].obj].value
      <3>1. \A i \in DOMAIN Tail(queue) : Tail(queue)[i].obj \in Objects
        BY <2>4, EntryTypes
      <3> QED
        BY <2>1, <2>4, <3>1 DEF LiveEntries, TypeOK
    <2>6. LiveEntries(queue', heap', nodes')
      <3>1. LiveEntries(Tail(queue), heap', nodes)
        BY <2>4, <2>5, LiveEntriesDepend
      <3> QED
        BY <2>1, <2>2, <2>3, <2>4, <3>1, LiveAfterGetNode
    <2>7. \A o \in Objects : heap'[o] # NULL => o < fresh'
      BY <2>1, <2>2, NullAssumption DEF EntriesAreLive, TypeOK
    <2> QED
      BY <2>1, <2>6, <2>7 DEF EntriesAreLive, LiveEntries
  <1>3. CASE StartForking
    <2> DEFINE e == Head(queue)
    <2>1. /\ queue # << >> /\ queue' = Tail(queue)
          /\ current'.node = e.node /\ current'.obj = e.obj
          /\ heap' = heap /\ nodes' = nodes /\ fresh' = fresh
      BY <1>3, StartForkingStep DEF StartForking
    <2>2. /\ LiveEntries(queue', heap, nodes)
          /\ \A i \in DOMAIN queue' : queue'[i].obj # e.obj /\ queue'[i].node # e.node
      BY <2>1, LiveAfterPop
    <2>3. heap[e.obj] # NULL /\ Digest(heap[e.obj].value) = e.node /\ e.node \in nodes
      BY <1>3, PoppedIsLive, NullAssumption DEF StartForking
    <2> QED
      BY <2>1, <2>2, <2>3 DEF EntriesAreLive, LiveEntries
  <1>4. CASE ForkChild
    <2>1. PICK x \in current.todo :
             /\ x.value \in Values /\ x.acts \in Nat /\ Digest(x.value) \in Digests
             /\ fresh \in Objects /\ heap[fresh] = NULL /\ current.obj # fresh
             /\ heap' = [heap EXCEPT ![current.obj].acts = 0,
                                     ![fresh] = [value |-> x.value, acts |-> x.acts]]
             /\ fresh' = fresh + 1
             /\ GetNode(fresh, x.value, queue)
             /\ current'.node = current.node /\ current'.obj = current.obj
      BY <1>4, ForkStep
    <2>2. /\ current.obj \in Objects /\ heap[current.obj] \in HeapObject /\ current # NULL
          /\ Digest(heap[current.obj].value) = current.node /\ current.node \in nodes
      BY <1>4, CurrentIsLive DEF ForkChild
    <2>3. /\ heap'[fresh] # NULL /\ heap'[fresh].value = x.value
          /\ heap'[current.obj] # NULL
          /\ heap'[current.obj].value = heap[current.obj].value
          /\ \A o \in Objects \ {current.obj, fresh} : heap'[o] = heap[o]
      <3>1. /\ [value |-> x.value, acts |-> x.acts] \in HeapObject
            /\ [heap[current.obj] EXCEPT !.acts = 0] \in HeapObject
            /\ [heap[current.obj] EXCEPT !.acts = 0].value = heap[current.obj].value
        BY <2>1, <2>2 DEF HeapObject
      <3>2. /\ heap'[fresh] = [value |-> x.value, acts |-> x.acts]
            /\ heap'[current.obj] = [heap[current.obj] EXCEPT !.acts = 0]
            /\ \A o \in Objects \ {current.obj, fresh} : heap'[o] = heap[o]
        BY <2>1, <2>2 DEF TypeOK
      <3> QED
        BY <3>1, <3>2, NullAssumption
    <2>4. \A i \in DOMAIN queue : /\ queue[i].obj \in Objects
                                  /\ queue[i].obj # fresh /\ queue[i].obj # current.obj
                                  /\ queue[i].node # current.node
      BY <1>0, <2>1, <2>2, EntryTypes DEF EntriesAreLive
    <2>5. LiveEntries(queue', heap', nodes')
      <3>1. LiveEntries(queue, heap', nodes)
        BY <1>0, <2>3, <2>4 DEF LiveEntries
      <3>2. /\ x.value \in Values /\ Digest(x.value) \in Digests /\ fresh \in Objects
            /\ GetNode(fresh, x.value, queue)
        BY <2>1
      <3> QED
        BY <1>0, <2>3, <2>4, <3>1, <3>2, LiveAfterGetNode
    <2>6. \A i \in DOMAIN queue' : /\ queue'[i].obj # current.obj
                                   /\ queue'[i].node # current.node
      <3> DEFINE f == [node |-> Digest(x.value), obj |-> fresh]
      <3>1. CASE Digest(x.value) \in nodes
        BY <2>1, <2>4, <3>1 DEF GetNode
      <3>2. CASE Digest(x.value) \notin nodes
        <4>1. queue' = Append(queue, f) /\ f \in Entry
          BY <2>1, <3>2 DEF GetNode, Entry
        <4>2. f.obj # current.obj /\ f.node # current.node
          BY <2>1, <2>2, <3>2
        <4> QED
          BY <1>0, <2>4, <4>1, <4>2, QueueAfterGetNode
      <3> QED
        BY <3>1, <3>2
    <2>7. \A o \in Objects : heap'[o] # NULL => o < fresh'
      <3>1. \A o \in Objects : heap[o] # NULL => o < fresh + 1
        BY DEF EntriesAreLive, TypeOK, Objects
      <3>2. fresh < fresh + 1
        BY DEF TypeOK
      <3>3. current.obj < fresh + 1
        BY <2>2, <3>1, NullAssumption
      <3> QED
        BY <2>1, <2>3, <3>1, <3>2, <3>3
    <2>8. current.node \in nodes'
      BY <2>1, <2>2 DEF GetNode
    <2> QED
      BY <2>1, <2>2, <2>3, <2>5, <2>6, <2>7, <2>8 DEF EntriesAreLive, LiveEntries
  <1>5. CASE FinishNode
    <2>1. /\ current # NULL /\ current' = NULL /\ queue' = queue /\ nodes' = nodes
          /\ heap' = [heap EXCEPT ![current.obj] = NULL] /\ fresh' = fresh
      BY <1>5 DEF FinishNode
    <2>2. \A i \in DOMAIN queue : queue[i].obj \in Objects /\ queue[i].obj # current.obj
      BY <1>0, <2>1, EntryTypes DEF EntriesAreLive
    <2>3. LiveEntries(queue', heap', nodes')
      BY <1>0, <2>1, <2>2 DEF LiveEntries, TypeOK
    <2>4. \A o \in Objects : heap'[o] # NULL => o < fresh'
      BY <2>1 DEF EntriesAreLive, TypeOK
    <2> QED
      BY <2>1, <2>3, <2>4 DEF EntriesAreLive, LiveEntries
  <1>6. CASE UNCHANGED vars
    BY <1>6 DEF vars, EntriesAreLive
  <1> QED
    BY <1>1, <1>2, <1>3, <1>4, <1>5, <1>6 DEF Next

-----------------------------------------------------------------------------
(* The state the interpreter is in.                                        *)

LEMMA LastRunIsLastNext ==
    ASSUME TypeOK, EntriesAreLive, NodesAreReached, LastRunIsLast, [Next]_vars
    PROVE  LastRunIsLast'
  <1>0. queue \in Seq(Entry) /\ \A i \in DOMAIN queue : queue[i].obj \in Objects
    BY EntryTypes DEF TypeOK
  (* getNode puts the object that ran at the end, or nowhere.              *)
  <1> DEFINE RanLast(q, o) ==
        \A i \in DOMAIN queue' : queue'[i].obj = o => i = Len(queue')
  <1>a. ASSUME NEW q \in Seq(Entry), NEW o \in Objects, NEW v \in Values,
               Digest(v) \in Digests, GetNode(o, v, q),
               \A i \in DOMAIN q : q[i].obj # o
        PROVE  RanLast(q, o)
    <2> DEFINE e == [node |-> Digest(v), obj |-> o]
    <2>1. CASE Digest(v) \in nodes
      BY <1>a, <2>1 DEF GetNode
    <2>2. CASE Digest(v) \notin nodes
      <3>1. queue' = Append(q, e) /\ e \in Entry
        BY <1>a, <2>2 DEF GetNode, Entry
      <3>2. /\ DOMAIN queue' = 1 .. Len(q) + 1 /\ DOMAIN q = 1 .. Len(q)
            /\ Len(q) \in Nat /\ Len(queue') = Len(q) + 1
            /\ \A i \in 1 .. Len(q) : queue'[i] = q[i]
        BY <3>1, QueueAfterGetNode
      <3> QED
        BY <1>a, <3>2
    <2> QED
      BY <2>1, <2>2
  <1>1. CASE Construct
    <2> DEFINE x == InitialRun(program)
    <2>1. /\ x.value \in Values /\ 0 \in Objects /\ Digest(x.value) \in Digests
          /\ heap' = [heap EXCEPT ![0] = [value |-> x.value, acts |-> 0]]
          /\ intr' = 0 /\ nodes = {} /\ current' = current
          /\ GetNode(0, x.value, queue)
      BY <1>1, ConstructStep
    <2>2. /\ queue = << >> /\ current = NULL
          /\ \A i \in DOMAIN queue : queue[i].obj # 0
      BY <2>1 DEF NodesAreReached
    <2>3. heap'[0] # NULL
      <3>1. [value |-> x.value, acts |-> 0] \in HeapObject
        BY <2>1 DEF HeapObject
      <3> QED
        BY <2>1, <3>1, NullAssumption DEF TypeOK
    <2>4. RanLast(queue, 0)
      BY <1>0, <1>a, <2>1, <2>2
    <2> QED
      BY <2>1, <2>2, <2>3, <2>4 DEF LastRunIsLast
  <1>2. CASE FastRunChild
    <2> DEFINE e == Head(queue)
               old == heap[e.obj]
    <2>1. PICK x \in FastRun(program, old.value) :
             /\ x.value \in Values /\ Digest(x.value) \in Digests
             /\ current' = NULL /\ intr' = e.obj
             /\ heap' = [heap EXCEPT ![e.obj] = [value |-> x.value, acts |-> 0]]
             /\ GetNode(e.obj, x.value, Tail(queue))
      BY <1>2, FastRunStep
    <2>2. e.obj \in Objects /\ queue # << >>
      BY <1>2, PoppedIsLive DEF FastRunChild, Popping
    <2>3. heap'[e.obj] # NULL
      <3>1. [value |-> x.value, acts |-> 0] \in HeapObject
        BY <2>1 DEF HeapObject
      <3> QED
        BY <2>1, <2>2, <3>1, NullAssumption DEF TypeOK
    <2>4. Tail(queue) \in Seq(Entry) /\ \A i \in DOMAIN Tail(queue) : Tail(queue)[i].obj # e.obj
      BY <2>2, LiveAfterPop
    <2>5. RanLast(Tail(queue), e.obj)
      <3> HIDE DEF e
      <3> QED
        BY <1>a, <2>1, <2>2, <2>4
    <2> QED
      BY <2>1, <2>3, <2>5 DEF LastRunIsLast
  <1>3. CASE StartForking
    <2> DEFINE e == Head(queue)
    <2>1. /\ queue # << >> /\ queue' = Tail(queue) /\ current = NULL
          /\ current'.obj = e.obj /\ heap' = heap /\ intr' = intr
      BY <1>3, StartForkingStep DEF StartForking
    <2>2. heap[intr] # NULL
      BY <2>1 DEF LastRunIsLast
    <2>3. /\ DOMAIN queue = 1 .. Len(queue) /\ Len(queue) \in Nat \ {0}
          /\ Head(queue) = queue[1] /\ Len(Tail(queue)) = Len(queue) - 1
          /\ 1 \in DOMAIN queue
          /\ DOMAIN Tail(queue) = 1 .. Len(queue) - 1
          /\ \A i \in 1 .. Len(queue) - 1 : Tail(queue)[i] = queue[i + 1]
          /\ Tail(queue) \in Seq(Entry)
      BY <1>0, <2>1, QueueAfterPop
    <2>4. \A i \in DOMAIN queue' : queue'[i].obj = intr => i = Len(queue')
      <3> TAKE i \in DOMAIN queue'
      <3>1. /\ i + 1 \in DOMAIN queue /\ queue'[i] = queue[i + 1]
            /\ i \in Nat /\ Len(queue') = Len(queue) - 1
        BY <2>1, <2>3
      <3>2. queue[i + 1].obj = intr => i + 1 = Len(queue)
        BY <3>1 DEF LastRunIsLast
      <3> QED
        BY <2>3, <3>1, <3>2
    <2>5. e.obj = intr => queue' = << >>
      <3>1. e.obj = intr => Len(queue) = 1
        BY <2>3 DEF LastRunIsLast
      <3>2. Len(queue) = 1 => Len(Tail(queue)) = 0
        BY <2>3
      <3>3. Len(Tail(queue)) = 0 => Tail(queue) = << >>
        BY <2>3, EmptyQueue
      <3> QED
        BY <2>1, <3>1, <3>2, <3>3
    <2> QED
      BY <2>1, <2>2, <2>4, <2>5 DEF LastRunIsLast
  <1>4. CASE ForkChild
    <2>1. PICK x \in current.todo :
             /\ x.value \in Values /\ x.acts \in Nat /\ Digest(x.value) \in Digests
             /\ fresh \in Objects /\ heap[fresh] = NULL /\ current.obj # fresh
             /\ heap' = [heap EXCEPT ![current.obj].acts = 0,
                                     ![fresh] = [value |-> x.value, acts |-> x.acts]]
             /\ intr' = fresh
             /\ GetNode(fresh, x.value, queue)
             /\ current'.obj = current.obj
      BY <1>4, ForkStep
    <2>2. heap'[fresh] # NULL
      <3>1. [value |-> x.value, acts |-> x.acts] \in HeapObject
        BY <2>1 DEF HeapObject
      <3>2. heap'[fresh] = [value |-> x.value, acts |-> x.acts]
        BY <2>1 DEF TypeOK
      <3> QED
        BY <3>1, <3>2, NullAssumption
    <2>3. \A i \in DOMAIN queue : queue[i].obj # fresh
      <3>1. \A i \in DOMAIN queue : heap[queue[i].obj] # NULL
        BY DEF EntriesAreLive
      <3>2. heap[fresh] = NULL
        BY <2>1
      <3> QED
        BY <3>1, <3>2
    <2>4. RanLast(queue, fresh)
      <3>1. /\ x.value \in Values /\ Digest(x.value) \in Digests /\ fresh \in Objects
            /\ GetNode(fresh, x.value, queue)
        BY <2>1
      <3> QED
        BY <1>0, <1>a, <2>3, <3>1
    <2>5. intr' = fresh /\ current'.obj # fresh
      BY <2>1
    <2> QED
      BY <2>2, <2>4, <2>5 DEF LastRunIsLast
  <1>5. CASE FinishNode
    <2>1. /\ current # NULL /\ current' = NULL /\ queue' = queue /\ intr' = intr
          /\ heap' = [heap EXCEPT ![current.obj] = NULL]
      BY <1>5 DEF FinishNode
    <2>2. queue # << >> => current.obj # intr /\ heap[intr] # NULL
      BY <2>1 DEF LastRunIsLast
    <2>3. queue # << >> => heap'[intr] # NULL
      BY <2>1, <2>2 DEF TypeOK
    <2> QED
      BY <2>1, <2>3 DEF LastRunIsLast
  <1>6. CASE UNCHANGED vars
    BY <1>6 DEF vars, LastRunIsLast
  <1> QED
    BY <1>1, <1>2, <1>3, <1>4, <1>5, <1>6 DEF Next

-----------------------------------------------------------------------------
(* Nodes come from states that the program reaches.                        *)

LEMMA ReachableClosed ==
    ASSUME NEW p \in Programs
    PROVE  /\ InitialRun(p).value \in Reachable(p)
           /\ \A v \in Reachable(p) : v \in Values
           /\ \A v \in Reachable(p) : \A x \in Runs(p, v) : x.value \in Reachable(p)
  <1>1. InitialRun(p).value \in Values
    BY ProgramAssumption DEF Outcome
  <1>2. ASSUME NEW v \in Reachable(p), NEW x \in Runs(p, v)
        PROVE  x.value \in Reachable(p)
    <2>1. v \in Values
      BY DEF Reachable
    <2>2. x.value \in Values
      BY <2>1, RunTypes DEF Outcome
    <2>3. ASSUME NEW S \in SUBSET Values, InitialRun(p).value \in S, Closed(p, S)
          PROVE  x.value \in S
      <3>1. v \in S
        BY <2>3 DEF Reachable
      <3> QED
        BY <2>3, <3>1 DEF Closed
    <2> QED
      BY <2>2, <2>3 DEF Reachable
  <1>3. InitialRun(p).value \in Reachable(p)
    BY <1>1 DEF Reachable
  <1>4. \A v \in Reachable(p) : v \in Values
    BY DEF Reachable
  <1> QED
    BY <1>2, <1>3, <1>4

(* getNode adds the node, and its entry if the node is new, and nothing    *)
(* else, to what is there.                                                 *)
LEMMA QueuedByGetNode ==
    ASSUME NEW q \in Seq(Entry), NEW o \in Objects, NEW v \in Values,
           Digest(v) \in Digests, GetNode(o, v, q)
    PROVE  /\ nodes' = nodes \cup {Digest(v)}
           /\ \A i \in DOMAIN queue' :
                 \/ \E j \in DOMAIN q : queue'[i] = q[j]
                 \/ queue'[i].node = Digest(v) /\ queue'[i].obj = o /\ Digest(v) \notin nodes
           /\ \A j \in DOMAIN q : \E i \in DOMAIN queue' : queue'[i] = q[j]
           /\ Digest(v) \notin nodes => \E i \in DOMAIN queue' : queue'[i].node = Digest(v)
  <1> DEFINE e == [node |-> Digest(v), obj |-> o]
  <1>1. nodes' = nodes \cup {Digest(v)}
    BY DEF GetNode
  <1>2. CASE Digest(v) \in nodes
    BY <1>1, <1>2 DEF GetNode
  <1>3. CASE Digest(v) \notin nodes
    <2>1. queue' = Append(q, e) /\ e \in Entry
      BY <1>3 DEF GetNode, Entry
    <2>2. /\ DOMAIN queue' = 1 .. Len(q) + 1 /\ DOMAIN q = 1 .. Len(q) /\ Len(q) \in Nat
          /\ \A i \in 1 .. Len(q) : queue'[i] = q[i]
          /\ queue'[Len(q) + 1].obj = o /\ queue'[Len(q) + 1].node = Digest(v)
      BY <2>1, QueueAfterGetNode
    <2>3. \A i \in DOMAIN queue' : i \in 1 .. Len(q) \/ i = Len(q) + 1
      BY <2>2
    <2> QED
      BY <1>1, <1>3, <2>2, <2>3
  <1> QED
    BY <1>2, <1>3

LEMMA NodesAreReachedNext ==
    ASSUME TypeOK, EntriesAreLive, NodesAreReached, NodesAreExpanded, [Next]_vars
    PROVE  NodesAreReached'
  <1> DEFINE R == Reachable(program)
             D == {Digest(v) : v \in R}
  <1>0. /\ queue \in Seq(Entry) /\ program \in Programs
        /\ \A i \in DOMAIN queue : queue[i].obj \in Objects
        /\ nodes \subseteq D
        /\ \A i \in DOMAIN queue : heap[queue[i].obj].value \in R
    BY EntryTypes DEF TypeOK, NodesAreReached
  <1>a. R \subseteq Values /\ InitialRun(program).value \in R
    BY <1>0, ReachableClosed
  <1>b. ASSUME NEW from \in nodes \cup {InitialNode}, NEW to, NEW acts,
               AddArc(from, to, acts), nodes' = nodes \cup {to}
        PROVE  \A a \in arcs' : a.to \in nodes' /\ a.from \in nodes' \cup {InitialNode}
    BY <1>b DEF AddArc, NodesAreReached
  <1>1. CASE Construct
    <2> DEFINE x == InitialRun(program)
    <2>1. /\ x.value \in Values /\ 0 \in Objects /\ Digest(x.value) \in Digests
          /\ heap' = [heap EXCEPT ![0] = [value |-> x.value, acts |-> 0]]
          /\ nodes = {} /\ current' = current /\ program' = program
          /\ GetNode(0, x.value, queue)
          /\ AddArc(InitialNode, Digest(x.value), x.acts)
      BY <1>1, ConstructStep
    <2>2. /\ queue = << >> /\ current = NULL
          /\ \A i \in DOMAIN queue : heap'[queue[i].obj].value \in R
      BY <2>1 DEF NodesAreReached
    <2>3. heap'[0].value = x.value
      BY <2>1 DEF TypeOK
    <2>4. /\ nodes' \subseteq D
          /\ \A i \in DOMAIN queue' : heap'[queue'[i].obj].value \in R
          /\ nodes' = nodes \cup {Digest(x.value)}
      <3>1. /\ x.value \in Values /\ Digest(x.value) \in Digests /\ 0 \in Objects
            /\ GetNode(0, x.value, queue)
        BY <2>1
      <3>2. x.value \in R /\ Digest(x.value) \in D
        BY <1>a
      <3>3. /\ nodes' = nodes \cup {Digest(x.value)}
            /\ \A i \in DOMAIN queue' :
                  (\E j \in DOMAIN queue : queue'[i] = queue[j]) \/ queue'[i].obj = 0
        BY <1>0, <3>1, QueuedByGetNode
      <3> HIDE DEF R, D, x
      <3> QED
        BY <1>0, <2>2, <2>3, <3>2, <3>3
    <2>5. \A a \in arcs' : a.to \in nodes' /\ a.from \in nodes' \cup {InitialNode}
      BY <1>b, <2>1, <2>4
    <2> QED
      BY <2>1, <2>2, <2>4, <2>5 DEF NodesAreReached
  <1>2. CASE FastRunChild
    <2> DEFINE e == Head(queue)
               old == heap[e.obj]
    <2>1. PICK x \in FastRun(program, old.value) :
             /\ x.value \in Values /\ Digest(x.value) \in Digests
             /\ current' = NULL /\ program' = program
             /\ heap' = [heap EXCEPT ![e.obj] = [value |-> x.value, acts |-> 0]]
             /\ GetNode(e.obj, x.value, Tail(queue))
             /\ AddArc(e.node, Digest(x.value), old.acts + x.acts)
      BY <1>2, FastRunStep
    <2>2. e.obj \in Objects /\ queue # << >> /\ e.node \in nodes
      BY <1>2, PoppedIsLive DEF FastRunChild, Popping
    <2>3. /\ Tail(queue) \in Seq(Entry)
          /\ \A i \in DOMAIN Tail(queue) : /\ Tail(queue)[i].obj # e.obj
                                           /\ i + 1 \in DOMAIN queue
                                           /\ Tail(queue)[i] = queue[i + 1]
      BY <2>2, LiveAfterPop
    <2>4. x.value \in R
      <3>1. old.value \in R
        BY <1>0, <2>2, QueueAfterPop
      <3>2. x \in Runs(program, old.value)
        BY DEF Runs
      <3> QED
        BY <1>0, <3>1, <3>2, ReachableClosed
    <2>5. /\ heap'[e.obj].value = x.value
          /\ \A i \in DOMAIN Tail(queue) : heap'[Tail(queue)[i].obj].value \in R
      <3>1. \A i \in DOMAIN Tail(queue) :
               /\ heap[Tail(queue)[i].obj].value \in R
               /\ Tail(queue)[i].obj \in Objects \ {e.obj}
        BY <1>0, <2>3
      <3>2. \A o \in Objects \ {e.obj} : heap'[o] = heap[o]
        BY <2>1, <2>2 DEF TypeOK
      <3>3. heap'[e.obj].value = x.value
        BY <2>1, <2>2 DEF TypeOK
      <3> QED
        BY <3>1, <3>2, <3>3
    <2>6. /\ nodes' \subseteq D
          /\ \A i \in DOMAIN queue' : heap'[queue'[i].obj].value \in R
          /\ nodes' = nodes \cup {Digest(x.value)}
      <3>1. /\ x.value \in Values /\ Digest(x.value) \in Digests
            /\ GetNode(e.obj, x.value, Tail(queue))
            /\ e.obj \in Objects /\ Tail(queue) \in Seq(Entry)
        BY <2>1, <2>2, <2>3
      <3>2. nodes \subseteq D /\ Digest(x.value) \in D
        BY <1>0, <2>4
      <3>3. /\ nodes' = nodes \cup {Digest(x.value)}
            /\ \A i \in DOMAIN queue' :
                  (\E j \in DOMAIN Tail(queue) : queue'[i] = Tail(queue)[j]) \/ queue'[i].obj = e.obj
        <4> DEFINE t == Tail(queue)
                   o == e.obj
        <4>1. t \in Seq(Entry) /\ o \in Objects /\ GetNode(o, x.value, t)
          BY <3>1
        <4> HIDE DEF t, o
        <4>2. /\ nodes' = nodes \cup {Digest(x.value)}
              /\ \A i \in DOMAIN queue' :
                    (\E j \in DOMAIN t : queue'[i] = t[j]) \/ queue'[i].obj = o
          BY <3>1, <4>1, QueuedByGetNode
        <4> QED
          BY <4>2 DEF t, o
      <3> HIDE DEF R, D, e
      <3> QED
        BY <2>4, <2>5, <3>2, <3>3
    <2>7. \A a \in arcs' : a.to \in nodes' /\ a.from \in nodes' \cup {InitialNode}
      BY <1>b, <2>1, <2>2, <2>6
    <2>8. Digest(InitialRun(program).value) \in nodes' /\ nodes' # {}
      BY <2>2, <2>6 DEF NodesAreReached
    <2> QED
      BY <2>1, <2>6, <2>7, <2>8 DEF NodesAreReached
  <1>3. CASE StartForking
    <2> DEFINE e == Head(queue)
    <2>1. /\ queue # << >> /\ queue' = Tail(queue)
          /\ current'.obj = e.obj /\ heap' = heap /\ program' = program
          /\ nodes' = nodes /\ arcs' = arcs
      BY <1>3, StartForkingStep DEF StartForking
    <2>2. heap[e.obj].value \in R
      BY <1>0, <2>1, QueueAfterPop
    <2>3. \A i \in DOMAIN queue' : i + 1 \in DOMAIN queue /\ queue'[i] = queue[i + 1]
      BY <2>1, LiveAfterPop
    <2>4. nodes # {}
      BY <2>1 DEF NodesAreReached
    <2> QED
      BY <1>0, <2>1, <2>2, <2>3, <2>4 DEF NodesAreReached
  <1>4. CASE ForkChild
    <2>1. PICK x \in current.todo :
             /\ x.value \in Values /\ x.acts \in Nat /\ Digest(x.value) \in Digests
             /\ fresh \in Objects /\ heap[fresh] = NULL /\ current.obj # fresh
             /\ heap' = [heap EXCEPT ![current.obj].acts = 0,
                                     ![fresh] = [value |-> x.value, acts |-> x.acts]]
             /\ program' = program
             /\ GetNode(fresh, x.value, queue)
             /\ AddArc(current.node, Digest(x.value), heap[current.obj].acts)
             /\ current'.obj = current.obj
      BY <1>4, ForkStep
    <2>2. /\ current.obj \in Objects /\ heap[current.obj] \in HeapObject /\ current # NULL
          /\ current.node \in nodes
      BY <1>4, CurrentIsLive DEF ForkChild
    <2>3. /\ heap'[fresh].value = x.value
          /\ \A o \in Objects \ {fresh} : heap'[o].value = heap[o].value
      <3>1. [heap[current.obj] EXCEPT !.acts = 0].value = heap[current.obj].value
        BY <2>2 DEF HeapObject
      <3>2. /\ heap'[fresh] = [value |-> x.value, acts |-> x.acts]
            /\ heap'[current.obj] = [heap[current.obj] EXCEPT !.acts = 0]
            /\ \A o \in Objects \ {current.obj, fresh} : heap'[o] = heap[o]
        BY <2>1, <2>2 DEF TypeOK
      <3>3. heap'[current.obj].value = heap[current.obj].value /\ heap'[fresh].value = x.value
        BY <3>1, <3>2
      <3> QED
        BY <3>2, <3>3
    <2>4. \A i \in DOMAIN queue : heap'[queue[i].obj].value \in R
      <3>1. \A i \in DOMAIN queue : heap[queue[i].obj] # NULL
        BY DEF EntriesAreLive
      <3>2. heap[fresh] = NULL
        BY <2>1
      <3> QED
        BY <1>0, <2>3, <3>1, <3>2
    <2>5. /\ nodes' \subseteq D
          /\ \A i \in DOMAIN queue' : heap'[queue'[i].obj].value \in R
          /\ nodes' = nodes \cup {Digest(x.value)}
      <3>1. /\ x.value \in Values /\ Digest(x.value) \in Digests /\ fresh \in Objects
            /\ GetNode(fresh, x.value, queue)
        BY <2>1
      <3>2. x.value \in R
        <4>1. x \in Runs(program, heap[current.obj].value)
          BY <2>2 DEF NodesAreExpanded, Runs
        <4>2. heap[current.obj].value \in R
          BY <2>2 DEF NodesAreReached
        <4> QED
          BY <1>0, <4>1, <4>2, ReachableClosed
      <3>3. Digest(x.value) \in D
        BY <3>2
      <3>4. /\ nodes' = nodes \cup {Digest(x.value)}
            /\ \A i \in DOMAIN queue' :
                  (\E j \in DOMAIN queue : queue'[i] = queue[j]) \/ queue'[i].obj = fresh
        BY <1>0, <3>1, QueuedByGetNode
      <3> HIDE DEF R, D
      <3> QED
        BY <1>0, <2>3, <2>4, <3>2, <3>3, <3>4
    <2>6. \A a \in arcs' : a.to \in nodes' /\ a.from \in nodes' \cup {InitialNode}
      BY <1>b, <2>1, <2>2, <2>5
    <2>7. Digest(InitialRun(program).value) \in nodes' /\ nodes' # {}
      BY <2>2, <2>5 DEF NodesAreReached
    <2>8. heap'[current'.obj].value \in R
      <3>1. heap'[current.obj].value = heap[current.obj].value
        BY <2>1, <2>2, <2>3, NullAssumption
      <3>2. heap[current.obj].value \in R /\ current'.obj = current.obj
        BY <2>1, <2>2 DEF NodesAreReached
      <3> QED
        BY <3>1, <3>2
    <2>9. program' = program
      BY <2>1
    <2> QED
      BY <2>5, <2>6, <2>7, <2>8, <2>9 DEF NodesAreReached
  <1>5. CASE FinishNode
    <2>1. /\ current # NULL /\ current' = NULL /\ queue' = queue /\ nodes' = nodes
          /\ heap' = [heap EXCEPT ![current.obj] = NULL] /\ arcs' = arcs
          /\ program' = program
      BY <1>5 DEF FinishNode
    <2>2. \A i \in DOMAIN queue : queue[i].obj # current.obj
      BY <2>1 DEF EntriesAreLive
    <2>3. \A i \in DOMAIN queue : heap'[queue[i].obj].value \in R
      BY <1>0, <2>1, <2>2 DEF TypeOK
    <2>4. nodes # {}
      BY <2>1 DEF NodesAreReached
    <2> QED
      BY <1>0, <2>1, <2>3, <2>4 DEF NodesAreReached
  <1>6. CASE UNCHANGED vars
    BY <1>6 DEF vars, NodesAreReached
  <1> QED
    BY <1>1, <1>2, <1>3, <1>4, <1>5, <1>6 DEF Next

-----------------------------------------------------------------------------
(* The arcs of nodes that are queued, being forked, or done with.          *)

LEMMA TargetsAfterAddArc ==
    ASSUME NEW from, NEW to, NEW acts, AddArc(from, to, acts)
    PROVE  /\ Targets(arcs', from) = Targets(arcs, from) \cup {to}
           /\ \A n : n # from => Targets(arcs', n) = Targets(arcs, n)
  <1>1. arcs' = arcs \cup {[from |-> from, to |-> to, acts |-> acts]}
    BY DEF AddArc
  <1>2. Targets(arcs', from) = Targets(arcs, from) \cup {to}
    <2> DEFINE new == [from |-> from, to |-> to, acts |-> acts]
    <2>1. new.from = from /\ new.to = to /\ arcs' = arcs \cup {new}
      BY <1>1
    <2> HIDE DEF new
    <2> QED
      BY <2>1 DEF Targets
  <1>3. ASSUME NEW n, n # from PROVE Targets(arcs', n) = Targets(arcs, n)
    <2> DEFINE new == [from |-> from, to |-> to, acts |-> acts]
    <2>1. new.from = from /\ new.to = to /\ arcs' = arcs \cup {new}
      BY <1>1
    <2> HIDE DEF new
    <2> QED
      BY <1>3, <2>1 DEF Targets
  <1> QED
    BY <1>2, <1>3

(* No arc leaves a node that is not there.                                 *)
LEMMA NoTargets ==
    ASSUME NodesAreReached, NEW n, n \notin nodes, n # InitialNode
    PROVE  Targets(arcs, n) = {}
    BY DEF NodesAreReached, Targets

LEMMA ExitErrorKinds ==
    ASSUME NEW x, NEW n
    PROVE  \A f \in ExitErrors(x, n) : f.kind = "exitcode"
    BY DEF ExitErrors

(* A fast run: its node has been expanded, a new node waits, and all other *)
(* nodes are as they were.                                                 *)
LEMMA FastRunExpands ==
    ASSUME TypeOK, EntriesAreLive, FastRunChild
    PROVE  LET e == Head(queue)
           IN  \E x \in FastRun(program, heap[e.obj].value) :
                 /\ Digest(x.value) \in Digests
                 /\ current = NULL /\ current' = NULL /\ program' = program
                 /\ nodes' = nodes \cup {Digest(x.value)}
                 /\ Targets(arcs', e.node) = Targets(arcs, e.node) \cup {Digest(x.value)}
                 /\ \A n : n # e.node => Targets(arcs', n) = Targets(arcs, n)
                 /\ Pending(queue, current, e.node) /\ ~ Pending(queue', current', e.node)
                 /\ \A n \in nodes \ {e.node} : Pending(queue', current', n) <=> Pending(queue, current, n)
                 /\ Digest(x.value) \notin nodes => Pending(queue', current', Digest(x.value))
                 /\ \A i \in DOMAIN queue' : queue'[i].node \notin nodes
                       \/ \E j \in DOMAIN queue : queue'[i].node = queue[j].node
                                                  /\ queue'[i].node # e.node
                 /\ errors' = errors \cup ExitErrors(x, e.node)
  <1> DEFINE e == Head(queue)
             t == Tail(queue)
             o == e.obj
             k == e.node
  <1>1. PICK x \in FastRun(program, heap[o].value) :
           /\ x.value \in Values /\ Digest(x.value) \in Digests
           /\ current = NULL /\ current' = NULL /\ program' = program
           /\ GetNode(o, x.value, t)
           /\ AddArc(k, Digest(x.value), heap[o].acts + x.acts)
           /\ errors' = errors \cup ExitErrors(x, k)
    BY FastRunStep
  <1>2. o \in Objects /\ queue # << >> /\ k \in nodes /\ queue \in Seq(Entry)
    BY PoppedIsLive DEF FastRunChild, Popping, TypeOK
  <1>3. /\ t \in Seq(Entry)
        /\ \A i \in DOMAIN t : t[i].node # k
        /\ \A i \in DOMAIN t : \E j \in DOMAIN queue : t[i] = queue[j]
        /\ \A i \in DOMAIN queue :
              queue[i].node = k \/ \E j \in DOMAIN t : queue[i] = t[j]
        /\ \E i \in DOMAIN queue : queue[i].node = k
    BY <1>2, LiveAfterPop, QueueAfterPop
  <1>4. /\ Targets(arcs', k) = Targets(arcs, k) \cup {Digest(x.value)}
        /\ \A n : n # k => Targets(arcs', n) = Targets(arcs, n)
    <2> HIDE DEF k, o
    <2> QED
      BY <1>1, TargetsAfterAddArc
  <1> HIDE DEF t, o, k
  <1>5. /\ nodes' = nodes \cup {Digest(x.value)}
        /\ \A i \in DOMAIN queue' :
              \/ \E j \in DOMAIN t : queue'[i] = t[j]
              \/ queue'[i].node = Digest(x.value) /\ Digest(x.value) \notin nodes
        /\ \A j \in DOMAIN t : \E i \in DOMAIN queue' : queue'[i] = t[j]
        /\ Digest(x.value) \notin nodes =>
              \E i \in DOMAIN queue' : queue'[i].node = Digest(x.value)
    <2>1. /\ x.value \in Values /\ Digest(x.value) \in Digests /\ o \in Objects
          /\ GetNode(o, x.value, t) /\ t \in Seq(Entry)
      BY <1>1, <1>2, <1>3
    <2> QED
      BY <2>1, QueuedByGetNode
  <1>6. Pending(queue, current, k) /\ ~ Pending(queue', current', k)
    BY <1>1, <1>2, <1>3, <1>5 DEF Pending
  <1>7. \A n \in nodes \ {k} : Pending(queue', current', n) <=> Pending(queue, current, n)
    BY <1>1, <1>3, <1>5 DEF Pending
  <1>8. Digest(x.value) \notin nodes => Pending(queue', current', Digest(x.value))
    BY <1>5 DEF Pending
  <1>9. \A i \in DOMAIN queue' : queue'[i].node \notin nodes
              \/ \E j \in DOMAIN queue : queue'[i].node = queue[j].node
                                         /\ queue'[i].node # k
    BY <1>3, <1>5
  <1> QED
    BY <1>1, <1>4, <1>5, <1>6, <1>7, <1>8, <1>9 DEF k, o

(* A fork: its node stays at work with one fork less to make.              *)
LEMMA ForkExpands ==
    ASSUME TypeOK, EntriesAreLive, ForkChild
    PROVE  \E x \in current.todo :
              /\ Digest(x.value) \in Digests
              /\ current # NULL /\ current' # NULL /\ program' = program
              /\ current'.node = current.node /\ current'.obj = current.obj
              /\ current'.todo = current.todo \ {x}
              /\ heap'[current.obj].value = heap[current.obj].value
              /\ nodes' = nodes \cup {Digest(x.value)}
              /\ Targets(arcs', current.node) = Targets(arcs, current.node) \cup {Digest(x.value)}
              /\ \A n : n # current.node => Targets(arcs', n) = Targets(arcs, n)
              /\ Pending(queue, current, current.node) /\ Pending(queue', current', current.node)
              /\ \A n \in nodes : Pending(queue', current', n) <=> Pending(queue, current, n)
              /\ Digest(x.value) \notin nodes => Pending(queue', current', Digest(x.value))
              /\ \A i \in DOMAIN queue' : queue'[i].node \notin nodes
                    \/ \E j \in DOMAIN queue : queue'[i].node = queue[j].node
                                               /\ queue'[i].node # current.node
              /\ errors' = errors \cup ExitErrors(x, current.node)
  <1> DEFINE k == current.node
             c == current.obj
  <1>1. PICK x \in current.todo :
           /\ x.value \in Values /\ x.acts \in Nat /\ Digest(x.value) \in Digests
           /\ current # NULL /\ program' = program
           /\ fresh \in Objects /\ c # fresh
           /\ heap' = [heap EXCEPT ![c].acts = 0,
                                   ![fresh] = [value |-> x.value, acts |-> x.acts]]
           /\ GetNode(fresh, x.value, queue)
           /\ AddArc(k, Digest(x.value), heap[c].acts)
           /\ errors' = errors \cup ExitErrors(x, k)
           /\ current' \in Branching /\ current'.node = k
           /\ current'.obj = c /\ current'.todo = current.todo \ {x}
    BY ForkStep
  <1>2. /\ c \in Objects /\ heap[c] \in HeapObject /\ k \in nodes
        /\ queue \in Seq(Entry)
        /\ \A i \in DOMAIN queue : queue[i].node # k
    BY <1>1, CurrentIsLive DEF EntriesAreLive, TypeOK
  <1>3. heap'[c].value = heap[c].value
    <2>1. heap'[c] = [heap[c] EXCEPT !.acts = 0]
      BY <1>1, <1>2 DEF TypeOK
    <2> QED
      BY <1>2, <2>1 DEF HeapObject
  <1>4. /\ x.value \in Values /\ Digest(x.value) \in Digests /\ fresh \in Objects
        /\ GetNode(fresh, x.value, queue) /\ AddArc(k, Digest(x.value), heap[c].acts)
        /\ current # NULL /\ current' \in Branching /\ current'.node = k
    BY <1>1
  <1>5. current' # NULL
    BY <1>4, NullAssumption
  <1>6. /\ Targets(arcs', k) = Targets(arcs, k) \cup {Digest(x.value)}
        /\ \A n : n # k => Targets(arcs', n) = Targets(arcs, n)
    <2> HIDE DEF k, c
    <2> QED
      BY <1>4, TargetsAfterAddArc
  <1>7. /\ nodes' = nodes \cup {Digest(x.value)}
        /\ \A i \in DOMAIN queue' :
              \/ \E j \in DOMAIN queue : queue'[i] = queue[j]
              \/ queue'[i].node = Digest(x.value) /\ Digest(x.value) \notin nodes
        /\ \A j \in DOMAIN queue : \E i \in DOMAIN queue' : queue'[i] = queue[j]
        /\ Digest(x.value) \notin nodes =>
              \E i \in DOMAIN queue' : queue'[i].node = Digest(x.value)
    BY <1>2, <1>4, QueuedByGetNode
  <1>8. Pending(queue, current, k) /\ Pending(queue', current', k)
    BY <1>4, <1>5 DEF Pending
  <1>9. \A n \in nodes : Pending(queue', current', n) <=> Pending(queue, current, n)
    <2> SUFFICES ASSUME NEW n \in nodes PROVE Pending(queue', current', n) <=> Pending(queue, current, n)
      OBVIOUS
    <2>1. (\E i \in DOMAIN queue' : queue'[i].node = n)
            <=> (\E i \in DOMAIN queue : queue[i].node = n)
      BY <1>7
    <2> QED
      BY <1>4, <1>5, <2>1 DEF Pending
  <1>10. Digest(x.value) \notin nodes => Pending(queue', current', Digest(x.value))
    BY <1>7 DEF Pending
  <1>11. \A i \in DOMAIN queue' : queue'[i].node \notin nodes
              \/ \E j \in DOMAIN queue : queue'[i].node = queue[j].node
                                         /\ queue'[i].node # k
    BY <1>2, <1>7
  <1>12. /\ program' = program /\ current'.obj = c /\ current'.todo = current.todo \ {x}
         /\ errors' = errors \cup ExitErrors(x, k)
    BY <1>1
  <1> QED
    BY <1>3, <1>4, <1>5, <1>6, <1>7, <1>8, <1>9, <1>10, <1>11, <1>12

(* What is popped to be forked is still pending, nothing else changes.     *)
LEMMA StartForkingKeeps ==
    ASSUME TypeOK, EntriesAreLive, StartForking
    PROVE  /\ \A n : Pending(queue', current', n) <=> Pending(queue, current, n)
           /\ \A i \in DOMAIN queue' : \E j \in DOMAIN queue : queue'[i] = queue[j]
           /\ \E j \in DOMAIN queue : queue[j] = Head(queue)
  <1> DEFINE e == Head(queue)
             t == Tail(queue)
             k == e.node
  <1>1. /\ queue # << >> /\ queue' = t /\ current = NULL /\ current' # NULL
        /\ current'.node = k
    BY StartForkingStep
  <1>2. /\ \A i \in DOMAIN t : \E j \in DOMAIN queue : t[i] = queue[j]
        /\ \A i \in DOMAIN queue : queue[i] = e \/ \E j \in DOMAIN t : queue[i] = t[j]
        /\ \E j \in DOMAIN queue : queue[j] = e
    BY <1>1, LiveAfterPop, QueueAfterPop DEF TypeOK
  <1>3. /\ \A i \in DOMAIN queue : queue[i].node = k \/ \E j \in DOMAIN t : queue[i] = t[j]
        /\ \E j \in DOMAIN queue : queue[j].node = k
    BY <1>2
  <1> HIDE DEF t, k
  <1>4. \A n : Pending(queue', current', n) <=> Pending(queue, current, n)
    BY <1>1, <1>2, <1>3 DEF Pending
  <1> QED
    BY <1>1, <1>2, <1>4

(* Exit codes leave the deadlock errors alone.                             *)
LEMMA DeadlocksDepend ==
    ASSUME NEW x, NEW k, errors' = errors \cup ExitErrors(x, k)
    PROVE  \A n : n \in DeadlockNodes' <=> n \in DeadlockNodes
  <1>1. \A f \in ExitErrors(x, k) : f.kind # "deadlock"
    BY ExitErrorKinds
  <1> QED
    BY <1>1 DEF DeadlockNodes

(* What a node was expanded from stays so while its arcs and its deadlock  *)
(* do.                                                                     *)
LEMMA ExpandedDepends ==
    ASSUME NEW n, program' = program, Targets(arcs', n) = Targets(arcs, n),
           n \in DeadlockNodes' <=> n \in DeadlockNodes,
           \E v \in Reachable(program) : ExpandedAs(n, v)
    PROVE  \E v \in Reachable(program') : ExpandedAs(n, v)'
    BY DEF ExpandedAs

LEMMA NodesAreExpandedNext ==
    ASSUME TypeOK, EntriesAreLive, NodesAreReached, NodesAreExpanded,
           DeadlocksAreOfExpanded, [Next]_vars
    PROVE  NodesAreExpanded'
  <1>0. /\ program \in Programs /\ nodes \subseteq Digests
        /\ \A i \in DOMAIN queue : queue[i].node \in nodes
    BY DEF TypeOK, EntriesAreLive
  <1>1. CASE Construct
    <2> DEFINE x == InitialRun(program)
               k == Digest(x.value)
    <2>1. /\ x.value \in Values /\ 0 \in Objects /\ k \in Digests
          /\ nodes = {} /\ current' = current /\ queue \in Seq(Entry)
          /\ GetNode(0, x.value, queue)
          /\ AddArc(InitialNode, k, x.acts)
      BY <1>1, ConstructStep DEF TypeOK
    <2>2. current = NULL /\ arcs = {} /\ queue = << >>
      BY <2>1 DEF NodesAreReached
    <2>3. \A n : n # InitialNode => Targets(arcs', n) = {}
      <3>1. \A n : n # InitialNode => Targets(arcs', n) = Targets(arcs, n)
        <4> HIDE DEF k
        <4> QED
          BY <2>1, TargetsAfterAddArc
      <3> QED
        BY <2>2, <3>1 DEF Targets
    <2>4. /\ nodes' = {k}
          /\ \A i \in DOMAIN queue' : queue'[i].node = k
          /\ \E i \in DOMAIN queue' : queue'[i].node = k
      <3>1. x.value \in Values /\ Digest(x.value) \in Digests /\ GetNode(0, x.value, queue)
        BY <2>1
      <3>2. /\ nodes' = nodes \cup {k}
            /\ \A i \in DOMAIN queue' : queue'[i].node = k \/ \E j \in DOMAIN queue : TRUE
            /\ k \notin nodes => \E i \in DOMAIN queue' : queue'[i].node = k
        BY <2>1, <3>1, QueuedByGetNode
      <3> QED
        BY <2>1, <2>2, <3>2
    <2> QED
      BY <2>1, <2>2, <2>3, <2>4, NodeAssumption DEF NodesAreExpanded, Pending
  <1>2. CASE FastRunChild
    <2> DEFINE e == Head(queue)
               k == e.node
               u == heap[e.obj].value
    <2>1. PICK x \in FastRun(program, u) :
             /\ Digest(x.value) \in Digests
             /\ current' = NULL /\ program' = program
             /\ nodes' = nodes \cup {Digest(x.value)}
             /\ Targets(arcs', k) = Targets(arcs, k) \cup {Digest(x.value)}
             /\ \A n : n # k => Targets(arcs', n) = Targets(arcs, n)
             /\ Pending(queue, current, k) /\ ~ Pending(queue', current', k)
             /\ \A n \in nodes \ {k} : Pending(queue', current', n) <=> Pending(queue, current, n)
             /\ Digest(x.value) \notin nodes => Pending(queue', current', Digest(x.value))
             /\ \A i \in DOMAIN queue' : queue'[i].node \notin nodes
                   \/ \E j \in DOMAIN queue : queue'[i].node = queue[j].node
                                              /\ queue'[i].node # k
             /\ errors' = errors \cup ExitErrors(x, k)
      BY <1>2, FastRunExpands
    <2>2. /\ u \in Values /\ Digest(u) = k /\ k \in nodes
          /\ u \in Reachable(program)
      <3>1. u \in Values /\ Digest(u) = k /\ k \in nodes
        BY <1>2, PoppedIsLive DEF FastRunChild
      <3>2. \E i \in DOMAIN queue : queue[i] = e
        BY <1>2, QueueAfterPop DEF FastRunChild, Popping, TypeOK
      <3> QED
        BY <3>1, <3>2 DEF NodesAreReached
    <2>3. Targets(arcs, k) = {}
      <3>1. \E i \in DOMAIN queue : queue[i].node = k
        BY <1>2, QueueAfterPop DEF FastRunChild, Popping, TypeOK
      <3> QED
        BY <3>1 DEF NodesAreExpanded
    <2>4. SuccDigests(program, u) = {Digest(x.value)}
      <3>1. FastRun(program, u) = {x}
        BY <1>0, <2>2, ProgramAssumption
      <3> QED
        BY <3>1 DEF SuccDigests, Runs
    <2>5. \A i \in DOMAIN queue' : Targets(arcs', queue'[i].node) = {}
      <3> TAKE i \in DOMAIN queue'
      <3>1. CASE queue'[i].node \notin nodes
        <4>1. queue'[i].node \in Digests
          BY TypeOKNext, EntryTypes DEF TypeOK
        <4> QED
          BY <2>1, <2>2, <3>1, <4>1, NoTargets, NodeAssumption
      <3>2. CASE \E j \in DOMAIN queue : queue'[i].node = queue[j].node
                                         /\ queue'[i].node # k
        BY <2>1, <3>2 DEF NodesAreExpanded
      <3> QED
        BY <2>1, <3>1, <3>2
    <2>6. ASSUME NEW n \in nodes', ~ Pending(queue', current', n)
          PROVE  \E v \in Reachable(program') : ExpandedAs(n, v)'
      <3>1. n \in nodes
        BY <2>1, <2>6
      <3>2. \A m : m \in DeadlockNodes' <=> m \in DeadlockNodes
        <4> HIDE DEF k
        <4> QED
          BY <2>1, DeadlocksDepend
      <3>3. CASE n = k
        <4>1. k \notin DeadlockNodes
          BY <2>1 DEF DeadlocksAreOfExpanded
        <4>2. Targets(arcs', k) = SuccDigests(program, u) /\ ~ IsStuck(program, u)
          BY <2>1, <2>3, <2>4 DEF IsStuck
        <4>3. PICK w : w = u
          OBVIOUS
        <4>4. /\ Digest(w) = n /\ Targets(arcs', n) = SuccDigests(program', w)
              /\ n \notin DeadlockNodes' /\ ~ IsStuck(program', w)
          BY <2>1, <2>2, <3>2, <3>3, <4>1, <4>2, <4>3
        <4>5. ExpandedAs(n, w)'
          <5> HIDE DEF k, u
          <5> QED
            BY <4>4 DEF ExpandedAs
        <4> QED
          BY <2>1, <2>2, <4>3, <4>5
      <3>4. CASE n # k
        <4>1. \E v \in Reachable(program) : ExpandedAs(n, v)
          BY <2>1, <2>6, <3>1, <3>4 DEF NodesAreExpanded
        <4> QED
          BY <2>1, <3>2, <3>4, <4>1, ExpandedDepends
      <3> QED
        BY <3>3, <3>4
    <2> QED
      BY <2>1, <2>5, <2>6 DEF NodesAreExpanded
  <1>3. CASE StartForking
    <2> DEFINE e == Head(queue)
               u == heap[e.obj].value
    <2>1. /\ FastRun(program, u) = {} /\ current' # NULL
          /\ current'.node = e.node /\ current'.obj = e.obj
          /\ current'.todo = Forks(program, u)
          /\ heap' = heap /\ program' = program /\ arcs' = arcs /\ nodes' = nodes
      BY <1>3, StartForkingStep DEF StartForking
    <2>2. /\ \A n : Pending(queue', current', n) <=> Pending(queue, current, n)
          /\ \A i \in DOMAIN queue' : \E j \in DOMAIN queue : queue'[i] = queue[j]
          /\ \E j \in DOMAIN queue : queue[j] = e
      BY <1>3, StartForkingKeeps
    <2>3. \A n : Targets(arcs', n) = Targets(arcs, n)
      BY <2>1 DEF Targets
    <2>4. Targets(arcs', e.node) = {}
      BY <2>2, <2>3 DEF NodesAreExpanded
    <2>5. \A i \in DOMAIN queue' : Targets(arcs', queue'[i].node) = {}
      BY <2>2, <2>3 DEF NodesAreExpanded
    <2>6. ASSUME NEW n \in nodes', ~ Pending(queue', current', n)
          PROVE  \E v \in Reachable(program') : ExpandedAs(n, v)'
      <3>1. \E v \in Reachable(program) : ExpandedAs(n, v)
        BY <2>1, <2>2, <2>6 DEF NodesAreExpanded
      <3>2. n \in DeadlockNodes' <=> n \in DeadlockNodes
        BY <1>3 DEF StartForking, DeadlockNodes
      <3> QED
        BY <2>1, <2>3, <3>1, <3>2, ExpandedDepends
    <2> QED
      BY <2>1, <2>4, <2>5, <2>6 DEF NodesAreExpanded
  <1>4. CASE ForkChild
    <2> DEFINE k == current.node
               u == heap[current.obj].value
    <2>1. PICK x \in current.todo :
             /\ Digest(x.value) \in Digests
             /\ current # NULL /\ current' # NULL /\ program' = program
             /\ current'.node = k /\ current'.obj = current.obj
             /\ current'.todo = current.todo \ {x}
             /\ heap'[current.obj].value = u
             /\ nodes' = nodes \cup {Digest(x.value)}
             /\ Targets(arcs', k) = Targets(arcs, k) \cup {Digest(x.value)}
             /\ \A n : n # k => Targets(arcs', n) = Targets(arcs, n)
             /\ Pending(queue', current', k)
             /\ \A n \in nodes : Pending(queue', current', n) <=> Pending(queue, current, n)
             /\ Digest(x.value) \notin nodes => Pending(queue', current', Digest(x.value))
             /\ \A i \in DOMAIN queue' : queue'[i].node \notin nodes
                   \/ \E j \in DOMAIN queue : queue'[i].node = queue[j].node
                                              /\ queue'[i].node # k
             /\ errors' = errors \cup ExitErrors(x, k)
      BY <1>4, ForkExpands
    <2>2. k \in nodes
      BY <2>1 DEF EntriesAreLive
    <2>3. \A i \in DOMAIN queue' : Targets(arcs', queue'[i].node) = {}
      <3> TAKE i \in DOMAIN queue'
      <3>1. CASE queue'[i].node \notin nodes
        <4>1. queue'[i].node \in Digests
          BY TypeOKNext, EntryTypes DEF TypeOK
        <4> QED
          BY <2>1, <2>2, <3>1, <4>1, NoTargets, NodeAssumption
      <3>2. CASE \E j \in DOMAIN queue : queue'[i].node = queue[j].node
                                         /\ queue'[i].node # k
        BY <2>1, <3>2 DEF NodesAreExpanded
      <3> QED
        BY <2>1, <3>1, <3>2
    <2>4. /\ FastRun(program, u) = {}
          /\ current.todo \subseteq Forks(program, u)
          /\ Targets(arcs, k) = {Digest(y.value) : y \in Forks(program, u) \ current.todo}
      BY <2>1 DEF NodesAreExpanded
    <2>5. /\ current'.todo \subseteq Forks(program, u)
          /\ Targets(arcs', k) = {Digest(y.value) : y \in Forks(program, u) \ current'.todo}
      <3>1. Forks(program, u) \ current'.todo = (Forks(program, u) \ current.todo) \cup {x}
        BY <2>1, <2>4
      <3> QED
        BY <2>1, <2>4, <3>1
    <2>6. ASSUME NEW n \in nodes', ~ Pending(queue', current', n)
          PROVE  \E v \in Reachable(program') : ExpandedAs(n, v)'
      <3>1. n \in nodes /\ n # k
        BY <2>1, <2>6
      <3>2. \E v \in Reachable(program) : ExpandedAs(n, v)
        BY <2>1, <2>6, <3>1 DEF NodesAreExpanded
      <3>3. n \in DeadlockNodes' <=> n \in DeadlockNodes
        BY <2>1, DeadlocksDepend
      <3> QED
        BY <2>1, <3>1, <3>2, <3>3, ExpandedDepends
    <2> QED
      BY <2>1, <2>3, <2>4, <2>5, <2>6 DEF NodesAreExpanded
  <1>5. CASE FinishNode
    <2>0. PICK k, u : k = current.node /\ u = heap[current.obj].value
      OBVIOUS
    <2> DEFINE new == [kind |-> "deadlock", node |-> k, rank |-> NULL]
    <2>1. /\ current # NULL /\ current' = NULL /\ queue' = queue /\ nodes' = nodes
          /\ arcs' = arcs /\ program' = program /\ current.todo = {}
          /\ errors' = IF (\A a \in arcs : a.from # k) /\ ~ IsTerminated(u)
                       THEN errors \cup {new} ELSE errors
      BY <1>5, <2>0 DEF FinishNode
    <2>2. \A n : Targets(arcs', n) = Targets(arcs, n)
      BY <2>1 DEF Targets
    <2>3. /\ u \in Values /\ Digest(u) = k /\ u \in Reachable(program)
          /\ Pending(queue, current, k)
      BY <2>0, <2>1, CurrentIsLive DEF NodesAreReached, Pending
    <2>4. Targets(arcs, k) = SuccDigests(program, u)
      BY <2>0, <2>1 DEF NodesAreExpanded, SuccDigests, Runs
    <2>5. k \in DeadlockNodes' <=> IsStuck(program, u)
      <3>1. k \notin DeadlockNodes
        BY <2>3 DEF DeadlocksAreOfExpanded
      <3>2. (\A a \in arcs : a.from # k) <=> SuccDigests(program, u) = {}
        BY <2>4 DEF Targets
      <3>3. new.kind = "deadlock" /\ new.node = k
        OBVIOUS
      <3> HIDE DEF new
      <3> QED
        BY <2>1, <3>1, <3>2, <3>3 DEF DeadlockNodes, IsStuck
    <2>6. ASSUME NEW n \in nodes', ~ Pending(queue', current', n)
          PROVE  \E v \in Reachable(program') : ExpandedAs(n, v)'
      <3>1. CASE n = k
        <4>1. ExpandedAs(n, u)'
          BY <2>1, <2>2, <2>3, <2>4, <2>5, <3>1 DEF ExpandedAs
        <4> QED
          BY <2>1, <2>3, <4>1
      <3>2. CASE n # k
        <4>1. ~ Pending(queue, current, n)
          BY <2>0, <2>1, <2>6, <3>2 DEF Pending
        <4>2. \E v \in Reachable(program) : ExpandedAs(n, v)
          BY <2>1, <2>6, <4>1 DEF NodesAreExpanded
        <4>3. n \in DeadlockNodes' <=> n \in DeadlockNodes
          <5>1. new.node = k
            OBVIOUS
          <5> HIDE DEF new
          <5> QED
            BY <2>1, <3>2, <5>1 DEF DeadlockNodes
        <4> QED
          BY <2>1, <2>2, <4>2, <4>3, ExpandedDepends
      <3> QED
        BY <3>1, <3>2
    <2> QED
      BY <2>1, <2>2, <2>6 DEF NodesAreExpanded
  <1>6. CASE UNCHANGED vars
    BY <1>6 DEF vars, NodesAreExpanded, Pending, Targets, ExpandedAs, DeadlockNodes
  <1> QED
    BY <1>1, <1>2, <1>3, <1>4, <1>5, <1>6 DEF Next

-----------------------------------------------------------------------------
(* Deadlock errors.                                                        *)

LEMMA DeadlocksAreOfExpandedNext ==
    ASSUME TypeOK, EntriesAreLive, NodesAreReached, DeadlocksAreOfExpanded, [Next]_vars
    PROVE  DeadlocksAreOfExpanded'
  <1>1. CASE Construct
    <2>1. errors' = ExitErrors(InitialRun(program), NULL)
      BY <1>1 DEF Construct
    <2> QED
      BY <2>1, ExitErrorKinds DEF DeadlocksAreOfExpanded, DeadlockNodes
  <1>2. CASE FastRunChild
    <2>0. PICK k : k = Head(queue).node
      OBVIOUS
    <2>1. PICK x \in FastRun(program, heap[Head(queue).obj].value) :
             /\ nodes' = nodes \cup {Digest(x.value)}
             /\ Pending(queue, current, k)
             /\ \A n \in nodes \ {k} :
                   Pending(queue', current', n) <=> Pending(queue, current, n)
             /\ errors' = errors \cup ExitErrors(x, k)
      BY <1>2, <2>0, FastRunExpands
    <2>2. \A n : n \in DeadlockNodes' <=> n \in DeadlockNodes
      BY <2>1, DeadlocksDepend
    <2> QED
      BY <2>1, <2>2 DEF DeadlocksAreOfExpanded
  <1>3. CASE StartForking
    <2>1. nodes' = nodes /\ \A n : n \in DeadlockNodes' <=> n \in DeadlockNodes
      BY <1>3 DEF StartForking, DeadlockNodes
    <2>2. \A n : Pending(queue', current', n) <=> Pending(queue, current, n)
      BY <1>3, StartForkingKeeps
    <2> QED
      BY <2>1, <2>2 DEF DeadlocksAreOfExpanded
  <1>4. CASE ForkChild
    <2>1. PICK x \in current.todo :
             /\ nodes' = nodes \cup {Digest(x.value)}
             /\ \A n \in nodes :
                   Pending(queue', current', n) <=> Pending(queue, current, n)
             /\ errors' = errors \cup ExitErrors(x, current.node)
      BY <1>4, ForkExpands
    <2>2. \A n : n \in DeadlockNodes' <=> n \in DeadlockNodes
      BY <2>1, DeadlocksDepend
    <2> QED
      BY <2>1, <2>2 DEF DeadlocksAreOfExpanded
  <1>5. CASE FinishNode
    <2> DEFINE new == [kind |-> "deadlock", node |-> current.node, rank |-> NULL]
    <2>1. /\ current # NULL /\ current' = NULL /\ queue' = queue /\ nodes' = nodes
          /\ errors' = errors \/ errors' = errors \cup {new}
      BY <1>5 DEF FinishNode
    <2>2. /\ current.node \in nodes
          /\ \A i \in DOMAIN queue : queue[i].node # current.node
      BY <2>1 DEF EntriesAreLive
    <2>3. \A n \in DeadlockNodes' : n \in DeadlockNodes \/ n = current.node
      <3>1. new.node = current.node
        OBVIOUS
      <3> HIDE DEF new
      <3> QED
        BY <2>1, <3>1 DEF DeadlockNodes
    <2>4. \A n : ~ Pending(queue, current, n) => ~ Pending(queue', current', n)
      BY <2>1 DEF Pending
    <2>5. ~ Pending(queue', current', current.node)
      BY <2>1, <2>2 DEF Pending
    <2> QED
      BY <2>1, <2>2, <2>3, <2>4, <2>5 DEF DeadlocksAreOfExpanded
  <1>6. CASE UNCHANGED vars
    BY <1>6 DEF vars, DeadlocksAreOfExpanded, DeadlockNodes, Pending
  <1> QED
    BY <1>1, <1>2, <1>3, <1>4, <1>5, <1>6 DEF Next

-----------------------------------------------------------------------------
(* Paths.                                                                  *)

(* addArc from a node of the graph: if the arc becomes the way to its end, *)
(* its start is another node, not further than the end was.                *)
LEMMA AddArcKeepsPaths ==
    ASSUME TypeOK, DistancesDescend, PathsLeadBack,
           NEW from \in nodes \cup {InitialNode}, NEW to \in Digests, NEW acts \in Nat,
           AddArc(from, to, acts), nodes' = nodes \cup {to}
    PROVE  DistancesDescend' /\ PathsLeadBack'
  <1> DEFINE d == dist[from] + acts
             closer == prev[to] = NULL \/ d < dist[to]
  <1>1. /\ from \in Nodes /\ to \in Nodes /\ to # InitialNode /\ from # NULL
        /\ nodes \subseteq Nodes /\ InitialNode \in Nodes /\ InitialNode \notin nodes
    BY NodeAssumption DEF TypeOK
  <1>2. /\ \A n \in Nodes : n \in nodes <=> prev[n] # NULL
        /\ \A n \in nodes : prev[n] \in nodes \cup {InitialNode} /\ dist[prev[n]] <= dist[n]
        /\ \A n \in Nodes : dist[n] \in Nat
        /\ d \in Nat /\ dist[from] <= d
    BY <1>1 DEF DistancesDescend, TypeOK
  <1>3. /\ \A n \in nodes : \E a \in arcs : a.from = prev[n] /\ a.to = n
        /\ prev[InitialNode] = NULL
        /\ \A S \in SUBSET nodes : S # {} => \E n \in S : prev[n] \notin S
    BY DEF PathsLeadBack
  <1>4. CASE ~ closer
    <2>1. to \in nodes /\ prev' = prev /\ dist' = dist /\ arcs \subseteq arcs' /\ nodes' = nodes
      BY <1>1, <1>2, <1>4 DEF AddArc
    <2> QED
      BY <1>2, <1>3, <2>1 DEF DistancesDescend, PathsLeadBack
  <1>5. CASE closer
    <2>1. /\ prev' = [prev EXCEPT ![to] = from] /\ dist' = [dist EXCEPT ![to] = d]
          /\ \E a \in arcs' : a.from = from /\ a.to = to
          /\ arcs \subseteq arcs'
      <3> DEFINE new == [from |-> from, to |-> to, acts |-> acts]
      <3>1. new.from = from /\ new.to = to /\ arcs' = arcs \cup {new}
        BY DEF AddArc
      <3>2. prev' = [prev EXCEPT ![to] = from] /\ dist' = [dist EXCEPT ![to] = d]
        BY <1>5 DEF AddArc
      <3> HIDE DEF new
      <3> QED
        BY <3>1, <3>2
    <2>2. /\ prev'[to] = from /\ dist'[to] = d
          /\ \A n \in Nodes \ {to} : prev'[n] = prev[n] /\ dist'[n] = dist[n]
      BY <1>1, <2>1 DEF TypeOK
    <2>3. from # to /\ (to \in nodes => d < dist[to])
      BY <1>1, <1>2, <1>5
    <2> HIDE DEF d, closer
    <2>4. \A n \in Nodes : n \in nodes' <=> prev'[n] # NULL
      BY <1>1, <1>2, <2>2
    <2>5. ASSUME NEW n \in nodes'
          PROVE  prev'[n] \in nodes' \cup {InitialNode} /\ dist'[prev'[n]] <= dist'[n]
      <3>1. CASE n = to
        BY <1>1, <1>2, <2>2, <2>3, <3>1
      <3>2. CASE n # to
        <4>1. /\ n \in nodes /\ prev'[n] = prev[n] /\ dist'[n] = dist[n]
              /\ prev[n] \in nodes \cup {InitialNode} /\ prev[n] \in Nodes
              /\ dist[prev[n]] <= dist[n]
          BY <1>1, <1>2, <2>2, <3>2
        <4>2. CASE prev[n] = to
          <5>1. to \in nodes /\ d < dist[to]
            BY <1>1, <2>3, <4>1, <4>2
          <5>2. dist[to] \in Nat /\ dist[n] \in Nat
            BY <1>1, <1>2, <4>1
          <5> QED
            BY <1>2, <2>2, <4>1, <4>2, <5>1, <5>2
        <4>3. CASE prev[n] # to
          BY <2>2, <4>1, <4>3
        <4> QED
          BY <4>2, <4>3
      <3> QED
        BY <3>1, <3>2
    <2>6. \A n \in nodes' : \E a \in arcs' : a.from = prev'[n] /\ a.to = n
      <3> TAKE n \in nodes'
      <3>1. CASE n = to
        BY <2>1, <2>2, <3>1
      <3>2. CASE n # to
        BY <1>1, <1>3, <2>1, <2>2, <3>2
      <3> QED
        BY <3>1, <3>2
    <2>7. ASSUME NEW S \in SUBSET nodes', S # {}, \A n \in S : prev'[n] \in S
          PROVE  FALSE
      <3>1. to \in S
        <4> SUFFICES ASSUME to \notin S PROVE FALSE
          OBVIOUS
        <4>1. S \in SUBSET nodes /\ \A n \in S : prev[n] \in S
          BY <1>1, <2>2, <2>7
        <4> QED
          BY <1>3, <2>7, <4>1
      <3>2. from \in S /\ from \in nodes
        BY <2>2, <2>3, <2>7, <3>1, <1>1
      <3>3. CASE to \notin nodes
        <4> DEFINE T == S \ {to}
        <4>1. T \in SUBSET nodes /\ T # {}
          BY <2>3, <3>2
        <4>2. ASSUME NEW n \in T PROVE prev[n] \in T
          BY <1>1, <1>2, <2>2, <2>7, <3>3, <4>1
        <4> QED
          BY <1>3, <4>1, <4>2
      <3>4. CASE to \in nodes
        <4> DEFINE T == {n \in S : dist[n] <= dist[from]}
        <4>1. /\ dist[from] \in Nat /\ dist[to] \in Nat
              /\ from \in T /\ to \notin T
          BY <1>1, <1>2, <2>3, <3>2, <3>4
        <4>2. T \in SUBSET nodes
          BY <4>1
        <4>3. ASSUME NEW n \in T PROVE prev[n] \in T
          <5>1. n \in nodes /\ n # to /\ n \in S /\ dist[n] <= dist[from]
            BY <4>1, <4>2
          <5>2. prev[n] \in S /\ prev[n] \in Nodes /\ dist[prev[n]] <= dist[n]
            BY <1>1, <1>2, <2>2, <2>7, <5>1
          <5>3. dist[prev[n]] \in Nat /\ dist[n] \in Nat
            BY <1>1, <1>2, <5>1, <5>2
          <5> QED
            BY <4>1, <5>1, <5>2, <5>3
        <4> HIDE DEF T
        <4> QED
          BY <1>3, <4>1, <4>2, <4>3
      <3> QED
        BY <3>3, <3>4
    <2>8. prev'[InitialNode] = NULL
      BY <1>1, <1>3, <2>2
    <2> QED
      BY <2>4, <2>5, <2>6, <2>7, <2>8 DEF DistancesDescend, PathsLeadBack
  <1> QED
    BY <1>4, <1>5

LEMMA PathsNext ==
    ASSUME TypeOK, EntriesAreLive, NodesAreReached, DistancesDescend, PathsLeadBack,
           [Next]_vars
    PROVE  DistancesDescend' /\ PathsLeadBack'
  <1>1. CASE Construct
    <2> DEFINE x == InitialRun(program)
               k == Digest(x.value)
    <2>1. /\ x.acts \in Nat /\ k \in Digests
          /\ GetNode(0, x.value, queue) /\ AddArc(InitialNode, k, x.acts)
      BY <1>1, ConstructStep
    <2>2. nodes' = nodes \cup {k}
      BY <2>1 DEF GetNode
    <2> HIDE DEF k
    <2> QED
      BY <2>1, <2>2, AddArcKeepsPaths
  <1>2. CASE FastRunChild
    <2> DEFINE e == Head(queue)
               old == heap[e.obj]
    <2>1. PICK x \in FastRun(program, old.value) :
             /\ Digest(x.value) \in Digests /\ old.acts + x.acts \in Nat
             /\ GetNode(e.obj, x.value, Tail(queue))
             /\ AddArc(e.node, Digest(x.value), old.acts + x.acts)
      BY <1>2, FastRunStep
    <2>2. nodes' = nodes \cup {Digest(x.value)} /\ e.node \in nodes
      BY <1>2, <2>1, PoppedIsLive DEF GetNode, FastRunChild
    <2> HIDE DEF e, old
    <2> QED
      BY <2>1, <2>2, AddArcKeepsPaths
  <1>3. CASE StartForking
    BY <1>3 DEF StartForking, DistancesDescend, PathsLeadBack
  <1>4. CASE ForkChild
    <2>1. PICK x \in current.todo :
             /\ Digest(x.value) \in Digests /\ current # NULL
             /\ GetNode(fresh, x.value, queue)
             /\ AddArc(current.node, Digest(x.value), heap[current.obj].acts)
      BY <1>4, ForkStep
    <2>2. nodes' = nodes \cup {Digest(x.value)}
      BY <2>1 DEF GetNode
    <2>3. current.node \in nodes /\ heap[current.obj].acts \in Nat
      BY <2>1, CurrentIsLive
    <2> QED
      BY <2>1, <2>2, <2>3, AddArcKeepsPaths
  <1>5. CASE FinishNode
    BY <1>5 DEF FinishNode, DistancesDescend, PathsLeadBack
  <1>6. CASE UNCHANGED vars
    BY <1>6 DEF vars, DistancesDescend, PathsLeadBack
  <1> QED
    BY <1>1, <1>2, <1>3, <1>4, <1>5, <1>6 DEF Next

-----------------------------------------------------------------------------
(* The inductive invariant and what follows from it.                       *)

LEMMA InvInit == Init => ExplorerInv
  <1> SUFFICES ASSUME Init PROVE ExplorerInv
    OBVIOUS
  <1>1. /\ queue = << >> /\ current = NULL /\ nodes = {} /\ arcs = {} /\ errors = {}
        /\ fresh = 0
        /\ \A o \in Objects : heap[o] = NULL
        /\ \A n \in Nodes : prev[n] = NULL
        /\ InitialNode \in Nodes
    BY DEF Init
  <1>2. DOMAIN queue = {}
    BY <1>1
  <1>3. TypeOK
    BY TypeOKInit
  <1>4. EntriesAreLive /\ LastRunIsLast
    BY <1>1, <1>2 DEF EntriesAreLive, LastRunIsLast
  <1>5. NodesAreReached /\ NodesAreExpanded
    BY <1>1, <1>2 DEF NodesAreReached, NodesAreExpanded
  <1>6. DeadlocksAreOfExpanded
    BY <1>1 DEF DeadlocksAreOfExpanded, DeadlockNodes
  <1>7. DistancesDescend /\ PathsLeadBack
    BY <1>1 DEF DistancesDescend, PathsLeadBack
  <1> QED
    BY <1>3, <1>4, <1>5, <1>6, <1>7 DEF ExplorerInv

LEMMA InvNext == ExplorerInv /\ [Next]_vars => ExplorerInv'
    BY TypeOKNext, EntriesAreLiveNext, LastRunIsLastNext, NodesAreReachedNext,
       NodesAreExpandedNext, DeadlocksAreOfExpandedNext, PathsNext
       DEF ExplorerInv

(* Every state of the explorer satisfies the inductive invariant.          *)
THEOREM Invariance == Spec => []ExplorerInv
  <1>1. Init => ExplorerInv
    BY InvInit
  <1>2. ExplorerInv /\ [Next]_vars => ExplorerInv'
    BY InvNext
  <1> QED
    BY <1>1, <1>2, PTL DEF Spec

(* The variables of the explorer always have their types: in particular    *)
(* getNode and addArc are only ever given digests, and the work queue only *)
(* objects that were allocated.                                            *)
THEOREM TypeCorrect == Spec => []TypeOK
  <1>1. ExplorerInv => TypeOK
    BY DEF ExplorerInv
  <1> QED
    BY <1>1, Invariance, PTL

(* The queue never holds a deleted program state, and no two entries share *)
(* a state: the delete at the end of computeChilds and the fast run that   *)
(* goes on in the popped state itself are safe, for every program.         *)
THEOREM QueueIsSound == Spec => []QueuedStatesAreLive
  <1>1. ASSUME ExplorerInv PROVE QueuedStatesAreLive
    <2> DEFINE c == [node |-> current.node, obj |-> current.obj]
               Queued == {queue[i] : i \in DOMAIN queue}
    <2>1. EntriesAreLive
      BY <1>1 DEF ExplorerInv
    <2>2. \A e \in Queued : heap[e.obj] # NULL /\ Digest(heap[e.obj].value) = e.node
      BY <2>1 DEF EntriesAreLive
    <2>3. \A e, f \in Queued : (e.obj = f.obj \/ e.node = f.node) => e = f
      <3> TAKE e, f \in Queued
      <3>1. PICK i, j \in DOMAIN queue : e = queue[i] /\ f = queue[j]
        OBVIOUS
      <3> QED
        BY <2>1, <3>1 DEF EntriesAreLive
    <2>4. c.node = current.node /\ c.obj = current.obj
      OBVIOUS
    <2>5. current # NULL =>
            /\ heap[c.obj] # NULL /\ Digest(heap[c.obj].value) = c.node
            /\ \A e \in Queued : e.obj # c.obj /\ e.node # c.node
      BY <2>1, <2>4 DEF EntriesAreLive
    <2>6. Owners = Queued \cup (IF current = NULL THEN {} ELSE {c})
      BY DEF Owners
    <2>7. /\ \A i, j \in DOMAIN queue : queue[i] = queue[j] => i = j
          /\ current # NULL => \A i \in DOMAIN queue : queue[i].obj # current.obj
      BY <2>1 DEF EntriesAreLive
    <2> HIDE DEF c, Queued
    <2>8. \A e \in Owners : heap[e.obj] # NULL /\ Digest(heap[e.obj].value) = e.node
      BY <2>2, <2>5, <2>6
    <2>9. \A e, f \in Owners : (e.obj = f.obj \/ e.node = f.node) => e = f
      BY <2>3, <2>5, <2>6
    <2> QED
      BY <2>7, <2>8, <2>9 DEF QueuedStatesAreLive
  <1> QED
    BY <1>1, Invariance, PTL

(* While anything is left to run, the state pointer that setState compares *)
(* is not to a deleted state, for every program: a state is only deleted   *)
(* when it is current, and the one that ran last is at the queue's end.    *)
THEOREM InterpreterIsSafe == Spec => []InterpreterStateIsLive
  <1>1. ExplorerInv => InterpreterStateIsLive
    BY DEF ExplorerInv, LastRunIsLast, InterpreterStateIsLive
  <1> QED
    BY <1>1, Invariance, PTL

(* From every node, at any time, writePathToNode reaches InitialNode along *)
(* arcs that exist: no replacement of a predecessor ever closes a cycle,   *)
(* although the distances behind the replaced node are not recomputed.     *)
THEOREM PathsAreSound == Spec => []PathsLeadBack
  <1>1. ExplorerInv => PathsLeadBack
    BY DEF ExplorerInv
  <1> QED
    BY <1>1, Invariance, PTL

(* When the queue is empty, every node has been expanded from a reachable  *)
(* state, whatever the digest tells apart.                                 *)
LEMMA DoneMeansExpanded ==
    ASSUME ExplorerInv, Done
    PROVE  /\ Digest(InitialRun(program).value) \in nodes
           /\ \A a \in arcs : a.to \in nodes
           /\ DeadlockNodes \subseteq nodes
           /\ \A n \in nodes : \E v \in Reachable(program) : ExpandedAs(n, v)
  <1>1. queue = << >> /\ current = NULL /\ nodes # {}
    BY DEF Done
  <1>2. \A n : ~ Pending(queue, current, n)
    BY <1>1 DEF Pending
  <1> QED
    BY <1>1, <1>2 DEF ExplorerInv, NodesAreReached, NodesAreExpanded, DeadlocksAreOfExpanded

(* If equal digests mean equal successors, every digest of a reachable     *)
(* state has a node with the arcs and the deadlock of that state: the      *)
(* states whose digests have nodes are closed under the runs.              *)
LEMMA DecidedMeansExplored ==
    ASSUME ExplorerInv, Done, DigestsDecide(program)
    PROVE  /\ nodes = {Digest(v) : v \in Reachable(program)}
           /\ \A v \in Reachable(program) : ExpandedAs(Digest(v), v)
  <1> DEFINE R == Reachable(program)
             S == {v \in R : Digest(v) \in nodes}
  <1>1. program \in Programs
    BY DEF ExplorerInv, TypeOK
  <1>2. /\ InitialRun(program).value \in R
        /\ \A v \in R : v \in Values
        /\ \A v \in R : \A x \in Runs(program, v) : x.value \in R
    BY <1>1, ReachableClosed
  <1>3. ASSUME NEW v \in S PROVE ExpandedAs(Digest(v), v)
    <2>1. PICK w \in R : ExpandedAs(Digest(v), w)
      BY DoneMeansExpanded
    <2>2. SuccDigests(program, v) = SuccDigests(program, w) /\ IsTerminated(v) = IsTerminated(w)
      BY <2>1 DEF DigestsDecide, ExpandedAs
    <2>3. IsStuck(program, v) = IsStuck(program, w)
      BY <2>2 DEF IsStuck
    <2> QED
      BY <2>1, <2>2, <2>3 DEF ExpandedAs
  <1>4. ASSUME NEW v \in S, NEW x \in Runs(program, v) PROVE x.value \in S
    <2>1. Digest(x.value) \in Targets(arcs, Digest(v))
      BY <1>3 DEF SuccDigests, ExpandedAs
    <2>2. Digest(x.value) \in nodes
      BY <2>1, DoneMeansExpanded DEF Targets
    <2> QED
      BY <1>2, <2>2
  <1>5. \A v \in R : v \in S
    <2>1. Closed(program, S)
      BY <1>4 DEF Closed
    <2>2. S \in SUBSET Values /\ InitialRun(program).value \in S
      BY <1>2, DoneMeansExpanded
    <2> HIDE DEF S
    <2> QED
      BY <2>1, <2>2 DEF Reachable
  <1>6. \A n \in nodes : \E v \in R : Digest(v) = n
    BY DoneMeansExpanded DEF ExpandedAs
  <1> QED
    BY <1>3, <1>5, <1>6

(* The finished graph has, whatever the digest tells apart, nothing but    *)
(* nodes of reachable states with all runs of one of them, and none is     *)
(* left to expand.  If equal digests mean equal successors, it is exactly  *)
(* the part of the program's transition graph that main's first run leads  *)
(* to: no interleaving of forks, duplicates and late pops loses a state or *)
(* adds an arc.                                                            *)
THEOREM ExplorationIsExact == Spec => []GraphIsExact
  <1>1. ASSUME ExplorerInv PROVE GraphIsExact
    <2> SUFFICES ASSUME Done PROVE
           /\ Digest(InitialRun(program).value) \in nodes
           /\ \A a \in arcs : a.to \in nodes
           /\ \A n \in nodes : \E v \in Reachable(program) :
                 Digest(v) = n /\ Targets(arcs, n) = SuccDigests(program, v)
           /\ DigestsDecide(program) =>
                 /\ nodes = {Digest(v) : v \in Reachable(program)}
                 /\ \A v \in Reachable(program) :
                       Targets(arcs, Digest(v)) = SuccDigests(program, v)
      BY DEF GraphIsExact
    <2>1. /\ Digest(InitialRun(program).value) \in nodes
          /\ \A a \in arcs : a.to \in nodes
          /\ \A n \in nodes : \E v \in Reachable(program) :
                Digest(v) = n /\ Targets(arcs, n) = SuccDigests(program, v)
      BY <1>1, DoneMeansExpanded DEF ExpandedAs
    <2>2. ASSUME DigestsDecide(program)
          PROVE  /\ nodes = {Digest(v) : v \in Reachable(program)}
                 /\ \A v \in Reachable(program) :
                       Targets(arcs, Digest(v)) = SuccDigests(program, v)
      BY <1>1, <2>2, DecidedMeansExplored DEF ExpandedAs
    <2> QED
      BY <2>1, <2>2
  <1> QED
    BY <1>1, Invariance, PTL

(* When the exploration is done, each deadlock in the report is that of a  *)
(* reachable state that can do nothing and has not terminated, and a node  *)
(* without one is that of a state for which this is not so, whatever the   *)
(* digest tells apart.  If equal digests mean equal successors, deadlocks  *)
(* are reported for these states and no other.                             *)
THEOREM DeadlocksAreExact == Spec => []DeadlocksAreReported
  <1>1. ASSUME ExplorerInv PROVE DeadlocksAreReported
    <2> DEFINE D == {Digest(v) : v \in Stuck(program)}
    <2> SUFFICES ASSUME Done PROVE
           /\ DeadlockNodes \subseteq D
           /\ nodes \ DeadlockNodes
                 \subseteq {Digest(v) : v \in Reachable(program) \ Stuck(program)}
           /\ DigestsDecide(program) => DeadlockNodes = D
      BY DEF DeadlocksAreReported
    <2>1. /\ DeadlockNodes \subseteq nodes
          /\ \A n \in nodes : \E v \in Reachable(program) : ExpandedAs(n, v)
      BY <1>1, DoneMeansExpanded
    <2>2. \A v \in Reachable(program) : v \in Stuck(program) <=> IsStuck(program, v)
      BY DEF Stuck
    <2>3. \A n \in nodes : \E v \in Reachable(program) :
             Digest(v) = n /\ (n \in DeadlockNodes <=> v \in Stuck(program))
      BY <2>1, <2>2 DEF ExpandedAs
    <2>4. DeadlockNodes \subseteq D
      BY <2>1, <2>3
    <2>5. ASSUME DigestsDecide(program), NEW n \in D PROVE n \in DeadlockNodes
      <3>1. PICK v \in Reachable(program) : Digest(v) = n /\ IsStuck(program, v)
        BY DEF Stuck
      <3>2. ExpandedAs(n, v)
        BY <1>1, <2>5, <3>1, DecidedMeansExplored
      <3> QED
        BY <3>1, <3>2 DEF ExpandedAs
    <2> QED
      BY <2>3, <2>4, <2>5
  <1> QED
    BY <1>1, Invariance, PTL
=============================================================================
