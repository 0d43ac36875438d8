----------------------------- MODULE StateSpace -----------------------------
(***************************************************************************)
(* The explorer: a work queue of program states, a graph of nodes keyed by *)
(* the digest of a state, and the paths and errors read off that graph.    *)
(*                                                                         *)
(* What a verified program does between two pauses is a parameter: from a  *)
(* state value, FastRun and Forks give the outcomes of the runs that       *)
(* computeChilds starts from it.  Program states are objects on the heap;  *)
(* an object is named by a number that is never used again, so that a      *)
(* pointer to a deleted object can be told from a pointer to a new one.    *)
(* The order of the forks of one node is left open; forks that end alike   *)
(* are one.                                                                *)
(***************************************************************************)
EXTENDS Naturals, Sequences

CONSTANTS
    Programs,          \* the verified programs
    Values,            \* contents of program states
    Processes,         \* the ranks of the program
    MaxObjects,        \* bound on the program states ever allocated
    InitialNode,       \* StateSpace::InitialNode
    NULL,
    InitialRun(_),     \* the runs of main up to the first pause
    FastRun(_, _),     \* a rank that needs no decision runs: one outcome or none
    Forks(_, _),       \* the outcomes of forkWaitOrTest over all ranks
    IsTerminated(_),   \* ProgramState::isTerminated
    Digest(_)          \* ProgramState::computeHash

(* One run of the interpreter: the state it ends in, how many Actions it   *)
(* recorded there and the ranks whose main returned a nonzero code in it.  *)
Objects == 0 .. MaxObjects - 1

Outcome == [value : Values, acts : Nat, failed : SUBSET Processes]

Digests == {Digest(v) : v \in Values}

Nodes == Digests \cup {InitialNode}

Runs(p, v) == IF FastRun(p, v) # {} THEN FastRun(p, v) ELSE Forks(p, v)

SuccDigests(p, v) == {Digest(x.value) : x \in Runs(p, v)}

(* A ProgramState: what it contains and how many Actions it has recorded.  *)
HeapObject == [value : Values, acts : Nat]

(* Elements of WorkingQueue.                                               *)
Entry == [node : Digests, obj : Objects]

(* The node and state of a computeChilds at work, and the forks it has to  *)
(* make yet.                                                               *)
Branching == [node : Digests, obj : Objects, todo : SUBSET Outcome]

ASSUME MaxObjectsAssumption == MaxObjects \in Nat \ {0}
ASSUME NodeAssumption ==
    InitialNode \notin Digests /\ NULL \notin Nodes /\ InitialNode # NULL
ASSUME NullAssumption == NULL \notin HeapObject /\ NULL \notin Branching
ASSUME ProgramAssumption ==
    \A p \in Programs :
        /\ InitialRun(p) \in Outcome
        /\ \A v \in Values :
              /\ FastRun(p, v) \subseteq Outcome /\ Forks(p, v) \subseteq Outcome
              /\ \A x, y \in FastRun(p, v) : x = y
ASSUME TerminatedAssumption == \A v \in Values : IsTerminated(v) \in BOOLEAN

VARIABLES
    program,    \* the program being verified, never changes
    heap,       \* ProgramStates: object -> [value, acts], NULL if not live
    fresh,      \* number of objects allocated so far
    intr,       \* the object the interpreter's current state belongs to
    queue,      \* WorkingQueue, a sequence of [node, obj]
    nodes,      \* keys of the map Nodes
    arcs,       \* [from, to, acts]
    prev,       \* Node::PrevNode
    dist,       \* Node::Distance
    errors,     \* [kind, node, rank]
    current     \* the [node, obj, todo] computeChilds is forking, or NULL

vars == <<program, heap, fresh, intr, queue, nodes, arcs, prev, dist, errors, current>>

TypeOK ==
    /\ program \in Programs
    /\ fresh \in 0 .. MaxObjects
    /\ heap \in [Objects -> HeapObject \cup {NULL}]
    /\ intr \in Objects
    /\ queue \in Seq(Entry)
    /\ nodes \subseteq Digests
    /\ arcs \subseteq [from : Nodes, to : Digests, acts : Nat]
    /\ prev \in [Nodes -> Nodes \cup {NULL}]
    /\ dist \in [Nodes -> Nat]
    /\ errors \subseteq [kind : {"deadlock", "exitcode"},
                         node : Nodes \cup {NULL}, rank : Processes \cup {NULL}]
    /\ current \in Branching \cup {NULL}

-----------------------------------------------------------------------------
(* main.cpp has made the first ProgramState, object 0, and the interpreter *)
(* is in it; nothing ran yet.                                              *)
Init ==
    /\ program \in Programs
    /\ heap = [o \in Objects |-> NULL] /\ fresh = 0 /\ intr = 0
    /\ queue = << >>
    /\ nodes = {} /\ arcs = {}
    /\ prev = [n \in Nodes |-> NULL]
    /\ dist = [n \in Nodes |-> 0]
    /\ errors = {}
    /\ current = NULL

(* afterRunAction of the runs that make up x, called with node n.          *)
ExitErrors(x, n) ==
    {[kind |-> "exitcode", node |-> n, rank |-> r] : r \in x.failed}

(* Mutants of getNode: the newest state is expanded first; a state is      *)
(* queued although its digest has a node.                                  *)
GetNodeDepthFirst(obj, value, rest) ==
    LET n == Digest(value)
    IN  /\ nodes' = nodes \cup {n}
        /\ queue' = IF n \in nodes THEN rest
                    ELSE << [node |-> n, obj |-> obj] >> \o rest

GetNodeAlwaysNew(obj, value, rest) ==
    LET n == Digest(value)
    IN  /\ nodes' = nodes \cup {n}
        /\ queue' = Append(rest, [node |-> n, obj |-> obj])

(* getNode: a state with a new digest gets a node and is queued; another   *)
(* one is forgotten, its object is never deleted.                          *)
GetNode(obj, value, rest) ==
    LET n == Digest(value)
    IN  /\ nodes' = nodes \cup {n}
        /\ queue' = IF n \in nodes THEN rest
                    ELSE Append(rest, [node |-> n, obj |-> obj])

(* Mutants of addArc: a path of the same length replaces the old one; the  *)
(* arc is added at the wrong end; the distance of its start is forgotten.  *)
AddArcSameLength(from, to, acts) ==
    LET d == dist[from] + acts
        closer == prev[to] = NULL \/ d <= dist[to]
    IN  /\ arcs' = arcs \cup {[from |-> from, to |-> to, acts |-> acts]}
        /\ prev' = IF closer THEN [prev EXCEPT ![to] = from] ELSE prev
        /\ dist' = IF closer THEN [dist EXCEPT ![to] = d] ELSE dist

AddArcBackwards(from, to, acts) ==
    LET d == dist[from] + acts
        closer == prev[to] = NULL \/ d < dist[to]
    IN  /\ arcs' = arcs \cup {[from |-> to, to |-> from, acts |-> acts]}
        /\ prev' = IF closer THEN [prev EXCEPT ![to] = from] ELSE prev
        /\ dist' = IF closer THEN [dist EXCEPT ![to] = d] ELSE dist

AddArcLocalDistance(from, to, acts) ==
    LET closer == prev[to] = NULL \/ acts < dist[to]
    IN  /\ arcs' = arcs \cup {[from |-> from, to |-> to, acts |-> acts]}
        /\ prev' = IF closer THEN [prev EXCEPT ![to] = from] ELSE prev
        /\ dist' = IF closer THEN [dist EXCEPT ![to] = acts] ELSE dist

(* Node::addArc with updateDistance.                                       *)
AddArc(from, to, acts) ==
    LET d == dist[from] + acts
        closer == prev[to] = NULL \/ d < dist[to]
    IN  /\ arcs' = arcs \cup {[from |-> from, to |-> to, acts |-> acts]}
        /\ prev' = IF closer THEN [prev EXCEPT ![to] = from] ELSE prev
        /\ dist' = IF closer THEN [dist EXCEPT ![to] = d] ELSE dist

(* The constructor: main of every rank runs up to its first pause, in one  *)
(* ProgramState and with no node to blame an exit code on.                 *)
Construct ==
    LET x == InitialRun(program)
    IN  /\ nodes = {}
        /\ heap' = [heap EXCEPT ![0] = [value |-> x.value, acts |-> 0]]
        /\ fresh' = 1
        /\ intr' = 0
        /\ GetNode(0, x.value, queue)
        /\ AddArc(InitialNode, Digest(x.value), x.acts)
        /\ errors' = ExitErrors(x, NULL)
        /\ UNCHANGED <<program, current>>

Popping == current = NULL /\ queue # << >>

(* Mutant of FastRunChild: the popped state is deleted here too.           *)
FastRunChildDeleting ==
    /\ Popping
    /\ LET e == Head(queue)
           old == heap[e.obj]
       IN  \E x \in FastRun(program, old.value) :
              /\ intr' = e.obj
              /\ heap' = [heap EXCEPT ![e.obj] = NULL]
              /\ GetNode(e.obj, x.value, Tail(queue))
              /\ AddArc(e.node, Digest(x.value), old.acts + x.acts)
              /\ errors' = errors \cup ExitErrors(x, e.node)
    /\ UNCHANGED <<program, fresh, current>>

(* build pops a state and computeChilds finds a rank that needs no         *)
(* decision: the state itself goes on.                                     *)
FastRunChild ==
    /\ Popping
    /\ LET e == Head(queue)
           old == heap[e.obj]
       IN  \E x \in FastRun(program, old.value) :
              /\ intr' = e.obj
              /\ heap' = [heap EXCEPT ![e.obj] = [value |-> x.value, acts |-> 0]]
              /\ GetNode(e.obj, x.value, Tail(queue))
              /\ AddArc(e.node, Digest(x.value), old.acts + x.acts)
              /\ errors' = errors \cup ExitErrors(x, e.node)
    /\ UNCHANGED <<program, fresh, current>>

(* Mutant of StartForking: forks also from a state a fast run is due in.   *)
StartForkingAnyway ==
    /\ Popping
    /\ LET e == Head(queue)
       IN  current' = [node |-> e.node, obj |-> e.obj,
                       todo |-> Forks(program, heap[e.obj].value)]
    /\ queue' = Tail(queue)
    /\ UNCHANGED <<program, heap, fresh, intr, nodes, arcs, prev, dist, errors>>

(* build pops a state in which every rank that can go on needs a decision. *)
StartForking ==
    /\ Popping
    /\ LET e == Head(queue)
           v == heap[e.obj].value
       IN  /\ FastRun(program, v) = {}
           /\ current' = [node |-> e.node, obj |-> e.obj, todo |-> Forks(program, v)]
    /\ queue' = Tail(queue)
    /\ UNCHANGED <<program, heap, fresh, intr, nodes, arcs, prev, dist, errors>>

(* One fork.  The run records its Actions in the copy, the arc gets those  *)
(* of the state that was copied, which is left without any.                *)
ForkChild ==
    /\ current # NULL
    /\ fresh < MaxObjects
    /\ \E x \in current.todo :
          /\ heap' = [heap EXCEPT ![current.obj].acts = 0,
                                  ![fresh] = [value |-> x.value, acts |-> x.acts]]
          /\ fresh' = fresh + 1
          /\ intr' = fresh
          /\ GetNode(fresh, x.value, queue)
          /\ AddArc(current.node, Digest(x.value), heap[current.obj].acts)
          /\ errors' = errors \cup ExitErrors(x, current.node)
          /\ current' = [current EXCEPT !.todo = @ \ {x}]
    /\ UNCHANGED program

(* Mutant of FinishNode: a terminated program is a deadlock too.           *)
FinishNodeUnchecked ==
    /\ current # NULL
    /\ current.todo = {}
    /\ errors' = IF \A a \in arcs : a.from # current.node
                 THEN errors \cup {[kind |-> "deadlock", node |-> current.node,
                                    rank |-> NULL]}
                 ELSE errors
    /\ heap' = [heap EXCEPT ![current.obj] = NULL]
    /\ current' = NULL
    /\ UNCHANGED <<program, fresh, intr, queue, nodes, arcs, prev, dist>>

(* The end of computeChilds: a node without arcs whose ranks did not all   *)
(* finish is a deadlock; the popped state is deleted.                      *)
FinishNode ==
    /\ current # NULL
    /\ current.todo = {}
    /\ errors' = IF /\ \A a \in arcs : a.from # current.node
                    /\ ~ IsTerminated(heap[current.obj].value)
                 THEN errors \cup {[kind |-> "deadlock", node |-> current.node,
                                    rank |-> NULL]}
                 ELSE errors
    /\ heap' = [heap EXCEPT ![current.obj] = NULL]
    /\ current' = NULL
    /\ UNCHANGED <<program, fresh, intr, queue, nodes, arcs, prev, dist>>

Next == Construct \/ FastRunChild \/ StartForking \/ ForkChild \/ FinishNode

(* One thread runs build to its end.  A step is over when the run of the   *)
(* verified program in it is: the program must not loop without MPI calls. *)
Spec == Init /\ [][Next]_vars /\ WF_vars(Next)

-----------------------------------------------------------------------------
(* Properties.                                                             *)

Done == nodes # {} /\ queue = << >> /\ current = NULL

Closed(p, S) == \A v \in S : \A x \in Runs(p, v) : x.value \in S

(* The least set of state values closed under the runs of the explorer.    *)
Reachable(p) ==
    LET closed == {S \in SUBSET Values : InitialRun(p).value \in S /\ Closed(p, S)}
    IN  {v \in Values : \A S \in closed : v \in S}

(* State v can do nothing and has not terminated.                          *)
IsStuck(p, v) == SuccDigests(p, v) = {} /\ ~ IsTerminated(v)

Stuck(p) == {v \in Reachable(p) : IsStuck(p, v)}

(* The digest tells apart all that matters for what comes next.            *)
DigestsDecide(p) ==
    \A v, w \in Reachable(p) : Digest(v) = Digest(w) =>
        IsTerminated(v) = IsTerminated(w) /\ SuccDigests(p, v) = SuccDigests(p, w)

(* The nodes that arcs of A lead to from node n.                           *)
Targets(A, n) == {a.to : a \in {b \in A : b.from = n}}

(* Nodes that a deadlock is reported at.                                   *)
DeadlockNodes == {e.node : e \in {f \in errors : f.kind = "deadlock"}}

(* Whatever the digest does, the finished graph is closed and has nothing  *)
(* but nodes of reachable states, each with the arcs of all runs of one of *)
(* them.  If the digest tells apart all that matters, it is the reachable  *)
(* part of the transition graph of the program, modulo digests: no state   *)
(* is missed when getNode forgets a duplicate, a fast run replaces its     *)
(* state or a node is popped late.                                         *)
GraphIsExact ==
    Done =>
      /\ Digest(InitialRun(program).value) \in nodes
      /\ \A a \in arcs : a.to \in nodes
      /\ \A n \in nodes : \E v \in Reachable(program) :
            Digest(v) = n /\ Targets(arcs, n) = SuccDigests(program, v)
      /\ DigestsDecide(program) =>
            /\ nodes = {Digest(v) : v \in Reachable(program)}
            /\ \A v \in Reachable(program) : Targets(arcs, Digest(v)) = SuccDigests(program, v)

(* Whatever the digest does, a deadlock is reported only at nodes of       *)
(* stuck states, and a node without one is that of a state that is not     *)
(* stuck.  If the digest tells apart all that matters, a deadlock is       *)
(* reported for exactly the reachable states that have no successor and    *)
(* are not terminated.                                                     *)
DeadlocksAreReported ==
    Done =>
      /\ DeadlockNodes \subseteq {Digest(v) : v \in Stuck(program)}
      /\ nodes \ DeadlockNodes \subseteq {Digest(v) : v \in Reachable(program) \ Stuck(program)}
      /\ DigestsDecide(program) => DeadlockNodes = {Digest(v) : v \in Stuck(program)}

Owners == {queue[i] : i \in DOMAIN queue} \cup
          (IF current = NULL THEN {} ELSE {[node |-> current.node, obj |-> current.obj]})

(* Whatever waits in the queue, or is being forked, is a live program      *)
(* state with the digest of its node, and no two of them share an object   *)
(* or a node: the delete at the end of computeChilds frees a state nobody  *)
(* needs, and a fast run changes no state that is queued elsewhere.        *)
QueuedStatesAreLive ==
    /\ \A e \in Owners : heap[e.obj] # NULL /\ Digest(heap[e.obj].value) = e.node
    /\ \A e, f \in Owners : (e.obj = f.obj \/ e.node = f.node) => e = f
    /\ \A i, j \in DOMAIN queue : queue[i] = queue[j] => i = j
    /\ current # NULL => \A i \in DOMAIN queue : queue[i].obj # current.obj

(* Interpreter::setState compares the pointer it holds with the state to   *)
(* run and maps that state's memory only when they differ.  While anything *)
(* is left to run, the pointer is not to a deleted state, whose address a  *)
(* new state could have; the order of the queue sees to that.              *)
InterpreterStateIsLive == queue # << >> \/ current # NULL => heap[intr] # NULL

(* writePathToNode ends, and finds the arc it asserts (StateSpace.cpp:410),*)
(* from every node, at any time: following PrevNode leads along arcs of    *)
(* the graph to InitialNode, although a node's predecessor is replaced     *)
(* when a shorter path turns up and the distances behind it are not.       *)
PathsLeadBack ==
    /\ \A n \in nodes : \E a \in arcs : a.from = prev[n] /\ a.to = n
    /\ prev[InitialNode] = NULL
    /\ \A S \in SUBSET nodes : S # {} => \E n \in S : prev[n] \notin S

-----------------------------------------------------------------------------
(* The parts of the inductive invariant behind the theorems of             *)
(* StateSpace_proofs.                                                      *)

(* Node n is in the queue q, or is the one c that is being forked.         *)
Pending(q, c, n) == (\E i \in DOMAIN q : q[i].node = n) \/ (c # NULL /\ c.node = n)

(* QueuedStatesAreLive, by position in the queue.                          *)
EntriesAreLive ==
    /\ \A i \in DOMAIN queue : /\ heap[queue[i].obj] # NULL
                               /\ Digest(heap[queue[i].obj].value) = queue[i].node
                               /\ queue[i].node \in nodes
    /\ \A i, j \in DOMAIN queue :
          (queue[i].obj = queue[j].obj \/ queue[i].node = queue[j].node) => i = j
    /\ current # NULL =>
          /\ heap[current.obj] # NULL
          /\ Digest(heap[current.obj].value) = current.node
          /\ current.node \in nodes
          /\ \A i \in DOMAIN queue : queue[i].obj # current.obj
                                      /\ queue[i].node # current.node
    /\ \A o \in Objects : heap[o] # NULL => o < fresh

(* The state that ran last is at the end of the queue if it is queued, so  *)
(* that it is forked and deleted only when nothing else is left to run.    *)
LastRunIsLast ==
    /\ queue # << >> \/ current # NULL => heap[intr] # NULL
    /\ \A i \in DOMAIN queue : queue[i].obj = intr => i = Len(queue)
    /\ current # NULL /\ current.obj = intr => queue = << >>

(* Nodes and arcs come from runs that the program has.                     *)
NodesAreReached ==
    LET reachable == Reachable(program)
    IN  /\ nodes = {} => /\ queue = << >> /\ current = NULL /\ fresh = 0
                         /\ arcs = {} /\ errors = {}
        /\ nodes # {} => Digest(InitialRun(program).value) \in nodes
        /\ \A a \in arcs : a.to \in nodes /\ a.from \in nodes \cup {InitialNode}
        /\ \A n \in nodes : \E v \in reachable : Digest(v) = n
        /\ \A i \in DOMAIN queue : heap[queue[i].obj].value \in reachable
        /\ current # NULL => heap[current.obj].value \in reachable

(* Node n got its arcs, and a deadlock or none, from runs of state v.      *)
ExpandedAs(n, v) ==
    /\ Digest(v) = n
    /\ Targets(arcs, n) = SuccDigests(program, v)
    /\ n \in DeadlockNodes <=> IsStuck(program, v)

(* A node has no arcs while it is queued, those of the forks made so far   *)
(* while it is current, and from then on those of all runs of the state it *)
(* was expanded from.                                                      *)
NodesAreExpanded ==
    /\ \A i \in DOMAIN queue : Targets(arcs, queue[i].node) = {}
    /\ current # NULL =>
          LET v == heap[current.obj].value
          IN  /\ FastRun(program, v) = {}
              /\ current.todo \subseteq Forks(program, v)
              /\ Targets(arcs, current.node) =
                    {Digest(x.value) : x \in Forks(program, v) \ current.todo}
    /\ LET reachable == Reachable(program)
       IN  \A n \in nodes : Pending(queue, current, n)
                             \/ \E v \in reachable : ExpandedAs(n, v)

(* A deadlock is only found at the end of computeChilds.                   *)
DeadlocksAreOfExpanded ==
    \A n \in DeadlockNodes : n \in nodes /\ ~ Pending(queue, current, n)

(* A node's distance is not below that of its predecessor, though it need  *)
(* not be the length of the path: this is what keeps the paths acyclic.    *)
DistancesDescend ==
    /\ \A n \in Nodes : n \in nodes <=> prev[n] # NULL
    /\ \A n \in nodes : /\ prev[n] \in nodes \cup {InitialNode}
                        /\ dist[prev[n]] <= dist[n]

(* The inductive invariant: what is queued, being forked or done with, the *)
(* arcs and errors each of these has, and distances that bound the paths.  *)
ExplorerInv ==
    /\ TypeOK
    /\ EntriesAreLive
    /\ LastRunIsLast
    /\ NodesAreReached
    /\ NodesAreExpanded
    /\ DeadlocksAreOfExpanded
    /\ DistancesDescend
    /\ PathsLeadBack

(* The exploration ends, although the program's graph has cycles.          *)
ExplorationEnds == <>Done
=============================================================================
