---------------------------- MODULE Reports_proofs --------------------------
(***************************************************************************)
(* Theorems about the Actions that the arcs and the paths of a report      *)
(* show, for every program that StateSpace allows.                         *)
(***************************************************************************)
EXTENDS Reports, StateSpace_proofs, WellFoundedInduction

-----------------------------------------------------------------------------
(* The inductive invariant.                                                *)

QueuedNodes == {queue[i].node : i \in DOMAIN queue}

(* A state that waits holds the Actions of the one run that led to it,     *)
(* which went out from another node.                                       *)
HeldActionsLead ==
    \A e \in Owners : \A i \in DOMAIN Actions[e.obj] :
        LET a == Actions[e.obj][i]
        IN  a.to = e.node /\ a.number = i /\ a.from # e.node

(* A node has no arcs while it is queued, and the state that is forked     *)
(* holds no Actions once one of its arcs is there.                         *)
FirstArcShows ==
    /\ \A n \in QueuedNodes : Arcs[n] = << >>
    /\ \A n \in Nodes \ (nodes \cup {InitialNode}) : Arcs[n] = << >>
    /\ current # NULL => Arcs[current.node] = << >> \/ Actions[current.obj] = << >>
    /\ nodes = {} => /\ Arcs[InitialNode] = << >>
                     /\ \A o \in Objects : Actions[o] = << >>

(* ArcShowsRuns, and no run in its first part is from the node itself.     *)
IsSplit(n, to, s) ==
    \E into \in 0 .. Len(s) : \A i \in 1 .. Len(s) :
        IF i <= into THEN s[i].to = n /\ s[i].number = i /\ s[i].from # n
        ELSE s[i].from = n /\ s[i].to = to /\ s[i].number = i - into

ArcIsSplit(n, k) ==
    /\ k > 1 => Arcs[n][k].Actions = << >>
    /\ IsSplit(n, Arcs[n][k].TargetNode, Arcs[n][k].Actions)

ArcsAreSplit == \A n \in Nodes : \A k \in DOMAIN Arcs[n] : ArcIsSplit(n, k)

(* The nodes whose runs recorded the Actions s, what states hold, and what *)
(* node n shows.                                                           *)
Sources(s) == {b \in Nodes : \E i \in DOMAIN s : s[i].from = b}

HeldSources == {b \in Nodes : \E e \in Owners : b \in Sources(Actions[e.obj])}

SourcesOf(arcsOfNode) ==
    {b \in Nodes : \E k \in DOMAIN arcsOfNode : b \in Sources(arcsOfNode[k].Actions)}

ShownSources(n) == SourcesOf(Arcs[n])

(* Runs from a node show at the node itself, or are held and show where    *)
(* they led to; none is there before the node is expanded.                 *)
SourcesAreApart ==
    /\ HeldSources \subseteq nodes
    /\ \A n \in Nodes : ShownSources(n) \subseteq nodes \cup {InitialNode}
    /\ \A n \in QueuedNodes : n \notin HeldSources /\ \A m \in Nodes : n \notin ShownSources(m)
    /\ \A n \in Nodes : n \in ShownSources(n) =>
          n \notin HeldSources /\ \A m \in Nodes : m # n => n \notin ShownSources(m)
    /\ current # NULL => current.node \notin ShownSources(current.node)

ReportsTypeOK == Actions \in [Objects -> Seq(Action)] /\ Arcs \in [Nodes -> Seq(Arc)]

ShowingInv ==
    /\ ReportsTypeOK
    /\ HeldActionsLead
    /\ FirstArcShows
    /\ ArcsAreSplit
    /\ SourcesAreApart
-----------------------------------------------------------------------------
(* Who waits, after each step.                                             *)

Entries(q) == {q[i] : i \in DOMAIN q}

LEMMA EntriesAfterGetNode ==
    ASSUME NEW rest \in Seq(Entry), NEW v \in Values, NEW o \in Objects,
           GetNode(o, v, rest)
    PROVE  Entries(queue') = Entries(rest) \cup
              (IF Digest(v) \in nodes THEN {} ELSE {[node |-> Digest(v), obj |-> o]})
  <1> PICK e : e = [node |-> Digest(v), obj |-> o]
    OBVIOUS
  <1>1. e \in Entry
    BY DEF Entry, Digests
  <1>2. CASE Digest(v) \in nodes
    BY <1>2 DEF GetNode, Entries
  <1>3. CASE Digest(v) \notin nodes
    <2>1. queue' = Append(rest, e)
      BY <1>3 DEF GetNode
    <2>2. DOMAIN rest = 1 .. Len(rest) /\ Len(rest) \in Nat
      OBVIOUS
    <2>3. /\ DOMAIN queue' = 1 .. Len(rest) + 1
          /\ \A i \in 1 .. Len(rest) : queue'[i] = rest[i]
          /\ queue'[Len(rest) + 1] = e
      BY <1>1, <2>1, QueueAfterGetNode
    <2>4. 1 .. Len(rest) + 1 = (1 .. Len(rest)) \cup {Len(rest) + 1}
      BY <2>2
    <2>5. Entries(queue') = Entries(rest) \cup {e}
      BY <2>2, <2>3, <2>4 DEF Entries
    <2> QED  BY <1>3, <2>5
  <1> QED  BY <1>2, <1>3

LEMMA EntriesAfterPop ==
    ASSUME NEW q \in Seq(Entry), q # << >>
    PROVE  Entries(q) = Entries(Tail(q)) \cup {Head(q)} /\ Head(q) \in Entry
  <1>1. /\ Head(q) = q[1] /\ Head(q) \in Entry
        /\ DOMAIN q = 1 .. Len(q) /\ Len(q) \in Nat \ {0}
        /\ DOMAIN Tail(q) = 1 .. Len(q) - 1
        /\ \A i \in 1 .. Len(q) - 1 : Tail(q)[i] = q[i + 1]
    BY QueueAfterPop
  <1> PICK t : t = Tail(q)
    OBVIOUS
  <1>2. ASSUME NEW i \in DOMAIN q, i # 1  PROVE i - 1 \in DOMAIN t /\ q[i] = t[i - 1]
    BY <1>1, <1>2
  <1>3. ASSUME NEW i \in DOMAIN t  PROVE i + 1 \in DOMAIN q /\ t[i] = q[i + 1]
    BY <1>1
  <1>4. 1 \in DOMAIN q
    BY <1>1
  <1>5. Entries(q) = Entries(t) \cup {q[1]}
    <2>1. q[1] \in Entries(q) /\ \A i \in DOMAIN q : q[i] \in Entries(q)
      BY <1>4 DEF Entries
    <2>2. Entries(t) \subseteq Entries(q)
      BY <1>3 DEF Entries
    <2>3. \A i \in DOMAIN q : i # 1 => q[i] \in Entries(t)
      BY <1>2 DEF Entries
    <2>4. Entries(q) \subseteq Entries(t) \cup {q[1]}
      BY <2>3 DEF Entries
    <2> QED  BY <2>1, <2>2, <2>4
  <1> QED  BY <1>1, <1>5

Current == IF current = NULL THEN {} ELSE {[node |-> current.node, obj |-> current.obj]}

LEMMA OwnerFacts ==
    ASSUME TypeOK, EntriesAreLive
    PROVE  /\ Owners = Entries(queue) \cup Current
           /\ QueuedNodes = {e.node : e \in Entries(queue)}
           /\ \A e \in Owners : /\ e.node \in Digests /\ e.node \in nodes /\ e.obj \in Objects
                                 /\ e.obj # fresh
           /\ \A e, f \in Owners : e.obj = f.obj \/ e.node = f.node => e = f
           /\ \A e \in Entries(queue) : e \in Entry /\ e \notin Current
  <1>1. queue \in Seq(Entry)
    BY DEF TypeOK
  <1>2. \A i \in DOMAIN queue : /\ queue[i] \in Entry
                                 /\ queue[i].obj \in Objects /\ queue[i].node \in Digests
    BY <1>1, EntryTypes
  <1>3. \A i \in DOMAIN queue : queue[i].obj # fresh /\ queue[i].node \in nodes
    BY <1>2 DEF EntriesAreLive, Objects
  <1>4. current # NULL => /\ current.obj \in Objects /\ current.node \in Digests
                          /\ current.obj # fresh /\ current.node \in nodes
    BY CurrentIsLive DEF EntriesAreLive, Objects
  <1>5. Owners = Entries(queue) \cup Current
    BY DEF Owners, Entries, Current
  <1>6. \A e \in Current : /\ current # NULL /\ e.node = current.node /\ e.obj = current.obj
    BY DEF Current
  <1>7. \A e, f \in Current : e = f
    BY DEF Current
  <1>8. \A e \in Entries(queue) : \E i \in DOMAIN queue : e = queue[i]
    BY DEF Entries
  <1>9. \A e \in Owners : /\ e.node \in Digests /\ e.node \in nodes /\ e.obj \in Objects
                           /\ e.obj # fresh
    BY <1>2, <1>3, <1>4, <1>5, <1>6, <1>8
  <1>10. \A e, f \in Entries(queue) : e.obj = f.obj \/ e.node = f.node => e = f
    BY <1>8 DEF EntriesAreLive
  <1>11. \A e \in Entries(queue), f \in Current : e.obj # f.obj /\ e.node # f.node
    BY <1>6, <1>8 DEF EntriesAreLive
  <1>12. QueuedNodes = {e.node : e \in Entries(queue)}
    BY DEF QueuedNodes, Entries
  <1> HIDE DEF Owners, Entries, Current
  <1>13. \A e, f \in Owners : e.obj = f.obj \/ e.node = f.node => e = f
    BY <1>5, <1>7, <1>10, <1>11
  <1>14. \A e \in Entries(queue) : e \in Entry /\ e \notin Current
    BY <1>2, <1>8, <1>11
  <1> QED  BY <1>5, <1>9, <1>12, <1>13, <1>14

LEMMA RecordedFacts ==
    ASSUME NEW n \in Nodes, NEW x \in Outcome
    PROVE  /\ Recorded(n, x) \in Seq(Action)
           /\ DOMAIN Recorded(n, x) = 1 .. x.acts /\ x.acts \in Nat
           /\ Len(Recorded(n, x)) = x.acts
           /\ \A i \in 1 .. x.acts : /\ Recorded(n, x)[i].from = n
                                     /\ Recorded(n, x)[i].to = Digest(x.value)
                                     /\ Recorded(n, x)[i].number = i
  <1>1. x.acts \in Nat /\ Digest(x.value) \in Digests
    BY DEF Outcome, Digests
  <1>2. \A i \in 1 .. x.acts : [from |-> n, to |-> Digest(x.value), number |-> i] \in Action
    BY <1>1 DEF Action
  <1> QED  BY <1>1, <1>2 DEF Recorded

(* A state with digest d in object o waits in the queue if d is new.       *)
New(d, o) == IF d \in nodes THEN {} ELSE {[node |-> d, obj |-> o]}

LEMMA NewEntry ==
    ASSUME NEW d, NEW o
    PROVE  \A f \in New(d, o) : f.node = d /\ f.obj = o /\ d \notin nodes
  BY DEF New

LEMMA NewNodes ==
    ASSUME NEW d, NEW o
    PROVE  {f.node : f \in New(d, o)} \subseteq {d} \ nodes
  BY NewEntry

LEMMA ConstructMoves ==
    ASSUME TypeOK, EntriesAreLive, NodesAreReached, ConstructAndRecord
    PROVE  \E x \in Outcome, d \in Digests :
              /\ d = Digest(x.value) /\ nodes = {} /\ nodes' = {d}
              /\ Owners' = {[node |-> d, obj |-> 0]} /\ QueuedNodes' = {d}
              /\ 0 \in Objects /\ current' = NULL
              /\ Actions' = Actions
              /\ Arcs' = [Arcs EXCEPT ![InitialNode] =
                     Append(@, [TargetNode |-> d, Actions |-> Recorded(InitialNode, x)])]
  <1> DEFINE x == InitialRun(program)
             d == Digest(x.value)
  <1>1. /\ x \in Outcome /\ x.value \in Values /\ 0 \in Objects /\ d \in Digests
        /\ nodes = {} /\ GetNode(0, x.value, queue) /\ current' = current
    BY ConstructStep DEF ConstructAndRecord
  <1>2. queue = << >> /\ current = NULL /\ queue \in Seq(Entry)
    BY <1>1 DEF NodesAreReached, TypeOK
  <1>3. Entries(queue) = {}
    BY <1>2 DEF Entries
  <1>4. Entries(queue') = {[node |-> d, obj |-> 0]}
    <2> PICK v \in Values : v = x.value
      BY <1>1
    <2>1. GetNode(0, v, queue) /\ d = Digest(v) /\ d \notin nodes
      BY <1>1
    <2>2. Entries(queue') = Entries(queue) \cup
             (IF Digest(v) \in nodes THEN {} ELSE {[node |-> Digest(v), obj |-> 0]})
      BY <1>1, <1>2, <2>1, EntriesAfterGetNode
    <2> HIDE DEF d
    <2> QED  BY <1>3, <2>1, <2>2
  <1>5. nodes' = {d}
    BY <1>1 DEF GetNode
  <1>6. Owners' = Entries(queue')
    BY <1>1, <1>2 DEF Owners, Entries
  <1>7. QueuedNodes' = {f.node : f \in Entries(queue')}
    BY DEF QueuedNodes, Entries
  <1>8. QueuedNodes' = {d}
    BY <1>4, <1>7
  <1>9. /\ Actions' = Actions
        /\ Arcs' = [Arcs EXCEPT ![InitialNode] =
                Append(@, [TargetNode |-> d, Actions |-> Recorded(InitialNode, x)])]
    BY DEF ConstructAndRecord, addArc
  <1> HIDE DEF x, d
  <1>10. d = Digest(x.value)
    BY DEF d
  <1> QED  BY <1>1, <1>2, <1>4, <1>5, <1>6, <1>8, <1>9, <1>10

LEMMA FastRunMoves ==
    ASSUME TypeOK, EntriesAreLive, FastRunAndRecord
    PROVE  \E e \in Owners, x \in Outcome, d \in Digests :
              /\ d = Digest(x.value) /\ e.node \in QueuedNodes
              /\ current = NULL /\ current' = NULL /\ nodes' = nodes \cup {d}
              /\ Owners' = (Owners \ {e}) \cup New(d, e.obj)
              /\ QueuedNodes' = {f.node : f \in Owners'}
              /\ QueuedNodes = {f.node : f \in Owners}
              /\ Actions' = [Actions EXCEPT ![e.obj] = << >>]
              /\ Arcs' = [Arcs EXCEPT ![e.node] =
                     Append(@, [TargetNode |-> d,
                                Actions |-> Actions[e.obj] \o Recorded(e.node, x)])]
  <1> DEFINE e == Head(queue)
             y == CHOOSE y \in FastRun(program, heap[e.obj].value) : TRUE
             d == Digest(y.value)
  <1>1. PICK x \in FastRun(program, heap[e.obj].value) :
           /\ x \in Outcome /\ x.value \in Values /\ Digest(x.value) \in Digests
           /\ current = NULL /\ current' = NULL
           /\ GetNode(e.obj, x.value, Tail(queue))
    BY FastRunStep DEF FastRunAndRecord
  <1>2. /\ queue \in Seq(Entry) /\ queue # << >> /\ e.obj \in Objects
        /\ heap[e.obj].value \in Values /\ Tail(queue) \in Seq(Entry)
    BY PoppedIsLive DEF FastRunAndRecord, FastRunChild, Popping, TypeOK
  <1>3. y = x
    <2>1. \A u, v \in FastRun(program, heap[e.obj].value) : u = v
      BY <1>2, ProgramAssumption DEF TypeOK
    <2>2. y \in FastRun(program, heap[e.obj].value)
      BY <1>1
    <2> QED  BY <1>1, <2>1, <2>2
  <1>4. /\ Actions' = [Actions EXCEPT ![e.obj] = << >>]
        /\ Arcs' = [Arcs EXCEPT ![e.node] =
               Append(@, [TargetNode |-> d, Actions |-> Actions[e.obj] \o Recorded(e.node, y)])]
    BY DEF FastRunAndRecord, addArc
  <1> HIDE DEF y
  <1>5. /\ Owners = Entries(queue) /\ Owners' = Entries(queue')
        /\ QueuedNodes = {f.node : f \in Entries(queue)}
        /\ QueuedNodes' = {f.node : f \in Entries(queue')}
    BY <1>1 DEF Owners, QueuedNodes, Entries
  <1>6. Entries(queue) = Entries(Tail(queue)) \cup {e}
    BY <1>2, EntriesAfterPop
  <1>7. e \notin Entries(Tail(queue))
    <2>1. /\ DOMAIN queue = 1 .. Len(queue) /\ Len(queue) \in Nat \ {0} /\ e = queue[1]
          /\ DOMAIN Tail(queue) = 1 .. Len(queue) - 1
          /\ \A i \in 1 .. Len(queue) - 1 : Tail(queue)[i] = queue[i + 1]
      BY <1>2, QueueAfterPop
    <2>2. ASSUME NEW i \in DOMAIN Tail(queue)  PROVE Tail(queue)[i] # e
      <3>1. i + 1 \in DOMAIN queue /\ 1 \in DOMAIN queue /\ i + 1 # 1
        BY <2>1
      <3>2. queue[i + 1].obj # queue[1].obj
        BY <3>1 DEF EntriesAreLive
      <3> QED  BY <2>1, <3>2
    <2> QED  BY <2>2 DEF Entries
  <1>8. Entries(queue') = Entries(Tail(queue)) \cup New(d, e.obj)
    BY <1>1, <1>2, <1>3, EntriesAfterGetNode DEF New
  <1>9. nodes' = nodes \cup {d}
    BY <1>1, <1>3 DEF GetNode
  <1>10. y \in Outcome /\ d \in Digests /\ d = Digest(y.value)
    BY <1>1, <1>3
  <1> HIDE DEF e, d
  <1>11. e \in Owners /\ e.node \in QueuedNodes /\ Owners' = (Owners \ {e}) \cup New(d, e.obj)
    BY <1>5, <1>6, <1>7, <1>8
  <1> QED  BY <1>1, <1>4, <1>5, <1>9, <1>10, <1>11

LEMMA StartForkingMoves ==
    ASSUME TypeOK, EntriesAreLive, StartForkingAndRecord
    PROVE  /\ current = NULL /\ current' # NULL /\ current'.node \in QueuedNodes
           /\ nodes' = nodes /\ Owners' = Owners /\ current'.node \in nodes
           /\ QueuedNodes' \subseteq QueuedNodes
           /\ Actions' = Actions /\ Arcs' = Arcs
  <1> DEFINE e == Head(queue)
  <1>1. /\ current = NULL /\ queue \in Seq(Entry) /\ queue # << >> /\ queue' = Tail(queue)
        /\ nodes' = nodes
        /\ current' = [node |-> e.node, obj |-> e.obj,
                       todo |-> Forks(program, heap[e.obj].value)]
    BY DEF StartForkingAndRecord, StartForking, Popping, TypeOK
  <1>2. current' # NULL /\ e.node \in nodes
    BY StartForkingStep, PoppedIsLive DEF StartForkingAndRecord, StartForking
  <1>3. Entries(queue) = Entries(queue') \cup {e} /\ e \in Entry
    BY <1>1, EntriesAfterPop
  <1>4. e = [node |-> e.node, obj |-> e.obj]
    BY <1>3 DEF Entry
  <1>5. Owners = Entries(queue) /\ Owners' = Entries(queue') \cup {e}
    BY <1>1, <1>2, <1>4 DEF Owners, Entries
  <1>6. /\ QueuedNodes = {f.node : f \in Entries(queue)}
        /\ QueuedNodes' = {f.node : f \in Entries(queue')}
    BY DEF QueuedNodes, Entries
  <1>7. current'.node = e.node
    BY <1>1
  <1>8. Actions' = Actions /\ Arcs' = Arcs
    BY DEF StartForkingAndRecord, reportVars
  <1> HIDE DEF e
  <1> QED  BY <1>1, <1>2, <1>3, <1>5, <1>6, <1>7, <1>8

LEMMA ForkMoves ==
    ASSUME TypeOK, EntriesAreLive, ForkAndRecord
    PROVE  \E x \in Outcome, d \in Digests :
              /\ d = Digest(x.value) /\ nodes' = nodes \cup {d}
              /\ fresh \in Objects /\ current # NULL /\ current' # NULL
              /\ current'.node = current.node /\ current'.obj = current.obj
              /\ Owners' = Owners \cup New(d, fresh)
              /\ QueuedNodes' = QueuedNodes \cup {f.node : f \in New(d, fresh)}
              /\ Actions' = [Actions EXCEPT ![current.obj] = << >>,
                                            ![fresh] = Recorded(current.node, x)]
              /\ Arcs' = [Arcs EXCEPT ![current.node] =
                     Append(@, [TargetNode |-> d, Actions |-> Actions[current.obj]])]
  <1> DEFINE y == CHOOSE y \in current.todo : current'.todo = current.todo \ {y}
             d == Digest(y.value)
  <1>1. PICK x \in current.todo :
           /\ GetNode(fresh, x.value, queue)
           /\ current' = [current EXCEPT !.todo = @ \ {x}]
    BY DEF ForkAndRecord, ForkChild
  <1>2. /\ current # NULL /\ current \in Branching /\ fresh \in Objects
        /\ current.todo \subseteq Outcome /\ queue \in Seq(Entry)
    <2>1. ForkChild /\ current # NULL
      BY DEF ForkAndRecord, ForkChild
    <2>2. fresh \in Objects
      BY <2>1, ForkStep
    <2> QED  BY <2>1, <2>2, CurrentIsLive DEF TypeOK
  <1>3. /\ current'.todo = current.todo \ {x} /\ current' \in Branching
        /\ current'.node = current.node /\ current'.obj = current.obj
    BY <1>1, <1>2 DEF Branching
  <1>4. y = x
    <2>1. y \in current.todo /\ current'.todo = current.todo \ {y}
      BY <1>3
    <2> HIDE DEF y
    <2> QED  BY <1>3, <2>1
  <1>5. /\ Actions' = [Actions EXCEPT ![current.obj] = << >>, ![fresh] = Recorded(current.node, y)]
        /\ Arcs' = [Arcs EXCEPT ![current.node] =
               Append(@, [TargetNode |-> d, Actions |-> Actions[current.obj]])]
    BY DEF ForkAndRecord, addArc, ActionsAfterFork
  <1> HIDE DEF y
  <1>6. x \in Outcome /\ x.value \in Values /\ d \in Digests
    BY <1>2, <1>4 DEF Outcome, Digests
  <1>7. Entries(queue') = Entries(queue) \cup New(d, fresh)
    BY <1>1, <1>2, <1>4, <1>6, EntriesAfterGetNode DEF New
  <1>8. /\ QueuedNodes = {f.node : f \in Entries(queue)}
        /\ QueuedNodes' = {f.node : f \in Entries(queue')}
    BY DEF QueuedNodes, Entries
  <1>9. current' # NULL
    BY <1>3, NullAssumption
  <1>10. Owners = Entries(queue) \cup Current /\ Owners' = Entries(queue') \cup Current
    BY <1>2, <1>3, <1>9 DEF Owners, Entries, Current
  <1>11. nodes' = nodes \cup {d}
    BY <1>1, <1>4 DEF GetNode
  <1>12. d = Digest(y.value)
    OBVIOUS
  <1> HIDE DEF d
  <1> QED  BY <1>2, <1>3, <1>4, <1>5, <1>6, <1>7, <1>8, <1>9, <1>10, <1>11, <1>12

LEMMA FinishMoves ==
    ASSUME TypeOK, EntriesAreLive, FinishAndRecord
    PROVE  /\ nodes' = nodes /\ Owners' \subseteq Owners /\ QueuedNodes' = QueuedNodes
           /\ current' = NULL /\ Actions' = Actions /\ Arcs' = Arcs
  <1>1. /\ current # NULL /\ current' = NULL /\ queue' = queue /\ nodes' = nodes
        /\ Actions' = Actions /\ Arcs' = Arcs
    BY DEF FinishAndRecord, FinishNode
  <1> QED  BY <1>1 DEF Owners, QueuedNodes
-----------------------------------------------------------------------------
(* What each kind of move keeps.                                           *)

(* No state waits with Actions that it did not wait with before.           *)
OwnersKeep ==
    \A f \in Owners' : \/ Actions'[f.obj] = << >>
                       \/ f \in Owners /\ Actions'[f.obj] = Actions[f.obj]

(* Or it has a new node d, and holds the Actions of a run from n to d.     *)
OwnersTake(n, d) ==
    \A f \in Owners' :
        \/ Actions'[f.obj] = << >>
        \/ f \in Owners /\ Actions'[f.obj] = Actions[f.obj]
        \/ /\ f.node = d /\ n # d
           /\ \A i \in DOMAIN Actions'[f.obj] : LET a == Actions'[f.obj][i]
                 IN  a.to = d /\ a.number = i /\ a.from = n

LEMMA HeldAfterKeep ==
    ASSUME HeldActionsLead, OwnersKeep
    PROVE  HeldActionsLead' /\ HeldSources' \subseteq HeldSources
  <1>1. Sources(<< >>) = {}
    BY DEF Sources
  <1>2. HeldActionsLead'
    BY DEF HeldActionsLead, OwnersKeep
  <1>3. HeldSources' = {b \in Nodes : \E f \in Owners' : b \in Sources(Actions'[f.obj])}
    BY DEF HeldSources, Sources
  <1> QED  BY <1>1, <1>2, <1>3 DEF HeldSources, OwnersKeep

LEMMA HeldAfterTake ==
    ASSUME NEW n, NEW d, HeldActionsLead, OwnersTake(n, d)
    PROVE  HeldActionsLead' /\ HeldSources' \subseteq HeldSources \cup {n}
  <1>1. Sources(<< >>) = {}
    BY DEF Sources
  <1>2. ASSUME NEW f \in Owners', NEW i \in DOMAIN Actions'[f.obj]
        PROVE  /\ Actions'[f.obj][i].to = f.node /\ Actions'[f.obj][i].number = i
               /\ Actions'[f.obj][i].from # f.node
    <2>1. CASE f \in Owners /\ Actions'[f.obj] = Actions[f.obj]
      BY <2>1 DEF HeldActionsLead
    <2>2. CASE ~ (f \in Owners /\ Actions'[f.obj] = Actions[f.obj])
      BY <1>2, <2>2 DEF OwnersTake
    <2> QED  BY <2>1, <2>2
  <1>3. HeldSources' = {b \in Nodes : \E f \in Owners' : b \in Sources(Actions'[f.obj])}
    BY DEF HeldSources, Sources
  <1>4. ASSUME NEW f \in Owners'
        PROVE  Sources(Actions'[f.obj]) \subseteq HeldSources \cup {n}
    <2>1. CASE Actions'[f.obj] = << >>
      BY <1>1, <2>1
    <2>2. CASE f \in Owners /\ Actions'[f.obj] = Actions[f.obj]
      BY <2>2 DEF HeldSources, Sources
    <2>3. CASE \A i \in DOMAIN Actions'[f.obj] : Actions'[f.obj][i].from = n
      BY <2>3 DEF Sources
    <2> QED  BY <1>4, <2>1, <2>2, <2>3 DEF OwnersTake
  <1>5. HeldActionsLead'
    BY <1>2 DEF HeldActionsLead
  <1> QED  BY <1>3, <1>4, <1>5

(* The arcs after one more at node n.                                      *)
ArcAdded(n, to, s) == Arcs' = [Arcs EXCEPT ![n] = Append(@, [TargetNode |-> to, Actions |-> s])]

Appended(n, arc) == Arcs' = [Arcs EXCEPT ![n] = Append(@, arc)]

LEMMA NewArc ==
    ASSUME NEW n, NEW to \in Digests, NEW s \in Seq(Action), ArcAdded(n, to, s)
    PROVE  \E arc \in Arc : /\ arc.TargetNode = to /\ arc.Actions = s
                            /\ Appended(n, arc)
  BY DEF ArcAdded, Appended, Arc

LEMMA AddedArc ==
    ASSUME NEW q \in Seq(Arc), NEW arc \in Arc
    PROVE  /\ Append(q, arc) \in Seq(Arc)
           /\ Len(q) \in Nat /\ DOMAIN q = 1 .. Len(q)
           /\ DOMAIN Append(q, arc) = 1 .. Len(q) + 1
           /\ \A k \in 1 .. Len(q) : Append(q, arc)[k] = q[k]
           /\ Append(q, arc)[Len(q) + 1] = arc
  OBVIOUS

LEMMA ShownAfterArc ==
    ASSUME ReportsTypeOK, NEW n \in Nodes, NEW to \in Digests, NEW s \in Seq(Action),
           ArcAdded(n, to, s)
    PROVE  /\ Arcs' \in [Nodes -> Seq(Arc)]
           /\ \A m \in Nodes : m # n => Arcs'[m] = Arcs[m] /\ ShownSources(m)' = ShownSources(m)
           /\ ShownSources(n)' = ShownSources(n) \cup Sources(s)
  <1> PICK arc \in Arc : arc.TargetNode = to /\ arc.Actions = s /\ Appended(n, arc)
    BY NewArc
  <1>1. /\ Arcs \in [Nodes -> Seq(Arc)] /\ Arcs[n] \in Seq(Arc)
        /\ Arcs' \in [Nodes -> Seq(Arc)] /\ Arcs'[n] = Append(Arcs[n], arc)
        /\ \A m \in Nodes : m # n => Arcs'[m] = Arcs[m]
    <2>1. Arcs \in [Nodes -> Seq(Arc)] /\ Arcs[n] \in Seq(Arc)
      BY DEF ReportsTypeOK
    <2>2. Append(Arcs[n], arc) \in Seq(Arc)
      BY <2>1, AddedArc
    <2> QED  BY <2>1, <2>2 DEF Appended
  <1>2. \A m \in Nodes : ShownSources(m)' = SourcesOf(Arcs'[m])
    BY DEF ShownSources, SourcesOf, Sources
  <1>3. ASSUME NEW q \in Seq(Arc)
        PROVE  SourcesOf(Append(q, arc)) = SourcesOf(q) \cup Sources(arc.Actions)
    <2>1. /\ Len(q) \in Nat /\ DOMAIN q = 1 .. Len(q)
          /\ DOMAIN Append(q, arc) = 1 .. Len(q) + 1
          /\ \A k \in 1 .. Len(q) : Append(q, arc)[k] = q[k]
          /\ Append(q, arc)[Len(q) + 1] = arc
      BY AddedArc
    <2>2. 1 .. Len(q) + 1 = (1 .. Len(q)) \cup {Len(q) + 1}
      BY <2>1
    <2>3. Sources(arc.Actions) \subseteq Nodes
      BY DEF Sources
    <2> QED  BY <2>1, <2>2, <2>3 DEF SourcesOf
  <1> QED  BY <1>1, <1>2, <1>3 DEF ShownSources

LEMMA SplitAfterArc ==
    ASSUME ReportsTypeOK, ArcsAreSplit, NEW n \in Nodes, NEW to \in Digests,
           NEW s \in Seq(Action), ArcAdded(n, to, s),
           IsSplit(n, to, s), Arcs[n] = << >> \/ s = << >>
    PROVE  ArcsAreSplit'
  <1>0. to \in Digests /\ s \in Seq(Action) /\ ArcAdded(n, to, s)
    OBVIOUS
  <1> PICK arc \in Arc : arc.TargetNode = to /\ arc.Actions = s /\ Appended(n, arc)
    BY <1>0, NewArc
  <1>1. /\ \A m \in Nodes : m # n => Arcs'[m] = Arcs[m]
        /\ Arcs'[n] = Append(Arcs[n], arc)
    BY DEF ReportsTypeOK, Appended
  <1>2. Arcs[n] \in Seq(Arc)
    BY DEF ReportsTypeOK
  <1>3. /\ Len(Arcs[n]) \in Nat /\ DOMAIN Arcs[n] = 1 .. Len(Arcs[n])
        /\ DOMAIN Arcs'[n] = 1 .. Len(Arcs[n]) + 1
        /\ \A k \in 1 .. Len(Arcs[n]) : Arcs'[n][k] = Arcs[n][k]
        /\ Arcs'[n][Len(Arcs[n]) + 1] = arc
    BY <1>1, <1>2, AddedArc
  <1>4. ArcsAreSplit' <=> \A m \in Nodes : \A k \in DOMAIN Arcs'[m] :
           (k > 1 => Arcs'[m][k].Actions = << >>) /\ IsSplit(m, Arcs'[m][k].TargetNode, Arcs'[m][k].Actions)
    BY DEF ArcsAreSplit, ArcIsSplit, IsSplit
  <1>5. ASSUME NEW m \in Nodes, NEW k \in DOMAIN Arcs[m]
        PROVE  (k > 1 => Arcs[m][k].Actions = << >>) /\ IsSplit(m, Arcs[m][k].TargetNode, Arcs[m][k].Actions)
    BY DEF ArcsAreSplit, ArcIsSplit
  <1>6. ASSUME NEW k \in DOMAIN Arcs'[n]
        PROVE  (k > 1 => Arcs'[n][k].Actions = << >>) /\ IsSplit(n, Arcs'[n][k].TargetNode, Arcs'[n][k].Actions)
    <2>1. CASE k \in 1 .. Len(Arcs[n])
      BY <1>3, <1>5, <2>1
    <2>2. CASE k = Len(Arcs[n]) + 1
      <3>1. Arcs[n] = << >> => ~ k > 1
        BY <2>2
      <3> QED  BY <1>3, <2>2, <3>1
    <2> QED  BY <1>3, <1>6, <2>1, <2>2
  <1> QED  BY <1>1, <1>4, <1>5, <1>6

LEMMA ConcatenatedActions ==
    ASSUME NEW s \in Seq(Action), NEW t \in Seq(Action)
    PROVE  /\ s \o t \in Seq(Action) /\ Len(s) \in Nat /\ Len(t) \in Nat
           /\ Len(s \o t) = Len(s) + Len(t)
           /\ DOMAIN s = 1 .. Len(s) /\ DOMAIN t = 1 .. Len(t)
           /\ DOMAIN (s \o t) = 1 .. Len(s) + Len(t)
           /\ \A i \in 1 .. Len(s) : (s \o t)[i] = s[i]
           /\ \A i \in 1 .. Len(t) : (s \o t)[Len(s) + i] = t[i]
           /\ \A i \in 1 .. Len(s) + Len(t) :
                  IF i <= Len(s) THEN (s \o t)[i] = s[i]
                  ELSE i - Len(s) \in 1 .. Len(t) /\ (s \o t)[i] = t[i - Len(s)]
  OBVIOUS

(* The arc of a run by the state itself: what it held, and what it records.*)
LedTo(n, s) == \A i \in DOMAIN s : s[i].to = n /\ s[i].number = i /\ s[i].from # n

Shown(s, n, x) == s \o Recorded(n, x)

IsRunArc(n, to, held, s) ==
    /\ s \in Seq(Action) /\ IsSplit(n, to, s)
    /\ Sources(s) \subseteq Sources(held) \cup {n}

LEMMA RunArc ==
    ASSUME NEW n \in Nodes, NEW x \in Outcome, NEW held \in Seq(Action), LedTo(n, held)
    PROVE  IsRunArc(n, Digest(x.value), held, Shown(held, n, x))
  <1> PICK d : d = Digest(x.value)
    OBVIOUS
  <1> PICK s : s = held \o Recorded(n, x)
    OBVIOUS
  <1>0. \A i \in DOMAIN held : held[i].to = n /\ held[i].number = i /\ held[i].from # n
    BY DEF LedTo
  <1> PICK new : new = Recorded(n, x)
    OBVIOUS
  <1>1. /\ new \in Seq(Action) /\ DOMAIN new = 1 .. Len(new)
        /\ \A i \in 1 .. Len(new) : new[i].from = n /\ new[i].to = d /\ new[i].number = i
    BY RecordedFacts
  <1>2. /\ held \o new \in Seq(Action) /\ Len(held) \in Nat /\ Len(new) \in Nat
        /\ Len(held \o new) = Len(held) + Len(new) /\ DOMAIN held = 1 .. Len(held)
        /\ DOMAIN (held \o new) = 1 .. Len(held) + Len(new)
        /\ \A i \in 1 .. Len(held) + Len(new) :
              IF i <= Len(held) THEN (held \o new)[i] = held[i]
              ELSE i - Len(held) \in 1 .. Len(new) /\ (held \o new)[i] = new[i - Len(held)]
    BY <1>1, ConcatenatedActions
  <1> PICK all : all = held \o new
    OBVIOUS
  <1>3. s = all
    OBVIOUS
  <1>5. \A i \in 1 .. Len(all) :
           IF i <= Len(held) THEN all[i].to = n /\ all[i].number = i /\ all[i].from # n
           ELSE all[i].from = n /\ all[i].to = d /\ all[i].number = i - Len(held)
    <2> TAKE i \in 1 .. Len(all)
    <2>1. CASE i <= Len(held)
      <3>1. i \in DOMAIN held /\ all[i] = held[i]
        BY <1>2, <2>1
      <3> QED  BY <1>0, <2>1, <3>1
    <2>2. CASE ~ i <= Len(held)
      <3>1. i - Len(held) \in 1 .. Len(new) /\ all[i] = new[i - Len(held)]
        BY <1>2, <2>2
      <3> QED  BY <1>1, <2>2, <3>1
    <2> QED  BY <2>1, <2>2
  <1>6. Len(held) \in 0 .. Len(all)
    BY <1>2
  <1>7. IsSplit(n, d, all)
    BY <1>5, <1>6 DEF IsSplit
  <1>8. Sources(all) \subseteq Sources(held) \cup {n}
    <2>1. ASSUME NEW i \in DOMAIN all  PROVE all[i].from = n \/ (\E j \in DOMAIN held : all[i] = held[j])
      <3>1. i \in 1 .. Len(all)
        BY <1>2
      <3>2. CASE i <= Len(held)
        BY <1>2, <3>1, <3>2
      <3>3. CASE ~ i <= Len(held)
        BY <1>5, <3>1, <3>3
      <3> QED  BY <3>2, <3>3
    <2> QED  BY <2>1 DEF Sources
  <1> QED  BY <1>2, <1>3, <1>7, <1>8 DEF IsRunArc, Shown
-----------------------------------------------------------------------------
(* Each step keeps the invariant.                                          *)
LEMMA NodeFacts ==
    /\ InitialNode \in Nodes /\ Digests \subseteq Nodes /\ InitialNode \notin Digests
    /\ NULL \notin Nodes
  BY NodeAssumption DEF Nodes

LEMMA ShowingAfterConstruct ==
    ASSUME ExplorerInv, ShowingInv, ConstructAndRecord
    PROVE  ShowingInv'
  <1> USE NodeFacts
  <1>1. PICK x \in Outcome, d \in Digests :
              /\ d = Digest(x.value) /\ nodes = {} /\ nodes' = {d}
              /\ Owners' = {[node |-> d, obj |-> 0]} /\ QueuedNodes' = {d}
              /\ 0 \in Objects /\ current' = NULL
              /\ Actions' = Actions
              /\ Arcs' = [Arcs EXCEPT ![InitialNode] =
                     Append(@, [TargetNode |-> d, Actions |-> Recorded(InitialNode, x)])]
    BY ConstructMoves DEF ExplorerInv
  <1>2. /\ ReportsTypeOK /\ ArcsAreSplit /\ \A o \in Objects : Actions[o] = << >>
        /\ \A n \in Nodes : Arcs[n] = << >>
    BY <1>1 DEF ShowingInv, FirstArcShows
  <1> PICK s : s = Recorded(InitialNode, x)
    OBVIOUS
  <1>3. s \in Seq(Action) /\ IsSplit(InitialNode, d, s) /\ Sources(s) \subseteq {InitialNode}
    <2> PICK held : held = << >>
      OBVIOUS
    <2>1. held \in Seq(Action) /\ Sources(held) = {} /\ LedTo(InitialNode, held)
      BY DEF Sources, LedTo
    <2>2. s = Shown(held, InitialNode, x)
      BY RecordedFacts DEF Shown
    <2>3. d = Digest(x.value) /\ InitialNode \in Nodes /\ x \in Outcome
      BY <1>1
    <2>4. IsRunArc(InitialNode, d, held, s)
      BY ONLY <2>1, <2>2, <2>3, RunArc
    <2> QED  BY <2>1, <2>4 DEF IsRunArc
  <1>4. ArcAdded(InitialNode, d, s)
    BY <1>1 DEF ArcAdded
  <1>5. Arcs[InitialNode] = << >>
    BY <1>2
  <1>6. ReportsTypeOK' /\ ArcsAreSplit'
    BY <1>1, <1>2, <1>3, <1>4, <1>5, ShownAfterArc, SplitAfterArc DEF ReportsTypeOK
  <1>7. HeldActionsLead' /\ HeldSources' = {}
    BY <1>1, <1>2 DEF HeldActionsLead, HeldSources, Sources
  <1>8. /\ \A m \in Nodes : m # InitialNode => Arcs'[m] = << >>
        /\ \A m \in Nodes : ShownSources(m)' \subseteq {InitialNode}
        /\ \A m \in Nodes : m # InitialNode => ShownSources(m)' = {}
    <2>1. \A m \in Nodes : ShownSources(m) = {}
      BY <1>2 DEF ShownSources, SourcesOf
    <2>2. /\ \A m \in Nodes : m # InitialNode =>
                Arcs'[m] = Arcs[m] /\ ShownSources(m)' = ShownSources(m)
          /\ ShownSources(InitialNode)' = ShownSources(InitialNode) \cup Sources(s)
      BY <1>2, <1>3, <1>4, ShownAfterArc
    <2> QED  BY <1>2, <1>3, <2>1, <2>2
  <1>9. FirstArcShows'
    BY <1>1, <1>8 DEF FirstArcShows
  <1>10. SourcesAreApart'
    BY <1>1, <1>7, <1>8 DEF SourcesAreApart
  <1> QED  BY <1>6, <1>7, <1>9, <1>10 DEF ShowingInv

LEMMA ShowingAfterFastRun ==
    ASSUME ExplorerInv, ShowingInv, FastRunAndRecord
    PROVE  ShowingInv'
  <1> USE NodeFacts
  <1>1. PICK e \in Owners, x \in Outcome, d \in Digests :
              /\ d = Digest(x.value) /\ e.node \in QueuedNodes
              /\ current = NULL /\ current' = NULL /\ nodes' = nodes \cup {d}
              /\ Owners' = (Owners \ {e}) \cup New(d, e.obj)
              /\ QueuedNodes' = {f.node : f \in Owners'}
              /\ QueuedNodes = {f.node : f \in Owners}
              /\ Actions' = [Actions EXCEPT ![e.obj] = << >>]
              /\ Arcs' = [Arcs EXCEPT ![e.node] =
                     Append(@, [TargetNode |-> d,
                                Actions |-> Actions[e.obj] \o Recorded(e.node, x)])]
    BY FastRunMoves DEF ExplorerInv
  <1>2. /\ \A f \in Owners : f.node \in nodes /\ f.obj \in Objects
        /\ \A f \in Owners : f.obj = e.obj \/ f.node = e.node => f = e
        /\ e.node \in Nodes /\ nodes \subseteq Digests
    BY OwnerFacts DEF ExplorerInv, TypeOK
  <1>3. /\ ReportsTypeOK /\ ArcsAreSplit /\ HeldActionsLead /\ FirstArcShows
        /\ SourcesAreApart
    BY DEF ShowingInv
  <1> PICK n, o : n = e.node /\ o = e.obj
    OBVIOUS
  <1> PICK held : held = Actions[o]
    OBVIOUS
  <1> PICK s : s = held \o Recorded(n, x)
    OBVIOUS
  <1>4. Actions[o] \in Seq(Action) /\ Arcs[n] = << >>
    BY <1>1, <1>2, <1>3 DEF ReportsTypeOK, FirstArcShows
  <1>5. s \in Seq(Action) /\ IsSplit(n, d, s) /\ Sources(s) \subseteq Sources(held) \cup {n}
    <2>1. LedTo(n, held)
      BY <1>3 DEF HeldActionsLead, LedTo
    <2>2. held \in Seq(Action) /\ n \in Nodes
      BY <1>2, <1>4
    <2>3. d = Digest(x.value)
      BY <1>1
    <2>4. s = Shown(held, n, x)
      BY DEF Shown
    <2> QED  BY <2>1, <2>2, <2>3, <2>4, RunArc DEF IsRunArc
  <1>6. ArcAdded(n, d, s)
    BY <1>1 DEF ArcAdded
  <1>7. ReportsTypeOK' /\ ArcsAreSplit'
    <2>1. ArcsAreSplit' /\ Arcs' \in [Nodes -> Seq(Arc)]
      BY <1>2, <1>3, <1>4, <1>5, <1>6, ShownAfterArc, SplitAfterArc
    <2>2. << >> \in Seq(Action)
      OBVIOUS
    <2>3. Actions' \in [Objects -> Seq(Action)]
      BY <1>1, <1>3, <2>2 DEF ReportsTypeOK
    <2> QED  BY <2>1, <2>3 DEF ReportsTypeOK
  <1>8. OwnersKeep
    <2>1. ASSUME NEW f \in Owners'
          PROVE  Actions'[f.obj] = << >> \/ (f \in Owners /\ Actions'[f.obj] = Actions[f.obj])
      <3>1. Actions'[o] = << >>
        BY <1>1, <1>2, <1>3 DEF ReportsTypeOK
      <3>2. CASE f \in New(d, o)
        BY <3>1, <3>2, NewEntry
      <3>3. CASE f \in Owners
        <4>1. CASE f.obj = o
          BY <3>1, <4>1
        <4>2. CASE f.obj # o
          BY <1>1, <1>2, <1>3, <3>3, <4>2 DEF ReportsTypeOK
        <4> QED  BY <4>1, <4>2
      <3> QED  BY <1>1, <3>2, <3>3
    <2> QED  BY <2>1 DEF OwnersKeep
  <1>9. HeldActionsLead' /\ HeldSources' \subseteq HeldSources
    BY <1>3, <1>8, HeldAfterKeep
  <1>10. Sources(held) \subseteq HeldSources
    BY DEF HeldSources, Sources
  <1>11. /\ \A m \in Nodes : m # n => Arcs'[m] = Arcs[m] /\ ShownSources(m)' = ShownSources(m)
         /\ ShownSources(n)' \subseteq ShownSources(n) \cup HeldSources \cup {n}
    <2>1. n \in Nodes /\ s \in Seq(Action) /\ ArcAdded(n, d, s) /\ ReportsTypeOK
      BY <1>2, <1>3, <1>5, <1>6
    <2>2. /\ \A m \in Nodes : m # n => Arcs'[m] = Arcs[m] /\ ShownSources(m)' = ShownSources(m)
          /\ ShownSources(n)' = ShownSources(n) \cup Sources(s)
      BY <2>1, ShownAfterArc
    <2> QED  BY <1>5, <1>10, <2>2
  <1>12. /\ QueuedNodes' \subseteq (QueuedNodes \ {n}) \cup ({d} \ nodes)
         /\ QueuedNodes \subseteq nodes /\ n \in nodes /\ n \in QueuedNodes
    <2>1. QueuedNodes \subseteq nodes /\ n \in nodes /\ n \in QueuedNodes
      BY <1>1, <1>2
    <2>2. ASSUME NEW f \in Owners'  PROVE f.node \in (QueuedNodes \ {n}) \cup ({d} \ nodes)
      BY <1>1, <1>2, NewEntry
    <2> QED  BY <1>1, <2>1, <2>2
  <1>13. FirstArcShows'
    BY <1>1, <1>2, <1>3, <1>11, <1>12 DEF FirstArcShows
  <1>14. SourcesAreApart'
    <2>1. HeldSources' \subseteq nodes'
      BY <1>1, <1>3, <1>9 DEF SourcesAreApart
    <2>2. \A m \in Nodes : ShownSources(m)' \subseteq nodes \cup {InitialNode}
      BY <1>3, <1>11, <1>12 DEF SourcesAreApart
    <2>3. \A q \in QueuedNodes' : q \notin HeldSources'
                                    /\ \A m \in Nodes : q \notin ShownSources(m)'
      <3> TAKE q \in QueuedNodes'
      <3>1. CASE q \in QueuedNodes /\ q # n
        BY <1>3, <1>9, <1>11, <3>1 DEF SourcesAreApart
      <3>2. CASE q = d /\ d \notin nodes
        BY <1>1, <1>3, <1>9, <2>2, <3>2 DEF SourcesAreApart
      <3> QED  BY <1>12, <3>1, <3>2
    <2>4. ASSUME NEW m \in Nodes, m \in ShownSources(m)'
          PROVE  m \notin HeldSources' /\ \A l \in Nodes : l # m => m \notin ShownSources(l)'
      <3>1. CASE m = n
        BY <1>2, <1>3, <1>9, <1>11, <1>12, <3>1 DEF SourcesAreApart
      <3>2. CASE m # n
        BY <1>2, <1>3, <1>9, <1>11, <2>4, <3>2 DEF SourcesAreApart
      <3> QED  BY <3>1, <3>2
    <2> QED  BY <1>1, <2>1, <2>2, <2>3, <2>4 DEF SourcesAreApart
  <1> QED  BY <1>7, <1>9, <1>13, <1>14 DEF ShowingInv

LEMMA ShowingAfterStartForking ==
    ASSUME ExplorerInv, ShowingInv, StartForkingAndRecord
    PROVE  ShowingInv'
  <1>1. /\ current = NULL /\ current' # NULL /\ current'.node \in QueuedNodes
        /\ nodes' = nodes /\ Owners' = Owners /\ current'.node \in nodes
        /\ QueuedNodes' \subseteq QueuedNodes
        /\ Actions' = Actions /\ Arcs' = Arcs
    BY StartForkingMoves DEF ExplorerInv
  <1>2. /\ ReportsTypeOK /\ ArcsAreSplit /\ HeldActionsLead /\ FirstArcShows
        /\ SourcesAreApart
    BY DEF ShowingInv
  <1>3. ReportsTypeOK' /\ ArcsAreSplit' /\ HeldActionsLead'
    BY <1>1, <1>2 DEF ReportsTypeOK, ArcsAreSplit, ArcIsSplit, IsSplit, HeldActionsLead
  <1>4. /\ HeldSources' = HeldSources
        /\ \A m \in Nodes : ShownSources(m)' = ShownSources(m)
    BY <1>1 DEF HeldSources, ShownSources, SourcesOf, Sources
  <1>5. FirstArcShows'
    BY <1>1, <1>2 DEF FirstArcShows
  <1>6. SourcesAreApart'
    <2>1. current'.node \in Nodes
      BY <1>1, NodeFacts DEF ExplorerInv, TypeOK
    <2> QED  BY <1>1, <1>2, <1>4, <2>1 DEF SourcesAreApart
  <1> QED  BY <1>2, <1>3, <1>5, <1>6 DEF ShowingInv

LEMMA HeldArc ==
    ASSUME NEW n, NEW to, NEW held \in Seq(Action), LedTo(n, held)
    PROVE  IsSplit(n, to, held) /\ n \notin Sources(held)
  <1>1. Len(held) \in 0 .. Len(held) /\ DOMAIN held = 1 .. Len(held)
    OBVIOUS
  <1>2. \A i \in 1 .. Len(held) : i <= Len(held)
    OBVIOUS
  <1> QED  BY <1>1, <1>2 DEF IsSplit, LedTo, Sources

LEMMA ShowingAfterFork ==
    ASSUME ExplorerInv, ShowingInv, ForkAndRecord
    PROVE  ShowingInv'
  <1> USE NodeFacts
  <1>1. PICK x \in Outcome, d \in Digests :
              /\ d = Digest(x.value) /\ nodes' = nodes \cup {d}
              /\ fresh \in Objects /\ current # NULL /\ current' # NULL
              /\ current'.node = current.node /\ current'.obj = current.obj
              /\ Owners' = Owners \cup New(d, fresh)
              /\ QueuedNodes' = QueuedNodes \cup {f.node : f \in New(d, fresh)}
              /\ Actions' = [Actions EXCEPT ![current.obj] = << >>,
                                            ![fresh] = Recorded(current.node, x)]
              /\ Arcs' = [Arcs EXCEPT ![current.node] =
                     Append(@, [TargetNode |-> d, Actions |-> Actions[current.obj]])]
    BY ForkMoves DEF ExplorerInv
  <1> PICK n, o, u : n = current.node /\ o = current.obj /\ u = fresh
    OBVIOUS
  <1> PICK e : e = [node |-> n, obj |-> o]
    OBVIOUS
  <1>2. /\ ReportsTypeOK /\ ArcsAreSplit /\ HeldActionsLead /\ FirstArcShows
        /\ SourcesAreApart
    BY DEF ShowingInv
  <1>3. /\ \A f \in Owners : f.node \in nodes /\ f.obj \in Objects /\ f.obj # u
        /\ \A f \in Owners : f.obj = o \/ f.node = n => f = e
        /\ e \in Owners /\ n \in nodes /\ o \in Objects /\ o # u /\ n \notin QueuedNodes
        /\ nodes \subseteq Digests /\ n \in Nodes /\ QueuedNodes \subseteq nodes
    <2>1. /\ Owners = Entries(queue) \cup Current
          /\ QueuedNodes = {f.node : f \in Entries(queue)}
          /\ \A f \in Owners : f.node \in nodes /\ f.obj \in Objects /\ f.obj # u
          /\ \A f, g \in Owners : f.obj = g.obj \/ f.node = g.node => f = g
          /\ \A f \in Entries(queue) : f \notin Current
          /\ nodes \subseteq Digests
      BY OwnerFacts DEF ExplorerInv, TypeOK
    <2>2. Current = {e} /\ e.node = n /\ e.obj = o
      BY <1>1 DEF Current
    <2>3. e \in Owners
      BY <2>1, <2>2
    <2> HIDE DEF Current
    <2>4. n \in nodes /\ o \in Objects /\ o # u
      BY <2>1, <2>2, <2>3
    <2>5. n \notin QueuedNodes
      BY <2>1, <2>2, <2>3
    <2> QED  BY <2>1, <2>2, <2>3, <2>4, <2>5
  <1> PICK held, new : held = Actions[o] /\ new = Recorded(n, x)
    OBVIOUS
  <1>4. /\ held \in Seq(Action) /\ IsSplit(n, d, held) /\ n \notin Sources(held)
        /\ Sources(held) \subseteq HeldSources
    <2>1. held \in Seq(Action)
      BY <1>2, <1>3 DEF ReportsTypeOK
    <2>2. LedTo(n, held)
      BY <1>2, <1>3 DEF HeldActionsLead, LedTo
    <2>3. Sources(held) \subseteq HeldSources
      BY <1>3 DEF HeldSources, Sources
    <2> QED  BY <2>1, <2>2, <2>3, HeldArc
  <1>5. ArcAdded(n, d, held) /\ (Arcs[n] = << >> \/ held = << >>)
    BY <1>1, <1>2 DEF ArcAdded, FirstArcShows
  <1>6. /\ new \in Seq(Action)
        /\ \A i \in DOMAIN new : new[i].to = d /\ new[i].number = i /\ new[i].from = n
    BY <1>1, <1>3, RecordedFacts
  <1>7. /\ Actions' \in [Objects -> Seq(Action)]
        /\ Actions'[o] = << >> /\ Actions'[u] = new
        /\ \A p \in Objects : p # o /\ p # u => Actions'[p] = Actions[p]
    <2>1. Actions \in [Objects -> Seq(Action)] /\ << >> \in Seq(Action)
      BY <1>2 DEF ReportsTypeOK
    <2>2. Actions' = [Actions EXCEPT ![o] = << >>, ![u] = new]
      BY <1>1
    <2> PICK cleared : cleared = [Actions EXCEPT ![o] = << >>]
      OBVIOUS
    <2>3. Actions' = [cleared EXCEPT ![u] = new]
      BY <2>2
    <2>4. /\ cleared \in [Objects -> Seq(Action)] /\ cleared[o] = << >>
          /\ \A p \in Objects : p # o => cleared[p] = Actions[p]
      BY <1>3, <2>1
    <2>5. u \in Objects
      BY <1>1
    <2> QED  BY <1>3, <1>6, <2>3, <2>4, <2>5
  <1>8. ReportsTypeOK' /\ ArcsAreSplit'
    <2>1. ArcsAreSplit' /\ Arcs' \in [Nodes -> Seq(Arc)]
      BY <1>2, <1>3, <1>4, <1>5, ShownAfterArc, SplitAfterArc
    <2> QED  BY <1>7, <2>1 DEF ReportsTypeOK
  <1>9. OwnersTake(n, d)
    <2>1. ASSUME NEW f \in Owners
          PROVE  Actions'[f.obj] = << >> \/ Actions'[f.obj] = Actions[f.obj]
      BY <1>3, <1>7
    <2>2. ASSUME NEW f \in New(d, u)
          PROVE  f.node = d /\ n # d /\ Actions'[f.obj] = new
      BY <1>3, <1>7, NewEntry
    <2>3. Owners' = Owners \cup New(d, u)
      BY <1>1
    <2> QED  BY <1>6, <2>1, <2>2, <2>3 DEF OwnersTake
  <1>10. HeldActionsLead' /\ HeldSources' \subseteq HeldSources \cup {n}
    BY <1>2, <1>9, HeldAfterTake
  <1>11. /\ \A m \in Nodes : m # n => Arcs'[m] = Arcs[m] /\ ShownSources(m)' = ShownSources(m)
         /\ ShownSources(n)' \subseteq ShownSources(n) \cup HeldSources
         /\ n \notin ShownSources(n)'
    <2>1. /\ \A m \in Nodes : m # n => Arcs'[m] = Arcs[m] /\ ShownSources(m)' = ShownSources(m)
          /\ ShownSources(n)' = ShownSources(n) \cup Sources(held)
      BY <1>2, <1>3, <1>4, <1>5, ShownAfterArc
    <2>2. n \notin ShownSources(n)
      BY <1>1, <1>2 DEF SourcesAreApart
    <2> QED  BY <1>4, <2>1, <2>2
  <1>12. QueuedNodes' \subseteq QueuedNodes \cup ({d} \ nodes)
    BY <1>1, NewNodes
  <1>13. FirstArcShows'
    <2>1. ASSUME NEW q \in QueuedNodes'  PROVE Arcs'[q] = << >>
      <3>1. CASE q \in QueuedNodes
        BY <1>2, <1>3, <1>11, <3>1 DEF FirstArcShows
      <3>2. CASE q = d /\ d \notin nodes
        BY <1>1, <1>2, <1>3, <1>11, <3>2 DEF FirstArcShows
      <3> QED  BY <1>12, <3>1, <3>2
    <2>2. \A m \in Nodes \ (nodes' \cup {InitialNode}) : Arcs'[m] = << >>
      BY <1>1, <1>2, <1>3, <1>11 DEF FirstArcShows
    <2>3. Actions'[current'.obj] = << >> /\ nodes' # {}
      BY <1>1, <1>7
    <2> QED  BY <2>1, <2>2, <2>3 DEF FirstArcShows
  <1>14. SourcesAreApart'
    <2>1. HeldSources' \subseteq nodes'
      BY <1>1, <1>2, <1>3, <1>10 DEF SourcesAreApart
    <2>2. \A m \in Nodes : ShownSources(m)' \subseteq nodes \cup {InitialNode}
      BY <1>2, <1>3, <1>11 DEF SourcesAreApart
    <2>3. \A q \in QueuedNodes' : q \notin HeldSources'
                                    /\ \A m \in Nodes : q \notin ShownSources(m)'
      <3> TAKE q \in QueuedNodes'
      <3>1. CASE q \in QueuedNodes
        BY <1>2, <1>3, <1>10, <1>11, <3>1 DEF SourcesAreApart
      <3>2. CASE q = d /\ d \notin nodes
        BY <1>1, <1>2, <1>3, <1>10, <2>2, <3>2 DEF SourcesAreApart
      <3> QED  BY <1>12, <3>1, <3>2
    <2>4. ASSUME NEW m \in Nodes, m \in ShownSources(m)'
          PROVE  m \notin HeldSources' /\ \A l \in Nodes : l # m => m \notin ShownSources(l)'
      <3>1. m # n
        BY <1>11, <2>4
      <3> QED  BY <1>2, <1>3, <1>10, <1>11, <2>4, <3>1 DEF SourcesAreApart
    <2> QED  BY <1>1, <1>11, <2>1, <2>2, <2>3, <2>4 DEF SourcesAreApart
  <1> QED  BY <1>8, <1>10, <1>13, <1>14 DEF ShowingInv

LEMMA ShowingAfterFinish ==
    ASSUME ExplorerInv, ShowingInv, FinishAndRecord
    PROVE  ShowingInv'
  <1>1. /\ nodes' = nodes /\ Owners' \subseteq Owners /\ QueuedNodes' = QueuedNodes
        /\ current' = NULL /\ Actions' = Actions /\ Arcs' = Arcs
    BY FinishMoves DEF ExplorerInv
  <1>2. /\ ReportsTypeOK /\ ArcsAreSplit /\ HeldActionsLead /\ FirstArcShows
        /\ SourcesAreApart
    BY DEF ShowingInv
  <1>3. ReportsTypeOK' /\ ArcsAreSplit'
    BY <1>1, <1>2 DEF ReportsTypeOK, ArcsAreSplit, ArcIsSplit, IsSplit
  <1>4. HeldActionsLead' /\ HeldSources' \subseteq HeldSources
    BY <1>1, <1>2, HeldAfterKeep DEF OwnersKeep
  <1>5. \A m \in Nodes : ShownSources(m)' = ShownSources(m)
    BY <1>1 DEF ShownSources, SourcesOf, Sources
  <1>6. FirstArcShows'
    BY <1>1, <1>2 DEF FirstArcShows
  <1>7. SourcesAreApart'
    BY <1>1, <1>2, <1>4, <1>5 DEF SourcesAreApart
  <1> QED  BY <1>3, <1>4, <1>6, <1>7 DEF ShowingInv

(* What the invariant says depends on these variables only.                *)
LEMMA ShowingDepends ==
    ASSUME ExplorerInv, ShowingInv, UNCHANGED <<queue, nodes, current, Actions, Arcs>>
    PROVE  ShowingInv'
  <1>1. Owners' = Owners /\ QueuedNodes' = QueuedNodes
    BY DEF Owners, QueuedNodes
  <1>2. HeldSources' = HeldSources /\ \A m \in Nodes : ShownSources(m)' = ShownSources(m)
    BY <1>1 DEF HeldSources, ShownSources, SourcesOf, Sources
  <1>3. current # NULL => current.node \in Nodes
    BY CurrentIsLive, NodeFacts DEF ExplorerInv
  <1>4. ReportsTypeOK' /\ HeldActionsLead' /\ FirstArcShows' /\ ArcsAreSplit'
    <2>1. ReportsTypeOK' /\ HeldActionsLead'
      BY <1>1 DEF ShowingInv, ReportsTypeOK, HeldActionsLead
    <2>2. FirstArcShows'
      BY <1>1 DEF ShowingInv, FirstArcShows
    <2>3. ArcsAreSplit'
      BY DEF ShowingInv, ArcsAreSplit, ArcIsSplit, IsSplit
    <2> QED  BY <2>1, <2>2, <2>3
  <1>5. SourcesAreApart'
    BY <1>1, <1>2, <1>3 DEF ShowingInv, SourcesAreApart
  <1> QED  BY <1>4, <1>5 DEF ShowingInv

-----------------------------------------------------------------------------
(* The theorem.                                                            *)
LEMMA ShowingInit == ReportsInit => ExplorerInv /\ ShowingInv
  <1> SUFFICES ASSUME ReportsInit  PROVE ExplorerInv /\ ShowingInv
    OBVIOUS
  <1>1. ExplorerInv
    BY InvInit DEF ReportsInit
  <1>2. /\ queue = << >> /\ nodes = {} /\ current = NULL
        /\ Actions = [o \in Objects |-> << >>] /\ Arcs = [n \in Nodes |-> << >>]
    BY DEF ReportsInit, Init
  <1>3. Owners = {} /\ QueuedNodes = {}
    BY <1>2 DEF Owners, QueuedNodes
  <1>4. ReportsTypeOK
    BY <1>2 DEF ReportsTypeOK
  <1>5. HeldActionsLead /\ FirstArcShows /\ ArcsAreSplit
    BY <1>2, <1>3, NodeFacts DEF HeldActionsLead, FirstArcShows, ArcsAreSplit
  <1>6. HeldSources = {} /\ \A n \in Nodes : ShownSources(n) = {}
    BY <1>2, <1>3 DEF HeldSources, ShownSources, SourcesOf
  <1>7. SourcesAreApart
    BY <1>2, <1>3, <1>6 DEF SourcesAreApart
  <1> QED  BY <1>1, <1>4, <1>5, <1>7 DEF ShowingInv

(* Every step of Reports is a step of the explorer.                        *)
LEMMA StepsOfExplorer == ReportsNext => [Next]_vars
  BY DEF ReportsNext, Next, vars, ConstructAndRecord, FastRunAndRecord, StartForkingAndRecord,
         ForkAndRecord, FinishAndRecord, WriteReport

LEMMA ShowingNext ==
    ExplorerInv /\ ShowingInv /\ [ReportsNext]_<<vars, reportVars>> => ExplorerInv' /\ ShowingInv'
  <1> SUFFICES ASSUME ExplorerInv, ShowingInv, [ReportsNext]_<<vars, reportVars>>
               PROVE  ExplorerInv' /\ ShowingInv'
    OBVIOUS
  <1>1. [Next]_vars
    BY StepsOfExplorer
  <1>2. ExplorerInv'
    BY <1>1, InvNext
  <1>3. CASE ConstructAndRecord
    BY <1>2, <1>3, ShowingAfterConstruct
  <1>4. CASE FastRunAndRecord
    BY <1>2, <1>4, ShowingAfterFastRun
  <1>5. CASE StartForkingAndRecord
    BY <1>2, <1>5, ShowingAfterStartForking
  <1>6. CASE ForkAndRecord
    BY <1>2, <1>6, ShowingAfterFork
  <1>7. CASE FinishAndRecord
    BY <1>2, <1>7, ShowingAfterFinish
  <1>8. CASE WriteReport \/ UNCHANGED <<vars, reportVars>>
    <2>1. UNCHANGED <<queue, nodes, current, Actions, Arcs>>
      BY <1>8 DEF WriteReport, vars, reportVars
    <2> QED  BY <1>2, <2>1, ShowingDepends
  <1> QED  BY <1>3, <1>4, <1>5, <1>6, <1>7, <1>8 DEF ReportsNext

LEMMA ShowingInvariance == ReportsSpec => [](ExplorerInv /\ ShowingInv)
  BY ShowingInit, ShowingNext, PTL DEF ReportsSpec

LEMMA ShownFrom ==
    ASSUME ShowingInv, NEW n \in Nodes, NEW k \in DOMAIN Arcs[n],
           NEW i \in DOMAIN Arcs[n][k].Actions
    PROVE  /\ k = 1 /\ Arcs[n][k].Actions[i].from \in ShownSources(n)
           /\ i \in 1 .. Len(Arcs[n][k].Actions)
  <1>1. /\ Arcs[n] \in Seq(Arc) /\ Arcs[n][k] \in Arc /\ k \in Nat \ {0}
        /\ Arcs[n][k].Actions \in Seq(Action)
    <2>1. Arcs[n] \in Seq(Arc)
      BY DEF ShowingInv, ReportsTypeOK
    <2>2. Arcs[n][k] \in Arc /\ k \in Nat \ {0}
      BY <2>1
    <2> QED  BY <2>1, <2>2 DEF Arc
  <1>2. k = 1
    <2>1. k > 1 => Arcs[n][k].Actions = << >>
      BY DEF ShowingInv, ArcsAreSplit, ArcIsSplit
    <2> QED  BY <1>1, <2>1
  <1>3. Arcs[n][k].Actions[i] \in Action /\ i \in 1 .. Len(Arcs[n][k].Actions)
    BY <1>1
  <1>4. Arcs[n][k].Actions[i].from \in Nodes
    BY <1>3 DEF Action
  <1> QED  BY <1>2, <1>3, <1>4 DEF ShownSources, SourcesOf, Sources

LEMMA SplitAction ==
    ASSUME NEW n, NEW to, NEW s, IsSplit(n, to, s), NEW i \in 1 .. Len(s)
    PROVE  (s[i].to = n /\ s[i].from # n) \/ s[i].from = n
  <1> PICK into \in 0 .. Len(s) : \A p \in 1 .. Len(s) :
         IF p <= into THEN s[p].to = n /\ s[p].number = p /\ s[p].from # n
         ELSE s[p].from = n /\ s[p].to = to /\ s[p].number = p - into
    BY DEF IsSplit
  <1>1. CASE i <= into
    BY <1>1
  <1>2. CASE ~ i <= into
    BY <1>2
  <1> QED  BY <1>1, <1>2

LEMMA ShownOnce ==
    ASSUME ShowingInv,
           NEW m \in Nodes, NEW k \in DOMAIN Arcs[m], NEW i \in DOMAIN Arcs[m][k].Actions,
           NEW n \in Nodes, NEW l \in DOMAIN Arcs[n], NEW j \in DOMAIN Arcs[n][l].Actions,
           Arcs[m][k].Actions[i] = Arcs[n][l].Actions[j]
    PROVE  m = n /\ k = l /\ i = j
  <1> PICK s, t : s = Arcs[m][k].Actions /\ t = Arcs[n][l].Actions
    OBVIOUS
  <1> PICK a : a = s[i]
    OBVIOUS
  <1>1. /\ k = 1 /\ l = 1 /\ a = t[j]
        /\ a.from \in ShownSources(m) /\ a.from \in ShownSources(n)
        /\ i \in 1 .. Len(s) /\ j \in 1 .. Len(t)
    BY ShownFrom
  <1>2. /\ IsSplit(m, Arcs[m][k].TargetNode, s) /\ IsSplit(n, Arcs[n][l].TargetNode, t)
    BY DEF ShowingInv, ArcsAreSplit, ArcIsSplit
  <1>3. (a.to = m /\ a.from # m) \/ a.from = m
    BY <1>1, <1>2, SplitAction
  <1>4. (a.to = n /\ a.from # n) \/ a.from = n
    BY <1>1, <1>2, SplitAction
  <1>5. m = n
    <2>1. m \in ShownSources(m) => \A b \in Nodes : b # m => m \notin ShownSources(b)
      BY DEF ShowingInv, SourcesAreApart
    <2>2. n \in ShownSources(n) => \A b \in Nodes : b # n => n \notin ShownSources(b)
      BY DEF ShowingInv, SourcesAreApart
    <2> QED  BY <1>1, <1>3, <1>4, <2>1, <2>2
  <1>6. s = t
    BY <1>1, <1>5
  <1>7. i = j
    <2> PICK to : to = Arcs[m][k].TargetNode
      OBVIOUS
    <2>1. PICK into \in 0 .. Len(s) : \A p \in 1 .. Len(s) :
             IF p <= into THEN s[p].to = m /\ s[p].number = p /\ s[p].from # m
             ELSE s[p].from = m /\ s[p].to = to /\ s[p].number = p - into
      BY <1>2 DEF IsSplit
    <2>2. i \in 1 .. Len(s) /\ j \in 1 .. Len(s) /\ s[i] = a /\ s[j] = a
      BY <1>1, <1>6
    <2>3. i <= into <=> a.from # m
      BY <2>1, <2>2
    <2>4. j <= into <=> a.from # m
      BY <2>1, <2>2
    <2>5. CASE i <= into /\ j <= into
      <3>1. a.number = i /\ a.number = j
        BY <2>1, <2>2, <2>5
      <3> QED  BY <3>1
    <2>6. CASE ~ i <= into /\ ~ j <= into
      <3>1. a.number = i - into /\ a.number = j - into
        BY <2>1, <2>2, <2>6
      <3>2. i - into = j - into /\ i \in Int /\ j \in Int /\ into \in Int
        BY <2>1, <2>2, <3>1
      <3> QED  BY <3>2
    <2> QED  BY <2>3, <2>4, <2>5, <2>6
  <1> QED  BY <1>1, <1>5, <1>7

(* No Action is shown twice by the arcs, and none away from its run.       *)
THEOREM ActionsAreOnArcsOnce == ReportsSpec => []ActionsAreShownOnce
  <1>1. ExplorerInv /\ ShowingInv => ActionsAreShownOnce
    <2> SUFFICES ASSUME ExplorerInv, ShowingInv  PROVE ActionsAreShownOnce
      OBVIOUS
    <2>1. nodes \cup {InitialNode} \subseteq Nodes
      BY NodeFacts DEF ExplorerInv, TypeOK
    <2>2. ASSUME NEW n \in nodes \cup {InitialNode}, NEW k \in DOMAIN Arcs[n]
          PROVE  ArcShowsRuns(n, k)
      <3>1. /\ k > 1 => Arcs[n][k].Actions = << >>
            /\ IsSplit(n, Arcs[n][k].TargetNode, Arcs[n][k].Actions)
        BY <2>1 DEF ShowingInv, ArcsAreSplit, ArcIsSplit
      <3>2. Len(<< >>) = 0
        OBVIOUS
      <3> QED  BY <3>1, <3>2 DEF ArcShowsRuns, IsSplit
    <2> QED  BY <2>1, <2>2, ShownOnce DEF ActionsAreShownOnce
  <1> QED  BY <1>1, ShowingInvariance, PTL
-----------------------------------------------------------------------------
(* The least number principle.                                             *)
LEMMA LeastNumber ==
    ASSUME NEW T \in SUBSET Nat, T # {}
    PROVE  \E x \in T : \A y \in T : x <= y
  <1> DEFINE R == OpToRel(<, Nat)
  <1>1. IsWellFoundedOn(R, Nat)
    BY NatLessThanWellFounded
  <1>2. \A x, y \in Nat : x < y => <<x, y>> \in R
    BY DEF OpToRel
  <1> HIDE DEF R
  <1>3. PICK x \in T : \A y \in T : ~ (<<y, x>> \in R)
    BY <1>1, WFMin
  <1>4. \A y \in T : ~ (y < x)
    BY <1>2, <1>3
  <1>5. \A y \in T : x <= y
    BY <1>4
  <1> QED  BY <1>5

-----------------------------------------------------------------------------
(* Paths. s is the path from the initial node to node m.                   *)
IsPath(s, m) ==
    /\ s \in Seq(Nodes)
    /\ Len(s) # 0
    /\ s[1] = InitialNode
    /\ s[Len(s)] = m
    /\ \A i \in 2 .. Len(s) : s[i] \in nodes /\ prev[s[i]] = s[i - 1]

(* What the invariant of the explorer says of predecessors.                *)
PrevIsATree ==
    /\ nodes \subseteq Nodes /\ InitialNode \notin nodes
    /\ prev[InitialNode] = NULL
    /\ \A n \in nodes : prev[n] # NULL /\ prev[n] \in nodes \cup {InitialNode}
    /\ \A S \in SUBSET nodes : S # {} => \E n \in S : prev[n] \notin S

LEMMA ExplorerMakesATree ==
    ASSUME ExplorerInv
    PROVE  PrevIsATree
  <1>1. nodes \subseteq Nodes /\ InitialNode \notin nodes
    BY NodeFacts DEF ExplorerInv, TypeOK
  <1> QED  BY <1>1 DEF ExplorerInv, DistancesDescend, PathsLeadBack, PrevIsATree

LEMMA SameSequence ==
    ASSUME NEW S, NEW s \in Seq(S), NEW t \in Seq(S), Len(s) = Len(t),
           \A i \in 1 .. Len(s) : s[i] = t[i]
    PROVE  s = t
  <1>1. /\ s = [i \in 1 .. Len(s) |-> s[i]] /\ t = [i \in 1 .. Len(s) |-> t[i]]
    OBVIOUS
  <1> QED  BY <1>1

LEMMA AboveOne ==
    \A n \in Nat : n # 0 => (n # 1 <=> n \in 2 .. n)
  OBVIOUS

LEMMA RootPath ==
    ASSUME PrevIsATree, NEW s
    PROVE  IsPath(s, InitialNode) <=> s = <<InitialNode>>
  <1>1. IsPath(<<InitialNode>>, InitialNode)
    <2>1. <<InitialNode>> \in Seq(Nodes) /\ Len(<<InitialNode>>) = 1
          /\ <<InitialNode>>[1] = InitialNode
      BY NodeFacts
    <2> QED  BY <2>1 DEF IsPath
  <1>2. ASSUME IsPath(s, InitialNode)  PROVE s = <<InitialNode>>
    <2>1. /\ s \in Seq(Nodes) /\ Len(s) \in Nat \ {0}
          /\ s[1] = InitialNode /\ s[Len(s)] \notin nodes
      BY <1>2 DEF IsPath, PrevIsATree
    <2>2. Len(s) \notin 2 .. Len(s)
      BY <1>2, <2>1 DEF IsPath
    <2>3. Len(s) = 1
      BY <2>1, <2>2, AboveOne
    <2> PICK t : t = <<InitialNode>>
      OBVIOUS
    <2>4. t \in Seq(Nodes) /\ Len(t) = 1 /\ t[1] = InitialNode
      BY NodeFacts
    <2>5. \A i \in 1 .. 1 : i = 1
      OBVIOUS
    <2>6. s = t
      BY ONLY <2>1, <2>3, <2>4, <2>5, SameSequence
    <2> QED  BY <2>6
  <1> QED  BY <1>1, <1>2

LEMMA LongerPath ==
    ASSUME PrevIsATree, NEW m \in nodes, NEW s, IsPath(s, prev[m])
    PROVE  IsPath(Append(s, m), m)
  <1> PICK t : t = Append(s, m)
    OBVIOUS
  <1>1. s \in Seq(Nodes) /\ Len(s) \in Nat \ {0} /\ m \in Nodes
    BY DEF IsPath, PrevIsATree
  <1>2. /\ t \in Seq(Nodes) /\ Len(t) = Len(s) + 1 /\ t[Len(t)] = m
        /\ \A i \in 1 .. Len(s) : t[i] = s[i]
    BY <1>1
  <1>3. t[1] = InitialNode
    BY <1>1, <1>2 DEF IsPath
  <1>4. ASSUME NEW i \in 2 .. Len(t)  PROVE t[i] \in nodes /\ prev[t[i]] = t[i - 1]
    <2>1. CASE i = Len(t)
      <3>1. i - 1 = Len(s) /\ Len(s) \in 1 .. Len(s)
        BY <1>1, <1>2, <2>1
      <3>2. t[i - 1] = prev[m] /\ t[i] = m
        BY <1>2, <2>1, <3>1 DEF IsPath
      <3> QED  BY <3>2
    <2>2. CASE i # Len(t)
      <3>1. i \in 2 .. Len(s) /\ i \in 1 .. Len(s) /\ i - 1 \in 1 .. Len(s)
        BY <1>1, <1>2, <2>2
      <3>2. t[i] = s[i] /\ t[i - 1] = s[i - 1]
        BY <1>2, <3>1
      <3> QED  BY <3>1, <3>2 DEF IsPath
    <2> QED  BY <2>1, <2>2
  <1>5. IsPath(t, m)
    BY <1>1, <1>2, <1>3, <1>4 DEF IsPath
  <1> QED  BY <1>5

LEMMA ShorterPath ==
    ASSUME PrevIsATree, NEW m \in nodes, NEW s, IsPath(s, m)
    PROVE  \E t : IsPath(t, prev[m]) /\ s = Append(t, m)
  <1>1. /\ s \in Seq(Nodes) /\ Len(s) \in Nat \ {0} /\ s[Len(s)] = m
        /\ s[1] = InitialNode
    BY DEF IsPath
  <1>2. Len(s) \in 2 .. Len(s)
    <2>1. InitialNode # m
      BY DEF PrevIsATree
    <2>2. Len(s) # 1
      BY <1>1, <2>1
    <2> QED  BY <1>1, <2>2, AboveOne
  <1> PICK t : t = [i \in 1 .. Len(s) - 1 |-> s[i]]
    OBVIOUS
  <1>3. t \in Seq(Nodes) /\ Len(t) = Len(s) - 1 /\ \A i \in 1 .. Len(t) : t[i] = s[i]
    <2>1. t \in [1 .. Len(s) - 1 -> Nodes] /\ Len(s) - 1 \in Nat
      BY <1>1, <1>2
    <2>2. t \in Seq(Nodes) /\ Len(t) = Len(s) - 1
      BY <2>1
    <2> QED  BY <2>2
  <1>4. s = Append(t, m)
    <2>1. Append(t, m) \in Seq(Nodes) /\ Len(Append(t, m)) = Len(s)
      BY <1>1, <1>3, <1>2 DEF PrevIsATree
    <2>2. ASSUME NEW i \in 1 .. Len(s)  PROVE s[i] = Append(t, m)[i]
      BY <1>1, <1>3, <1>2
    <2> PICK u : u = Append(t, m)
      OBVIOUS
    <2>3. u \in Seq(Nodes) /\ Len(s) = Len(u) /\ \A i \in 1 .. Len(s) : s[i] = u[i]
      BY <2>1, <2>2
    <2>4. s = u
      BY ONLY <1>1, <2>3, SameSequence
    <2> QED  BY <2>4
  <1>5. IsPath(t, prev[m])
    <2>1. Len(t) # 0 /\ t[1] = InitialNode
      BY <1>1, <1>2, <1>3
    <2>2. t[Len(t)] = prev[m]
      BY <1>1, <1>2, <1>3 DEF IsPath
    <2>3. ASSUME NEW i \in 2 .. Len(t)  PROVE t[i] \in nodes /\ prev[t[i]] = t[i - 1]
      <3>1. i \in 2 .. Len(s) /\ t[i] = s[i] /\ t[i - 1] = s[i - 1]
        BY <1>1, <1>2, <1>3
      <3> QED  BY <3>1 DEF IsPath
    <2> QED  BY <1>3, <2>1, <2>2, <2>3 DEF IsPath
  <1> QED  BY <1>4, <1>5

LEMMA OnePath ==
    ASSUME PrevIsATree, NEW n \in nodes \cup {InitialNode}
    PROVE  \E s : IsPath(s, n) /\ \A t : IsPath(t, n) => t = s
  <1> DEFINE One(m) == \E s : IsPath(s, m) /\ \A t : IsPath(t, m) => t = s
             S == {m \in nodes : ~ One(m)}
  <1>1. One(InitialNode)
    <2> PICK u : u = <<InitialNode>>
      OBVIOUS
    <2>1. \A t : IsPath(t, InitialNode) <=> t = u
      BY RootPath
    <2> QED  BY <2>1
  <1>2. ASSUME NEW m \in nodes, One(prev[m])  PROVE One(m)
    <2>1. PICK s : IsPath(s, prev[m]) /\ \A t : IsPath(t, prev[m]) => t = s
      BY <1>2
    <2>2. IsPath(Append(s, m), m)
      BY <2>1, LongerPath
    <2>3. ASSUME NEW t, IsPath(t, m)  PROVE t = Append(s, m)
      <3>1. PICK u : IsPath(u, prev[m]) /\ t = Append(u, m)
        BY <2>3, ShorterPath
      <3> QED  BY <2>1, <3>1
    <2> QED  BY <2>2, <2>3
  <1> HIDE DEF One
  <1>3. S = {}
    <2> SUFFICES ASSUME S # {}  PROVE FALSE
      OBVIOUS
    <2>1. PICK m \in S : prev[m] \notin S
      BY DEF PrevIsATree
    <2>2. One(prev[m])
      BY <1>1, <2>1 DEF PrevIsATree
    <2> QED  BY <1>2, <2>2
  <1>4. One(n)
    BY <1>1, <1>3
  <1> QED  BY <1>4 DEF One

(* PathTo, which goes the way of the predecessors, finds the path.         *)
LEMMA PathToIsPath ==
    ASSUME PrevIsATree, NEW n \in nodes \cup {InitialNode}
    PROVE  IsPath(PathTo(n), n)
  <1> DEFINE All == nodes \cup {InitialNode}
             Way(f) == f = [m \in All |-> IF prev[m] = NULL THEN <<m>> ELSE Append(f[prev[m]], m)]
             g == [m \in All |-> CHOOSE s : IsPath(s, m)]
  <1>1. ASSUME NEW m \in All  PROVE IsPath(g[m], m)
    BY OnePath
  <1> HIDE DEF g
  <1>2. Way(g)
    <2>1. g = [m \in All |-> g[m]]
      BY DEF g
    <2>2. ASSUME NEW m \in All
          PROVE  g[m] = IF prev[m] = NULL THEN <<m>> ELSE Append(g[prev[m]], m)
      <3>1. CASE m = InitialNode
        BY <1>1, <3>1, RootPath DEF PrevIsATree
      <3>2. CASE m \in nodes
        <4>1. prev[m] # NULL /\ prev[m] \in All
          BY <3>2 DEF PrevIsATree
        <4>2. PICK u : IsPath(u, prev[m]) /\ g[m] = Append(u, m)
          BY <1>1, <3>2, ShorterPath
        <4>3. u = g[prev[m]]
          BY <1>1, <4>1, <4>2, OnePath
        <4> QED  BY <4>1, <4>2, <4>3
      <3> QED  BY <3>1, <3>2
    <2> QED  BY <2>1, <2>2
  <1> PICK f : f = CHOOSE h : Way(h)
    OBVIOUS
  <1>3. Way(f)
    BY <1>2
  <1>4. PathTo(n) = f[n]
    BY DEF PathTo
  <1> DEFINE S == {m \in nodes : ~ IsPath(f[m], m)}
  <1>5. IsPath(f[InitialNode], InitialNode)
    <2>1. f[InitialNode] = <<InitialNode>>
      BY <1>3 DEF PrevIsATree
    <2> QED  BY <2>1, RootPath
  <1>6. S = {}
    <2> SUFFICES ASSUME S # {}  PROVE FALSE
      OBVIOUS
    <2>1. PICK m \in S : prev[m] \notin S
      BY DEF PrevIsATree
    <2>2. IsPath(f[prev[m]], prev[m])
      BY <1>5, <2>1 DEF PrevIsATree
    <2>3. f[m] = Append(f[prev[m]], m)
      BY <1>3, <2>1 DEF PrevIsATree
    <2> HIDE DEF Way, S
    <2>4. m \in nodes /\ ~ IsPath(f[m], m)
      BY DEF S
    <2> QED  BY <2>2, <2>3, <2>4, LongerPath
  <1> QED  BY <1>4, <1>5, <1>6

(* No node is on a path twice.                                             *)
LEMMA PathsDoNotRepeat ==
    ASSUME PrevIsATree, NEW m, NEW s, IsPath(s, m),
           NEW i \in 1 .. Len(s), NEW j \in 1 .. Len(s), s[i] = s[j]
    PROVE  i = j
  <1>1. s \in Seq(Nodes) /\ Len(s) \in Nat
    BY DEF IsPath
  <1>2. ASSUME NEW a \in 1 .. Len(s), NEW b \in 1 .. Len(s), a < b, s[a] = s[b]
        PROVE  FALSE
    <2> DEFINE S == {s[k] : k \in a + 1 .. b}
    <2>1. S \subseteq nodes
      BY <1>1, <1>2 DEF IsPath
    <2>2. s[b] \in S
      BY <1>1, <1>2
    <2>3. PICK n \in S : prev[n] \notin S
      BY <2>1, <2>2 DEF PrevIsATree
    <2>4. PICK k \in a + 1 .. b : n = s[k]
      BY <2>3
    <2>5. prev[n] = s[k - 1]
      BY <1>1, <1>2, <2>4 DEF IsPath
    <2>6. CASE k = a + 1
      <3>1. k - 1 = a
        BY <1>1, <2>6
      <3> QED  BY <1>2, <2>2, <2>3, <2>5, <3>1
    <2>7. CASE k # a + 1
      <3>1. k - 1 \in a + 1 .. b
        BY <1>1, <2>4, <2>7
      <3> QED  BY <2>3, <2>5, <3>1
    <2> QED  BY <2>6, <2>7
  <1> QED  BY <1>1, <1>2

-----------------------------------------------------------------------------
(* FlattenSeq.                                                             *)

(* The element i of out is element place[i] of seqs[piece[i]]; the pieces  *)
(* come one after the other.                                               *)
LiesAt(out, seqs, piece, place, n) ==
    \A i \in 1 .. Len(out) :
        /\ piece[i] \in 1 .. n
        /\ place[i] \in 1 .. Len(seqs[piece[i]])
        /\ out[i] = seqs[piece[i]][place[i]]

InOrder(piece, place, l) ==
    \A i, j \in 1 .. l : i < j =>
        piece[i] < piece[j] \/ (piece[i] = piece[j] /\ place[i] < place[j])

Pieces(S, out, seqs, n) ==
    /\ out \in Seq(S)
    /\ \E piece, place : LiesAt(out, seqs, piece, place, n) /\ InOrder(piece, place, Len(out))

LEMMA OnePiece ==
    ASSUME NEW S, NEW seqs \in Seq(Seq(S)), Len(seqs) # 0
    PROVE  Pieces(S, seqs[1], seqs, 1)
  <1>1. seqs[1] \in Seq(S)
    OBVIOUS
  <1> PICK s : s = seqs[1]
    OBVIOUS
  <1> PICK piece, place : piece = [i \in 1 .. Len(s) |-> 1] /\ place = [i \in 1 .. Len(s) |-> i]
    OBVIOUS
  <1>2. LiesAt(s, seqs, piece, place, 1)
    BY <1>1 DEF LiesAt
  <1>3. InOrder(piece, place, Len(s))
    BY <1>1 DEF InOrder
  <1> QED  BY <1>1, <1>2, <1>3 DEF Pieces

LEMMA Concatenated ==
    ASSUME NEW S, NEW s \in Seq(S), NEW t \in Seq(S)
    PROVE  /\ s \o t \in Seq(S) /\ Len(s \o t) = Len(s) + Len(t)
           /\ \A i \in 1 .. Len(s) : (s \o t)[i] = s[i]
           /\ \A i \in Len(s) + 1 .. Len(s) + Len(t) : (s \o t)[i] = t[i - Len(s)]
           /\ Len(s) \in Nat /\ Len(t) \in Nat
  OBVIOUS

LEMMA OneMorePiece ==
    ASSUME NEW S, NEW seqs \in Seq(Seq(S)), NEW n \in 1 .. Len(seqs) - 1, NEW s,
           Pieces(S, s, seqs, n)
    PROVE  Pieces(S, s \o seqs[n + 1], seqs, n + 1)
  <1>1. seqs[n + 1] \in Seq(S) /\ s \in Seq(S) /\ n \in Nat
    BY DEF Pieces
  <1> PICK t : t = seqs[n + 1]
    OBVIOUS
  <1> PICK out : out = s \o t
    OBVIOUS
  <1>2. /\ out \in Seq(S) /\ Len(out) = Len(s) + Len(t)
        /\ \A i \in 1 .. Len(s) : out[i] = s[i]
        /\ \A i \in Len(s) + 1 .. Len(s) + Len(t) : out[i] = t[i - Len(s)]
        /\ Len(s) \in Nat /\ Len(t) \in Nat
    BY <1>1, Concatenated
  <1>3. PICK a, b : LiesAt(s, seqs, a, b, n) /\ InOrder(a, b, Len(s))
    BY DEF Pieces
  <1> PICK l : l = Len(s)
    OBVIOUS
  <1> PICK piece, place :
         /\ piece = [i \in 1 .. l + Len(t) |-> IF i <= l THEN a[i] ELSE n + 1]
         /\ place = [i \in 1 .. l + Len(t) |-> IF i <= l THEN b[i] ELSE i - l]
    OBVIOUS
  <1>4. ASSUME NEW i \in 1 .. l
        PROVE  /\ piece[i] = a[i] /\ place[i] = b[i] /\ a[i] \in 1 .. n
               /\ b[i] \in 1 .. Len(seqs[a[i]]) /\ s[i] = seqs[a[i]][b[i]]
    <2>1. i \in 1 .. l + Len(t) /\ i <= l
      BY <1>2
    <2> QED  BY <1>3, <2>1 DEF LiesAt
  <1>5. ASSUME NEW i \in l + 1 .. l + Len(t)
        PROVE  piece[i] = n + 1 /\ place[i] = i - l
    <2>1. i \in 1 .. l + Len(t) /\ ~ i <= l
      BY <1>2
    <2> QED  BY <2>1
  <1>6. LiesAt(out, seqs, piece, place, n + 1)
    <2> SUFFICES ASSUME NEW i \in 1 .. Len(out)
                 PROVE  /\ piece[i] \in 1 .. n + 1
                        /\ place[i] \in 1 .. Len(seqs[piece[i]])
                        /\ out[i] = seqs[piece[i]][place[i]]
      BY DEF LiesAt
    <2>1. CASE i <= l
      <3>1. i \in 1 .. l
        BY <1>2, <2>1
      <3>2. a[i] \in 1 .. n + 1
        <4>1. \A x \in 1 .. n : x \in 1 .. n + 1
          BY <1>1
        <4> QED  BY <1>4, <3>1, <4>1
      <3> QED  BY <1>2, <1>4, <3>1, <3>2
    <2>2. CASE ~ i <= l
      <3>1. i \in l + 1 .. l + Len(t) /\ i - l \in 1 .. Len(t)
        BY <1>2, <2>2
      <3>2. n + 1 \in 1 .. n + 1
        BY <1>1
      <3> QED  BY <1>2, <1>5, <3>1, <3>2
    <2> QED  BY <2>1, <2>2
  <1>7. InOrder(piece, place, Len(out))
    <2> SUFFICES ASSUME NEW i \in 1 .. Len(out), NEW j \in 1 .. Len(out), i < j
                 PROVE  piece[i] < piece[j] \/ (piece[i] = piece[j] /\ place[i] < place[j])
      BY DEF InOrder
    <2>1. CASE j <= l
      <3>1. i \in 1 .. l /\ j \in 1 .. l
        BY <1>2, <2>1
      <3>2. a[i] < a[j] \/ (a[i] = a[j] /\ b[i] < b[j])
        BY <1>3, <3>1 DEF InOrder
      <3> QED  BY <1>4, <3>1, <3>2
    <2>2. CASE i <= l /\ ~ j <= l
      <3>1. i \in 1 .. l /\ j \in l + 1 .. l + Len(t)
        BY <1>2, <2>2
      <3>2. piece[i] \in 1 .. n /\ piece[j] = n + 1
        BY <1>4, <1>5, <3>1
      <3> QED  BY <1>1, <3>2
    <2>3. CASE ~ i <= l
      <3>1. i \in l + 1 .. l + Len(t) /\ j \in l + 1 .. l + Len(t)
        BY <1>2, <2>3
      <3>2. piece[i] = n + 1 /\ piece[j] = n + 1 /\ place[i] = i - l /\ place[j] = j - l
        BY <1>5, <3>1
      <3>3. i - l < j - l
        BY <1>2, <3>1
      <3> QED  BY <3>2, <3>3
    <2> QED  BY <2>1, <2>2, <2>3
  <1>8. Pieces(S, out, seqs, n + 1)
    BY <1>2, <1>6, <1>7 DEF Pieces
  <1> QED  BY <1>8

LEMMA BelowIsThere ==
    \A n \in Int : n - 1 \in 1 .. n => n \in 1 .. n /\ n - 1 \in 1 .. n - 1
  OBVIOUS

(* What flattens seqs up to n.                                             *)
Flattens(f, seqs, n) ==
    f = [i \in 1 .. n |-> IF i = 1 THEN seqs[i] ELSE f[i - 1] \o seqs[i]]

LEMMA FlattenExists ==
    ASSUME NEW seqs, NEW N \in Nat \ {0}
    PROVE  \E f : Flattens(f, seqs, N)
  <1> DEFINE S == {n \in 1 .. N : ~ \E f : Flattens(f, seqs, n)}
  <1> SUFFICES ASSUME S # {}  PROVE FALSE
    OBVIOUS
  <1>1. PICK n \in S : \A k \in S : n <= k
    <2>1. S \in SUBSET Nat
      OBVIOUS
    <2> HIDE DEF S
    <2> QED  BY <2>1, LeastNumber
  <1>2. n # 1
    <2>1. Flattens([i \in 1 .. 1 |-> seqs[1]], seqs, 1)
      BY DEF Flattens
    <2> QED  BY <2>1
  <1>3. n - 1 \in 1 .. N /\ n - 1 \notin S /\ n \in 1 .. N
    BY <1>1, <1>2
  <1>4. PICK f : Flattens(f, seqs, n - 1)
    BY <1>3
  <1> PICK g : g = [i \in 1 .. n |-> IF i = n THEN f[n - 1] \o seqs[n] ELSE f[i]]
    OBVIOUS
  <1>5. \A i \in 1 .. n - 1 : g[i] = f[i] /\ i \in 1 .. n
    <2>1. \A i \in 1 .. n - 1 : i \in 1 .. n /\ i # n
      BY <1>3
    <2> QED  BY <2>1
  <1>6. g[n] = f[n - 1] \o seqs[n] /\ n \in 1 .. n /\ n - 1 \in 1 .. n - 1
    <2>1. n \in 1 .. n /\ n - 1 \in 1 .. n - 1
      BY <1>3, BelowIsThere
    <2> QED  BY <2>1
  <1>7. ASSUME NEW i \in 1 .. n
        PROVE  g[i] = IF i = 1 THEN seqs[i] ELSE g[i - 1] \o seqs[i]
    <2>1. CASE i = n
      BY <1>2, <1>5, <1>6, <2>1
    <2>2. CASE i # n
      <3>1. i \in 1 .. n - 1 /\ (i # 1 => i - 1 \in 1 .. n - 1)
        BY <1>3, <2>2
      <3>2. f[i] = IF i = 1 THEN seqs[i] ELSE f[i - 1] \o seqs[i]
        BY <1>4, <3>1 DEF Flattens
      <3> QED  BY <1>5, <3>1, <3>2
    <2> QED  BY <2>1, <2>2
  <1>8. Flattens(g, seqs, n)
    <2>1. g = [i \in 1 .. n |-> g[i]]
      OBVIOUS
    <2> QED  BY <1>7, <2>1 DEF Flattens
  <1> QED  BY <1>3, <1>8

LEMMA FlattenSeqPieces ==
    ASSUME NEW S, NEW seqs \in Seq(Seq(S)), Len(seqs) # 0
    PROVE  Pieces(S, FlattenSeq(seqs), seqs, Len(seqs))
  <1> PICK N \in Nat \ {0} : N = Len(seqs)
    OBVIOUS
  <1> PICK f : f = CHOOSE g : Flattens(g, seqs, N)
    OBVIOUS
  <1>1. Flattens(f, seqs, N)
    BY FlattenExists
  <1>2. FlattenSeq(seqs) = f[N]
    BY DEF FlattenSeq, Flattens
  <1> DEFINE T == {n \in 1 .. N : ~ Pieces(S, f[n], seqs, n)}
  <1>3. T = {}
    <2> SUFFICES ASSUME T # {}  PROVE FALSE
      OBVIOUS
    <2>1. PICK n \in T : \A k \in T : n <= k
      <3>1. T \in SUBSET Nat
        OBVIOUS
      <3> HIDE DEF T
      <3> QED  BY <3>1, LeastNumber
    <2>2. f[1] = seqs[1]
      <3>1. 1 \in 1 .. N
        OBVIOUS
      <3> QED  BY <1>1, <3>1 DEF Flattens
    <2>3. n # 1
      <3>1. Pieces(S, f[1], seqs, 1)
        BY <2>2, OnePiece
      <3>2. ~ Pieces(S, f[n], seqs, n)
        BY <2>1
      <3> QED  BY <3>1, <3>2
    <2>4. n - 1 \in 1 .. N /\ n - 1 \notin T /\ n - 1 \in 1 .. Len(seqs) - 1
      <3>1. n \in 1 .. N /\ ~ n <= n - 1
        BY <2>1
      <3>2. n - 1 \in 1 .. N /\ n - 1 \in 1 .. N - 1
        BY <2>3, <3>1
      <3> HIDE DEF T
      <3> QED  BY <2>1, <3>1, <3>2
    <2>5. Pieces(S, f[n - 1], seqs, n - 1)
      BY <2>4
    <2>6. f[n] = f[n - 1] \o seqs[n]
      BY <1>1, <2>3 DEF Flattens
    <2>7. Pieces(S, f[n - 1] \o seqs[(n - 1) + 1], seqs, (n - 1) + 1)
      BY <2>4, <2>5, OneMorePiece
    <2>8. (n - 1) + 1 = n
      BY <2>4
    <2> QED  BY <2>6, <2>7, <2>8
  <1>4. N \in 1 .. N
    OBVIOUS
  <1> QED  BY <1>2, <1>3, <1>4
-----------------------------------------------------------------------------
(* Every arc of the explorer's graph is among the arcs of its node.        *)
ArcsAreKept ==
    \A a \in arcs : \E k \in DOMAIN Arcs[a.from] : Arcs[a.from][k].TargetNode = a.to

LEMMA TargetKept ==
    ASSUME NEW q, NEW arc, NEW l \in Nat, DOMAIN q = 1 .. l, NEW to,
           DOMAIN Append(q, arc) = 1 .. l + 1,
           \A k \in 1 .. l : Append(q, arc)[k] = q[k],
           \E k \in DOMAIN q : q[k].TargetNode = to
    PROVE  \E k \in DOMAIN Append(q, arc) : Append(q, arc)[k].TargetNode = to
  <1>1. PICK k \in 1 .. l : q[k].TargetNode = to
    OBVIOUS
  <1>2. k \in DOMAIN Append(q, arc)
    <2>1. k \in 1 .. l + 1
      OBVIOUS
    <2> QED  BY <2>1
  <1> QED  BY <1>1, <1>2

LEMMA KeptAfterArc ==
    ASSUME TypeOK, ReportsTypeOK, ArcsAreKept, NEW n \in Nodes, NEW d \in Digests, NEW acts,
           NEW s \in Seq(Action), ArcAdded(n, d, s),
           arcs' = arcs \cup {[from |-> n, to |-> d, acts |-> acts]}
    PROVE  ArcsAreKept'
  <1>1. PICK arc \in Arc : arc.TargetNode = d /\ Appended(n, arc)
    BY NewArc
  <1>2. /\ Arcs \in [Nodes -> Seq(Arc)] /\ Arcs[n] \in Seq(Arc)
        /\ Arcs' = [Arcs EXCEPT ![n] = Append(@, arc)]
    BY <1>1 DEF ReportsTypeOK, Appended
  <1>3. /\ Arcs'[n] = Append(Arcs[n], arc)
        /\ \A m \in Nodes : m # n => Arcs'[m] = Arcs[m]
    BY <1>2
  <1> PICK q : q = Arcs[n]
    OBVIOUS
  <1>4. /\ Len(q) \in Nat /\ DOMAIN q = 1 .. Len(q)
        /\ DOMAIN Append(q, arc) = 1 .. Len(q) + 1
        /\ \A k \in 1 .. Len(q) : Append(q, arc)[k] = q[k]
        /\ Append(q, arc)[Len(q) + 1] = arc
    BY <1>2, AddedArc
  <1>5. ASSUME NEW a \in arcs'
        PROVE  \E k \in DOMAIN Arcs'[a.from] : Arcs'[a.from][k].TargetNode = a.to
    <2>1. CASE a \in arcs
      <3>1. a.from \in Nodes
        BY <2>1 DEF TypeOK
      <3>2. CASE a.from = n
        <4>1. \E k \in DOMAIN q : q[k].TargetNode = a.to
          BY <2>1, <3>2 DEF ArcsAreKept
        <4>2. \E k \in DOMAIN Append(q, arc) : Append(q, arc)[k].TargetNode = a.to
          BY ONLY <1>4, <4>1, TargetKept
        <4> QED  BY <1>3, <3>2, <4>2
      <3>3. CASE a.from # n
        BY <1>3, <2>1, <3>1, <3>3 DEF ArcsAreKept
      <3> QED  BY <3>2, <3>3
    <2>2. CASE a \notin arcs
      <3>1. a.from = n /\ a.to = d
        BY <2>2
      <3>2. Len(q) + 1 \in DOMAIN Append(q, arc)
        BY <1>4
      <3> QED  BY <1>1, <1>3, <1>4, <3>1, <3>2
    <2> QED  BY <2>1, <2>2
  <1> QED  BY <1>5 DEF ArcsAreKept

LEMMA KeptNext ==
    ASSUME ExplorerInv, ShowingInv, ArcsAreKept, [ReportsNext]_<<vars, reportVars>>
    PROVE  ArcsAreKept'
  <1> USE NodeFacts
  <1>1. TypeOK /\ EntriesAreLive /\ NodesAreReached /\ ReportsTypeOK
    BY DEF ExplorerInv, ShowingInv
  <1>2. CASE ConstructAndRecord
    <2>1. PICK x : /\ x \in Outcome /\ Digest(x.value) \in Digests
                   /\ arcs' = arcs \cup {[from |-> InitialNode, to |-> Digest(x.value),
                                          acts |-> x.acts]}
                   /\ ArcAdded(InitialNode, Digest(x.value), Recorded(InitialNode, x))
      BY <1>1, <1>2, ConstructStep DEF ConstructAndRecord, Construct, AddArc, addArc, ArcAdded
    <2>2. Recorded(InitialNode, x) \in Seq(Action)
      BY <2>1, RecordedFacts
    <2> QED  BY <1>1, <2>1, <2>2, KeptAfterArc
  <1>3. CASE FastRunAndRecord
    <2> DEFINE e == Head(queue)
    <2>1. PICK x \in FastRun(program, heap[e.obj].value) :
             /\ x \in Outcome /\ Digest(x.value) \in Digests
             /\ AddArc(e.node, Digest(x.value), heap[e.obj].acts + x.acts)
      BY <1>1, <1>3, FastRunStep DEF FastRunAndRecord
    <2>2. /\ e.obj \in Objects /\ e.node \in Nodes /\ heap[e.obj].value \in Values
      BY <1>1, <1>3, PoppedIsLive DEF FastRunAndRecord, FastRunChild
    <2>3. x = CHOOSE y \in FastRun(program, heap[e.obj].value) : TRUE
      <3>1. \A u, v \in FastRun(program, heap[e.obj].value) : u = v
        BY <1>1, <2>2, ProgramAssumption DEF TypeOK
      <3> QED  BY <2>1, <3>1
    <2>4. ArcAdded(e.node, Digest(x.value), Actions[e.obj] \o Recorded(e.node, x))
      BY <1>3, <2>3 DEF FastRunAndRecord, addArc, ArcAdded
    <2>5. Actions[e.obj] \o Recorded(e.node, x) \in Seq(Action)
      <3>1. Recorded(e.node, x) \in Seq(Action)
        BY <2>1, <2>2, RecordedFacts
      <3>2. Actions[e.obj] \in Seq(Action)
        BY <1>1, <2>2 DEF ReportsTypeOK
      <3> QED  BY <3>1, <3>2, Concatenated
    <2>6. \E acts : arcs' = arcs \cup {[from |-> e.node, to |-> Digest(x.value), acts |-> acts]}
      BY <2>1 DEF AddArc
    <2> HIDE DEF e
    <2> QED  BY <1>1, <2>1, <2>2, <2>4, <2>5, <2>6, KeptAfterArc
  <1>4. CASE ForkAndRecord
    <2>1. PICK x \in current.todo :
             /\ AddArc(current.node, Digest(x.value), heap[current.obj].acts)
             /\ current' = [current EXCEPT !.todo = @ \ {x}]
      BY <1>4 DEF ForkAndRecord, ForkChild
    <2>2. /\ current \in Branching /\ current.todo \subseteq Outcome
          /\ current.obj \in Objects /\ current.node \in Nodes
      BY <1>1, <1>4, CurrentIsLive DEF ForkAndRecord, ForkChild
    <2>3. x = CHOOSE y \in current.todo : current'.todo = current.todo \ {y}
      <3>1. current'.todo = current.todo \ {x}
        BY <2>1, <2>2 DEF Branching
      <3> QED  BY <2>1, <3>1
    <2>4. ArcAdded(current.node, Digest(x.value), Actions[current.obj])
      BY <1>4, <2>3 DEF ForkAndRecord, addArc, ArcAdded
    <2>5. Digest(x.value) \in Digests /\ Actions[current.obj] \in Seq(Action)
      BY <1>1, <2>1, <2>2 DEF Outcome, Digests, ReportsTypeOK
    <2>6. \E acts :
             arcs' = arcs \cup {[from |-> current.node, to |-> Digest(x.value), acts |-> acts]}
      BY <2>1 DEF AddArc
    <2> QED  BY <1>1, <2>2, <2>4, <2>5, <2>6, KeptAfterArc
  <1>5. CASE StartForkingAndRecord \/ FinishAndRecord \/ WriteReport
             \/ UNCHANGED <<vars, reportVars>>
    <2>1. arcs' = arcs /\ Arcs' = Arcs
      BY <1>5 DEF StartForkingAndRecord, StartForking, FinishAndRecord, FinishNode, WriteReport,
                  vars, reportVars
    <2> QED  BY <2>1 DEF ArcsAreKept
  <1> QED  BY <1>2, <1>3, <1>4, <1>5 DEF ReportsNext

LEMMA KeptInvariance == ReportsSpec => []ArcsAreKept
  <1>1. ReportsInit => ArcsAreKept
    BY DEF ReportsInit, Init, ArcsAreKept
  <1>2. ExplorerInv /\ ShowingInv /\ ArcsAreKept /\ [ReportsNext]_<<vars, reportVars>>
           => ArcsAreKept'
    BY KeptNext
  <1> QED  BY <1>1, <1>2, ShowingInvariance, PTL DEF ReportsSpec

(* The arc that writePathToNode takes from p to n is there.                *)
LEMMA ArcToIsThere ==
    ASSUME ReportsTypeOK, NEW p \in Nodes, NEW n,
           \E k \in DOMAIN Arcs[p] : Arcs[p][k].TargetNode = n
    PROVE  \E k \in DOMAIN Arcs[p] : ArcTo(p, n) = Arcs[p][k] /\ Arcs[p][k].TargetNode = n
  <1> DEFINE I == {k \in 1 .. Len(Arcs[p]) : Arcs[p][k].TargetNode = n}
  <1>1. Arcs[p] \in Seq(Arc) /\ DOMAIN Arcs[p] = 1 .. Len(Arcs[p])
    BY DEF ReportsTypeOK
  <1>2. I # {} /\ I \in SUBSET Nat
    BY <1>1
  <1>3. ArcTo(p, n) = Arcs[p][CHOOSE j \in I : \A l \in I : j <= l]
    BY <1>2 DEF ArcTo, SelectInSeq, Min
  <1> PICK k : k = CHOOSE j \in I : \A l \in I : j <= l
    OBVIOUS
  <1>4. k \in I
    <2>1. \E j \in I : \A l \in I : j <= l
      <3> HIDE DEF I
      <3> QED  BY <1>2, LeastNumber
    <2> QED  BY <2>1
  <1> QED  BY <1>1, <1>3, <1>4

-----------------------------------------------------------------------------
(* What a path shows.                                                      *)

(* The Actions that the arcs along the path s show.                        *)
Shows(s, seqs) ==
    /\ Len(s) \in Nat /\ Len(s) > 1
    /\ seqs = [i \in 1 .. Len(s) - 1 |-> ArcTo(s[i], s[i + 1]).Actions]

(* One of them, at place of its arc.                                       *)
ArcOfPath(s, i, k) ==
    /\ s[i] \in nodes \cup {InitialNode}
    /\ k \in DOMAIN Arcs[s[i]]
    /\ ArcTo(s[i], s[i + 1]) = Arcs[s[i]][k]
    /\ Arcs[s[i]][k].TargetNode = s[i + 1]

LEMMA PathHasArcs ==
    ASSUME ExplorerInv, ShowingInv, ArcsAreKept, NEW n \in nodes, NEW s, IsPath(s, n),
           NEW i \in 1 .. Len(s) - 1
    PROVE  \E k : ArcOfPath(s, i, k)
  <1>1. Len(s) \in Nat /\ i + 1 \in 2 .. Len(s) /\ (i + 1) - 1 = i
    BY DEF IsPath
  <1>2. s[i + 1] \in nodes /\ prev[s[i + 1]] = s[i]
    BY <1>1 DEF IsPath
  <1>3. s[i] \in nodes \cup {InitialNode} /\ s[i] \in Nodes
    BY <1>2, ExplorerMakesATree, NodeFacts DEF PrevIsATree
  <1>4. PICK a \in arcs : a.from = s[i] /\ a.to = s[i + 1]
    BY <1>2 DEF ExplorerInv, PathsLeadBack
  <1>5. \E k \in DOMAIN Arcs[s[i]] : Arcs[s[i]][k].TargetNode = s[i + 1]
    BY <1>4 DEF ArcsAreKept
  <1>6. ReportsTypeOK
    BY DEF ShowingInv
  <1>7. \E k \in DOMAIN Arcs[s[i]] : /\ ArcTo(s[i], s[i + 1]) = Arcs[s[i]][k]
                                     /\ Arcs[s[i]][k].TargetNode = s[i + 1]
    BY <1>3, <1>5, <1>6, ArcToIsThere
  <1> QED  BY <1>3, <1>7 DEF ArcOfPath

LEMMA LongPath ==
    ASSUME PrevIsATree, NEW n \in nodes, NEW s, IsPath(s, n)
    PROVE  Len(s) \in Nat /\ Len(s) > 1 /\ DOMAIN s = 1 .. Len(s)
  <1>1. /\ s \in Seq(Nodes) /\ Len(s) \in Nat \ {0} /\ s[Len(s)] = n
        /\ s[1] = InitialNode /\ n # InitialNode
    BY DEF IsPath, PrevIsATree
  <1>2. Len(s) # 1
    BY <1>1
  <1> QED  BY <1>1, <1>2

LEMMA ShownAlongPath ==
    ASSUME ExplorerInv, ShowingInv, ArcsAreKept, NEW n \in nodes,
           NEW s, s = PathTo(n), NEW seqs, Shows(s, seqs)
    PROVE  Pieces(Action, ActionsOnPath(n), seqs, Len(s) - 1)
  <1>1. PrevIsATree
    BY ExplorerMakesATree
  <1>2. IsPath(s, n)
    BY <1>1, PathToIsPath
  <1>3. ASSUME NEW i \in 1 .. Len(s) - 1  PROVE seqs[i] \in Seq(Action)
    <2>1. PICK k : ArcOfPath(s, i, k)
      BY <1>2, PathHasArcs
    <2>2. Arcs[s[i]] \in Seq(Arc)
      BY <1>1, <2>1, NodeFacts DEF ArcOfPath, ShowingInv, ReportsTypeOK, PrevIsATree
    <2>3. Arcs[s[i]][k] \in Arc
      BY <2>1, <2>2 DEF ArcOfPath
    <2>4. seqs[i] = Arcs[s[i]][k].Actions
      BY <2>1 DEF ArcOfPath, Shows
    <2> QED  BY <2>3, <2>4 DEF Arc
  <1>4. seqs \in Seq(Seq(Action)) /\ Len(seqs) = Len(s) - 1 /\ Len(seqs) # 0
    <2>1. Len(s) - 1 \in Nat /\ Len(s) - 1 # 0
      BY DEF Shows
    <2> PICK l \in Nat : l = Len(s) - 1
      BY <2>1
    <2>2. seqs = [i \in 1 .. l |-> seqs[i]]
      BY DEF Shows
    <2>3. seqs \in [1 .. l -> Seq(Action)]
      BY <1>3, <2>2
    <2>4. seqs \in Seq(Seq(Action)) /\ Len(seqs) = l
      BY <2>3
    <2> QED  BY <2>1, <2>4
  <1>5. ActionsOnPath(n) = FlattenSeq(seqs)
    BY DEF ActionsOnPath, Shows
  <1> QED  BY <1>4, <1>5, FlattenSeqPieces

(* The Action at place p of piece i leads to node i of the path, or to the *)
(* next, and those to the next come after.                                 *)
LEMMA LeadsAlongPath ==
    ASSUME ShowingInv, nodes \subseteq Nodes, NEW s, NEW seqs, Shows(s, seqs),
           NEW i \in 1 .. Len(s) - 1, NEW k, ArcOfPath(s, i, k)
    PROVE  \E into \in 0 .. Len(seqs[i]) : \A p \in 1 .. Len(seqs[i]) :
              seqs[i][p].to = IF p <= into THEN s[i] ELSE s[i + 1]
  <1>1. seqs[i] = Arcs[s[i]][k].Actions /\ Arcs[s[i]][k].TargetNode = s[i + 1]
    BY DEF ArcOfPath, Shows
  <1>2. IsSplit(s[i], Arcs[s[i]][k].TargetNode, Arcs[s[i]][k].Actions)
    BY NodeFacts DEF ArcOfPath, ShowingInv, ArcsAreSplit, ArcIsSplit
  <1> PICK q, m, to : q = seqs[i] /\ m = s[i] /\ to = s[i + 1]
    OBVIOUS
  <1>3. IsSplit(m, to, q)
    BY <1>1, <1>2
  <1>4. PICK into \in 0 .. Len(q) : \A p \in 1 .. Len(q) :
           IF p <= into THEN q[p].to = m /\ q[p].number = p /\ q[p].from # m
           ELSE q[p].from = m /\ q[p].to = to /\ q[p].number = p - into
    BY <1>3 DEF IsSplit
  <1>5. \A p \in 1 .. Len(q) : q[p].to = IF p <= into THEN m ELSE to
    BY <1>4
  <1> QED  BY <1>5

(* Action a is at place q of piece p of the path.                          *)
Placed(s, seqs, a, p, q) ==
    /\ p \in 1 .. Len(s) - 1 /\ p \in Nat /\ q \in Nat
    /\ p \in DOMAIN s /\ p + 1 \in DOMAIN s
    /\ q \in 1 .. Len(seqs[p])
    /\ a = seqs[p][q]

LEMMA PlacedBetween ==
    ASSUME ShowingInv, nodes \subseteq Nodes, NEW s, NEW seqs, Shows(s, seqs),
           NEW p \in 1 .. Len(s) - 1, NEW k, ArcOfPath(s, p, k),
           NEW a, NEW q, Placed(s, seqs, a, p, q), NEW b, NEW r, Placed(s, seqs, b, p, r)
    PROVE  /\ a.to \in {s[p], s[p + 1]}
           /\ q < r => a.to = s[p] \/ b.to = s[p + 1]
  <1>1. PICK into \in 0 .. Len(seqs[p]) : \A x \in 1 .. Len(seqs[p]) :
           seqs[p][x].to = IF x <= into THEN s[p] ELSE s[p + 1]
    BY LeadsAlongPath
  <1>2. /\ a.to = IF q <= into THEN s[p] ELSE s[p + 1]
        /\ b.to = IF r <= into THEN s[p] ELSE s[p + 1]
    BY <1>1 DEF Placed
  <1>3. q \in Nat /\ r \in Nat /\ into \in Nat
    BY <1>1 DEF Placed
  <1> QED  BY <1>2, <1>3

LEMMA PlacedOnArc ==
    ASSUME ShowingInv, nodes \subseteq Nodes, NEW s, NEW seqs, Shows(s, seqs),
           NEW p \in 1 .. Len(s) - 1, NEW k, ArcOfPath(s, p, k),
           NEW a, NEW q, Placed(s, seqs, a, p, q)
    PROVE  /\ s[p] \in Nodes /\ k \in DOMAIN Arcs[s[p]]
           /\ q \in DOMAIN Arcs[s[p]][k].Actions /\ a = Arcs[s[p]][k].Actions[q]
  <1>1. s[p] \in Nodes /\ k \in DOMAIN Arcs[s[p]] /\ seqs[p] = Arcs[s[p]][k].Actions
    BY NodeFacts DEF ArcOfPath, Shows
  <1>2. Arcs[s[p]][k] \in Arc
    BY <1>1 DEF ShowingInv, ReportsTypeOK
  <1>3. seqs[p] \in Seq(Action)
    BY <1>1, <1>2 DEF Arc
  <1>4. q \in DOMAIN seqs[p] /\ a = seqs[p][q]
    BY <1>3 DEF Placed
  <1> QED  BY <1>1, <1>4

(* Pieces of a path that does not repeat are in the order of its nodes.    *)
LEMMA OrderOfPlaces ==
    ASSUME NEW p \in Nat, NEW t \in Nat, NEW q, NEW r, NEW x, NEW y,
           p < t \/ (p = t /\ q < r),
           x \in {p, p + 1}, y \in {t, t + 1},
           p = t /\ q < r => x = p \/ y = t + 1
    PROVE  x <= y
  OBVIOUS

LEMMA PathShowsInOrder ==
    ASSUME ExplorerInv, ShowingInv, ArcsAreKept, NEW n \in nodes
    PROVE  LET path  == PathTo(n)
               shown == ActionsOnPath(n)
               at(a) == CHOOSE i \in DOMAIN path : path[i] = a.to
           IN  /\ \A i \in DOMAIN shown : shown[i].to \in Range(path)
               /\ \A i, j \in DOMAIN shown : i < j => at(shown[i]) <= at(shown[j])
               /\ IsInjective(shown)
  <1> PICK s, out : s = PathTo(n) /\ out = ActionsOnPath(n)
    OBVIOUS
  <1> DEFINE at(a) == CHOOSE i \in DOMAIN s : s[i] = a.to
  <1>1. PrevIsATree /\ nodes \subseteq Nodes
    BY ExplorerMakesATree DEF PrevIsATree
  <1>2. IsPath(s, n)
    BY <1>1, PathToIsPath
  <1>3. Len(s) \in Nat /\ Len(s) > 1 /\ DOMAIN s = 1 .. Len(s)
    BY <1>1, <1>2, LongPath
  <1>4. PICK seqs : Shows(s, seqs)
    BY <1>3 DEF Shows
  <1>5. Pieces(Action, out, seqs, Len(s) - 1)
    BY <1>4, ShownAlongPath
  <1>6. PICK piece, place :
           LiesAt(out, seqs, piece, place, Len(s) - 1) /\ InOrder(piece, place, Len(out))
    BY <1>5 DEF Pieces
  <1>7. DOMAIN out = 1 .. Len(out) /\ Len(out) \in Nat
    BY <1>5 DEF Pieces
  <1>8. ASSUME NEW i \in DOMAIN s, NEW a, a.to = s[i]  PROVE at(a) = i
    <2>1. \A j \in DOMAIN s : s[j] = a.to => j = i
      BY <1>1, <1>2, <1>3, <1>8, PathsDoNotRepeat
    <2> QED  BY <1>8, <2>1
  <1> HIDE DEF at
  <1>9. ASSUME NEW x \in DOMAIN out  PROVE Placed(s, seqs, out[x], piece[x], place[x])
    <2>1. /\ piece[x] \in 1 .. Len(s) - 1
          /\ place[x] \in 1 .. Len(seqs[piece[x]]) /\ out[x] = seqs[piece[x]][place[x]]
      BY <1>6, <1>7 DEF LiesAt
    <2>2. piece[x] \in DOMAIN s /\ piece[x] + 1 \in DOMAIN s /\ piece[x] \in Nat
      BY <1>3, <2>1
    <2> QED  BY <1>3, <2>1, <2>2 DEF Placed
  <1>10. ASSUME NEW x \in DOMAIN out, NEW y \in DOMAIN out
         PROVE  /\ out[x].to \in Range(s)
                /\ x < y => at(out[x]) <= at(out[y])
                /\ out[x] = out[y] => ~ x < y
    <2> PICK a, p, q, b, t, r : /\ a = out[x] /\ p = piece[x] /\ q = place[x]
                                /\ b = out[y] /\ t = piece[y] /\ r = place[y]
      OBVIOUS
    <2>1. Placed(s, seqs, a, p, q) /\ Placed(s, seqs, b, t, r)
      BY <1>9
    <2>2. /\ p \in 1 .. Len(s) - 1 /\ t \in 1 .. Len(s) - 1 /\ p \in Nat /\ t \in Nat
          /\ p \in DOMAIN s /\ p + 1 \in DOMAIN s /\ t \in DOMAIN s /\ t + 1 \in DOMAIN s
          /\ q \in Nat /\ r \in Nat
      BY <2>1 DEF Placed
    <2>3. x < y => p < t \/ (p = t /\ q < r)
      BY <1>6, <1>7 DEF InOrder
    <2>4. PICK k : ArcOfPath(s, p, k)
      BY <1>2, <2>2, PathHasArcs
    <2>5. PICK l : ArcOfPath(s, t, l)
      BY <1>2, <2>2, PathHasArcs
    <2>6. a.to \in {s[p], s[p + 1]}
      BY ONLY ShowingInv, <1>1, <1>4, <2>1, <2>2, <2>4, PlacedBetween
    <2>7. b.to \in {s[t], s[t + 1]}
      BY ONLY ShowingInv, <1>1, <1>4, <2>1, <2>2, <2>5, PlacedBetween
    <2>8. p = t /\ q < r => a.to = s[p] \/ b.to = s[t + 1]
      BY ONLY ShowingInv, <1>1, <1>4, <2>1, <2>2, <2>4, PlacedBetween
    <2>9. a.to = s[p] => at(a) = p
      BY <1>8, <2>2
    <2>10. a.to = s[p + 1] => at(a) = p + 1
      BY <1>8, <2>2
    <2>11. b.to = s[t] => at(b) = t
      BY <1>8, <2>2
    <2>12. b.to = s[t + 1] => at(b) = t + 1
      BY <1>8, <2>2
    <2>13. x < y => at(a) <= at(b)
      <3> PICK u, v : u = at(a) /\ v = at(b)
        OBVIOUS
      <3>1. u \in {p, p + 1} /\ v \in {t, t + 1} /\ (p = t /\ q < r => u = p \/ v = t + 1)
        BY <2>6, <2>7, <2>8, <2>9, <2>10, <2>11, <2>12
      <3>2. x < y => u <= v
        BY ONLY <2>2, <2>3, <3>1, OrderOfPlaces
      <3> QED  BY <3>2
    <2>14. a.to \in Range(s)
      BY <2>2, <2>6 DEF Range
    <2>15. a = b => ~ x < y
      <3> SUFFICES ASSUME a = b, x < y  PROVE FALSE
        OBVIOUS
      <3>1. /\ s[p] \in Nodes /\ k \in DOMAIN Arcs[s[p]]
            /\ q \in DOMAIN Arcs[s[p]][k].Actions /\ a = Arcs[s[p]][k].Actions[q]
        BY ONLY ShowingInv, <1>1, <1>4, <2>1, <2>2, <2>4, PlacedOnArc
      <3>2. /\ s[t] \in Nodes /\ l \in DOMAIN Arcs[s[t]]
            /\ r \in DOMAIN Arcs[s[t]][l].Actions /\ b = Arcs[s[t]][l].Actions[r]
        BY ONLY ShowingInv, <1>1, <1>4, <2>1, <2>2, <2>5, PlacedOnArc
      <3>3. s[p] = s[t] /\ q = r
        <4> PICK m, o : m = s[p] /\ o = s[t]
          OBVIOUS
        <4>1. m = o /\ q = r
          BY <3>1, <3>2, ShownOnce
        <4> QED  BY <4>1
      <3>4. p = t
        BY <1>1, <1>2, <1>3, <2>2, <3>3, PathsDoNotRepeat
      <3> QED  BY <2>2, <2>3, <3>3, <3>4
    <2> QED  BY <2>13, <2>14, <2>15
  <1>11. IsInjective(out)
    <2>1. ASSUME NEW x \in DOMAIN out, NEW y \in DOMAIN out, out[x] = out[y]  PROVE x = y
      <3>1. ~ x < y /\ ~ y < x
        BY <1>10, <2>1
      <3> QED  BY <1>7, <3>1
    <2> QED  BY <2>1 DEF IsInjective
  <1> QED  BY <1>10, <1>11 DEF at

(* The path of an error shows no Action twice, and in the order in which   *)
(* its nodes are passed.                                                   *)
THEOREM PathsAreInOrder == ReportsSpec => []PathsShowRunsInOrder
  <1>1. ExplorerInv /\ ShowingInv /\ ArcsAreKept => PathsShowRunsInOrder
    BY PathShowsInOrder DEF PathsShowRunsInOrder
  <1> QED  BY <1>1, ShowingInvariance, KeptInvariance, PTL
=============================================================================
