------------------------------- MODULE Reports -------------------------------
(***************************************************************************)
(* StateSpace with the Actions that runs record, the arcs that show them   *)
(* and the report that is written when the exploration is done.            *)
(*                                                                         *)
(* An action is named by the run that recorded it: the node the run went   *)
(* out from, the node it led to and a number.  The codes of failed mains   *)
(* are left out.                                                           *)
(***************************************************************************)
EXTENDS StateSpace, XMLWriter

CONSTANTS
    ToDecimal(_),   \* the digits of a number
    InputFile,      \* name of the program, a sequence of characters
    PageSize

VARIABLES
    Actions,    \* ProgramState::Actions of each object
    Arcs,       \* Node::Arcs, a sequence of [TargetNode, Actions]
    Errors,     \* StateSpace::Errors
    report      \* what report.xml contains, or NULL

reportVars == <<Actions, Arcs, Errors, report>>

Action == [from : Nodes, to : Digests, number : Nat]

Arc == [TargetNode : Digests, Actions : Seq(Action)]

ReportsInit ==
    /\ Init
    /\ Actions = [o \in Objects |-> << >>]
    /\ Arcs = [n \in Nodes |-> << >>]
    /\ Errors = << >>
    /\ report = NULL

(* The Actions that the run from node n with outcome x recorded.           *)
Recorded(n, x) ==
    [i \in 1 .. x.acts |-> [from |-> n, to |-> Digest(x.value), number |-> i]]

addArc(from, to, actions) ==
    Arcs' = [Arcs EXCEPT ![from] = Append(@, [TargetNode |-> to, Actions |-> actions])]

(* addError of the runs with outcome x, in the order of their ranks.       *)
ErrorsAfter(x, n) ==
    Errors' = Errors \o SetToSortSeq(ExitErrors(x, n), LAMBDA e, f : e.rank < f.rank)

ConstructAndRecord ==
    LET x == InitialRun(program)
    IN  /\ Construct
        /\ addArc(InitialNode, Digest(x.value), Recorded(InitialNode, x))
        /\ ErrorsAfter(x, NULL)
        /\ UNCHANGED <<Actions, report>>

FastRunAndRecord ==
    /\ FastRunChild
    /\ LET e == Head(queue)
           x == CHOOSE y \in FastRun(program, heap[e.obj].value) : TRUE
       IN  /\ addArc(e.node, Digest(x.value), Actions[e.obj] \o Recorded(e.node, x))
           /\ Actions' = [Actions EXCEPT ![e.obj] = << >>]
           /\ ErrorsAfter(x, e.node)
    /\ UNCHANGED report

StartForkingAndRecord == StartForking /\ UNCHANGED reportVars

(* Mutant of ActionsAfterFork: clearActions is forgotten.                  *)
ActionsAfterForkKept(x) ==
    Actions' = [Actions EXCEPT ![fresh] = Recorded(current.node, x)]

(* The run records in the copy, which starts without Actions; those of the *)
(* state that was copied go to the arc and are cleared.                    *)
ActionsAfterFork(x) ==
    Actions' = [Actions EXCEPT ![current.obj] = << >>, ![fresh] = Recorded(current.node, x)]

ForkAndRecord ==
    /\ ForkChild
    /\ LET x == CHOOSE y \in current.todo : current'.todo = current.todo \ {y}
       IN  /\ addArc(current.node, Digest(x.value), Actions[current.obj])
           /\ ActionsAfterFork(x)
           /\ ErrorsAfter(x, current.node)
    /\ UNCHANGED report

FinishAndRecord ==
    /\ FinishNode
    /\ Errors' = Errors \o SetToSeq(errors' \ errors)
    /\ UNCHANGED <<Actions, Arcs, report>>
-----------------------------------------------------------------------------
(* The first arc of p that leads to n.                                     *)
ArcTo(p, n) == Arcs[p][SelectInSeq(Arcs[p], LAMBDA a : a.TargetNode = n)]

(* The nodes that writePathToNode finds on the way back from n.            *)
PathTo(n) ==
    LET path[m \in nodes \cup {InitialNode}] ==
            IF prev[m] = NULL THEN <<m>> ELSE Append(path[prev[m]], m)
    IN  path[n]

(* Mutant of ActionsOnPath: the arcs are written in the order in which     *)
(* they are found.                                                         *)
ActionsOnPathFromNode(n) ==
    LET path == PathTo(n)
    IN  FlattenSeq([i \in 1 .. Len(path) - 1 |->
            ArcTo(path[Len(path) - i], path[Len(path) - i + 1]).Actions])

ActionsOnPath(n) ==
    LET path == PathTo(n)
    IN  FlattenSeq([i \in 1 .. Len(path) - 1 |-> ArcTo(path[i], path[i + 1]).Actions])

(* Action::write. Which action it is stands for its name and its rank.     *)
writeAction(a) == <<child("action"), set("name", a), back>>

writePathToNode(n) ==
    <<child("path")>> \o FlattenSeq([i \in DOMAIN ActionsOnPath(n) |->
                                        writeAction(ActionsOnPath(n)[i])]) \o <<back>>

Exited(rank) == <<"Rank ", ToDecimal(rank), " exited with code ">>

writeReportBody(e) ==
    (IF e.kind = "deadlock"
     THEN <<set("type", "deadlock")>> \o simpleChild("description", <<"Deadlock">>)
     ELSE <<set("type", "exitcode"), set("rank", ToDecimal(e.rank))>>
              \o simpleChild("description", Exited(e.rank)))
        \o writePathToNode(e.node)

writeError(e) == <<child("error")>> \o writeReportBody(e) \o <<back>>

writeStateSpace ==
    <<child("statistics")>> \o simpleChild("nodes", <<ToDecimal(Cardinality(nodes))>>) \o <<back>>
        \o <<child("analyses"), child("analysis"), set("name", "Deadlock"), back, back>>
        \o FlattenSeq([i \in DOMAIN Errors |-> writeError(Errors[i])])

(* writeReport of main.cpp.                                                *)
writeReport ==
    <<child("report"), set("version", "0")>>
        \o <<child("program")>> \o simpleChild("name", InputFile)
        \o simpleChild("processes", <<ToDecimal(Cardinality(Processes))>>) \o <<back>>
        \o <<child("settings")>> \o simpleChild("pagesize", <<ToDecimal(PageSize)>>) \o <<back>>
        \o writeStateSpace \o <<back>>

(* The path to a NULL node is undefined; no report comes of it.            *)
WriteReport ==
    /\ Done
    /\ report = NULL
    /\ \A i \in DOMAIN Errors : Errors[i].node # NULL
    /\ report' = Written(writeReport)
    /\ UNCHANGED <<vars, Actions, Arcs, Errors>>

ReportsNext ==
    \/ ConstructAndRecord
    \/ FastRunAndRecord \/ StartForkingAndRecord \/ ForkAndRecord \/ FinishAndRecord
    \/ WriteReport

ReportsSpec == ReportsInit /\ [][ReportsNext]_<<vars, reportVars>>
-----------------------------------------------------------------------------
Leaf(name, words) == Element(name, << >>, <<[text |-> words]>>)

Group(name, content) == Element(name, << >>, content)

ErrorElement(e) ==
    LET body == <<Leaf("description", IF e.kind = "deadlock" THEN <<"Deadlock">> ELSE Exited(e.rank)),
                  Group("path", [i \in DOMAIN ActionsOnPath(e.node) |->
                      Element("action", <<<<"name", ActionsOnPath(e.node)[i]>>>>, << >>)])>>
    IN  IF e.kind = "deadlock" THEN Element("error", <<<<"type", "deadlock">>>>, body)
        ELSE Element("error", <<<<"type", "exitcode">>, <<"rank", ToDecimal(e.rank)>>>>, body)

ReportElement ==
    Element("report", <<<<"version", "0">>>>,
        <<Group("program", <<Leaf("name", InputFile),
                             Leaf("processes", <<ToDecimal(Cardinality(Processes))>>)>>),
          Group("settings", <<Leaf("pagesize", <<ToDecimal(PageSize)>>)>>),
          Group("statistics", <<Leaf("nodes", <<ToDecimal(Cardinality(nodes))>>)>>),
          Group("analyses", <<Element("analysis", <<<<"name", "Deadlock">>>>, << >>)>>)>>
        \o [i \in DOMAIN Errors |-> ErrorElement(Errors[i])])

(* The report is one well-formed element whatever was found, and a reader  *)
(* gets out of it what was put in, the special characters of the name of   *)
(* the program included (main.cpp writeReport, XML::child, back and text). *)
ReportReadsBack == report # NULL => Read(report) = <<ReportElement>>

(* An arc shows the Actions of a run into its node, which led to the state *)
(* that was expanded there, and then those of its own run; only the first  *)
(* arc of a node shows any.                                                *)
ArcShowsRuns(n, k) ==
    LET arc   == Arcs[n][k]
        count == Len(arc.Actions)
    IN  /\ k > 1 => count = 0
        /\ \E into \in 0 .. count : \A i \in 1 .. count :
              LET a == arc.Actions[i]
              IN  IF i <= into THEN a.to = n /\ a.number = i
                  ELSE a.from = n /\ a.to = arc.TargetNode /\ a.number = i - into

(* No Action is shown twice, and none at a node that its run neither left  *)
(* nor reached, although a fork's Actions stay in its state until some     *)
(* rank goes on from there, duplicates of the state are dropped, and the   *)
(* next fork from it starts without them (forkWaitOrTest, clearActions).   *)
ActionsAreShownOnce ==
    /\ \A m, n \in nodes \cup {InitialNode} : \A k \in DOMAIN Arcs[m], l \in DOMAIN Arcs[n] :
          \A i \in DOMAIN Arcs[m][k].Actions, j \in DOMAIN Arcs[n][l].Actions :
             Arcs[m][k].Actions[i] = Arcs[n][l].Actions[j] => m = n /\ k = l /\ i = j
    /\ \A n \in nodes \cup {InitialNode} : \A k \in DOMAIN Arcs[n] : ArcShowsRuns(n, k)

(* The path to a node shows no Action twice and nothing but Actions of     *)
(* runs into nodes on the path, in the order of these nodes, although it   *)
(* is put together from first arcs and the predecessors of nodes change.   *)
(* It may show two runs into one node, one of them from off the path, and  *)
(* need not show all (writePathToNode).                                    *)
PathsShowRunsInOrder ==
    Done => \A n \in nodes :
        LET path  == PathTo(n)
            shown == ActionsOnPath(n)
            at(a) == CHOOSE i \in DOMAIN path : path[i] = a.to
        IN  /\ \A i \in DOMAIN shown : shown[i].to \in Range(path)
            /\ \A i, j \in DOMAIN shown : i < j => at(shown[i]) <= at(shown[j])
            /\ IsInjective(shown)
=============================================================================
