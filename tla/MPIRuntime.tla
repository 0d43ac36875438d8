----------------------------- MODULE MPIRuntime -----------------------------
(***************************************************************************)
(* One path through the program states Aislinn explores.                   *)
(*                                                                         *)
(* The verified program is any legal MPI client: a rank that runs posts    *)
(* sends and receives, then waits for or tests requests it holds, or       *)
(* returns from main.  Ranks run one at a time (the interpreter has one    *)
(* current process) and pause in MPI_Wait, MPI_Waitall and MPI_Test; which *)
(* paused rank goes on, and with which messages, is the explorer's choice  *)
(* (StateSpace::computeChilds), one outgoing arc for every choice.  The    *)
(* work queue, hashing and the graph of nodes are in StateSpace.tla.       *)
(***************************************************************************)
EXTENDS MPIObjects

CONSTANTS
    Links,        \* pairs <<from, to>> of ranks that may talk
    MaxPosts      \* bound on the requests each rank posts

ASSUME LinksAssumption == Links \subseteq Ranks \X Ranks

ASSUME MaxPostsAssumption == MaxPosts \in [Ranks -> Nat]

VARIABLES
    running,    \* the rank the interpreter is running, or Nobody
    booted,     \* ranks 0 .. booted-1 have started main
    procs,      \* ProgramState::Processes
    messages,   \* ProgramState::Messages
    flag,       \* the int the program passed to its last MPI_Test
    held,       \* [id, post] of the requests the program still holds
    posts,      \* how many requests each rank has posted (numbers them)
    delivered   \* history: pairs [send, recv] matched so far

vars == <<running, booted, procs, messages, flag, held, posts, delivered>>

Nobody == -1

Delivery == [send : Message,
             recv : [rank : Ranks, sender : Ranks \cup {AnySource},
                     tag : Tags, post : Nat]]

Handle == [id : RequestIds, post : Nat]

RuntimeTypeOK ==
    /\ running \in Ranks \cup {Nobody}
    /\ booted \in 0 .. NumRanks
    /\ procs \in [Ranks -> ProcessState]
    /\ messages \subseteq Message
    /\ flag \in [Ranks -> {0, 1}]
    /\ held \in [Ranks -> SUBSET Handle]
    /\ posts \in [Ranks -> Nat]
    /\ delivered \subseteq Delivery

RecvOf(r, R) == [rank |-> r, sender |-> R.sender, tag |-> R.tag, post |-> R.post]

-----------------------------------------------------------------------------
Init ==
    /\ running = Nobody
    /\ booted = 0
    /\ procs = [r \in Ranks |-> InitProcessState]
    /\ messages = {}
    /\ flag = [r \in Ranks |-> 0]
    /\ held = [r \in Ranks |-> {}]
    /\ posts = [r \in Ranks |-> 0]
    /\ delivered = {}

(* Mutant of Boot: a rank is started a second time.                        *)
BootAgain(r) ==
    /\ running = Nobody
    /\ r <= booted
    /\ running' = r
    /\ booted' = booted + 1
    /\ UNCHANGED <<procs, messages, flag, held, posts, delivered>>

(* The constructor of StateSpace runs main of each rank, in rank order, up *)
(* to its first pause.                                                     *)
Boot(r) ==
    /\ running = Nobody
    /\ booted = r
    /\ running' = r
    /\ booted' = booted + 1
    /\ UNCHANGED <<procs, messages, flag, held, posts, delivered>>

-----------------------------------------------------------------------------
(* MPI calls of the running rank.                                          *)

Post(r, id, R) ==
    /\ IsNewRequestId(procs[r].requests, id)
    /\ procs' = [procs EXCEPT ![r] = SetRequest(@, id, R)]
    /\ held' = [held EXCEPT ![r] = @ \cup {[id |-> id, post |-> R.post]}]
    /\ posts' = [posts EXCEPT ![r] = R.post]

Isend(r, target, tag, id) ==
    LET m == [from |-> r, to |-> target, tag |-> tag, seq |-> posts[r] + 1]
    IN  /\ running = r
        /\ <<r, target>> \in Links
        /\ posts[r] < MaxPosts[r]
        /\ messages' = messages \cup {m}
        /\ Post(r, id, [type |-> "REQUEST_SSEND", msg |-> m, post |-> m.seq])
        /\ UNCHANGED <<running, booted, flag, delivered>>

Irecv(r, sender, tag, id) ==
    /\ running = r
    /\ \E q \in Ranks : <<q, r>> \in Links /\ sender \in {q, AnySource}
    /\ posts[r] < MaxPosts[r]
    /\ Post(r, id, [type |-> "REQUEST_RECV", sender |-> sender, tag |-> tag,
                    post |-> posts[r] + 1])
    /\ UNCHANGED <<running, booted, messages, flag, delivered>>

(* The three calls that pause the interpreter.                             *)
Pause(r, p) ==
    /\ running = r
    /\ running' = Nobody
    /\ procs' = [procs EXCEPT ![r] = p]
    /\ UNCHANGED <<booted, messages, held, posts, delivered>>

Wait(r, h) ==
    /\ h \in held[r]
    /\ Pause(r, SetWait(procs[r], {h.id}))
    /\ UNCHANGED flag

Waitall(r, hs) ==
    /\ hs \subseteq held[r]
    /\ Pause(r, SetWait(procs[r], {h.id : h \in hs}))
    /\ UNCHANGED flag

(* Mutant of Test: the flag keeps what an earlier Test left in it.         *)
TestKeepsFlag(r, h) ==
    /\ h \in held[r]
    /\ Pause(r, SetTest(procs[r], h.id))
    /\ UNCHANGED flag

Test(r, h) ==
    /\ h \in held[r]
    /\ Pause(r, SetTest(procs[r], h.id))
    /\ flag' = [flag EXCEPT ![r] = 0]

(* main returned: afterRunAction.                                          *)
Return(r) ==
    /\ Pause(r, SetFinished(procs[r]))
    /\ UNCHANGED flag

-----------------------------------------------------------------------------
(* Choices of the explorer between two runs.                               *)

Paused == running = Nobody /\ booted = NumRanks

FastRunnable(r) == CanFastRun(procs[r], messages)

(* A paused rank goes on: its MPI call returns 0.  The program drops the   *)
(* requests it waited for, and those of a Test only if the flag says so.   *)
Resume(r, newFlag) ==
    /\ running' = r
    /\ flag' = [flag EXCEPT ![r] = newFlag]
    /\ held' = [held EXCEPT ![r] =
                  IF procs[r].status = "PS_WAIT" \/ newFlag = 1
                  THEN {h \in @ : h.id \notin procs[r].active}
                  ELSE @]

(* computeChilds takes the first rank that needs no decision and looks at  *)
(* no other.                                                               *)
FastRunWait(r) ==
    /\ Paused
    /\ FastRunnable(r)
    /\ \A q \in Ranks : q < r => ~ FastRunnable(q)
    /\ procs' = [procs EXCEPT ![r] = RemoveRequests(@, @.active)]
    /\ Resume(r, flag[r])
    /\ UNCHANGED <<booted, messages, posts, delivered>>

Forking == Paused /\ \A q \in Ranks : ~ FastRunnable(q)

(* forkWaitOrTest, first part: the Test reports that nothing is done.      *)
TestNotReady(r) ==
    /\ Forking
    /\ procs[r].status = "PS_TEST"
    /\ Resume(r, flag[r])
    /\ UNCHANGED <<booted, procs, messages, posts, delivered>>

Deliveries(r, p, f) ==
    {[send |-> f[i], recv |-> RecvOf(r, p.requests[i])] :
        i \in {j \in DOMAIN f : f[j] # NoMessage}}

(* forkWaitOrTest, second part: one way to match the receives.             *)
ForkWaitOrTest(r, f) ==
    LET p == procs[r]
    IN  /\ Forking
        /\ p.status \in {"PS_WAIT", "PS_TEST"}
        /\ SendsReceived(p, messages)
        /\ f \in WaitMatchings(p, r, messages)
        /\ Resume(r, IF p.hasFlag THEN 1 ELSE flag[r])
        /\ messages' = RemoveMessages(messages, Taken(f))
        /\ procs' = [procs EXCEPT ![r] = AfterMatching(p, f)]
        /\ delivered' = delivered \cup Deliveries(r, p, f)
        /\ UNCHANGED <<booted, posts>>

-----------------------------------------------------------------------------
ClientStep(r) ==
    \/ \E target \in Ranks, tag \in Tags, id \in RequestIds :
          Isend(r, target, tag, id)
    \/ \E sender \in Ranks \cup {AnySource}, tag \in Tags, id \in RequestIds :
          Irecv(r, sender, tag, id)
    \/ \E h \in held[r] : Wait(r, h)
    \/ \E hs \in SUBSET held[r] : Waitall(r, hs)
    \/ \E h \in held[r] : Test(r, h)
    \/ Return(r)

ExplorerStep(r) ==
    \/ Boot(r)
    \/ FastRunWait(r)
    \/ TestNotReady(r)
    \/ \E f \in WaitMatchings(procs[r], r, messages) : ForkWaitOrTest(r, f)

Next == \E r \in Ranks : ClientStep(r) \/ ExplorerStep(r)

Spec == Init /\ [][Next]_vars

-----------------------------------------------------------------------------
(* Properties.                                                             *)

(* Slots grow in posting order.  forkWaitOrTest collects the receives of a *)
(* rank by increasing slot and takes that for the order they were posted;  *)
(* newRequest must never fill a hole left by a finished request.           *)
IdsFollowPostOrder ==
    \A r \in Ranks : \A i, j \in LiveIds(procs[r].requests) :
        i < j => procs[r].requests[i].post < procs[r].requests[j].post

(* A handle the program still holds names the request it was returned for, *)
(* and every live request has its handle: no id is given out twice, and no *)
(* request is dropped or kept behind the back of the program, through any  *)
(* interleaving of Wait, Waitall, early completion and Test with its flag. *)
HandlesNameTheirRequests ==
    \A r \in Ranks :
        held[r] = {[id |-> i, post |-> procs[r].requests[i].post] :
                      i \in LiveIds(procs[r].requests)}

(* Every in-flight message has its SSEND request at its sender: the sender *)
(* can still learn that it was received.                                   *)
InFlightHasRequest ==
    \A m \in messages : \E i \in RequestIds :
        LET R == procs[m.from].requests[i]
        IN  R.type = "REQUEST_SSEND" /\ R.msg = m

(* A receive completed ahead of its Wait was matched, and a receive still  *)
(* pending was not.                                                        *)
TypeTellsDelivery ==
    \A r \in Ranks, i \in RequestIds :
        LET R == procs[r].requests[i]
        IN  R.type \in {"REQUEST_RECV", "REQUEST_RECV_COMPLETED"} =>
              ((R.type = "REQUEST_RECV_COMPLETED") <=>
                  \E d \in delivered : d.recv = RecvOf(r, R))

(* What MPI has seen: everything posted, matched or not.                   *)
PendingRecvs(r) ==
    {RecvOf(r, procs[r].requests[i]) :
        i \in {j \in RequestIds : IsPendingRecv(procs[r].requests[j])}}

PostedRecvs ==
    (UNION {PendingRecvs(r) : r \in Ranks}) \cup {d.recv : d \in delivered}

PostedSends == messages \cup {d.send : d \in delivered}

Matching == INSTANCE MPIMatching WITH
    sends <- PostedSends, recvs <- PostedRecvs, matched <- delivered

(* The non-overtaking rule of MPI holds for everything matched along the   *)
(* path, over receives completed ahead of their Wait, holes in the request *)
(* table, wildcards and messages that came meanwhile.                      *)
MatchingIsLegal == Matching!NonOvertaking(PostedSends, PostedRecvs, delivered)

(* The number of every post, live, in flight or delivered, was given out.  *)
NumbersAreGivenOut ==
    /\ \A m \in messages : m.seq <= posts[m.from]
    /\ \A r \in Ranks : \A i \in LiveIds(procs[r].requests) :
          procs[r].requests[i].post <= posts[r]
    /\ \A d \in delivered : /\ d.send.seq <= posts[d.send.from]
                           /\ d.recv.post <= posts[d.recv.rank]

(* No message is received and still in flight.                             *)
InFlightNotDelivered == \A m \in messages : \A d \in delivered : d.send # m

(* A process has a FlagPtr just while its last call was a Test, and the    *)
(* flag of a Test that is still undecided is 0.                            *)
UndecidedTestIsClear ==
    \A r \in Ranks :
        /\ procs[r].hasFlag <=> procs[r].status = "PS_TEST"
        /\ procs[r].status = "PS_TEST" /\ running # r => flag[r] = 0

(* The non-overtaking rule needs the order of the slots, the numbers and   *)
(* the agreement of tables, deque and history to survive a step.           *)
TablesInv ==
    /\ RuntimeTypeOK
    /\ IdsFollowPostOrder
    /\ NumbersAreGivenOut
    /\ InFlightNotDelivered
    /\ TypeTellsDelivery
    /\ MatchingIsLegal
    /\ UndecidedTestIsClear
    /\ HandlesNameTheirRequests
    /\ InFlightHasRequest

(* A send request is for a message that is in flight or was delivered.     *)
SendsAreAccountedFor ==
    \A r \in Ranks, i \in RequestIds :
        LET R == procs[r].requests[i]
        IN  R.type = "REQUEST_SSEND" => R.msg \in PostedSends

(* A rank that does not run waits for requests that are in its table.      *)
WaitedRequestsAreLive ==
    \A r \in Ranks : running # r => procs[r].active \subseteq LiveIds(procs[r].requests)

(* The inductive invariant behind the theorems of MPIRuntime_proofs; the   *)
(* last two parts say what a call that returns relies on.                  *)
RuntimeInv ==
    /\ TablesInv
    /\ SendsAreAccountedFor
    /\ WaitedRequestsAreLive

(* Every step of the explorer and of the program is a step of the abstract *)
(* specification of MPI matching, or none of its business.                 *)
ImplementsMatching == Matching!MatchingSpec

IsDone(r, R, ms, ds) ==
    IF R.type = "REQUEST_SSEND"
    THEN R.msg \notin ms /\ \E d \in ds : d.send = R.msg
    ELSE \E d \in ds : d.recv = RecvOf(r, R)

AllAreDone(r) ==
    \A i \in procs[r].active : IsDone(r, procs[r].requests[i], messages, delivered)

(* A call whose requests are all done is not held up: a Wait or a Waitall  *)
(* needs no decision any more, and a Test can set its flag.                *)
DoneCallsCanReturn ==
    \A r \in Ranks : running # r /\ AllAreDone(r) =>
        /\ procs[r].status = "PS_WAIT" => FastRunnable(r)
        /\ procs[r].status = "PS_TEST" => /\ SendsReceived(procs[r], messages)
                                         /\ WaitMatchings(procs[r], r, messages) # {}

(* A Wait, a Waitall or a Test that sets its flag returns only when every  *)
(* request it names is done, and then all of them are gone; a Test whose   *)
(* flag is 0 leaves its request alone. And when all of them are done, the  *)
(* call can return (checkFastRunWait, forkWaitOrTest).                     *)
ReturnsExactlyWhenDone ==
    /\ []DoneCallsCanReturn
    /\ [][\A r \in Ranks :
         (running = Nobody /\ running' = r /\ booted' = booted) =>
            IF procs[r].status = "PS_WAIT" \/ flag'[r] = 1
            THEN \A i \in procs[r].active :
                    /\ IsDone(r, procs[r].requests[i], messages', delivered')
                    /\ ~ IsLive(procs'[r].requests, i)
            ELSE procs'[r].requests = procs[r].requests]_vars

CanGoOn(r, ps, ms) ==
    /\ ps[r].status = "PS_WAIT"
    /\ SendsReceived(ps[r], ms)
    /\ WaitMatchings(ps[r], r, ms) # {}

(* What other ranks do never takes away the possibility to go on from a    *)
(* waiting rank: this is what lets computeChilds run one decided rank and  *)
(* ignore the others in that node without losing their choices.            *)
ReadyStaysReady ==
    [][\A r \in Ranks : CanGoOn(r, procs, messages) /\ running # r /\ running' # r
                          => CanGoOn(r, procs', messages')]_vars

(* addError(DeadlockError): a node without arcs whose ranks did not all    *)
(* finish.                                                                 *)
ReportsDeadlock ==
    /\ Paused
    /\ \A r \in Ranks :
          /\ procs[r].status # "PS_TEST"
          /\ ~ FastRunnable(r)
          /\ ~ CanGoOn(r, procs, messages)
    /\ \E r \in Ranks : procs[r].status # "PS_FINISHED"

(* Rank r waits for sends only; each that is still in flight is the only   *)
(* message on its way to its target, which waits too and has posted a      *)
(* receive for it.  Every MPI run matches those pairs, so the call returns *)
(* in every MPI run.                                                       *)
MPIReturns(r) ==
    /\ procs[r].status = "PS_WAIT"
    /\ \A i \in procs[r].active :
          LET R == procs[r].requests[i]
          IN  /\ ~ IsPendingRecv(R)
              /\ R.type = "REQUEST_SSEND" /\ CheckMessage(messages, R.msg) =>
                    /\ \A m \in messages : m.to = R.msg.to => m = R.msg
                    /\ procs[R.msg.to].status = "PS_WAIT"
                    /\ \E j \in RequestIds :
                          LET Q == procs[R.msg.to].requests[j]
                          IN  IsPendingRecv(Q) /\ Fits(R.msg, R.msg.to, Q)

(* README.md:5 promises "all possible runs with respect to nondeterminism  *)
(* introduced by MPI": a state reported as a deadlock has no run in which  *)
(* a rank goes on.                                                         *)
DeadlockIsReal == ReportsDeadlock => \A r \in Ranks : ~ MPIReturns(r)
=============================================================================
