----------------------------- MODULE MPIObjects -----------------------------
(***************************************************************************)
(* The data an Aislinn program state is made of, and the operations of     *)
(* ProcessState, ProgramState and Request on it: request tables, in-flight *)
(* messages, and the ways the receives of one rank can be matched.         *)
(*                                                                         *)
(* A C++ object is a record here.  Two abstractions:                       *)
(*  - Message payloads, sizes and receive buffers are left out: no branch  *)
(*    of the explorer reads them.                                          *)
(*  - The pointer identity of a Message is the pair (from, seq), where seq *)
(*    numbers what a rank posted.  The deque ProgramState::Messages is the *)
(*    set of its elements: the code only ever asks which of two messages   *)
(*    of one sender is older, and that is the order of their seq, because  *)
(*    messages are appended, erased, and stably sorted by receiver.        *)
(***************************************************************************)
EXTENDS Integers, FiniteSets

CONSTANTS
    NumRanks,      \* number of MPI processes of the verified program
    Tags,          \* message tags
    AnySource,     \* MPI_ANY_SOURCE
    NoMessage,     \* a NULL Message*
    MaxRequests    \* bound on the slots of a request table

ASSUME NumRanksAssumption == NumRanks \in Nat \ {0}
ASSUME MaxRequestsAssumption == MaxRequests \in Nat

Ranks == 0 .. NumRanks - 1

ASSUME AnySourceAssumption == AnySource \notin Ranks

(* Slots of a request table; the id the verified program sees is the slot. *)
RequestIds == 0 .. MaxRequests - 1

Message == [from : Ranks, to : Ranks, tag : Tags, seq : Nat]

ASSUME NoMessageAssumption == NoMessage \notin Message

-----------------------------------------------------------------------------
(* Requests.  post numbers the requests one rank posted, in order.         *)

NoRequest == [type |-> "NULL"]

SsendRequest == [type : {"REQUEST_SSEND"}, msg : Message, post : Nat]

RecvRequest == [type : {"REQUEST_RECV", "REQUEST_RECV_COMPLETED"},
                sender : Ranks \cup {AnySource}, tag : Tags, post : Nat]

Request == SsendRequest \cup RecvRequest

RequestTable == [RequestIds -> Request \cup {NoRequest}]

EmptyTable == [i \in RequestIds |-> NoRequest]

IsLive(table, i) == table[i] # NoRequest

LiveIds(table) == {i \in RequestIds : IsLive(table, i)}

-----------------------------------------------------------------------------
(* ProcessState.  hasFlag is "FlagPtr is not NULL".  The vector Requests   *)
(* may end in NULL slots or be shorter: both are NoRequest slots here, and *)
(* newRequest gives the same id for both.                                  *)

Statuses == {"PS_WAIT", "PS_TEST", "PS_INITED", "PS_FINISHED"}

ProcessState == [status : Statuses,
                 active : SUBSET RequestIds,
                 hasFlag : BOOLEAN,
                 requests : RequestTable]

InitProcessState == [status |-> "PS_INITED", active |-> {},
                     hasFlag |-> FALSE, requests |-> EmptyTable]

SetWait(p, ids) ==
    [p EXCEPT !.status = "PS_WAIT", !.active = ids, !.hasFlag = FALSE]

SetTest(p, id) ==
    [p EXCEPT !.status = "PS_TEST", !.active = {id}, !.hasFlag = TRUE]

SetFinished(p) ==
    [p EXCEPT !.status = "PS_FINISHED", !.active = {}, !.hasFlag = FALSE]

(* Mutant of IsNewRequestId: fills the first hole.                         *)
IsFirstFreeId(table, id) ==
    /\ ~ IsLive(table, id)
    /\ \A j \in RequestIds : j < id => IsLive(table, j)

(* The slot after the last live one: holes below it are never refilled.    *)
IsNewRequestId(table, id) ==
    /\ \A j \in RequestIds : j >= id => ~ IsLive(table, j)
    /\ id > 0 => IsLive(table, id - 1)

SetRequest(p, id, R) == [p EXCEPT !.requests[id] = R]

(* Mutant of RemoveRequests: the loop stops after the first id.            *)
RemoveFirstRequest(p, ids) ==
    [p EXCEPT !.requests =
        [i \in RequestIds |-> IF i \in ids /\ \A j \in ids : i <= j
                             THEN NoRequest ELSE p.requests[i]]]

RemoveRequests(p, ids) ==
    [p EXCEPT !.requests =
        [i \in RequestIds |-> IF i \in ids THEN NoRequest ELSE p.requests[i]]]

-----------------------------------------------------------------------------
(* ProgramState: in-flight messages.                                       *)

CheckMessage(messages, m) == m \in messages

RemoveMessages(messages, ms) == messages \ ms

(* Mutant of Fits: the receiver of the message is not compared.            *)
FitsAnyReceiver(m, rank, R) ==
    /\ R.sender = AnySource \/ m.from = R.sender
    /\ m.tag = R.tag

(* The condition of collectMessagesHelper for one message and one request. *)
Fits(m, rank, R) ==
    /\ m.to = rank
    /\ R.sender = AnySource \/ m.from = R.sender
    /\ m.tag = R.tag

(***************************************************************************)
(* ProgramState::collectMessages, stated by what it returns.  For the      *)
(* receives in slots ids of one rank, a matching f maps each slot to a     *)
(* message or to NULL.  Going through the slots upwards, a slot gets, from *)
(* some sender, the oldest fitting message that no lower slot took; it     *)
(* stays NULL only when there is none and the slot need not be matched.    *)
(***************************************************************************)
Available(messages, rank, table, f, i) ==
    {m \in messages : /\ Fits(m, rank, table[i])
                      /\ \A j \in DOMAIN f : j < i => f[j] # m}

(* Mutant of FirstOfEachSender: the deque is scanned from its end.         *)
LastOfEachSender(ms) ==
    {m \in ms : \A n \in ms : n.from = m.from => m.seq >= n.seq}

FirstOfEachSender(ms) ==
    {m \in ms : \A n \in ms : n.from = m.from => m.seq <= n.seq}

LegalChoice(messages, rank, table, must, f, i) ==
    \/ f[i] \in FirstOfEachSender(Available(messages, rank, table, f, i))
    \/ /\ Available(messages, rank, table, f, i) = {}
       /\ i \notin must
       /\ f[i] = NoMessage

Matchings(messages, rank, table, must, ids) ==
    {f \in [ids -> messages \cup {NoMessage}] :
        \A i \in ids : LegalChoice(messages, rank, table, must, f, i)}

-----------------------------------------------------------------------------
(* What the explorer asks about a process that paused in a Wait or a Test. *)

IsPendingRecv(R) == R.type = "REQUEST_RECV"

(* Mutant of SendsReceived: one received message is enough.                *)
SomeSendReceived(p, messages) ==
    \/ p.active = {}
    \/ \E i \in p.active : p.requests[i].type = "REQUEST_SSEND"
                           => ~ CheckMessage(messages, p.requests[i].msg)

(* Every SSEND the process waits for was taken by its receiver.            *)
SendsReceived(p, messages) ==
    \A i \in p.active : p.requests[i].type = "REQUEST_SSEND"
                           => ~ CheckMessage(messages, p.requests[i].msg)

(* Mutant of CanFastRun: in-flight sends do not hold the process back.     *)
CanFastRunUnreceived(p, messages) ==
    /\ p.status = "PS_WAIT"
    /\ \A i \in p.active : ~ IsPendingRecv(p.requests[i])

(* checkFastRunWait: nothing the process waits for is undecided.           *)
CanFastRun(p, messages) ==
    /\ p.status = "PS_WAIT"
    /\ SendsReceived(p, messages)
    /\ \A i \in p.active : ~ IsPendingRecv(p.requests[i])

(* Mutant of ReceiveIds: only the receives waited for are matched.         *)
ActiveReceiveIds(p) == {i \in p.active : IsPendingRecv(p.requests[i])}

(* The receives up to the largest one waited for, in posting order.        *)
ReceiveIds(p) ==
    {i \in RequestIds : /\ IsPendingRecv(p.requests[i])
                        /\ \E k \in p.active : /\ i <= k
                                               /\ IsPendingRecv(p.requests[k])}

WaitMatchings(p, rank, messages) ==
    Matchings(messages, rank, p.requests, p.active, ReceiveIds(p))

Taken(f) == {f[i] : i \in DOMAIN f} \ {NoMessage}

(* Mutant of AfterMatching: a receive left unmatched is completed too.     *)
AfterMatchingAll(p, f) ==
    LET completed == DOMAIN f \ p.active
    IN  RemoveRequests(
          [p EXCEPT !.requests =
             [i \in RequestIds |->
                IF i \in completed
                THEN [p.requests[i] EXCEPT !.type = "REQUEST_RECV_COMPLETED"]
                ELSE p.requests[i]]],
          p.active)

(* The process after a fork: a receive matched ahead of its own Wait is    *)
(* replaced by a completed copy, the active requests are dropped.          *)
AfterMatching(p, f) ==
    LET completed == {i \in DOMAIN f : f[i] # NoMessage /\ i \notin p.active}
    IN  RemoveRequests(
          [p EXCEPT !.requests =
             [i \in RequestIds |->
                IF i \in completed
                THEN [p.requests[i] EXCEPT !.type = "REQUEST_RECV_COMPLETED"]
                ELSE p.requests[i]]],
          p.active)
=============================================================================
