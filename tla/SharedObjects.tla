---------------------------- MODULE SharedObjects ---------------------------
(***************************************************************************)
(* Messages and requests are objects that program states share.  A state   *)
(* holds them by counted pointers (Ref, Utils/Ref.h) in its deque of       *)
(* messages and its request tables, and a send request holds its message.  *)
(* Copying a state copies the pointers; an object is deleted when the last *)
(* Ref to it goes, and its address may then be given to a new object.  The *)
(* explorer tells messages and requests apart by their addresses.          *)
(*                                                                         *)
(* One step is one assignment, copy or destruction of a Ref.  An operation *)
(* leaves in todo the Refs it is to set, in an order that is left open,    *)
(* and is over when todo is empty; there is one thread, so nothing else    *)
(* starts before.                                                          *)
(*                                                                         *)
(* Which rank owns a table, tags and payloads do not matter here           *)
(* (MPIObjects), nor does the state the explorer takes next (StateSpace):  *)
(* the tables of all ranks are one, and any state may be next.             *)
(***************************************************************************)
EXTENDS Naturals, FiniteSets

CONSTANTS
    States,          \* addresses of ProgramStates
    Slots,           \* slots of the request tables of a state
    Places,          \* places in the deque of messages of a state
    MessageAddrs,    \* addresses of Messages
    RequestAddrs,    \* addresses of Requests
    Names,           \* one for every request ever posted: bounds the posts
    NULL

ASSUME SlotsAssumption == Slots \subseteq Nat
ASSUME AddrAssumption ==
    /\ MessageAddrs \cap RequestAddrs = {}
    /\ NULL \notin MessageAddrs \cup RequestAddrs \cup Names \cup States

Addrs == MessageAddrs \cup RequestAddrs

(* The variables that are Refs.                                            *)
DequeCell(s, k) == <<"deque", s, k>>
TableCell(s, i) == <<"table", s, i>>
MsgCell(q) == <<"msg", q, 0>>

DequeCells == {"deque"} \X States \X Places
TableCells == {"table"} \X States \X Slots
MsgCells == {"msg"} \X RequestAddrs \X {0}

Cells == DequeCells \cup TableCells \cup MsgCells

ASSUME CellsAssumption == IsFiniteSet(Cells)

(* A Ref and a pointer of its type.                                        *)
Assignment == ((DequeCells \cup MsgCells) \X (MessageAddrs \cup {NULL})) \cup
              (TableCells \X (RequestAddrs \cup {NULL}))

MessageObject == [type : {"MESSAGE"}, name : Names]
RequestObject ==
    [type : {"REQUEST_SSEND", "REQUEST_RECV", "REQUEST_RECV_COMPLETED"}, name : Names]

Free == [type |-> "FREE"]

(* forkWaitOrTest at work: the receives that get a message yet, and the    *)
(* one whose message was just taken from the deque.                        *)
Forking == [from : States, to : States, active : SUBSET Slots,
            todo : SUBSET (Slots \X MessageAddrs),
            taken : (Slots \X MessageAddrs) \cup {NULL}]

ASSUME ForkAssumption == NULL \notin Forking \cup (Slots \X MessageAddrs)

VARIABLES
    live,     \* ProgramStates that were not deleted
    refs,     \* the pointer in every Ref
    obj,      \* what is at an address
    count,    \* RefCountedObj::RefCount
    extra,    \* history: the count an object had before any Ref to it
    todo,     \* Refs the current operation sets yet
    fork,     \* the fork being made, or NULL
    used      \* names given out

vars == <<live, refs, obj, count, extra, todo, fork, used>>

TypeOK ==
    /\ live \subseteq States
    /\ refs \in [Cells -> Addrs \cup {NULL}]
    /\ \A c \in Cells : <<c, refs[c]>> \in Assignment
    /\ obj \in [Addrs -> MessageObject \cup RequestObject \cup {Free}]
    /\ \A a \in Addrs : obj[a] # Free =>
          (obj[a].type = "MESSAGE" <=> a \in MessageAddrs)
    /\ count \in [Addrs -> Nat]
    /\ extra \in [Addrs -> Nat]
    /\ todo \subseteq Assignment
    /\ fork \in Forking \cup {NULL}
    /\ used \subseteq Names

-----------------------------------------------------------------------------
Init ==
    /\ \E s \in States : live = {s}
    /\ refs = [c \in Cells |-> NULL]
    /\ obj = [a \in Addrs |-> Free]
    /\ count = [a \in Addrs |-> 0]
    /\ extra = [a \in Addrs |-> 0]
    /\ todo = {}
    /\ fork = NULL
    /\ used = {}

(* Mutant of Assign: a deleted request keeps its hold on its message.      *)
AssignShallow(c, p) ==
    LET old == refs[c]
        up == IF p = NULL THEN count ELSE [count EXCEPT ![p] = @ + 1]
        down == IF old = NULL THEN up ELSE [up EXCEPT ![old] = @ - 1]
        freed == old # NULL /\ down[old] = 0
    IN  /\ refs' = [refs EXCEPT ![c] = p]
        /\ count' = down
        /\ obj' = IF freed THEN [obj EXCEPT ![old] = Free] ELSE obj
        /\ todo' = todo \ {<<c, p>>}
        /\ UNCHANGED <<live, extra, fork, used>>

(* Mutant of Assign: copies are not counted.                               *)
AssignUncounted(c, p) ==
    LET old == refs[c]
        down == IF old = NULL THEN count ELSE [count EXCEPT ![old] = @ - 1]
    IN  /\ refs' = [refs EXCEPT ![c] = p]
        /\ count' = IF p # NULL /\ count[p] = 0 THEN [down EXCEPT ![p] = 1] ELSE down
        /\ obj' = IF old # NULL /\ down[old] = 0 THEN [obj EXCEPT ![old] = Free] ELSE obj
        /\ todo' = todo \ {<<c, p>>}
        /\ UNCHANGED <<live, extra, fork, used>>

(* Ref::operator=, of which a copy is the case of a Ref that was NULL and  *)
(* the destructor the one of a Ref that becomes NULL: inc, then dec, which *)
(* deletes the object it takes to zero, and with a request its own Ref.    *)
Assign(c, p) ==
    LET old == refs[c]
        up == IF p = NULL THEN count ELSE [count EXCEPT ![p] = @ + 1]
        down == IF old = NULL THEN up ELSE [up EXCEPT ![old] = @ - 1]
        freed == old # NULL /\ down[old] = 0
    IN  /\ refs' = [refs EXCEPT ![c] = p]
        /\ count' = down
        /\ obj' = IF freed THEN [obj EXCEPT ![old] = Free] ELSE obj
        /\ todo' = (todo \ {<<c, p>>}) \cup
                     (IF freed /\ old \in RequestAddrs
                      THEN {<<MsgCell(old), NULL>>} ELSE {})
        /\ UNCHANGED <<live, extra, fork, used>>

-----------------------------------------------------------------------------
(* MPI calls in a running state.                                           *)

Idle == todo = {} /\ fork = NULL

(* new: the object is there, with no Ref to it.                            *)
New(a, o) == obj[a] = Free /\ obj' = [obj EXCEPT ![a] = o]

Isend(s, k, i, m, q, n) ==
    /\ refs[DequeCell(s, k)] = NULL /\ refs[TableCell(s, i)] = NULL
    /\ obj[m] = Free /\ obj[q] = Free /\ n \notin used
    /\ obj' = [obj EXCEPT ![m] = [type |-> "MESSAGE", name |-> n],
                          ![q] = [type |-> "REQUEST_SSEND", name |-> n]]
    /\ count' = [count EXCEPT ![m] = 0, ![q] = 0]
    /\ extra' = [extra EXCEPT ![m] = 0, ![q] = 0]
    /\ todo' = {<<DequeCell(s, k), m>>, <<MsgCell(q), m>>, <<TableCell(s, i), q>>}
    /\ used' = used \cup {n}
    /\ UNCHANGED <<live, refs, fork>>

Irecv(s, i, q, n) ==
    /\ refs[TableCell(s, i)] = NULL
    /\ New(q, [type |-> "REQUEST_RECV", name |-> n]) /\ n \notin used
    /\ count' = [count EXCEPT ![q] = 0]
    /\ extra' = [extra EXCEPT ![q] = 0]
    /\ todo' = {<<TableCell(s, i), q>>}
    /\ used' = used \cup {n}
    /\ UNCHANGED <<live, refs, fork>>

-----------------------------------------------------------------------------
(* The explorer.                                                           *)

RequestAt(s, i) == refs[TableCell(s, i)]

(* ProgramState::checkMessage: an address is looked for.                   *)
CheckMessage(s, m) == \E k \in Places : refs[DequeCell(s, k)] = m

IsPendingRecv(s, i) ==
    RequestAt(s, i) # NULL /\ obj[RequestAt(s, i)].type = "REQUEST_RECV"

IsDone(s, i) ==
    /\ RequestAt(s, i) # NULL
    /\ \/ obj[RequestAt(s, i)].type = "REQUEST_RECV_COMPLETED"
       \/ /\ obj[RequestAt(s, i)].type = "REQUEST_SSEND"
          /\ ~ CheckMessage(s, refs[MsgCell(RequestAt(s, i))])

ClearSlots(s, ids) == {<<TableCell(s, i), NULL>> : i \in ids}

(* checkFastRunWait: everything waited for is done, the state goes on.     *)
FastRunWait(s, active) ==
    /\ \A i \in active : IsDone(s, i)
    /\ todo' = ClearSlots(s, active)
    /\ UNCHANGED <<live, refs, obj, count, extra, fork, used>>

UsedPlaces(s) == {k \in Places : refs[DequeCell(s, k)] # NULL}
UsedSlots(s) == {i \in Slots : RequestAt(s, i) # NULL}

(* The copy constructor of ProgramState.                                   *)
CopyRefs(s, t) ==
    {<<DequeCell(t, k), refs[DequeCell(s, k)]>> : k \in UsedPlaces(s)} \cup
    {<<TableCell(t, i), RequestAt(s, i)>> : i \in UsedSlots(s)}

(* The fork of a Test that reports nothing.                                *)
CopyState(s, t) ==
    /\ live' = live \cup {t}
    /\ todo' = CopyRefs(s, t)
    /\ UNCHANGED <<refs, obj, count, extra, fork, used>>

(* What collectMessages may return: every receive waited for and maybe     *)
(* others get a message, no two the same.                                  *)
IsMatching(s, active, f) ==
    /\ \A x \in f : IsPendingRecv(s, x[1]) /\ CheckMessage(s, x[2])
    /\ \A x, y \in f : (x[1] = y[1] \/ x[2] = y[2]) => x = y
    /\ \A i \in active : IsPendingRecv(s, i) => \E x \in f : x[1] = i

(* forkWaitOrTest makes a copy of the state for one way to match.          *)
ForkState(s, t, active, f) ==
    /\ \A i \in active : IsDone(s, i) \/ IsPendingRecv(s, i)
    /\ IsMatching(s, active, f)
    /\ live' = live \cup {t}
    /\ todo' = CopyRefs(s, t)
    /\ fork' = [from |-> s, to |-> t, active |-> active, todo |-> f, taken |-> NULL]
    /\ UNCHANGED <<refs, obj, count, extra, used>>

InFork == todo = {} /\ fork # NULL

(* removeMessage in the copy: findMessage looks for the address.           *)
TakeMessage(i, m, k) ==
    /\ fork.taken = NULL
    /\ <<i, m>> \in fork.todo
    /\ refs[DequeCell(fork.to, k)] = m
    /\ todo' = {<<DequeCell(fork.to, k), NULL>>}
    /\ fork' = [fork EXCEPT !.todo = @ \ {<<i, m>>}, !.taken = <<i, m>>]
    /\ UNCHANGED <<live, refs, obj, count, extra, used>>

(* The memcpy from the message, of a receive that is waited for.           *)
CopyData ==
    /\ fork.taken # NULL
    /\ fork.taken[1] \in fork.active
    /\ fork' = [fork EXCEPT !.taken = NULL]
    /\ UNCHANGED <<live, refs, obj, count, extra, todo, used>>

(* Mutant of CompleteRecv: the shared request itself is marked.            *)
CompleteInPlace(q, j) ==
    LET R == RequestAt(fork.from, fork.taken[1])
    IN  /\ fork.taken # NULL
        /\ fork.taken[1] \notin fork.active
        /\ RequestAt(fork.to, j) = R
        /\ obj' = [obj EXCEPT ![R].type = "REQUEST_RECV_COMPLETED"]
        /\ fork' = [fork EXCEPT !.taken = NULL]
        /\ UNCHANGED <<live, refs, count, extra, todo, used>>

(* The memcpy for another receive, which is replaced in the copy by a      *)
(* completed one.  The copy constructor of Request copies RefCount too.    *)
(* findRequestId looks for the address, in the tables of the copy.         *)
CompleteRecv(q, j) ==
    LET R == RequestAt(fork.from, fork.taken[1])
    IN  /\ fork.taken # NULL
        /\ fork.taken[1] \notin fork.active
        /\ New(q, [obj[R] EXCEPT !.type = "REQUEST_RECV_COMPLETED"])
        /\ count' = [count EXCEPT ![q] = count[R]]
        /\ extra' = [extra EXCEPT ![q] = count[R]]
        /\ RequestAt(fork.to, j) = R
        /\ \A h \in Slots : h < j => RequestAt(fork.to, h) # R
        /\ todo' = {<<TableCell(fork.to, j), q>>}
        /\ fork' = [fork EXCEPT !.taken = NULL]
        /\ UNCHANGED <<live, refs, used>>

(* removeRequests in the copy, which is then run.                          *)
FinishFork ==
    /\ fork.taken = NULL /\ fork.todo = {}
    /\ todo' = ClearSlots(fork.to, fork.active)
    /\ fork' = NULL
    /\ UNCHANGED <<live, refs, obj, count, extra, used>>

(* ~ProgramState at the end of computeChilds.                              *)
DeleteState(s) ==
    /\ live' = live \ {s}
    /\ todo' = ClearSlots(s, UsedSlots(s)) \cup
               {<<DequeCell(s, k), NULL>> : k \in UsedPlaces(s)}
    /\ UNCHANGED <<refs, obj, count, extra, fork, used>>

-----------------------------------------------------------------------------
CallStep(s) ==
    \/ \E k \in Places, i \in Slots, m \in MessageAddrs, q \in RequestAddrs, n \in Names :
          Isend(s, k, i, m, q, n)
    \/ \E i \in Slots, q \in RequestAddrs, n \in Names : Irecv(s, i, q, n)

ExplorerStep(s) ==
    \/ \E active \in SUBSET Slots : FastRunWait(s, active)
    \/ \E t \in States \ live : CopyState(s, t)
    \/ \E t \in States \ live, active \in SUBSET Slots, f \in SUBSET (Slots \X MessageAddrs) :
          ForkState(s, t, active, f)
    \/ DeleteState(s)

ForkStep ==
    \/ \E i \in Slots, m \in MessageAddrs, k \in Places : TakeMessage(i, m, k)
    \/ CopyData
    \/ \E q \in RequestAddrs, j \in Slots : CompleteRecv(q, j)
    \/ FinishFork

Next ==
    \/ \E a \in todo : Assign(a[1], a[2])
    \/ Idle /\ \E s \in live : CallStep(s) \/ ExplorerStep(s)
    \/ InFork /\ ForkStep

Spec == Init /\ [][Next]_vars

-----------------------------------------------------------------------------
(* Properties.                                                             *)

RefsTo(a) == {c \in Cells : refs[c] = a}

(* What a Ref points to is there, and an object's count is the number of   *)
(* Refs to it plus the count it was born with, after every single change   *)
(* of a Ref: nothing is deleted early, twice or through a stale pointer.   *)
(* Only completed receives are born with a count: they are never deleted.  *)
CountsAreExact ==
    \A a \in Addrs :
        /\ obj[a] # Free => count[a] = Cardinality(RefsTo(a)) + extra[a]
        /\ obj[a] = Free => RefsTo(a) = {}
        /\ obj[a] # Free /\ extra[a] > 0 => obj[a].type = "REQUEST_RECV_COMPLETED"

SeenIn(s, a) ==
    \/ \E i \in Slots : \/ RequestAt(s, i) = a
                        \/ RequestAt(s, i) # NULL /\ refs[MsgCell(RequestAt(s, i))] = a
    \/ CheckMessage(s, a)

(* Between two operations only the completed receives are on the heap that *)
(* no state can reach: what the deletion of a state, the end of a request  *)
(* or the end of a fork leaves without an owner is reclaimed, messages     *)
(* through the requests that hold them.                                    *)
OnlyCompletedRecvsLeak ==
    todo = {} /\ fork = NULL =>
        \A a \in Addrs : obj[a] # Free =>
            \/ \E s \in live : SeenIn(s, a)
            \/ obj[a].type = "REQUEST_RECV_COMPLETED"

-----------------------------------------------------------------------------
(* The parts of the inductive invariant behind the theorems of             *)
(* SharedObjects_proofs.                                                   *)

(* The Refs of state s.                                                    *)
CellsOf(s) == ({"deque"} \X {s} \X Places) \cup ({"table"} \X {s} \X Slots)

(* An operation lets go of Refs, or fills Refs that were NULL, or replaces *)
(* one; what it is to point to is there.                                   *)
TodoIsSound ==
    /\ \A a, b \in todo : a[1] = b[1] => a = b
    /\ \A a \in todo : a[2] # NULL => obj[a[2]] # Free
    /\ \A a \in todo : a[2] # NULL => \A s \in States : a[1] \in CellsOf(s) => s \in live
    /\ \/ \A a \in todo : a[2] = NULL
       \/ \A a \in todo : a[2] # NULL /\ refs[a[1]] = NULL
       \/ \E a \in todo : todo = {a} /\ a[2] # NULL /\ refs[a[1]] # a[2]

(* Who has no Ref is about to get one.                                     *)
UncountedArePending ==
    \A a \in Addrs : obj[a] # Free /\ count[a] = 0 => \E b \in todo : b[2] = a

(* Deleted states, and all but sends, hold nothing or are letting it go.   *)
OwnersAreThere ==
    /\ \A s \in States \ live : \A c \in CellsOf(s) :
          refs[c] = NULL \/ <<c, NULL>> \in todo
    /\ \A q \in RequestAddrs : obj[q].type # "REQUEST_SSEND" =>
          \A c \in {MsgCell(q)} : refs[c] = NULL \/ <<c, NULL>> \in todo
    /\ \A q \in RequestAddrs : obj[q].type # "REQUEST_SSEND" =>
          \A b \in todo : b[1] = MsgCell(q) => b[2] = NULL

(* The state that is forked keeps the receives that get a message and the  *)
(* messages: one is there when it is copied from, though the copy of the   *)
(* state gave its own Ref up before.                                       *)
ForkIsSound ==
    fork # NULL =>
        /\ fork.from \in live /\ fork.to \in live /\ fork.from # fork.to
        /\ \A a \in todo : a[1] \notin CellsOf(fork.from)
        /\ \A x \in fork.todo :
              IsPendingRecv(fork.from, x[1]) /\ CheckMessage(fork.from, x[2])
        /\ fork.taken # NULL => /\ IsPendingRecv(fork.from, fork.taken[1])
                                /\ CheckMessage(fork.from, fork.taken[2])

(* The inductive invariant: exact counts need to know, in the middle of an *)
(* operation, that what is still to be pointed to is not let go of, and    *)
(* the leaks that whoever holds a Ref is itself alive.                     *)
ObjectsInv ==
    /\ TypeOK
    /\ CountsAreExact
    /\ TodoIsSound
    /\ UncountedArePending
    /\ OwnersAreThere
    /\ ForkIsSound

-----------------------------------------------------------------------------
(* The contents of a state when the operation at work is over.             *)
Target(c) ==
    IF \E a \in todo : a[1] = c THEN (CHOOSE a \in todo : a[1] = c)[2] ELSE refs[c]

RequestValue(q) ==
    IF q = NULL THEN NULL
    ELSE [type |-> obj[q].type, name |-> obj[q].name,
          msg |-> IF Target(MsgCell(q)) = NULL THEN NULL
                  ELSE obj[Target(MsgCell(q))].name]

StateValue(s) ==
    [messages |-> {obj[m].name : m \in {Target(DequeCell(s, k)) : k \in Places} \ {NULL}},
     table |-> [i \in Slots |-> RequestValue(Target(TableCell(s, i)))]]

Value == INSTANCE StateValues WITH
    state <- [s \in States |-> IF s \in live THEN StateValue(s) ELSE NULL]

(* A state of the explorer and a request are no NULL.                      *)
ASSUME ValuesAssumption == NULL \notin Value!Contents /\ NULL \notin Value!Request

(* The name of a message was given out, to no other message.               *)
NamesAreDistinct ==
    /\ \A a \in Addrs : obj[a] # Free => obj[a].name \in used
    /\ \A m, n \in MessageAddrs :
          obj[m] # Free /\ obj[n] # Free /\ obj[m].name = obj[n].name => m = n

(* A message is in the deque of a state once: to take it is to take it out.*)
PlacesAreDistinct ==
    \A s \in States, k, l \in Places :
        Target(DequeCell(s, k)) # NULL /\ Target(DequeCell(s, k)) = Target(DequeCell(s, l))
            => k = l

(* What a fork waits for is in the copy, and done or a receive.            *)
ForkIsReady ==
    fork # NULL =>
        \A i \in fork.active :
            \E q \in RequestAddrs :
                /\ Target(TableCell(fork.to, i)) = q
                /\ obj[q].type = "REQUEST_SSEND" =>
                      \A k \in Places :
                          \/ Target(DequeCell(fork.to, k)) = NULL
                          \/ Target(DequeCell(fork.to, k)) # Target(MsgCell(q))

(* The inductive invariant behind ImplementsValues: an address stands for  *)
(* one name, so that what is found by address is what was meant.           *)
ValuesInv ==
    /\ ObjectsInv
    /\ NamesAreDistinct
    /\ PlacesAreDistinct
    /\ ForkIsReady

(* States made of shared objects behave as values: no operation on one     *)
(* state, and no reuse of an address, is seen in another, and a question   *)
(* asked by address has the answer for the message or request meant.       *)
ImplementsValues == Value!Spec
=============================================================================
