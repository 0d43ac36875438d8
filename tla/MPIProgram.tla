----------------------------- MODULE MPIProgram -----------------------------
(***************************************************************************)
(* Program states with a real program in them: each rank runs a script of  *)
(* MPI calls, and what the runs of computeChilds make of a state is        *)
(* computed call by call.  It gives StateSpace the programs of tests/mpi.  *)
(*                                                                         *)
(* A script is a sequence of instructions:                                 *)
(*   [op |-> "isend", to, tag, data, var]      MPI_Isend(&data, .. &r[var])*)
(*   [op |-> "irecv", from, tag, var]          MPI_Irecv(&b[var], .. )     *)
(*   [op |-> "wait", vars]                     MPI_Wait or MPI_Waitall     *)
(*   [op |-> "test", var]                      MPI_Test(&r[var], &flag)    *)
(*   [op |-> "returnIfFlag", code]                                         *)
(*   [op |-> "returnUnless", bufs, code]       unless b[..] = bufs         *)
(* and returns 0 at its end.  A state value is [script, procs, env, deque]:*)
(* env is the memory of each rank, deque is ProgramState::Messages, whose  *)
(* messages carry their data.                                              *)
(***************************************************************************)
EXTENDS MPIObjects, Sequences

CONSTANT Script(_, _)   \* the script of a program's rank

Vars == 1 .. MaxRequests

FreshEnv == [pc |-> 1, reqs |-> [x \in Vars |-> -1], bufs |-> [x \in Vars |-> 0], flag |-> 0]

(* main returned: its variables are freed and no longer hashed.            *)
EndedEnv == [FreshEnv EXCEPT !.pc = 0]

(* Before main is called in any rank.                                      *)
NothingRan == [script |-> "", procs |-> [r \in Ranks |-> InitProcessState],
               env |-> [r \in Ranks |-> FreshEnv], deque |-> << >>]

InFlight(v) == {v.deque[k] : k \in DOMAIN v.deque}

PostsOf(v, r) == Cardinality({x \in Vars : v.env[r].reqs[x] >= 0})

StepTo(v, r, p, env) ==
    [v EXCEPT !.procs[r] = p, !.env[r] = [env EXCEPT !.pc = @ + 1]]

-----------------------------------------------------------------------------
(* The MPI calls; each test posts every request variable once.             *)

PostTo(v, r, var, R) ==
    LET id == CHOOSE i \in RequestIds : IsNewRequestId(v.procs[r].requests, i)
    IN  StepTo(v, r, SetRequest(v.procs[r], id, R),
               [v.env[r] EXCEPT !.reqs[var] = id])

CallIsend(v, r, c) ==
    LET m == [from |-> r, to |-> c.to, tag |-> c.tag,
              seq |-> PostsOf(v, r) + 1, data |-> c.data]
    IN  [PostTo(v, r, c.var, [type |-> "REQUEST_SSEND", msg |-> m, post |-> m.seq])
         EXCEPT !.deque = Append(@, m)]

NewReceive == [type |-> "REQUEST_RECV", sender |-> 0, tag |-> "", post |-> 0, var |-> 0]

CallIrecv(v, r, c) ==
    PostTo(v, r, c.var, [NewReceive EXCEPT !.sender = c.from, !.tag = c.tag,
                                           !.post = PostsOf(v, r) + 1, !.var = c.var])

CallWait(v, r, c) ==
    StepTo(v, r, SetWait(v.procs[r], {v.env[r].reqs[x] : x \in c.vars}), v.env[r])

CallTest(v, r, c) ==
    StepTo(v, r, SetTest(v.procs[r], v.env[r].reqs[c.var]), [v.env[r] EXCEPT !.flag = 0])

EndMain(v, r) ==
    [v EXCEPT !.procs[r] = SetFinished(@), !.env[r] = EndedEnv]

(* Interpreter::run from the current instruction of rank r to the next     *)
(* pause or to the end of main; acts counts the calls of addAction.        *)
Ended(v, r, acts, code) ==
    [value |-> EndMain(v, r), acts |-> acts, failed |-> IF code = 0 THEN {} ELSE {r}]

Skip(v, r) == StepTo(v, r, v.procs[r], v.env[r])

RECURSIVE RunRank(_, _, _)
RunRank(v, r, acts) ==
    LET s == Script(v.script, r)
        c == s[v.env[r].pc]
    IN  IF v.env[r].pc > Len(s) THEN Ended(v, r, acts, 0)
        ELSE CASE c.op = "isend" -> RunRank(CallIsend(v, r, c), r, acts + 1)
               [] c.op = "irecv" -> RunRank(CallIrecv(v, r, c), r, acts + 1)
               [] c.op = "wait" ->
                    [value |-> CallWait(v, r, c), acts |-> acts + 1, failed |-> {}]
               [] c.op = "test" ->
                    [value |-> CallTest(v, r, c), acts |-> acts + 1, failed |-> {}]
               [] c.op = "returnIfFlag" ->
                    IF v.env[r].flag = 1 THEN Ended(v, r, acts, c.code)
                    ELSE RunRank(Skip(v, r), r, acts)
               [] c.op = "returnUnless" ->
                    IF \E x \in DOMAIN c.bufs : v.env[r].bufs[x] # c.bufs[x] THEN Ended(v, r, acts, c.code)
                    ELSE RunRank(Skip(v, r), r, acts)

-----------------------------------------------------------------------------
(* computeHash sorts the deque of the state it hashes, stably and by       *)
(* receiver only: the second half of the sort condition compares the       *)
(* sender of m2 with itself.                                               *)
RECURSIVE ToReceivers(_, _)
ToReceivers(deque, r) ==
    IF r = NumRanks THEN << >>
    ELSE SelectSeq(deque, LAMBDA m : m.to = r) \o ToReceivers(deque, r + 1)

SortMessages(deque) == ToReceivers(deque, 0)

Hashed(x) ==
    [value |-> [x.value EXCEPT !.deque = SortMessages(@)],
     acts |-> x.acts, failed |-> x.failed]

(* ProgramState::messageIndex, -1 for a message that was received.         *)
MessageIndex(deque, m) ==
    IF \E k \in DOMAIN deque : deque[k] = m
    THEN Cardinality({n \in {deque[k] : k \in DOMAIN deque} :
                         n.from = m.from /\ n.to = m.to /\ n.seq < m.seq})
    ELSE -1

(* Request::hash.  A completed receive has no case there: the compiler may *)
(* do as it likes after its type; nothing more is hashed here.             *)
HashRequest(deque, R) ==
    CASE R.type = "REQUEST_RECV" -> <<R.type, R.sender, R.tag, R.var>>
      [] R.type = "REQUEST_SSEND" -> <<R.type, MessageIndex(deque, R.msg)>>
      [] OTHER -> <<R.type>>

HashMessage(m) == <<m.to, m.from, m.tag, m.data>>

HashProcess(v, r) ==
    LET p == v.procs[r]
    IN  [env |-> v.env[r], status |-> p.status, active |-> p.active, flag |-> p.hasFlag,
         requests |-> {<<i, HashRequest(v.deque, p.requests[i])>> :
                          i \in LiveIds(p.requests)}]

ScriptDigest(v) ==
    [script |-> v.script,
     messages |-> {<<k, HashMessage(v.deque[k])>> : k \in DOMAIN v.deque},
     processes |-> [r \in Ranks |-> HashProcess(v, r)]]

ScriptIsTerminated(v) == \A r \in Ranks : v.procs[r].status = "PS_FINISHED"

-----------------------------------------------------------------------------
(* The runs of computeChilds.                                              *)

(* memcpy of every matched message into the buffer of its receive.         *)
Received(v, r, f) ==
    [x \in Vars |->
        LET into == {i \in DOMAIN f : f[i] # NoMessage /\ v.procs[r].requests[i].var = x}
        IN  IF into = {} THEN v.env[r].bufs[x] ELSE f[CHOOSE i \in into : TRUE].data]

ForkTo(v, r, f) ==
    LET p == v.procs[r]
    IN  [v EXCEPT !.procs[r] = AfterMatching(p, f),
                  !.env[r] = [@ EXCEPT !.bufs = Received(v, r, f),
                                       !.flag = IF p.hasFlag THEN 1 ELSE @],
                  !.deque = SelectSeq(@, LAMBDA m : m \notin Taken(f))]

(* Mutant of ForksOf: a Test goes on only when its request is done.        *)
ForksOfDone(v, r) ==
    LET p == v.procs[r]
    IN  IF p.status \in {"PS_WAIT", "PS_TEST"} /\ SendsReceived(p, InFlight(v))
        THEN {RunRank(ForkTo(v, r, f), r, 0) : f \in WaitMatchings(p, r, InFlight(v))}
        ELSE {}

ForksOf(v, r) ==
    LET p == v.procs[r]
    IN  (IF p.status = "PS_TEST" THEN {RunRank(v, r, 0)} ELSE {})
        \cup
        (IF p.status \in {"PS_WAIT", "PS_TEST"} /\ SendsReceived(p, InFlight(v))
         THEN {RunRank(ForkTo(v, r, f), r, 0) : f \in WaitMatchings(p, r, InFlight(v))}
         ELSE {})

ScriptForks(name, v) == {Hashed(x) : x \in UNION {ForksOf(v, r) : r \in Ranks}}

ScriptFastRun(name, v) ==
    LET ready == {r \in Ranks : CanFastRun(v.procs[r], InFlight(v))}
    IN  {Hashed(RunRank([v EXCEPT !.procs[r] = RemoveRequests(@, @.active)], r, 0)) :
            r \in {q \in ready : \A s \in ready : q <= s}}

RECURSIVE RunRanks(_, _)
RunRanks(x, r) ==
    IF r = NumRanks THEN x
    ELSE LET y == RunRank(x.value, r, x.acts)
         IN  RunRanks([value |-> y.value, acts |-> y.acts,
                       failed |-> x.failed \cup y.failed], r + 1)

ScriptInitialRun(name) ==
    Hashed(RunRanks([value |-> [NothingRan EXCEPT !.script = name],
                     acts |-> 0, failed |-> {}], 0))
=============================================================================
