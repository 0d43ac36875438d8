----------------------------- MODULE MC_MPITests ----------------------------
(* The programs of tests/mpi run by StateSpace, with what test_mpi.py      *)
(* expects of their reports.  Tests of two processes run with a third one  *)
(* whose main returns at once, which adds no node and no error.            *)
EXTENDS MPIProgram, Reports, TLC

isend(to, tag, data, var) ==
    [op |-> "isend", to |-> to, tag |-> tag, data |-> data, var |-> var]
irecv(from, tag, var) == [op |-> "irecv", from |-> from, tag |-> tag, var |-> var]
wait(reqs) == [op |-> "wait", vars |-> reqs]

Idle == << >>

Isir(target) ==
    << <<isend(target, "10", 7, 1), wait({1})>>, <<irecv(0, "10", 1), wait({1})>>, Idle>>

TestRecv(return1, return2) ==
    << <<irecv(1, "10", 1), [op |-> "test", var |-> 1],
         [op |-> "returnIfFlag", code |-> return1], wait({1}),
         [op |-> "returnUnless", bufs |-> <<0>>, code |-> return2]>>,
       <<isend(0, "10", 7, 1), wait({1})>>, Idle>>

Match1 ==
    << <<isend(1, "1", 500, 1), isend(1, "1", 1000, 2), wait({1}), wait({2})>>,
       <<irecv(AnySource, "1", 1), irecv(AnySource, "1", 2), wait({1, 2}),
         [op |-> "returnUnless", bufs |-> <<500, 1000>>, code |-> 1]>>, Idle>>

Waitall(waits) ==
    LET sender(d) == <<isend(1, "5", 101 + d, 1), isend(1, "5", 201 + d, 2), wait({1, 2})>>
    IN  << sender(0), [i \in 1 .. 4 |-> irecv(AnySource, "5", i)] \o waits, sender(2) >>

(* Not one of the tests: two ranks test a receive, then send to a third;   *)
(* either may go first.                                                    *)
PollThenSend ==
    LET poller(q) == <<irecv(1, "9", 1), [op |-> "test", var |-> 1],
                       isend(1, "1", q, 2), wait({2})>>
    IN  <<poller(5), <<irecv(AnySource, "1", 1), irecv(AnySource, "1", 2),
           wait({1}), wait({2})>>, poller(6)>>

Scripts ==
    [race |-> PollThenSend, isir_1 |-> Isir(1), isir_0 |-> Isir(0),
     test_recv_00 |-> TestRecv(0, 0), test_recv_10 |-> TestRecv(1, 0),
     test_recv_02 |-> TestRecv(0, 2), match1 |-> Match1,
     waitall_a |-> Waitall(<<wait(1 .. 4)>>),
     waitall_b |-> Waitall(<<wait({1, 2}), wait({3, 4})>>),
     waitall_c |-> Waitall(<<wait({3, 4}), wait({1, 2})>>)]

ScriptOf(name, r) == Scripts[name][r + 1]

(* Every state value the scripts lead to.                                  *)
RECURSIVE Closure(_, _)
Closure(known, new) ==
    IF new = {} THEN known
    ELSE LET next == {x.value : x \in UNION {ScriptFastRun("", v) \cup ScriptForks("", v) :
                                                v \in new}}
         IN  Closure(known \cup new, next \ (known \cup new))

ScriptValues ==
    Closure({}, {ScriptInitialRun(name).value : name \in DOMAIN Scripts})

RaceValues == Closure({}, {ScriptInitialRun("race").value})

-----------------------------------------------------------------------------
ExpectedNodes == [waitall_a |-> 4, waitall_b |-> 11, waitall_c |-> 15]

Digits(n) == ToString(n)

(* A name with characters and an entity that the writer must not touch     *)
(* twice.                                                                  *)
FileName == <<"a", "<", "&", "l", "t", ";", ">">>

(* How tools/reporttool/report.py reads the numbers and errors.            *)
Find(element, name) == SelectSeq(element.content, LAMBDA c : c.name = name)

NumberOfNodes(root) == Find(Find(root, "statistics")[1], "nodes")[1].content[1].text

ReportedErrors(root) ==
    LET found == Find(root, "error")
    IN  [i \in DOMAIN found |-> SelectSeq(found[i].attributes, LAMBDA a : a[1] \in {"type", "rank"})]

OneExitCode == << <<<<"type", "exitcode">>, <<"rank", Digits(0)>>>> >>

OneDeadlock == << <<<<"type", "deadlock">>>> >>

(* The reports are as test_mpi.py reads them: well formed, with the node   *)
(* counts of test_waitall, which say that the hash merges exactly the      *)
(* states the tests count as one over every order of early completions,    *)
(* and with the single errors: a deadlock for isir 0, an exit code of rank *)
(* 0 for test_recv 1 0 and 0 2, none otherwise.                            *)
ReportsAreAsTested ==
    /\ ReportReadsBack
    /\ report # NULL =>
          LET root == Read(report)[1]
          IN  /\ program \in DOMAIN ExpectedNodes =>
                    NumberOfNodes(root) = <<Digits(ExpectedNodes[program])>>
              /\ ReportedErrors(root) =
                    CASE program = "isir_0" -> OneDeadlock
                      [] program \in {"test_recv_10", "test_recv_02"} -> OneExitCode
                      [] OTHER -> << >>

(* Two states that differ only in the order of messages from different     *)
(* senders to one receiver.                                                *)
Channel(v, from, to) == SelectSeq(v.deque, LAMBDA m : m.from = from /\ m.to = to)

DifferInArrivalOnly(v, w) ==
    /\ [v EXCEPT !.deque = << >>] = [w EXCEPT !.deque = << >>]
    /\ \A from, to \in Ranks : Channel(v, from, to) = Channel(w, from, to)

(* The comment above message_sort_helper (ProgramState.cpp:177): messages  *)
(* are sorted because the hash is to be order-independent; the order that  *)
(* matters to MPI is the one within a channel.                             *)
ArrivalOrderIsNotHashed ==
    \A o, q \in {b \in Objects : heap[b] # NULL} :
        DifferInArrivalOnly(heap[o].value, heap[q].value)
          => Digest(heap[o].value) = Digest(heap[q].value)

=============================================================================
