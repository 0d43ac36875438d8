--------------------------- MODULE CollectMessages --------------------------
(***************************************************************************)
(* ProgramState::collectMessages as the code computes it: a backtracking   *)
(* search over the receives in order, scanning the message deque for each. *)
(* MPIObjects states what it returns without the search; the property of   *)
(* this module is that the two agree for every rank of a program state.    *)
(***************************************************************************)
EXTENDS MPIRuntime

(* The deques ProgramState::Messages that have these elements: those of    *)
(* one sender are in the order in which they were posted.                  *)
Deques(ms) ==
    {d \in [1 .. Cardinality(ms) -> ms] :
        /\ {d[k] : k \in DOMAIN d} = ms
        /\ \A j, k \in DOMAIN d : j < k =>
              /\ d[j] # d[k]
              /\ d[j].from = d[k].from => d[j].seq < d[k].seq}

(* Mutant of Usable: a message can be given to two requests.               *)
UsableTwice(deque, rank, R, matched, k) == Fits(deque[k], rank, R)

(* The message at position k can be tried for request R: it fits and no    *)
(* earlier request of this matching has it.                                *)
Usable(deque, rank, R, matched, k) ==
    /\ Fits(deque[k], rank, R)
    /\ \A j \in DOMAIN matched : matched[j] # deque[k]

(* The array flags: one message per sender is tried, the first usable one. *)
Tried(deque, rank, R, matched) ==
    {k \in DOMAIN deque :
        /\ Usable(deque, rank, R, matched, k)
        /\ \A j \in 1 .. k - 1 :
              Usable(deque, rank, R, matched, j) => deque[j].from # deque[k].from}

(* The vector Matched: what the first receives get.                        *)
PartialMatchings(ms, ids) ==
    UNION {[{i \in ids : i < n} -> ms \cup {NoMessage}] : n \in 0 .. MaxRequests}

(* The request at Index: RecvRequests has the receives by rising slot.     *)
NextId(ids, matched) ==
    CHOOSE i \in ids \ DOMAIN matched : \A j \in ids \ DOMAIN matched : i <= j

(* Matched.push_back                                                       *)
PushMatch(matched, i, m) ==
    [j \in DOMAIN matched \cup {i} |-> IF j = i THEN m ELSE matched[j]]

(* What forkWaitOrTest passes and gets: the receives in slots ids of one   *)
(* rank, and for each matching found what it gives to each slot.           *)
CollectMessages(deque, rank, table, active, ids) ==
    LET helper[matched \in PartialMatchings({deque[k] : k \in DOMAIN deque}, ids)] ==
            IF DOMAIN matched = ids THEN {matched}
            ELSE LET i     == NextId(ids, matched)
                     tried == Tried(deque, rank, table[i], matched)
                 IN IF tried # {}
                    THEN UNION {helper[PushMatch(matched, i, deque[k])] : k \in tried}
                    ELSE IF i \in active THEN {}
                    ELSE helper[PushMatch(matched, i, NoMessage)]
    IN  helper[[i \in {} |-> NoMessage]]

(* The backtracking search of ProgramState.cpp finds exactly the matchings *)
(* of MPIObjects, for every rank, in whatever order messages of different  *)
(* senders came (collectMessages, collectMessagesHelper).                  *)
SearchFindsTheMatchings ==
    \A deque \in Deques(messages), r \in Ranks :
        LET p == procs[r]
        IN  CollectMessages(deque, r, p.requests, p.active, ReceiveIds(p))
              = WaitMatchings(p, r, messages)
=============================================================================
