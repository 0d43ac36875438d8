----------------------------- MODULE StateValues ----------------------------
(***************************************************************************)
(* What the explorer means by a program state: a value of its own, with a  *)
(* set of messages in flight and a table of requests.  A copy has the same *)
(* contents, and no operation on one state is seen in another.             *)
(* SharedObjects shows that states made of shared C++ objects behave so.   *)
(***************************************************************************)
CONSTANTS
    States,    \* program states
    Slots,     \* places of the request tables
    Names,     \* one for every request ever posted, and for its message
    NULL

VARIABLES
    state,     \* the contents of each state, NULL if it does not exist
    used       \* names given out

vars == <<state, used>>

Request == [type : {"REQUEST_SSEND", "REQUEST_RECV", "REQUEST_RECV_COMPLETED"},
            name : Names, msg : Names \cup {NULL}]

Contents == [messages : SUBSET Names, table : [Slots -> Request \cup {NULL}]]

Empty == [messages |-> {}, table |-> [i \in Slots |-> NULL]]

Init ==
    /\ \E s \in States : state = [t \in States |-> IF t = s THEN Empty ELSE NULL]
    /\ used = {}

Exists(s) == state[s] # NULL

Post(s, i, R) ==
    /\ Exists(s)
    /\ state[s].table[i] = NULL
    /\ R.name \notin used
    /\ used' = used \cup {R.name}

Send(s, i, n) ==
    LET R == [type |-> "REQUEST_SSEND", name |-> n, msg |-> n]
    IN  /\ Post(s, i, R)
        /\ state' = [state EXCEPT ![s].table[i] = R,
                                  ![s].messages = @ \cup {n}]

Receive(s, i, n) ==
    LET R == [type |-> "REQUEST_RECV", name |-> n, msg |-> NULL]
    IN  /\ Post(s, i, R)
        /\ state' = [state EXCEPT ![s].table[i] = R]

Copy(s, t) ==
    /\ Exists(s) /\ ~ Exists(t)
    /\ state' = [state EXCEPT ![t] = state[s]]
    /\ UNCHANGED used

(* A message is received.                                                  *)
Take(s, n) ==
    /\ Exists(s)
    /\ n \in state[s].messages
    /\ state' = [state EXCEPT ![s].messages = @ \ {n}]
    /\ UNCHANGED used

(* A receive that nobody waits for yet got its message.                    *)
Complete(s, i) ==
    /\ Exists(s)
    /\ state[s].table[i] # NULL
    /\ state[s].table[i].type = "REQUEST_RECV"
    /\ state' = [state EXCEPT ![s].table[i].type = "REQUEST_RECV_COMPLETED"]
    /\ UNCHANGED used

(* Requests end, a send only when its message was received.                *)
Finish(s, ids) ==
    /\ Exists(s)
    /\ \A i \in ids : /\ state[s].table[i] # NULL
                      /\ state[s].table[i].type = "REQUEST_SSEND" =>
                            state[s].table[i].msg \notin state[s].messages
    /\ state' = [state EXCEPT ![s].table =
                    [i \in Slots |-> IF i \in ids THEN NULL ELSE @[i]]]
    /\ UNCHANGED used

Delete(s) ==
    /\ Exists(s)
    /\ state' = [state EXCEPT ![s] = NULL]
    /\ UNCHANGED used

Next ==
    \E s \in States :
        \/ \E i \in Slots, n \in Names : Send(s, i, n) \/ Receive(s, i, n)
        \/ \E t \in States : Copy(s, t)
        \/ \E n \in Names : Take(s, n)
        \/ \E i \in Slots : Complete(s, i)
        \/ \E ids \in SUBSET Slots : Finish(s, ids)
        \/ Delete(s)

Spec == Init /\ [][Next]_vars
=============================================================================
