---------------------------- MODULE PrivateMemory ---------------------------
(***************************************************************************)
(* What the paged memory promises the explorer: every process of every     *)
(* program state has memory of its own.  A copied state starts with the    *)
(* contents of the original, and from then on no write to one is seen in   *)
(* the other.                                                              *)
(***************************************************************************)
EXTENDS Naturals, Sequences

CONSTANTS States, Ranks, Words, NotLive

VARIABLE mem      \* state -> rank -> sequence of page contents, or NotLive

MemoryInit ==
    \E first \in States :
        mem = [s \in States |-> IF s = first THEN [r \in Ranks |-> << >>] ELSE NotLive]

Live(s) == mem[s] # NotLive

(* A new page holds anything.                                              *)
Grow(s, r) ==
    /\ Live(s)
    /\ \E w \in Words : mem' = [mem EXCEPT ![s][r] = Append(@, w)]

Store(s, r) ==
    /\ Live(s)
    /\ \E i \in DOMAIN mem[s][r], w \in Words : mem' = [mem EXCEPT ![s][r][i] = w]

Copy(s, t) ==
    /\ Live(s) /\ ~ Live(t)
    /\ mem' = [mem EXCEPT ![t] = mem[s]]

Free(s) ==
    /\ Live(s)
    /\ mem' = [mem EXCEPT ![s] = NotLive]

MemoryNext ==
    \E s \in States : \/ \E r \in Ranks : Grow(s, r) \/ Store(s, r)
                      \/ \E t \in States : Copy(s, t)
                      \/ Free(s)

MemorySpec == MemoryInit /\ [][MemoryNext]_mem
=============================================================================
