---------------------------- MODULE MC_StateSpace ---------------------------
(* StateSpace over every transition graph of a family: four digests, two   *)
(* of them shared by two state values, with cycles, self-loops, dead ends, *)
(* several paths to one node and states in which a fast run is due.  In    *)
(* some, the two values with one digest do not go on alike.                *)
EXTENDS StateSpace

(* A value is <<digest, variant>>.                                         *)
GraphValues == {<<1, 0>>, <<2, 0>>, <<2, 1>>, <<3, 0>>, <<4, 0>>, <<4, 1>>}

GraphDigest(v) == v[1]

(* fast: digests in which a rank can go on without a decision; lost: where *)
(* the second variant of 2 does not go, if it and the first are reached.   *)
Graphs ==
    {g \in [next : {<<a, b, c, d>> : a \in SUBSET {1, 2, 3}, b \in SUBSET {1, 3, 4},
                                     c \in SUBSET {2, 4}, d \in {{}, {1}}},
             fast : SUBSET {2, 3},
             lost : {{}, {3}}] :
        g.lost # {} => 3 \in g.next[2] /\ 2 \in g.next[1] \cap g.next[3]}

(* The variant tells a way through 3; runs into 2 record two actions.      *)
RunTo(v, e) ==
    [value |-> <<e, IF e \in {2, 4} /\ v[1] = 3 THEN 1 ELSE 0>>,
     acts |-> IF e = 2 THEN 2 ELSE 0,
     failed |-> IF v[1] = 3 /\ e = 4 THEN {0} ELSE {}]

GraphInitialRun(g) == [value |-> <<1, 0>>, acts |-> 1, failed |-> {}]

Ways(g, v) == IF v[2] = 1 THEN g.next[v[1]] \ g.lost ELSE g.next[v[1]]

GraphForks(g, v) == {RunTo(v, e) : e \in Ways(g, v)}

GraphFastRun(g, v) ==
    IF v[1] \in g.fast
    THEN {RunTo(v, e) : e \in {d \in Ways(g, v) : \A c \in Ways(g, v) : d <= c}}
    ELSE {}

GraphIsTerminated(v) == v[1] = 4
=============================================================================
