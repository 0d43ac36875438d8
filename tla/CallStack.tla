------------------------------ MODULE CallStack -----------------------------
(***************************************************************************)
(* What the interpreter promises the verified program: procedure calls.    *)
(* Every process has a stack of activations of its own.  A call gets       *)
(* exactly one answer, at the place it was made, from the activation it    *)
(* started or from outside the program; a blocking call gets it later.     *)
(***************************************************************************)
EXTENDS Naturals, Sequences

CONSTANTS Processes, Sites, Results, None, Void

VARIABLES
    activations,  \* process -> sequence of activations, the running one last
    exitValue     \* what the last process to finish returned

(* `pending' is the call that waits for an answer, `got' the last answer.  *)
Fresh == [pending |-> None, got |-> None]

Top(p) == Len(activations[p])

CallStackInit ==
    /\ activations = [p \in Processes |-> << >>]
    /\ exitValue = 0

Runs(p) == Top(p) > 0 /\ activations[p][Top(p)].pending = None

Begin(p) ==
    /\ Top(p) = 0
    /\ activations' = [activations EXCEPT ![p] = <<Fresh>>]
    /\ UNCHANGED exitValue

Calling(p, c) == [activations[p] EXCEPT ![Top(p)] = [pending |-> c, got |-> None]]

Call(p, c) ==
    /\ Runs(p)
    /\ activations' = [activations EXCEPT ![p] = Append(Calling(p, c), Fresh)]
    /\ UNCHANGED exitValue

Block(p, c) ==
    /\ Runs(p)
    /\ activations' = [activations EXCEPT ![p] = Calling(p, c)]
    /\ UNCHANGED exitValue

(* A void answer only lets the caller go on.                               *)
Answered(stack, v) ==
    LET n == Len(stack)
    IN [stack EXCEPT ![n] =
            [pending |-> None,
             got     |-> IF v = Void THEN stack[n].got ELSE <<stack[n].pending, v>>]]

Answer(p, v) ==
    /\ Top(p) > 0 /\ ~ Runs(p)
    /\ activations' = [activations EXCEPT ![p] = Answered(@, v)]
    /\ UNCHANGED exitValue

(* A call out of the program that does not block.                          *)
CallOut(p, c, v) ==
    /\ Runs(p)
    /\ activations' = [activations EXCEPT ![p] = Answered(Calling(p, c), v)]
    /\ UNCHANGED exitValue

Return(p, v) ==
    /\ Runs(p)
    /\ IF Top(p) = 1
       THEN /\ activations' = [activations EXCEPT ![p] = << >>]
            /\ exitValue' = IF v = Void THEN exitValue ELSE v
       ELSE /\ activations' = [activations EXCEPT ![p] = Answered(SubSeq(@, 1, Top(p) - 1), v)]
            /\ UNCHANGED exitValue

Abandon(p) ==
    /\ Runs(p)
    /\ activations' = [activations EXCEPT ![p] = << >>]
    /\ UNCHANGED exitValue

(* A call of exit whose first handler starts at once.                      *)
AbandonAndBegin(p) ==
    /\ Runs(p)
    /\ activations' = [activations EXCEPT ![p] = <<Fresh>>]
    /\ UNCHANGED exitValue

Copy(p, q) ==
    /\ Top(q) = 0
    /\ activations' = [activations EXCEPT ![q] = activations[p]]
    /\ UNCHANGED exitValue

CallStackNext ==
    \E p \in Processes :
        \/ Begin(p)
        \/ \E q \in Processes : Copy(p, q)
        \/ \E v \in Results : Answer(p, v)
        \/ /\ Runs(p)
           /\ \/ Abandon(p)
              \/ AbandonAndBegin(p)
              \/ \E v \in Results : Return(p, v)
              \/ \E c \in Sites : Call(p, c) \/ Block(p, c)
              \/ \E c \in Sites, v \in Results : CallOut(p, c, v)

CallStackSpec == CallStackInit /\ [][CallStackNext]_<<activations, exitValue>>
=============================================================================
