----------------------------- MODULE Interpreter ----------------------------
(***************************************************************************)
(* The interpreter as a machine that runs the processes of the verified    *)
(* program one at a time: the call stack of a process, its heap, calls     *)
(* into the interpreter (malloc, free, atexit, exit, MPI), the pause of a  *)
(* blocking MPI call and its resumption by the explorer, and copies of     *)
(* processes.                                                              *)
(*                                                                         *)
(* The program is any program: the next instruction is chosen freely, so   *)
(* CurBB and CurInst are not kept, and of the values of a frame only the   *)
(* one set last by a call is.  A program frees what it allocated, its exit *)
(* handlers call neither exit nor a blocking MPI function, and int main    *)
(* returns a value.                                                        *)
(***************************************************************************)
EXTENDS MemoryObjects, Functions, FiniteSets, FiniteSetsExt

CONSTANTS
    Processes,      \* addresses for ExecutionStates
    Ranks,          \* those of the initial program state
    Sites,          \* call instructions
    ExitCodes,      \* values of int functions
    Handlers,       \* functions passed to atexit
    Sizes,          \* bytes asked for by malloc and alloca
    GlobalSize,     \* bytes of the one global variable
    MainArities,    \* numbers of parameters that main may have
    MaxFrames,      \* bound on the frames of all processes
    MaxBlocks,      \* bound on the blocks of all processes
    MaxHandlers,    \* bound on AtExitHandlers
    NULL, Void

ASSUME RanksAssumption == Ranks # {} /\ Ranks \subseteq Processes
ASSUME MainAssumption == MainArities \subseteq {0, 2}
ASSUME CodeAssumption == ExitCodes \subseteq Nat
ASSUME SitesAssumption == NULL \notin Sites /\ NULL \notin Processes
ASSUME VoidAssumption == Void \notin Nat
ASSUME SizesAssumption == Sizes \subseteq Nat /\ GlobalSize \in Nat

VARIABLES
    process,        \* ProcessState: [ECStack, MObjects, Status]
    State,          \* the ExecutionState the interpreter works on
    running,        \* inside Interpreter::run
    PauseFlag,
    ExitValue,
    AtExitHandlers,
    exiting,        \* inside exitCalled, which does not return
    exited,         \* why the verifier ended, or NULL
    held            \* process -> address of each live block -> bytes asked for
                    \* and by whom; for checking only

vars == <<process, State, running, PauseFlag, ExitValue, AtExitHandlers, exiting, exited, held>>

(* A call returns a number, an address or nothing.                         *)
Results == ExitCodes \cup 0 .. AddressPages * PageSize

NewFrame(external) ==
    [external |-> external, Caller |-> NULL, Value |-> NULL, Allocas |-> << >>]

Frame == [external : BOOLEAN, Caller : Sites \cup {NULL},
          Value : (Sites \X Results) \cup {NULL}, Allocas : Seq(Nat)]

Statuses == {"NONE", "PS_INITED", "PS_WAIT", "PS_FINISHED"}

ProcessRecord == [ECStack : Seq(Frame), MObjects : Heap, Status : Statuses]

HeldBlock == [size : Nat, owner : {"globals", "frame", "malloc", "main", "lost"}]

TypeOK ==
    /\ process \in [Processes -> ProcessRecord]
    /\ DOMAIN held = Processes
    /\ \A p \in Processes : held[p] \in [DOMAIN held[p] -> HeldBlock]
    /\ State \in Processes
    /\ running \in BOOLEAN /\ PauseFlag \in BOOLEAN /\ exiting \in BOOLEAN
    /\ ExitValue \in Results
    /\ AtExitHandlers \in Seq(Handlers)
    /\ exited \in {NULL, "exit", "Address space is full"}

NoBlocks == [p \in {} |-> NULL]

(* runInitialization: the globals are the first blocks of every heap.      *)
InitialHeap == AllocIn(NoHeap, GlobalSize)

Block(size, owner) == [size |-> size, owner |-> owner]

With(hold, address, block) ==
    [a \in DOMAIN hold \cup {address} |-> IF a = address THEN block ELSE hold[a]]

Without(hold, addresses) == Restrict(hold, DOMAIN hold \ addresses)

InitialBlocks == With(NoBlocks, InitialHeap.ptr, Block(GlobalSize, "globals"))

Init ==
    /\ process = [p \in Processes |->
           IF p \in Ranks
           THEN [ECStack |-> << >>, MObjects |-> InitialHeap.heap, Status |-> "PS_INITED"]
           ELSE [ECStack |-> << >>, MObjects |-> NoHeap, Status |-> "NONE"]]
    /\ held = [p \in Processes |-> IF p \in Ranks THEN InitialBlocks ELSE NoBlocks]
    /\ State \in Ranks
    /\ running = FALSE /\ PauseFlag = FALSE /\ exiting = FALSE
    /\ ExitValue = 0
    /\ AtExitHandlers = << >>
    /\ exited = NULL
-----------------------------------------------------------------------------
Current == process[State]

Depth(p) == Len(p.ECStack)

FrameCount == SumFunction([p \in Processes |-> Depth(process[p])])

BlockCount == SumFunction([p \in Processes |-> Cardinality(DOMAIN held[p])])

Push(p, external) == [p EXCEPT !.ECStack = Append(@, NewFrame(external))]

(* visitCallSite, up to the frame that callFunction pushes.  What an       *)
(* earlier call set is not looked at any more.                             *)
EnterCall(p, site, external) ==
    Push([p EXCEPT !.ECStack[Depth(p)] = [@ EXCEPT !.Caller = site, !.Value = NULL]], external)

(* Mutant of SetReturned: the call is forgotten before its value is set.   *)
SetReturnedTooLate(frame, value) ==
    [frame EXCEPT !.Caller = NULL,
                  !.Value  = IF value = Void THEN frame.Value ELSE <<NULL, value>>]

(* Mutant of SetReturned: the call stays open.                             *)
SetReturnedAgain(frame, value) ==
    [frame EXCEPT !.Value = IF value = Void THEN frame.Value ELSE <<frame.Caller, value>>]

SetReturned(frame, value) ==
    [frame EXCEPT !.Caller = NULL,
                  !.Value  = IF value = Void THEN frame.Value ELSE <<frame.Caller, value>>]

(* Mutant of PopStack: the frame keeps its allocas.                        *)
PopStackOnly(p, value) ==
    LET n    == Depth(p)
        rest == SubSeq(p.ECStack, 1, n - 1)
    IN [p EXCEPT !.ECStack = IF rest = << >> THEN rest
                             ELSE [rest EXCEPT ![n - 1] = SetReturned(@, value)]]

(* popStackAndReturnValueToCaller.                                         *)
PopStack(p, value) ==
    LET n    == Depth(p)
        rest == SubSeq(p.ECStack, 1, n - 1)
        back == IF rest = << >> THEN rest
                ELSE IF rest[n - 1].Caller = NULL THEN rest
                ELSE [rest EXCEPT ![n - 1] = SetReturned(@, value)]
    IN [p EXCEPT !.ECStack  = back,
                 !.MObjects = FoldLeft(FreeIn, @, p.ECStack[n].Allocas)]

(* A void return leaves ExitValue.IntVal as it is: only the union of the   *)
(* GenericValue is cleared.                                                *)
ExitValueAfter(p, value) ==
    IF Depth(p) = 1 /\ value # Void THEN value ELSE ExitValue

(* callFunction of a declaration that does not pause.                      *)
ReturnAtOnce(p, site, value) == PopStack(EnterCall(p, site, TRUE), value)

SetProcess(p) == process' = [process EXCEPT ![State] = p]

Hold(address, block) ==
    held' = [held EXCEPT ![State] = With(@, address, block)]

LetGo(addresses) ==
    held' = [held EXCEPT ![State] = Without(@, addresses)]

(* allocPage ends the verifier in the middle of the instruction.           *)
OutOfMemory ==
    /\ exited' = "Address space is full"
    /\ UNCHANGED <<process, State, running, PauseFlag, ExitValue, AtExitHandlers, exiting, held>>

Executing ==
    /\ exited = NULL
    /\ running /\ ~ PauseFlag
    /\ Current.ECStack # << >>

SameRun == UNCHANGED <<State, running, PauseFlag, exiting, exited>>

(* Mutant of VisitAlloca: the frame does not list the block.               *)
VisitAllocaUnlisted(size) ==
    LET a == AllocIn(Current.MObjects, size)
    IN /\ Executing
       /\ BlockCount < MaxBlocks
       /\ IF AddressSpaceIsFull(a.heap) THEN OutOfMemory
          ELSE /\ SetProcess([Current EXCEPT !.MObjects = a.heap])
               /\ Hold(a.ptr, Block(size, "frame"))
               /\ SameRun /\ UNCHANGED <<ExitValue, AtExitHandlers>>

VisitAlloca(size) ==
    LET a == AllocIn(Current.MObjects, size)
        n == Depth(Current)
    IN /\ Executing
       /\ BlockCount < MaxBlocks
       /\ IF AddressSpaceIsFull(a.heap) THEN OutOfMemory
          ELSE /\ SetProcess([Current EXCEPT !.MObjects = a.heap,
                                             !.ECStack[n].Allocas = Append(@, a.ptr)])
               /\ Hold(a.ptr, Block(size, "frame"))
               /\ SameRun /\ UNCHANGED <<ExitValue, AtExitHandlers>>

VisitCall(site) ==
    /\ Executing
    /\ FrameCount < MaxFrames
    /\ SetProcess(EnterCall(Current, site, FALSE))
    /\ SameRun /\ UNCHANGED <<ExitValue, AtExitHandlers, held>>

VisitReturn(value) ==
    /\ Executing
    /\ Depth(Current) = 1 /\ ~ exiting => value # Void
    /\ SetProcess(PopStack(Current, value))
    /\ ExitValue' = ExitValueAfter(Current, value)
    /\ LetGo(Range(Current.ECStack[Depth(Current)].Allocas))
    /\ SameRun /\ UNCHANGED AtExitHandlers

(* MPI_Comm_rank, MPI_Isend and MPI_Irecv return 0.                        *)
CallExternal(site) ==
    /\ Executing
    /\ SetProcess(ReturnAtOnce(Current, site, 0))
    /\ SameRun /\ UNCHANGED <<ExitValue, AtExitHandlers, held>>

CallMalloc(site, size) ==
    LET a == AllocIn(Current.MObjects, size)
    IN /\ Executing
       /\ BlockCount < MaxBlocks
       /\ IF AddressSpaceIsFull(a.heap) THEN OutOfMemory
          ELSE /\ SetProcess(ReturnAtOnce([Current EXCEPT !.MObjects = a.heap], site, a.ptr))
               /\ Hold(a.ptr, Block(size, "malloc"))
               /\ SameRun /\ UNCHANGED <<ExitValue, AtExitHandlers>>

CallFree(site) ==
    /\ Executing
    /\ \E p \in DOMAIN held[State] :
          /\ held[State][p].owner = "malloc"
          /\ SetProcess(ReturnAtOnce([Current EXCEPT !.MObjects = FreeIn(@, p)], site, Void))
          /\ LetGo({p})
    /\ SameRun /\ UNCHANGED <<ExitValue, AtExitHandlers>>

CallAtExit(site, handler) ==
    /\ Executing
    /\ Len(AtExitHandlers) < MaxHandlers
    /\ AtExitHandlers' = Append(AtExitHandlers, handler)
    /\ SetProcess(ReturnAtOnce(Current, site, 0))
    /\ SameRun /\ UNCHANGED <<ExitValue, held>>

(* Mutant of CallBlocking: callFunction does not look at PauseFlag.        *)
CallBlockingReturns(site) ==
    /\ Executing
    /\ ~ exiting
    /\ SetProcess([ReturnAtOnce(Current, site, 0) EXCEPT !.Status = "PS_WAIT"])
    /\ PauseFlag' = TRUE
    /\ UNCHANGED <<State, running, ExitValue, AtExitHandlers, exiting, exited, held>>

(* MPI_Wait, MPI_Waitall and MPI_Test: callFunction leaves the frame of    *)
(* the external function on the stack.                                     *)
CallBlocking(site) ==
    /\ Executing
    /\ ~ exiting
    /\ SetProcess([EnterCall(Current, site, TRUE) EXCEPT !.Status = "PS_WAIT"])
    /\ PauseFlag' = TRUE
    /\ UNCHANGED <<State, running, ExitValue, AtExitHandlers, exiting, exited, held>>

(* One turn of runAtExitHandlers on an empty stack, then exit.             *)
RunLastHandler(p) ==
    IF AtExitHandlers = << >>
    THEN /\ exited' = "exit"
         /\ SetProcess(p)
         /\ UNCHANGED AtExitHandlers
    ELSE /\ AtExitHandlers' = Front(AtExitHandlers)
         /\ SetProcess(Push(p, FALSE))
         /\ UNCHANGED exited

(* The stack is dropped with its frames, not popped: allocas stay used.    *)
CallExit ==
    /\ Executing
    /\ ~ exiting
    /\ exiting' = TRUE
    /\ RunLastHandler([Current EXCEPT !.ECStack = << >>])
    /\ held' = [held EXCEPT ![State] = [p \in DOMAIN @ |-> Block(@[p].size, "lost")]]
    /\ UNCHANGED <<State, running, PauseFlag, ExitValue>>

HandlerReturns ==
    /\ exited = NULL
    /\ running /\ exiting
    /\ Current.ECStack = << >>
    /\ RunLastHandler(Current)
    /\ UNCHANGED <<State, running, PauseFlag, ExitValue, exiting, held>>
-----------------------------------------------------------------------------
Idle == exited = NULL /\ ~ running

(* callFunctionAsMain and run, for a rank of the initial state; the list   *)
(* of arguments and their characters are blocks that nobody frees.         *)
Start(p, arity) ==
    LET list  == AllocIn(process[p].MObjects, 2 * WordBytes)
        chars == AllocIn(list.heap, 1)
    IN /\ Idle
       /\ process[p].Status = "PS_INITED"
       /\ process[p].ECStack = << >>
       /\ IF arity = 2 /\ AddressSpaceIsFull(chars.heap)
          THEN /\ exited' = "Address space is full"
               /\ UNCHANGED <<process, State, running, PauseFlag, held>>
          ELSE /\ State' = p /\ running' = TRUE /\ PauseFlag' = FALSE
               /\ process' = [process EXCEPT ![p] =
                      Push(IF arity = 2 THEN [@ EXCEPT !.MObjects = chars.heap] ELSE @, FALSE)]
               /\ held' = [held EXCEPT ![p] =
                      IF arity = 2
                      THEN With(With(@, list.ptr, Block(2 * WordBytes, "main")),
                                chars.ptr, Block(1, "main"))
                      ELSE @]
               /\ UNCHANGED exited
       /\ UNCHANGED <<ExitValue, AtExitHandlers, exiting>>

(* The loop of run ends, and the explorer looks at the process.            *)
RunReturns ==
    /\ exited = NULL
    /\ running /\ ~ exiting
    /\ PauseFlag \/ Current.ECStack = << >>
    /\ running' = FALSE
    /\ SetProcess(IF PauseFlag THEN Current ELSE [Current EXCEPT !.Status = "PS_FINISHED"])
    /\ UNCHANGED <<State, PauseFlag, ExitValue, AtExitHandlers, exiting, exited, held>>

AllStarted == \A p \in Processes : process[p].Status # "PS_INITED"

(* setState and resumeRun: the waiting call returns 0 and the run goes on. *)
Resume(p) ==
    /\ Idle /\ AllStarted
    /\ process[p].Status = "PS_WAIT"
    /\ State' = p /\ running' = TRUE /\ PauseFlag' = FALSE
    /\ process' = [process EXCEPT ![p] = PopStack(@, 0)]
    /\ UNCHANGED <<ExitValue, AtExitHandlers, exiting, exited, held>>

(* A copied program state copies its processes; one is looked at here.     *)
Copy(p, q) ==
    /\ Idle /\ AllStarted
    /\ process[p].Status = "PS_WAIT"
    /\ process[q].Status = "NONE"
    /\ process' = [process EXCEPT ![q] = process[p]]
    /\ held' = [held EXCEPT ![q] = held[p]]
    /\ UNCHANGED <<State, running, PauseFlag, ExitValue, AtExitHandlers, exiting, exited>>

Next ==
    \/ \E size \in Sizes : VisitAlloca(size)
    \/ \E value \in ExitCodes \cup {Void} : VisitReturn(value)
    \/ \E site \in Sites :
          \/ VisitCall(site)
          \/ CallFree(site)
          \/ CallBlocking(site)
          \/ CallExternal(site)
          \/ \E size \in Sizes : CallMalloc(site, size)
          \/ \E handler \in Handlers : CallAtExit(site, handler)
    \/ CallExit
    \/ HandlerReturns
    \/ RunReturns
    \/ \E p \in Processes :
          \/ \E arity \in MainArities : Start(p, arity)
          \/ Resume(p)
          \/ \E q \in Processes : Copy(p, q)

Spec == Init /\ [][Next]_vars
-----------------------------------------------------------------------------
(* The allocation list of every process is sound after any history of      *)
(* allocations, returns and copies (MemoryObjects::alloc and free).        *)
HeapListsAreSound == \A p \in Processes : ListIsSound(process[p].MObjects)

(* The used entries are exactly the blocks the program still holds, each   *)
(* at least as large as was asked for: no return, exit or free of one      *)
(* frame or process takes or cuts a block of another, and none is leaked.  *)
HeldBlocksAreIntact ==
    \A p \in Processes :
        /\ UsedAt(process[p].MObjects) = DOMAIN held[p]
        /\ \A address \in DOMAIN held[p] :
              UsedSize(process[p].MObjects, address) >= held[p][address].size

(* Every block of a frame is listed once, in one frame of the stack: it is *)
(* freed once, by the return of that frame (ExecutionContext::free).       *)
FramesOwnTheirAllocas ==
    \A p \in Processes :
        LET frames == DOMAIN process[p].ECStack
            owned(i) == process[p].ECStack[i].Allocas
        IN /\ UNION {Range(owned(i)) : i \in frames}
                  = {a \in DOMAIN held[p] : held[p][a].owner = "frame"}
           /\ \A i \in frames : IsInjective(owned(i))
           /\ \A i, j \in frames : i # j => Range(owned(i)) \cap Range(owned(j)) = {}

(* A process that the interpreter left is finished with an empty stack or  *)
(* waits in an external call that its caller knows of; resumeRun relies on *)
(* the frame of that call being the last one.                              *)
LeftProcessesWait ==
    \A p \in Processes :
        LET stack == process[p].ECStack
            n     == Len(stack)
        IN (process[p].Status \in {"PS_WAIT", "PS_FINISHED"} /\ ~ (running /\ State = p)) =>
            IF process[p].Status = "PS_FINISHED" THEN n = 0
            ELSE n >= 2 /\ stack[n].external /\ stack[n - 1].Caller # NULL

(* The frames below the last one wait for the call they made, and only the *)
(* last can be external: the frame of a blocking call, which has nothing   *)
(* to free, of a process that waits and does not run.                      *)
FramesAreInPlace(p) ==
    LET stack == process[p].ECStack
        n     == Len(stack)
    IN /\ \A i \in 1 .. n : stack[i].Caller = NULL <=> i = n
       /\ \A i \in 1 .. n : stack[i].external =>
             /\ i = n /\ n >= 2
             /\ stack[i].Allocas = << >>
             /\ process[p].Status = "PS_WAIT"
             /\ ~ (running /\ State = p /\ ~ PauseFlag)

(* The interpreter pauses in no other place than the frame of a blocking   *)
(* call.                                                                   *)
PausedInCall ==
    running /\ PauseFlag =>
        /\ Current.Status = "PS_WAIT"
        /\ Current.ECStack # << >> /\ Last(Current.ECStack).external

(* What every step of the interpreter keeps, and all of it is needed: the  *)
(* return of a call (popStackAndReturnValueToCaller) frees what the frame  *)
(* lists in the heap of its process, and sets the value in the frame below. *)
InterpreterInv ==
    /\ TypeOK
    /\ \A p \in Processes :
          /\ process[p].MObjects.list = << >> => process[p].MObjects = NoHeap
          /\ process[p].Status = "NONE" => process[p].ECStack = << >>
          /\ FramesAreInPlace(p)
    /\ running => Current.Status # "NONE"
    /\ PausedInCall
    /\ HeapListsAreSound
    /\ HeldBlocksAreIntact
    /\ FramesOwnTheirAllocas
    /\ LeftProcessesWait
-----------------------------------------------------------------------------
Activation(frame) == [pending |-> frame.Caller, got |-> frame.Value]

ActivationsOf(stack) ==
    LET own == IF stack # << >> /\ Last(stack).external THEN Front(stack) ELSE stack
    IN [i \in DOMAIN own |-> Activation(own[i])]

Activations == [p \in Processes |-> ActivationsOf(process[p].ECStack)]

Calls == INSTANCE CallStack WITH
    activations <- Activations,
    exitValue   <- ExitValue,
    Results     <- Results \cup {Void},
    None        <- NULL

(* Frames, the Caller of each frame, external frames and the PauseFlag     *)
(* together give every process plain procedure calls: each call gets one   *)
(* answer, at its own site, whatever runs between a pause and its          *)
(* resumption.                                                             *)
ImplementsCallStack == Calls!CallStackSpec
=============================================================================
