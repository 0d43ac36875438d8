# Aislinn in TLA+

Aislinn runs an MPI program in an LLVM interpreter and explores what its MPI
calls can do: every process of the program is a call stack and a heap inside one
verifier process, a *program state* holds all of them, and the explorer copies,
runs and hashes program states until no new one turns up.  This directory models
that explorer: how sends and receives are matched, how states are forked, merged
and released, who owns what they are made of, how the memory of many processes
shares one address space, how the interpreter keeps their call stacks and heaps
and executes instructions, and what the report says in the end.

Paths below are relative to the repository (`src/` is its source directory).

## 1. Inventory

| Component | State | Operations | Interacts with |
|---|---|---|---|
| `StateSpace` (src/MPI/StateSpace) | `Nodes`, `WorkingQueue`, `InitialNode`, `Errors` | constructor, `build`, `computeChilds`, `checkFastRunWait`, `forkWaitOrTest`, `getNode`, `afterRunAction`, `writePathToNode` | owns program states, drives the interpreter |
| `Node`, `Arc` | `Distance`, `PrevNode`, `Arcs` | `addArc`, `updateDistance` | graph of the explorer, read by reports |
| `ProgramState`, `Message` | `Processes`, `Messages`, `Actions` | copy, delete, `addMessage`, `removeMessage`, `collectMessages`, `computeHash`, `messageIndex` | copied by every fork |
| `ProcessState`, `Request` | `Status`, `ActiveRequests`, `FlagPtr`, `Requests` | `newRequest`, `setRequest`, `removeRequests`, `setWait`, `setTest`, `setFinished`, `hash` | MPI calls write it, the explorer reads it |
| `InterpreterMPI` | current program state | `MPI_Isend`, `MPI_Irecv`, `MPI_Wait`, `MPI_Waitall`, `MPI_Test`, `setProgramState` | called back by the interpreter, pauses it |
| `Interpreter`, `ExecutionState` | call stack, `PauseFlag`, `ExitValue`, `AtExitHandlers`, current state | `run`, `resumeRun`, `callFunction`, `callFunctionAsMain`, `exitCalled`, `setState`, a visit function per instruction | runs the verified program |
| External functions | `AtExitHandlers` of the interpreter | `malloc`, `free`, `atexit`, `exit`, `sprintf` and its kin, memory copies, libffi calls | called by the interpreter |
| `MemoryManager`, `MemoryMapping`, `MemoryPage` | address space, `ActivePages`, page tables, reference counts | `allocPage`, `setMapping`, page fault handler, copy and delete of a mapping, `hashMemory` | every load and store of a program may call it, through SIGSEGV |
| `MemoryObjects` | list of blocks | `alloc`, `free`, `hash` | gets pages from `MemoryManager` |
| `Ref`, `RefCountedObj` | a count in every `Message` and `Request` | copy, assign, destroy a `Ref` | how program states share messages and requests |
| Reports: `Action`, `writePathToNode`, `XML`, `main` | `ProgramState::Actions`, actions of arcs, the open elements of the writer | `addAction`, `clearActions`, `addArc`, `writeReport` | reads the finished graph |
| `Hash`, `String`, report tool | digests, output | | |

What is hard in this code, with the lines, is the `hazards` list of
`PROJECT.json`.  In short:

* **Matching.** Receives are matched lazily, when their rank (or a later receive
  of it) is waited for.  MPI's non-overtaking rule then rests on the order of the
  slots of a request table that is filled and emptied in any order.
* **Exploration.** One decided rank is run and all other choices of that node are
  skipped; states are changed in place, queued by pointer, deleted, and merged by
  a hash.
* **Memory.** The processes of all states run at the same addresses.  Pages are
  shared by copied states, protected lazily, and their contents are in the address
  space or in a saved copy, depending on who ran last.
* **Calls and heaps.** A frame's allocas, the program's blocks, main's arguments and
  the globals share one first-fit list; calls are left in the middle by a pause,
  copied with their heap, resumed by the explorer, or dropped by `exit`.
* **Instructions.** Signs, widths, NaNs, endianness and the atomicity of PHI nodes.
* **Ownership.** A fork copies a state, completes receives in the copy from messages
  the copy has just let go of, and drops requests that hold messages.  Questions
  are asked by address, and addresses are used again.
* **Calls out.** Arguments of a native call are packed into one buffer by size, and a
  format decides how many arguments `sprintf` takes.
* **Reports.** Paths are read off `PrevNode` chains that change while the graph
  grows; the actions on an arc come from states that are shared by forks, cleared,
  merged and dropped.

What makes each component correct: a request table names requests as the program
does, and keeps posting order; matching obeys MPI and calls return exactly when
their requests are done; the finished graph is the reachable part of the
program's transition graph; paths lead back to the initial node; no deleted
state is used; a message or request is deleted when the last state lets go of it;
every process has private memory; the blocks of a heap are disjoint
and each is freed once; every call gets one answer, at its own site; instructions
compute what LLVM's language reference says; an action is shown once, on a path
through its node, and the report can be read back.

## 2. Modules

| Module | What it models |
|---|---|
| `MPIObjects` | Messages, requests, request tables, process states and the questions the explorer asks about them, as operators.  `Matchings` states what `collectMessages` returns. |
| `MPIRuntime` | One path of the exploration: ranks make MPI calls, pause, and the explorer resumes one of them with one matching. |
| `MPIMatching` | Abstract: posted sends and receives, and pairs of them matched under the non-overtaking rule. |
| `CollectMessages` | The backtracking search of `collectMessagesHelper` as the code runs it, compared with `Matchings` in the states of `MPIRuntime`, for every order the deque can have. |
| `StateSpace` | The explorer: queue, nodes, arcs, distances, errors, and the lifetime of program states, over any transition system. |
| `MPIProgram` | Program states with a scripted MPI program in them, their runs and their hash: the programs `StateSpace` is given for the tests of the repository. |
| `StateValues` | Abstract: a program state is a value of its own, with messages in flight and a request table. |
| `SharedObjects` | The messages and requests that states share, one change of a `Ref` at a time: copies, forks, completed receives, deletes, and addresses used again. |
| `XMLWriter` | The XML writer as code, and a reader of what it writes. |
| `Reports` | `StateSpace` with the actions of runs, the arcs that show them, the errors and the report. |
| `PrivateMemory` | Abstract: every process of every live state has memory of its own. |
| `PagedMemory` | Pages, mappings, active pages, protection, page faults, copy on write. |
| `MemoryObjects` | The allocation list of one heap: `alloc` and `free` as operators. |
| `CallStack` | Abstract: plain procedure calls, of which some are answered later. |
| `Interpreter` | Call stacks, returns, allocas, `malloc`, `free`, `atexit`, `exit`, the pause of a blocking call, its resumption, and copies of processes, for any program. |
| `Instructions` | What single instructions compute, as operators. |
| `ExternalFunctions` | The argument buffer of a native call, and what `sprintf` makes of a format. |
| `Execution` | One instruction with any operands is executed by its visit function; also one constant, native call or format. |
| `MC_*` | Instances for TLC. |
| `MPIRuntime_proofs` | Theorems about `MPIRuntime`, its refinement, and the search of `CollectMessages`. |
| `StateSpace_proofs`, `SharedObjects_proofs`, `PagedMemory_proofs` | Theorems about the module of that name, refinements included. |
| `Reports_proofs` | Arcs show every action once, and paths in order; extends `StateSpace_proofs`. |
| `MemoryObjects_proofs`, `Interpreter_proofs` | Theorems about heaps, and about the interpreter and that it implements `CallStack`; the second extends the first. |
| `Execution_proofs` | Instructions, constants, native calls and formats compute what is expected, for all widths and values. |

`MPIRuntime` extends `MPIObjects` and instantiates `MPIMatching` with what was
posted and matched along the path; `CollectMessages` extends `MPIRuntime`.  `MPIProgram` reuses the operators of
`MPIObjects` to compute the runs of a script; `Reports` extends `StateSpace` and
`XMLWriter`; `MC_MPITests` hands the runs to it through the constants `InitialRun`,
`FastRun`, `Forks`, `IsTerminated` and `Digest`.  `SharedObjects` instantiates
`StateValues`, `PagedMemory` instantiates `PrivateMemory`, `Interpreter` extends
`MemoryObjects` and instantiates `CallStack`, `Execution` extends `Instructions`
and `ExternalFunctions`.

### How state and actions correspond to the code

*`MPIRuntime`.*  `procs` is `ProgramState::Processes`, `messages` is
`ProgramState::Messages`, `flag` the integer a program passed to `MPI_Test`,
`running` the rank the interpreter runs.  `held`, `posts` and `delivered` belong
to the verified program and to the history of the path.  Every MPI handler of
`InterpreterMPI.cpp` is one action (`Isend`, `Irecv`, `Wait`, `Waitall`, `Test`),
a return from main is `Return`, and the choices of `computeChilds` are
`FastRunWait` (`checkFastRunWait`), `TestNotReady` and `ForkWaitOrTest` (the two
parts of `forkWaitOrTest`).  A C++ pointer to a message is the pair (sender,
sequence number); the deque is the set of its elements, for the code only asks
which of two messages of one sender is older.

*`StateSpace`.*  `queue` is `WorkingQueue`, `nodes` the keys of the map `Nodes`,
`arcs`, `prev` and `dist` the graph, `heap` the live program states by the number
of their allocation, `intr` the object the interpreter's current state belongs
to, `current` the state `computeChilds` is forking and the forks still to make.
`Construct` is the constructor, `FastRunChild` a pop followed by a fast run,
`StartForking`, `ForkChild` and `FinishNode` a pop, each fork, and the end of
`computeChilds`.  The order of the forks of one node is left open, which covers
the order of the code.

*`Reports`.*  Every action of `StateSpace` is one action here, with what it does to
`ProgramState::Actions`, to `Node::Arcs` and to `Errors`.  An action of the verified
program is named by the run that recorded it, so that a reader of a path can tell
where it came from.  The actions of a run stay in its state until a rank goes on from
there; the first fork takes and clears them.  So a path shows actions one arc late,
need not show the last ones, and may show two runs into one node when the second
found the node already there.  `WriteReport` is `writeReport` of `main.cpp`.

*`SharedObjects`.*  `refs` are the variables of type `Ref`: the places of the message
deques, the slots of the request tables, and `Msg` of the send requests.  `obj`,
`count` and `extra` are the objects by address, the count and what it was born with
(`new Request(*R)` copies the count of `R`).  An operation of the explorer puts the
assignments it makes into `todo`, and each is a step, in any order: assign, count
down, delete at zero, which puts the Refs of the deleted object into `todo`.  Elements
that move inside a vector or a deque are copied and destroyed in pairs, which leaves
the counts alone and is left out.  `fork` is `forkWaitOrTest` at work, receive by
receive.

*`PagedMemory`.*  `pages` are the `MemoryPage` objects by address, `maps` the mappings
of each state, `slot` and `prot` the vector `ActivePages`, `phys` the contents of the
address space.  `PageFault` is the signal handler for a touch of the running process,
`HashPage` the one for a touch of `hashMemory`, which looks at the active flag of the
first page of a block for all its pages; `SwitchTo`, `Fork` and `Delete` are what the
explorer does with states.  The saved copy of an active page is `NULL`: the code never
reads it before it is saved again, and a read would show as a type error.

*`Interpreter`.*  `process` holds, of each `ProcessState`, the `ECStack`, the
`MemoryObjects` and the status the explorer sees; `State` is the state of
`setState`, `running` says that `run` is on the host's stack, `exiting` that
`exitCalled` is.  The program is arbitrary: while it runs, any instruction may be
next, so a frame keeps its `Caller`, the value of its last call and its allocas,
and neither `CurBB` nor other values.  Each call is one action: `visitCallSite`,
`callFunction`, the external function, and the pop of its frame
(`ReturnAtOnce`), unless it pauses (`CallBlocking`), where the external frame stays
until `Resume`.  `VisitReturn` is `visitReturnInst` with
`popStackAndReturnValueToCaller`, which frees the allocas of the frame.  `CallExit`
drops the stack, starts the last handler, and `HandlerReturns` is a further turn of
`runAtExitHandlers`.  `RunReturns` is the end of the loop in `run` with
`afterRunAction`.  `held` is history: which blocks the program holds, how large,
and whose they are.  Things of the code that show in the model: a void
return leaves `ExitValue.IntVal` as it was; `AtExitHandlers` is one list shared
by all ranks and states, and only `exit` runs it, not a return from main; `exit`
loses the blocks of the frames it drops, which no longer matters as the verifier
ends.

*`Execution`.*  `instruction` is the instruction with the values of its operands,
`result` what its visit function passes to `SetValue`.  Visit functions that only
fetch operands and call an `execute...` function are one action by kind (`visitCast`,
`visitShift`).  `getConstantValue` computes constants of nested types,
`getConstantExprValue` one constant expression from the values of its operands;
`visitConstantExpr` puts several together, as `getOperandValue` does when the operand
of an expression is an expression.  Bytes of an argument buffer and directives of a
format keep the name of the argument they come from.

Integers are numbers below 2^w, pointers numbers below 2^`PointerBits`, vectors are
sequences.  A float is NaN or one of a few ordered numbers in compares.  In casts it is a
whole number of quarters with at most `FloatDigits` significant bits, or `DoubleDigits`
for a double (`IsFloat`), and a cast into it rounds to the nearest one, ties to even
(`Rounded`).  The code makes a float of an integer by way of a double (`RoundAPInt`), so
it rounds twice.  That is LLVM's conversion for integers of up to 64 bits; wider ones
lose low bits in it first and are left out.  Finer fractions, denormals and infinities
are left out too.  `APIntOp`, `NextPowerOf2`, `CCompare`, `Rounded` and `RoundAPInt` are
LLVM's and the host's, and marked external.

Predicates compare pointers as `void*`, without a sign (`IMPLEMENT_POINTER_ICMP`).  In a
vector of pointers each lane compares the one-bit zero of its `IntVal` (`ICmpVector`);
no property is stated of those.  `visitBinaryOperator` is executed on scalars only, and
has no property of its own: its operators are APInt's, and a property would repeat them.

## 3. Runs

| Run | Module, cfg | Checks | Size |
|---|---|---|---|
| runtime_pair | MC_MPIRuntime, MC_RuntimePair | `RuntimeInv` (with the type invariant), `HandlesNameTheirRequests`, refinement `ImplementsMatching`, `ReturnsExactlyWhenDone` (an invariant and an action property), action property `ReadyStaysReady` | 481,854 states |
| runtime_fan_in | MC_MPIRuntime, MC_RuntimeFanIn | `MatchingIsLegal`, `SearchFindsTheMatchings`, `TypeTellsDelivery` | 586,178 states |
| state_space | MC_StateSpace | `ExplorerInv`, `QueuedStatesAreLive`, `InterpreterStateIsLive`, `PathsLeadBack`, `GraphIsExact`, `DeadlocksAreReported`, liveness `ExplorationEnds` | 62,723 states |
| mpi_tests | MC_MPITests | `ReportsAreAsTested`, `ActionsAreShownOnce`, `PathsShowRunsInOrder` | 15,736 states |
| shared_objects | MC_SharedObjects | `ValuesInv` (with `ObjectsInv`), `OnlyCompletedRecvsLeak`, refinement `ImplementsValues` | 56,983 states |
| paged_memory | MC_PagedMemory | `PagedInv`, refinement `ImplementsPrivateMemory` | 394,064 states |
| interpreter | MC_Interpreter | `InterpreterInv` (with `TypeOK`), `HeapListsAreSound`, `HeldBlocksAreIntact`, `FramesOwnTheirAllocas`, `LeftProcessesWait`, refinement `ImplementsCallStack` | 80,193 states |
| execution | MC_Execution | `ComparesFollowTheirPredicate`, `ShiftsStayInRange`, `CastsBringValuesBack`, `IndicesAreSigned`, `BitCastsKeepMemory`, `ElementsStayInPlace`, `ConstantsComputeAddresses`, `PhisAreParallel`, `ConstantsHaveTheirType`, `ArgumentsArriveIntact`, `FormatsAreExpanded` | 100,448 states |

Four more runs each end in a state that contradicts a statement of the
repository (section 5).

What the bounds are for:

* `MC_RuntimePair`: two ranks, one tag, wildcards, 3 and 2 posts, request tables
  of 3 slots.  Three posts of one rank are what it takes to leave a hole below a
  live request and post again; with sends in both directions Waitalls mix sends
  and receives.
* `MC_RuntimeFanIn`: two senders to one receiver, two tags, two requests each.
  Wildcards choose between senders, tags make a receive skip the oldest message,
  and a receive waited for can be preceded by one that is not.  Tags are symmetric.
* `MC_StateSpace`: every graph of a family with four digests, of which two have two
  state values.  In some graphs the two values of one digest do not go on alike, as
  when a hash leaves out something that matters (`DigestsDecide` fails there); at most
  ten objects (an exploration allocates one per fork and there are at most nine arcs).
  All shapes a merge, a cycle or a predecessor change needs occur with four nodes.
* `MC_MPITests`: the scripts of `tests/mpi` with the arguments `test_mpi.py` uses, and
  one more, in which either of two ranks may go first, so that nodes are reached in
  several orders.  `MaxObjects` 60 is above what any of them allocates.
  `ReportsAreAsTested` compares node counts and errors with `test_mpi.py` and reads
  the written report back.
* `MC_SharedObjects`: two states (a fork has no more at work), three slots, two places
  in a deque, two message and four request addresses, three posts in all.  A fork
  that completes two receives needs two addresses more than posts, and both kinds of
  address are used again.  States, addresses and names are symmetric.
* `MC_PagedMemory`: two program states alive at a time, two processes each, two
  page indices, four pages (both processes of both states need at most that many
  when pages are shared, and a run that needs a fifth is cut).  States and
  processes are symmetric.
* `MC_Interpreter`: one rank and one copy of it; two call sites (symmetric); blocks of
  0 and 3 bytes, of one or two words, on two pages of two words, so that a list
  grows by a page, merges on either side and meets the end of the address space;
  two frames and three blocks in all besides those a `main` with two parameters
  gets from the interpreter; one exit handler.  Two frames are a caller and a
  callee, or one frame in the original and in the copy; a blocking call adds its
  external frame beyond `MaxFrames`.
* `MC_Execution`: two lanes; two floats and a NaN, which gives every outcome of a
  compare; integers of up to four bits for compares and operators (`OperatorWidths`)
  and five for casts, addresses of four bits and short indices of two, fields and
  elements of a few sizes (`Offsets`, `Sizes`); floats of two significant bits and
  doubles of three, up to 35 (`MaxQuarters`), so that integers of five bits fit, do
  not fit, and are rounded twice, 21 to 20 and then to 16 instead of 24, say; vectors
  of at most eight bits (`MaxBits`); two PHI nodes over three values and two
  predecessors; constants of types nested twice; native calls of three arguments, with
  a width libffi has no type for; formats of up to three items (`MaxPieces`).  Every
  combination of operands is an initial state.  In the theorems of section 4 these
  constants have any value; what stays as it is there: two lanes (but any number in a
  bit cast), two PHI nodes, three native arguments, types nested twice, the pieces a
  format can have.

Deadlock checking is off in all runs: a verified program can wait for ever, the
explorer ends, the verifier exits on errors, and `Execution` is of one instruction.

### Fairness

Only `StateSpace` states liveness, under `WF_vars(Next)`: `build` is one loop of
one thread that takes a step whenever there is one.  A step of the model contains
a run of the interpreter, which ends if the verified program does not loop without
MPI calls; Aislinn has no bound on such runs either and would not end, so this is
an assumption on the program.

## 4. Theorems

tlapm checks every proof in the modules below; nothing is assumed but the named
assumptions of the modules (constants have the right kind, `NULL` and
`NoMessage` are distinct from the rest; for instructions, a NaN is no number,
widths are positive, a short index is shorter than an address, a float has fewer digits
than a double, a frame has finitely many values).

`MPIRuntime_proofs`, for any number of ranks, tags, links, posts and slots:

* `TypeCorrect`, `Invariance`: `RuntimeTypeOK` and `RuntimeInv` hold always.
* `RequestTablesAreSound`, `NothingIsLost`, `MatchingNeverOvertakes`: the
  invariants of the runs above.
* `RuntimeImplementsMatching`: `Spec => ImplementsMatching`.
* `CallsReturnExactlyWhenDone`, `ReadyRanksStayReady`: `ReturnsExactlyWhenDone` (a call
  returns only when its requests are done, and when they are it can return, or set the
  flag of a Test) and the action property `ReadyStaysReady`.

The argument is one inductive invariant, `RuntimeInv`, and most of it is about its
first part, `TablesInv`.  `MatchingIsLegal` alone is
not inductive: that a receive taken now does not overtake one posted earlier needs
the slots to be in posting order (`IdsFollowPostOrder`), the history and the
tables to agree on what was received (`TypeTellsDelivery`,
`InFlightNotDelivered`), and new posts to be numbered above all old ones
(`NumbersAreGivenOut`).  `HandlesNameTheirRequests` says which ids a program may
name, and needs `UndecidedTestIsClear` for a Test that is resumed with flag 0.
The proof has a lemma per action and conjunct; the step that matches several
receives at once is the long one: it shows that the pairs made by one legal choice
cross neither each other nor older pairs.  The refinement follows from the same
invariant: a post is a `PostSend` or `PostRecv`, a fork with at least one match is
a `Match`, everything else stutters.

What a call relies on when it returns are the other two parts of `RuntimeInv`.
`SendsAreAccountedFor` says that a send request is for a message that is in flight or
was delivered, so that "not in the deque" means "received"; `WaitedRequestsAreLive`
that the ids a rank waits for are in its table until it goes on, whatever the others
do.  `ReadyRanksStayReady` is about choices: a message that another rank posts is the
youngest of its sender, so the choice a waiting rank had grows by that message at the
lowest slot left empty that accepts it, and is legal again (`MatchingGrows`); a message
that another rank takes was not meant for this one, and the choice survives
(`MatchingSurvives`).

In the same module, about `CollectMessages`:

* `SearchIsExact`: for any finite deque, request table, rank and set of receives, the
  search returns the legal matchings and no other.
* `SearchIsExactInEveryState`: `SearchFindsTheMatchings`.

What the search has left to do for the vector `Matched` has a closed form, the legal
matchings that begin with it (`Completions`).  The scan of the deque with one flag per
sender tries the oldest message each sender has left (`TriedAreOldest`), so the closed
form satisfies the recursion of `collectMessagesHelper` (`CompletionsRecur`), and at
the longest vector where another function differed there would be a longer one
(`HelperIsUnique`).  The deque is finite because each step adds one message to it or
takes some away.

`StateSpace_proofs`, for every program, every set of state values, every digest
function and any number of objects:

* `TypeCorrect`, `Invariance`: `TypeOK` and the inductive `ExplorerInv`.
* `QueueIsSound`, `InterpreterIsSafe`: no deleted program state is queued, popped
  or taken for the interpreter's current one.
* `PathsAreSound`: `PrevNode` leads from every node to the initial one.
* `ExplorationIsExact`, `DeadlocksAreExact`: `GraphIsExact` and `DeadlocksAreReported`,
  the finished graph and the deadlocks in it.

Nothing is assumed of the digest.  Whatever it is, the finished graph is closed, has only
nodes of reachable states, and each node has the arcs of all runs of one reachable state
with its digest; a deadlock is one of such a state.  Where the digest tells apart what
matters (`DigestsDecide`: reachable states of one digest terminate alike and have
successors of the same digests) the graph is that of the program, and every deadlock is
found.  The code's digest need not: positions of heap blocks are not hashed, the hash of
a completed receive is undefined, and `hashMemory` may read the wrong copy of a page
(section 5).  Finding arrival_order is about the converse, equal states with different
digests, which costs nodes and nothing else.  `ProgramAssumption` says that a run is
deterministic, so `checkFastRunWait` has at most one outcome.

`ExplorerInv` says, of a node that is
queued, that it has no arcs; of the one being forked, that it has those of the
forks made; of all others, that their arcs are those of all runs of one reachable state
(`NodesAreExpanded`, `ExpandedAs`).  `EntriesAreLive` keeps the states of the first two apart,
`LastRunIsLast` puts the state that ran last at the end of the queue,
`NodesAreReached` says that nothing unreachable gets in, and
`DeadlocksAreOfExpanded` that errors are those of the nodes done with.  When the
queue is empty no node is of the first two kinds, so the states whose digests have
nodes are closed under the runs and include all reachable ones.  For paths,
`DistancesDescend` says that a node's distance is not below its predecessor's; it
need not be the length of the path, because `updateDistance` does not visit the
nodes behind.  An arc that becomes the way to an old node makes its distance
strictly smaller than it was: a cycle through it would be one of nodes that are
no further than its start, and already there before.

`Reports_proofs`, for the same programs, however many actions their runs record:

* `ActionsAreOnArcsOnce`: `ActionsAreShownOnce`.
* `PathsAreInOrder`: `PathsShowRunsInOrder`.

An action is recorded in a program state, waits there, is moved to an arc or dropped
with its state.  That none is shown twice is not inductive: it also needs what states
hold and what may still be recorded.  `ShowingInv` says that a waiting state holds the
actions of one run, numbered from 1, into its own node and out of another
(`HeldActionsLead`); that a queued node has no arcs and a node being forked either has
none or its state has no actions left (`FirstArcShows`), which is where `clearActions`
enters; and that the actions of the runs from one node are either shown at that node
itself, by a fast run, or held and shown where they led to, by forks, but never both
(`SourcesAreApart`).  With that an action on two arcs would be on arcs of both ends of its run.
Each step moves states and actions in one of a few ways (`ConstructMoves`,
`FastRunMoves`, `StartForkingMoves`, `ForkMoves`, `FinishMoves`), and the rest of the
proof looks at these only.

For paths, predecessors are a tree (`PrevIsATree`, from `DistancesDescend`), so there is
one path to each node (`IsPath`), it has no node twice, and `PathTo` is that path.  Every
arc of the explorer's graph is among the arcs its node shows (`ArcsAreKept`, a second
invariant), the one from a node's predecessor too, so each node on the path gives the
actions of one arc.  An arc shows only runs into its own node and out of it, the place of an action
in the flattened sequence tells the arc it is from, and so the order of the path is the
order of the actions.

`SharedObjects_proofs`, for any number of states, slots, places, addresses and posts:

* `ObjectsInvariant`: the inductive `ObjectsInv`.
* `CountsStayExact`: every count is the number of Refs to the object plus the count it
  was born with, and no Ref is to a deleted object, after every single assignment.
* `NothingElseLeaksEver`: between operations, all on the heap but completed receives
  is reachable from a state.
* `AddressesMeanNames`: the inductive `ValuesInv`, which has `ObjectsInv` as a part.
* `StatesAreValues`: `Spec => ImplementsValues`.

Exact counts are not inductive: in the middle of an operation they need that what is
still to be pointed to is not let go of before (`TodoIsSound`), that an object without
a Ref is one that is about to get one (`UncountedArePending`), and that a fork copies
from messages its original still holds (`ForkIsSound`).  That nothing leaks needs that
whoever holds a Ref is itself alive (`OwnersAreThere`).  A step replaces one Ref, so
the set of Refs to an object loses or gains one element, and the lemmas on
cardinalities do the rest.

For the refinement, `StateValue` follows the Refs of a state to where they will point
when `todo` is done (`Target`), so an operation, or a part of a fork, is one step of
`StateValues` when it begins, and the assignments that follow are stutters
(`AssignValues`): they change where Refs point, and not where they will.  That a message is found by its address is right only if one address stands
for one name at a time, in every deque at most once (`NamesAreDistinct`,
`PlacesAreDistinct`), though addresses are used again; and a receive that a fork
completes has its message by the choice made when the fork began (`ForkIsReady`).  Two
states may share every object; an operation on one leaves the value of the other as it
is because counted objects are never written, only replaced by copies.

`PagedMemory_proofs`, for any number of states, ranks, pages, indices and words:

* `PagedInvariant`: the inductive `PagedInv`, with `TypeOK`.
* `CountsAreRight`, `ProtectionHolds`: `RefCountsAreExact` and `ProtectionIsSound`.
* `PagedMemoryIsPrivate`: `Spec => ImplementsPrivateMemory`.

What makes the invariant inductive is that all mappings that list a page are of one
rank and list it at one index: a page is then active in one slot only, and the page a
handler swaps out is in use nowhere else.  `Uses` counts the places that list a page in
any mappings; one lemma each says what an append, a replacement, a copy and a delete do
to it.  Both handlers and `allocPage` end with a page that comes in at an index, and
`PageComesIn` is the one lemma on that.  For the refinement, `Mem` gives the memory
that mappings and contents make; a page that comes in leaves the contents of all
others alone (`OthersKeepContents`), a store changes one word because its page is
private, and the rest of the steps are `Grow`, `Copy`, `Free` or stutters.

`MemoryObjects_proofs`, for every allocation list, request, word and page size:

* `AllocTakesOneBlock`: `alloc` on a sound list (or on none) gives a sound list with
  exactly one block more, of at least the size asked for, at a new address.
* `FreeReturnsOneBlock`: `free` of a block gives a sound list without exactly that one.
* `ReturnFreesItsAllocas`: so does a sequence of `free`s, in any order.

A sound list (`ListIsSound`, which `HeapIsSoundMeaning` relates to the form the proofs
use) is a chain of whole-word gaps from 0 to the break.  `alloc` splits an entry,
appends, or moves the end, and `free` merges with the next and then with the previous
entry; a lemma each (`ChainSplit`, `ChainAppend`, `ChainMerge`) says what that does to
the chain and to the set of blocks.  `ListIsSound` is inductive only with "no two
neighbours are free": it is why one merge on each side is enough.

`Interpreter_proofs`, for any number of processes, ranks, call sites, frames, blocks
and exit handlers, and any sizes:

* `ProcessesStayProper`: the inductive `IInv`; `InterpreterIsSound`: `InterpreterInv`,
  which is `IInv` put in the words of the model, and follows from it.
* `HeapListsStaySound`, `BlocksStayIntact`, `AllocasStayOwned`, `LeftProcessesKeepWaiting`:
  the invariants of the run.

None of the four is inductive alone: a return frees what its frame lists, which is
right if these are held blocks and in no other frame, and the free list after it is
sound if they are used.  `IInv` says of each process that it is `Good`: *proper* by
itself (types of frames, every frame but the last with a caller, at most the last
external and with nothing to free, the heap sound, its used entries and `held` the
same, the frames' allocas and the held blocks owned by frames the same) and *situated*
(an external frame if the interpreter paused in it or left it waiting, none while it
runs, an empty stack if finished or fresh).  So a step of the running process needs to
be looked at for that process only (`OneStep`), and a call, a return, a `malloc`, an
alloca, an exit are lemmas about one process (`ProperCall`, `ProperReturn`,
`ProperAlloc`, ...); a copied process is as good as its original.

At its end, from the same invariant:

* `InterpreterImplementsCallStack`: `Spec => ImplementsCallStack`.

The view of a stack drops the external frame of a blocking call; what it leaves is one
activation per frame, with the site it waits at and the last answer it got
(`ActivationsOf`).  Calls and returns map to `Call` and `Return`; `malloc`, `free` and `atexit`, which
answer at once, to `CallOut`; a pause to `Block` and a resumption to `Answer`; an exit
to `Abandon` or, with a handler, `AbandonAndBegin`; allocas and the end of `run` are
stutters.

`Execution_proofs`, for any widths of integers and addresses, any floats, registers,
blocks, sizes and offsets, vectors of any size in bit casts and formats of any length:

* `PhisTakeOldValues`, `ConstantsCompute`, `ComparesFollow`, `ElementsStay`, `CastsComeBack`,
  `IndicesHaveASign`, `ShiftsAreBounded`, `ArgumentsAreIntact`, `ConstantsAreTyped`,
  `BitsAreKept`, `FormatsAreShown`: the eleven invariants of the run.

Only one instruction is executed, so that the result is what the operators of its visit
function compute (`ResultsAreComputed`) is a lemma all of them begin with; the work is in
the operators, in these steps:

* *Folds and recursive functions.*  A fold of the community modules is a function
  that recurses over a set, and a theorem about it cannot take the folded operator as a
  parameter.  All folds of the instructions are therefore cases of one operator,
  `FoldStep`, and one proof shows that each has the value its steps give (`IsFold`,
  `Steps`).  That a recursive function like `Pow2` satisfies its equation takes a proof:
  there is one right up to each number (`Approximates`), and two of them agree.  Undefined
  values are built level by level of the types.
* *Compares.*  `FCMP_ONE` and its like are masks over other compares; each of
  the sixteen is looked at for four outcomes.  Signed compares are unsigned ones
  of numbers moved by half of 2^w.
* *Shifts.*  `getShiftAmount` gives the amount modulo the width when the width is a power
  of two; a multiplication or division by 2^n is n turns of one bit.  `AShr` fills
  from the top, so its turns keep the sign bit.
* *Casts and indices.*  Trunc and extensions of a number are remainders modulo 2^v and
  2^w, of which one divides the other; sign extension adds 2^w - 2^v to the negative half.
  The short index of an address goes the same way.
* *Floats.*  A number has one exponent, the least that gives it a spacing its digits
  reach (`SpacingIs`); numbers with more digits are spaced more finely, by powers of
  two that divide each other, so every float is a double (`FloatsAreDoubles`).  The
  two numbers `Rounded` chooses between are floats, also when the upper one has the
  next exponent, and no float lies between them (`NoFloatBetween`); the one chosen is
  the nearer.  Rounding to a double first cannot pass a float, which is a double, so a
  float made of an integer is still next to it, though not always the nearest.
* *Constants.*  A remainder modulo 2^n of a sum or difference is that of the remainders,
  so an address cut to w bits gives differences that are right in w bits; the sign of
  a distance is that of its signed value.
* *Native calls.*  Arguments begin at sums of sizes; sums may be taken in any
  order (`TakesAny`), so each argument begins where the one before it ends.  An integer
  libffi has no type for is written as four bytes and may run over what follows, which
  is written later; nothing written later reaches back.
* *Bit casts.*  `Join` and `Split` are digits of a number: elements of width r·v are
  groups of r elements of width v, on a big-endian machine in the opposite order, and
  the memory image is the same sum taken group by group.
* *Formats.*  The characters of a flattened sequence of pieces are read one after another.
  After each piece the reader has no pending directive, has the output of the
  pieces so far, and has taken as many arguments as there were directives
  (`PiecesAreExpanded`); no piece can run into the next.

Induction on numbers goes through the least number of a non-empty set
(`LeastNumber`), as the induction rules of the library take an operator as a
parameter.

Only model-checked: liveness under fairness (`ExplorationEnds`), which the prover does
not reach; and `ReportsAreAsTested`, which is about the programs and numbers of
`test_mpi.py`, whose runs are computed by `RECURSIVE` operators (`MPIProgram`), and
about the report that is written for them and read back.

## 5. Where the code and its documentation disagree

| Run | What it shows |
|---|---|
| false_deadlock | A receive takes a message only when its rank waits for it or a later one.  Two ranks that post a receive each and wait for their sends first are reported as a deadlock, though MPI completes both sends; the README promises all possible runs. |
| arrival_order | `message_sort_helper` compares `m2->Sender` with itself, so the hash depends on the order of posting that the comment says it should not depend on. |
| write_fault | A page that was shared when it was made readable and is private when it is written makes the handler delete an active page, and the verifier exits. |
| unmapped_access | `hashMemory` reads an active page of a process that is not mapped; the handler serves the current mapping and exits with "Acces to unmapped memory". |

Met while reading and without a run of its own:

* A nonzero exit code of the first run, before any pause, is reported with a NULL node,
  on which `writePathToNode` is called (`StateSpace.cpp:100`); `test_base.py:21`
  expects a report.
* `assert(Id > 0 ...)` in `ProcessState.h` (82, 96, 101) excludes id 0, the first id
  `newRequest` returns, so a build with assertions stops in the first Wait or Test; the
  models are of a build without.
* A Waitall that names one request twice hands its id to `removeRequests` twice
  (`InterpreterMPI.cpp:170`).
* `isInAddressSpace` excludes the first byte of the address space
  (`MemoryManager.h:59`), so a first touch there is a segmentation fault.
* `getShiftAmount` lets amounts above the width through when the width is no power of
  two (such shifts are undefined in LLVM), and a bit cast between element widths of
  which neither divides the other loses elements.
* Vectors of pointers are compared by the `IntVal` of their lanes, a zero of one bit, so
  all lanes compare equal (`Execution.cpp:123`).
* Constant shifts do not go through `getShiftAmount` (`Execution.cpp:2047`); one by the
  width or more, undefined in LLVM, reaches APInt as it is.
* The second switch over constant expressions in `getConstantValue`
  (`Execution.cpp:2224`) is never reached: its caller `getOperandValue` hands every
  constant expression to `getConstantExprValue`, and elements of constant vectors are
  cast to numbers.
* `hashMemory` fetches the `MemoryPage` of the first page of a block and does not advance
  it, so that page's active flag and saved copy stand for all pages of the block
  (`MemoryMapping.cpp:60`).
* `visitVAArgInst` moves a copy of the list on, not the list (`Execution.cpp:1750`).
* Native calls: an integer of a width libffi has no type for goes out as four bytes of
  a float, and such a result (an `i1` too) is 0 (`ExternalFunctions.cpp:160`).
* Undefined arrays, and vectors in undefined structs, get no elements
  (`Execution.cpp:2178`).
* `sprintf` passes over a character after a backslash, at the end of a format over the
  end of the string, and its buffers have fixed sizes (`ExternalFunctions.cpp:391`).
* `XML::set` replaces an apostrophe by a backslash and an apostrophe, and the search
  goes on one character later, at the apostrophe just written: it never ends
  (`XML.cpp:54`).
* Global variables are initialized by `ExecutionEngine::InitializeMemory`, not by the
  interpreter's own stores.

## 6. Not modelled

Arithmetic on floats (the host's), operators on vectors, bit casts in constants,
floats made of integers above 64 bits, loads and stores of values, invokes, variable
arguments and the lowering of intrinsics; libc functions other than `malloc`, `free`,
`atexit`, `exit` and the `printf` family, which are calls of the host's; requests
whose size wraps the `size_t`; the positions of blocks in the hash of a heap; sizes
and buffers of messages outside `MPIProgram`; MD5 (taken to be injective on what is
hashed); command line options; `mpi.h`, which declares what verified programs call;
the report tool, a script that turns a finished report into HTML.  Programs that break
MPI's rules (a request waited for twice, a rank out of range), free what they did not
allocate, or call `exit` or a blocking function in an exit handler are not explored.

## 7. Plan

1. *Done:* matching (`MPIObjects`, `MPIRuntime`, `MPIMatching`), the search for
   messages, the explorer, the repository's tests and their reports, shared objects,
   paged memory, heaps, the call stack, instructions, constants, native calls and
   formats; the refinements; a theorem for every invariant and action property of the
   runs but `ReportsAreAsTested`.
2. To model next: loads and stores of values against `MemoryObjects`; variable
   arguments; the hash of a heap; `parseSizeString`.
3. To prove next: that `Read` undoes the writer (`ReportReadsBack`), piece by piece,
   for any errors and paths; vectors of any number of lanes, and any
   number of PHI nodes and native arguments, which need operands of any length in
   `Execution`.
