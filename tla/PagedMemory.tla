----------------------------- MODULE PagedMemory ----------------------------
(***************************************************************************)
(* MemoryManager, MemoryMapping and MemoryPage: one address space, in      *)
(* which the processes of all program states run in turn, each at the same *)
(* addresses.  A mapping lists the pages of one process; copied states     *)
(* share pages until one of them writes.  The contents of a page are in    *)
(* the address space while the page is active and in its Data otherwise;   *)
(* memory protection and the page fault handler bring pages in on demand.  *)
(*                                                                         *)
(* The contents of a page are one word.  Page indices start at 1.  Every   *)
(* mapping was active once before it was copied (main.cpp initializes the  *)
(* processes in turn), so MemoryMapping::Manager is always set and left    *)
(* out.                                                                    *)
(***************************************************************************)
EXTENDS Naturals, Sequences, FiniteSets

CONSTANTS
    States,      \* addresses for ProgramStates
    Ranks,       \* processes of a state
    MaxPages,    \* bound on the MemoryPages that exist at a time
    MaxIndex,    \* AddressSpaceSize / PageSize
    Words,       \* contents of a page
    Zero,        \* contents of fresh memory from the system
    NULL

ASSUME MaxIndexAssumption == MaxIndex \in Nat
ASSUME ZeroAssumption == Zero \in Words
Pages == 1 .. MaxPages

ASSUME MaxPagesAssumption == MaxPages \in Nat
ASSUME NullAssumption ==
    /\ NULL \notin Pages /\ NULL \notin Words
    /\ NULL \notin [Ranks -> Seq(Pages)] /\ NULL \notin [Ranks -> Seq(Words)]
ASSUME FiniteAssumption == IsFiniteSet(States) /\ IsFiniteSet(Ranks)

Indices == 1 .. MaxIndex

VARIABLES
    pages,      \* MemoryPage: [data, active, refs], refs = 0 if deleted
    maps,       \* state -> rank -> MemoryMapping::Pages, or NULL if deleted
    slot,       \* ActivePages[i].Page
    prot,       \* ActivePages[i].Protection
    phys,       \* contents of the address space
    current,    \* <<state, rank>> of the interpreter's state and Mapping
    exited      \* why the verifier called exit(1), or NULL

vars == <<pages, maps, slot, prot, phys, current, exited>>

Protections == {"NONE", "READ", "WRITE"}

Page == [data : Words \cup {NULL}, active : BOOLEAN, refs : Nat]

NoPage == [data |-> NULL, active |-> FALSE, refs |-> 0]

Failures == {"Address space is full", "Acces to unmapped memory", "Removing active page"}

TypeOK ==
    /\ pages \in [Pages -> Page]
    /\ maps \in [States -> [Ranks -> Seq(Pages)] \cup {NULL}]
    /\ slot \in [Indices -> Pages \cup {NULL}]
    /\ prot \in [Indices -> Protections]
    /\ phys \in [Indices -> Words]
    /\ current \in States \X Ranks
    /\ exited \in Failures \cup {NULL}

LiveStates == {s \in States : maps[s] # NULL}

Mapping == maps[current[1]][current[2]]

(* MemoryMapping::getPage.                                                 *)
PageAt(m, i) == IF i \in DOMAIN m THEN m[i] ELSE NULL

IsPrivate(p) == pages[p].refs = 1

NoProtection == [i \in Indices |-> "NONE"]

Init ==
    /\ pages = [p \in Pages |-> NoPage]
    /\ \E s \in States, r \in Ranks :
          /\ maps = [t \in States |-> IF t = s THEN [q \in Ranks |-> << >>] ELSE NULL]
          /\ current = <<s, r>>
    /\ slot = [i \in Indices |-> NULL]
    /\ prot = NoProtection
    /\ phys = [i \in Indices |-> Zero]
    /\ exited = NULL

Exit(why) ==
    /\ exited' = why
    /\ UNCHANGED <<pages, maps, slot, prot, phys, current>>

-----------------------------------------------------------------------------
(* MemoryManager.                                                          *)

(* swapPage: the active page at index i is saved to its Data.              *)
SwapOut(i) ==
    IF slot[i] = NULL THEN pages ELSE [pages EXCEPT ![slot[i]].data = phys[i]]

(* setPageAsActive, on page objects ps.  The Data of an active page is     *)
(* stale until the page is saved; it is NULL here, so that no use of it    *)
(* can go unnoticed.                                                       *)
Activate(ps, i, p) ==
    [q \in Pages |-> IF q = p THEN [ps[q] EXCEPT !.active = TRUE, !.data = NULL]
                     ELSE IF q = slot[i] THEN [ps[q] EXCEPT !.active = FALSE]
                     ELSE ps[q]]

(* new MemoryPage: the first unused address, for any would do.             *)
IsNewPage(p) ==
    /\ pages[p].refs = 0
    /\ \A q \in Pages : pages[q].refs = 0 => p <= q

(* allocPage, called by MemoryObjects::alloc: a page at the next index of  *)
(* the current mapping, active at once and with what was in the address    *)
(* space before.                                                           *)
AllocPage ==
    /\ exited = NULL
    /\ LET i == Len(Mapping) + 1
       IN  IF i > MaxIndex THEN Exit("Address space is full")
           ELSE \E p \in {q \in Pages : IsNewPage(q)} :
                  /\ maps' = [maps EXCEPT ![current[1]][current[2]] = Append(@, p)]
                  /\ pages' = Activate([SwapOut(i) EXCEPT ![p] = [NoPage EXCEPT !.refs = 1]],
                                       i, p)
                  /\ slot' = [slot EXCEPT ![i] = p]
                  /\ prot' = [prot EXCEPT ![i] = "WRITE"]
                  /\ UNCHANGED <<phys, current, exited>>

(* A store of the running process that the protection allows.              *)
Write(i) ==
    /\ exited = NULL
    /\ prot[i] = "WRITE"
    /\ \E w \in Words : phys' = [phys EXCEPT ![i] = w]
    /\ UNCHANGED <<pages, maps, slot, prot, current, exited>>

(* Mutant of FaultOnProtected: a shared page may be written.               *)
FaultOnProtectedWritable(i) ==
    LET p == PageAt(Mapping, i)
    IN  /\ prot[i] = "NONE"
        /\ IF p = NULL THEN Exit("Acces to unmapped memory")
           ELSE /\ prot' = [prot EXCEPT ![i] = "WRITE"]
                /\ IF p = slot[i] THEN UNCHANGED <<pages, slot, phys>>
                   ELSE /\ pages' = Activate(SwapOut(i), i, p)
                        /\ phys' = [phys EXCEPT ![i] = pages[p].data]
                        /\ slot' = [slot EXCEPT ![i] = p]
                /\ UNCHANGED <<maps, current, exited>>

(* pageFaultOfAddress when nothing may be done at index i.                 *)
FaultOnProtected(i) ==
    LET p == PageAt(Mapping, i)
    IN  /\ prot[i] = "NONE"
        /\ IF p = NULL THEN Exit("Acces to unmapped memory")
           ELSE /\ prot' = [prot EXCEPT ![i] = IF IsPrivate(p) THEN "WRITE" ELSE "READ"]
                /\ IF p = slot[i] THEN UNCHANGED <<pages, slot, phys>>
                   ELSE /\ pages' = Activate(SwapOut(i), i, p)
                        /\ phys' = [phys EXCEPT ![i] = pages[p].data]
                        /\ slot' = [slot EXCEPT ![i] = p]
                /\ UNCHANGED <<maps, current, exited>>

(* Mutant of FaultOnReadOnly: emptyPage forgets decRefCount.               *)
FaultOnReadOnlyUncounted(i) ==
    /\ prot[i] = "READ"
    /\ \E n \in {q \in Pages : IsNewPage(q)} :
          /\ maps' = [maps EXCEPT ![current[1]][current[2]][i] = n]
          /\ pages' = Activate([SwapOut(i) EXCEPT ![n] = [NoPage EXCEPT !.refs = 1]], i, n)
          /\ slot' = [slot EXCEPT ![i] = n]
          /\ prot' = [prot EXCEPT ![i] = "WRITE"]
          /\ UNCHANGED <<phys, current, exited>>

(* pageFaultOfAddress on a store to a readable page: emptyPage drops the   *)
(* page from the mapping, a new one takes over what is in memory.  The     *)
(* destructor of a page exits when the page is active.                     *)
FaultOnReadOnly(i) ==
    LET p == Mapping[i]
        saved == SwapOut(i)
    IN  /\ prot[i] = "READ"
        /\ IF IsPrivate(p) /\ pages[p].active THEN Exit("Removing active page")
           ELSE \E n \in {q \in Pages : IsNewPage(q)} :
                  /\ maps' = [maps EXCEPT ![current[1]][current[2]][i] = n]
                  /\ pages' = Activate([saved EXCEPT ![p].refs = @ - 1,
                                                     ![n] = [NoPage EXCEPT !.refs = 1]],
                                       i, n)
                  /\ slot' = [slot EXCEPT ![i] = n]
                  /\ prot' = [prot EXCEPT ![i] = "WRITE"]
                  /\ UNCHANGED <<phys, current, exited>>

(* The running process touches page i.                                     *)
PageFault(i) ==
    /\ exited = NULL
    /\ i \in DOMAIN Mapping
    /\ FaultOnProtected(i) \/ FaultOnReadOnly(i)

(* hashMemory comes to page i of a block of process q that starts in page  *)
(* first.  Page i is read at its address when the first page is active,    *)
(* whatever page i is and whatever mapping is current, and the fault       *)
(* handler maps the page of the current one.  When the first page is not   *)
(* active, its Data are read, for every page of the block.                 *)
HashPage(q, first, i) ==
    /\ exited = NULL
    /\ i \in DOMAIN maps[current[1]][q]
    /\ first \in 1 .. i
    /\ pages[maps[current[1]][q][first]].active
    /\ FaultOnProtected(i)

-----------------------------------------------------------------------------
(* What the explorer does with program states.                             *)

(* Mutant of SwitchTo: setMapping leaves the protection alone.             *)
SwitchToProtected(s, r) ==
    /\ exited = NULL
    /\ s \in LiveStates
    /\ <<s, r>> # current
    /\ current' = <<s, r>>
    /\ UNCHANGED <<pages, maps, slot, prot, phys, exited>>

(* setProgramState and setState.                                           *)
SwitchTo(s, r) ==
    /\ exited = NULL
    /\ s \in LiveStates
    /\ <<s, r>> # current
    /\ current' = <<s, r>>
    /\ prot' = NoProtection
    /\ UNCHANGED <<pages, maps, slot, phys, exited>>

PagesOf(s) == UNION {{maps[s][r][i] : i \in DOMAIN maps[s][r]} : r \in Ranks}

(* The copy constructor of ProgramState, for t, and setProgramState of the *)
(* copy.                                                                   *)
Fork(s, t, r) ==
    /\ exited = NULL
    /\ s \in LiveStates /\ t \notin LiveStates
    /\ maps' = [maps EXCEPT ![t] = maps[s]]
    /\ pages' = [p \in Pages |-> IF p \in PagesOf(s)
                                 THEN [pages[p] EXCEPT !.refs = @ + 1] ELSE pages[p]]
    /\ current' = <<t, r>>
    /\ prot' = NoProtection
    /\ UNCHANGED <<slot, phys, exited>>

(* Mutant of Delete: the pages are released twice.                         *)
DeleteTwice(s) ==
    LET gone == {p \in PagesOf(s) : IsPrivate(p)}
    IN  /\ exited = NULL
        /\ s \in LiveStates
        /\ s # current[1]
        /\ maps' = [maps EXCEPT ![s] = NULL]
        /\ pages' = [p \in Pages |-> IF p \in PagesOf(s) THEN [pages[p] EXCEPT !.refs = @ - 2]
                                     ELSE pages[p]]
        /\ slot' = [i \in Indices |-> IF slot[i] \in gone THEN NULL ELSE slot[i]]
        /\ prot' = [i \in Indices |-> IF slot[i] \in gone THEN "NONE" ELSE prot[i]]
        /\ UNCHANGED <<phys, current, exited>>

(* delete PState, with the destructors of its mappings; the interpreter is *)
(* in another state (InterpreterStateIsLive of StateSpace).                *)
Delete(s) ==
    LET gone == {p \in PagesOf(s) : IsPrivate(p)}
    IN  /\ exited = NULL
        /\ s \in LiveStates
        /\ s # current[1]
        /\ maps' = [maps EXCEPT ![s] = NULL]
        /\ pages' = [p \in Pages |-> IF p \in gone THEN NoPage
                                     ELSE IF p \in PagesOf(s)
                                          THEN [pages[p] EXCEPT !.refs = @ - 1]
                                          ELSE pages[p]]
        /\ slot' = [i \in Indices |-> IF slot[i] \in gone THEN NULL ELSE slot[i]]
        /\ prot' = [i \in Indices |-> IF slot[i] \in gone THEN "NONE" ELSE prot[i]]
        /\ UNCHANGED <<phys, current, exited>>

Next ==
    \/ AllocPage
    \/ \E i \in Indices : Write(i) \/ PageFault(i) \/ \E q \in Ranks, first \in Indices : HashPage(q, first, i)
    \/ \E s \in States, r \in Ranks : SwitchTo(s, r) \/ \E t \in States : Fork(s, t, r)
    \/ \E s \in States : Delete(s)

Spec == Init /\ [][Next]_vars

-----------------------------------------------------------------------------
(* Properties.                                                             *)

(* The contents of page p, wherever they are.                              *)
Contents(p, i) == IF pages[p].active THEN phys[i] ELSE pages[p].data

Private == INSTANCE PrivateMemory WITH
    NotLive <- NULL,
    mem <- [s \in States |->
              IF maps[s] = NULL THEN NULL
              ELSE [r \in Ranks |-> [i \in DOMAIN maps[s][r] |-> Contents(maps[s][r][i], i)]]]

(* Sharing, swapping and faults in any order keep the memory of a process  *)
(* as it left it: a write, a copy or the delete of another state, or a     *)
(* process mapped at the same addresses, never changes it.                 *)
ImplementsPrivateMemory == Private!MemorySpec

(* Uses of page p: the mappings that list it.                              *)
Users(p) ==
    {u \in LiveStates \X Ranks \X Indices :
        u[3] \in DOMAIN maps[u[1]][u[2]] /\ maps[u[1]][u[2]][u[3]] = p}

(* The reference count of a page is the number of mappings that list it,   *)
(* which are mappings of one rank in several states and all list it at one *)
(* index: no page is leaked or deleted in use by copies, writes and        *)
(* deletes of states that share it.                                        *)
RefCountsAreExact ==
    \A p \in Pages : /\ pages[p].refs = Cardinality(Users(p))
                     /\ \A u, v \in Users(p) : u[2] = v[2] /\ u[3] = v[3]

(* What may be read or written without a fault is the page of the process  *)
(* that runs, and what may be written is nobody else's: a store needs no   *)
(* further check. The contents of every page in use are in one place.      *)
ProtectionIsSound ==
    /\ current[1] \in LiveStates
    /\ \A i \in Indices : prot[i] # "NONE" => /\ i \in DOMAIN Mapping
                                             /\ slot[i] = Mapping[i]
    /\ \A i \in Indices : prot[i] = "WRITE" => IsPrivate(slot[i])
    /\ \A p \in Pages : pages[p].active <=> \E i \in Indices : slot[i] = p
    /\ \A i \in Indices : slot[i] # NULL => \E u \in Users(slot[i]) : u[3] = i
    /\ \A p \in Pages : pages[p].refs > 0 /\ ~ pages[p].active => pages[p].data # NULL
    /\ \A s \in LiveStates, r \in Ranks : Len(maps[s][r]) <= MaxIndex

(* Copy on write, swapping and the deferred page faults keep counts,       *)
(* protection and contents in step, through any history of copies, writes, *)
(* switches and deletes (MemoryManager.cpp, MemoryMapping.cpp).            *)
PagedInv == TypeOK /\ RefCountsAreExact /\ ProtectionIsSound

(* MemoryManager.cpp:143: "Writing into read only page, i.e. page is       *)
(* shared": a write fault never finds the page private, with nothing to    *)
(* copy it for and its destructor about to exit.                           *)
WriteFaultMeansShared == exited # "Removing active page"

(* MemoryManager.cpp:120 tells the user of an "Acces to unmapped memory":  *)
(* the verified program, which in this module touches its own pages only,  *)
(* did it.                                                                 *)
UnmappedAccessIsByTheProgram == exited # "Acces to unmapped memory"
=============================================================================
