-------------------------- MODULE MPIRuntime_proofs -------------------------
(***************************************************************************)
(* Proofs about MPIRuntime, for every number of ranks, every set of tags   *)
(* and links, and every bound on posts and request slots.                  *)
(***************************************************************************)
EXTENDS CollectMessages, FiniteSetTheorems, WellFoundedInduction, TLAPS

-----------------------------------------------------------------------------
(* What the operations of ProcessState return.                             *)

LEMMA SetWaitFacts ==
    ASSUME NEW p \in ProcessState, NEW ids \in SUBSET RequestIds
    PROVE  /\ SetWait(p, ids) \in ProcessState
           /\ SetWait(p, ids).requests = p.requests
  BY DEF SetWait, ProcessState, Statuses

LEMMA SetTestFacts ==
    ASSUME NEW p \in ProcessState, NEW id \in RequestIds
    PROVE  /\ SetTest(p, id) \in ProcessState
           /\ SetTest(p, id).requests = p.requests
  BY DEF SetTest, ProcessState, Statuses

LEMMA SetFinishedFacts ==
    ASSUME NEW p \in ProcessState
    PROVE  /\ SetFinished(p) \in ProcessState
           /\ SetFinished(p).requests = p.requests
  BY DEF SetFinished, ProcessState, Statuses

LEMMA SetRequestFacts ==
    ASSUME NEW p \in ProcessState, NEW id \in RequestIds, NEW R \in Request
    PROVE  /\ SetRequest(p, id, R) \in ProcessState
           /\ SetRequest(p, id, R).requests = [p.requests EXCEPT ![id] = R]
  BY DEF SetRequest, ProcessState, RequestTable

LEMMA RemoveRequestsFacts ==
    ASSUME NEW p \in ProcessState, NEW ids
    PROVE  /\ RemoveRequests(p, ids) \in ProcessState
           /\ \A i \in RequestIds : RemoveRequests(p, ids).requests[i] =
                 IF i \in ids THEN NoRequest ELSE p.requests[i]
  BY DEF RemoveRequests, ProcessState, RequestTable

(* A request keeps its number, and a pending receive what it accepts, when *)
(* a fork completes it early.                                              *)
CompletedCopy(R) == [R EXCEPT !.type = "REQUEST_RECV_COMPLETED"]

LEMMA CompletedCopyFacts ==
    ASSUME NEW R \in Request, IsPendingRecv(R)
    PROVE  /\ CompletedCopy(R) \in Request
           /\ CompletedCopy(R).type = "REQUEST_RECV_COMPLETED"
           /\ CompletedCopy(R).post = R.post
           /\ \A r : RecvOf(r, CompletedCopy(R)) = RecvOf(r, R)
  BY DEF CompletedCopy, Request, SsendRequest, RecvRequest, IsPendingRecv, RecvOf

LEMMA PendingRecvFacts ==
    ASSUME NEW R \in Request \cup {NoRequest}, IsPendingRecv(R)
    PROVE  R \in RecvRequest /\ R \in Request
  BY DEF Request, SsendRequest, RecvRequest, IsPendingRecv, NoRequest

LEMMA AfterMatchingFacts ==
    ASSUME NEW p \in ProcessState, NEW f, DOMAIN f = ReceiveIds(p)
    PROVE  /\ AfterMatching(p, f) \in ProcessState
           /\ \A i \in RequestIds : AfterMatching(p, f).requests[i] =
                 IF i \in p.active THEN NoRequest
                 ELSE IF i \in DOMAIN f /\ f[i] # NoMessage
                      THEN CompletedCopy(p.requests[i])
                      ELSE p.requests[i]
  <1> DEFINE completed == {i \in DOMAIN f : f[i] # NoMessage /\ i \notin p.active}
             table == [i \in RequestIds |-> IF i \in completed
                                            THEN CompletedCopy(p.requests[i])
                                            ELSE p.requests[i]]
             q == [p EXCEPT !.requests = table]
  <1>1. AfterMatching(p, f) = RemoveRequests(q, p.active)
    BY DEF AfterMatching, CompletedCopy
  <1>2. table \in RequestTable
    <2>1. ASSUME NEW i \in completed
          PROVE  CompletedCopy(p.requests[i]) \in Request
      BY CompletedCopyFacts, PendingRecvFacts
         DEF ReceiveIds, ProcessState, RequestTable
    <2> QED  BY <2>1 DEF ProcessState, RequestTable
  <1>3. q \in ProcessState /\ q.requests = table
    BY <1>2 DEF ProcessState
  <1> HIDE DEF q
  <1>4. \A i \in RequestIds : RemoveRequests(q, p.active).requests[i] =
           IF i \in p.active THEN NoRequest ELSE table[i]
    BY <1>3, RemoveRequestsFacts
  <1> QED  BY <1>1, <1>3, <1>4, RemoveRequestsFacts

-----------------------------------------------------------------------------
(* Type correctness, one lemma per group of actions.                       *)

LEMMA InitTyped == Init => RuntimeTypeOK
  BY NumRanksAssumption
     DEF Init, RuntimeTypeOK, InitProcessState, ProcessState, Statuses,
         RequestTable, EmptyTable, Nobody

LEMMA PostTyped ==
    ASSUME RuntimeTypeOK, NEW r \in Ranks, NEW id \in RequestIds,
           NEW R \in Request, Post(r, id, R)
    PROVE  /\ procs' \in [Ranks -> ProcessState]
           /\ held' \in [Ranks -> SUBSET Handle]
           /\ posts' \in [Ranks -> Nat]
  <1>1. R.post \in Nat
    BY DEF Request, SsendRequest, RecvRequest
  <1>2. SetRequest(procs[r], id, R) \in ProcessState
    BY SetRequestFacts DEF RuntimeTypeOK
  <1>3. [id |-> id, post |-> R.post] \in Handle
    BY <1>1 DEF Handle
  <1> QED  BY <1>1, <1>2, <1>3 DEF Post, RuntimeTypeOK

LEMMA SendIsTyped ==
    ASSUME RuntimeTypeOK, NEW r \in Ranks, NEW target \in Ranks, NEW tag \in Tags
    PROVE  LET m == [from |-> r, to |-> target, tag |-> tag, seq |-> posts[r] + 1]
           IN  /\ m \in Message
               /\ [type |-> "REQUEST_SSEND", msg |-> m, post |-> m.seq] \in Request
  BY DEF RuntimeTypeOK, Message, Request, SsendRequest

LEMMA RecvIsTyped ==
    ASSUME RuntimeTypeOK, NEW r \in Ranks, NEW tag \in Tags,
           NEW sender \in Ranks \cup {AnySource}
    PROVE  [type |-> "REQUEST_RECV", sender |-> sender, tag |-> tag,
            post |-> posts[r] + 1] \in Request
  BY DEF RuntimeTypeOK, Request, RecvRequest

LEMMA ClientTyped ==
    ASSUME RuntimeTypeOK, NEW r \in Ranks, ClientStep(r)
    PROVE  RuntimeTypeOK'
  <1>1. ASSUME NEW target \in Ranks, NEW tag \in Tags, NEW id \in RequestIds,
               Isend(r, target, tag, id)
        PROVE  RuntimeTypeOK'
    <2> DEFINE m == [from |-> r, to |-> target, tag |-> tag, seq |-> posts[r] + 1]
    <2>1. m \in Message
             /\ [type |-> "REQUEST_SSEND", msg |-> m, post |-> m.seq] \in Request
      BY SendIsTyped
    <2>2. /\ messages' = messages \cup {m}
          /\ Post(r, id, [type |-> "REQUEST_SSEND", msg |-> m, post |-> m.seq])
          /\ UNCHANGED <<running, booted, flag, delivered>>
      BY <1>1 DEF Isend
    <2> HIDE DEF m
    <2> QED  BY <2>1, <2>2, PostTyped DEF RuntimeTypeOK
  <1>2. ASSUME NEW sender \in Ranks \cup {AnySource}, NEW tag \in Tags,
               NEW id \in RequestIds, Irecv(r, sender, tag, id)
        PROVE  RuntimeTypeOK'
    <2> DEFINE R == [type |-> "REQUEST_RECV", sender |-> sender, tag |-> tag,
                     post |-> posts[r] + 1]
    <2>1. R \in Request
      BY RecvIsTyped
    <2>2. Post(r, id, R) /\ UNCHANGED <<running, booted, messages, flag, delivered>>
      BY <1>2 DEF Irecv
    <2> HIDE DEF R
    <2> QED  BY <2>1, <2>2, PostTyped DEF RuntimeTypeOK
  <1>3. ASSUME NEW p \in ProcessState, Pause(r, p), flag' \in [Ranks -> {0, 1}]
        PROVE  RuntimeTypeOK'
    BY <1>3 DEF Pause, RuntimeTypeOK
  <1>4. procs[r] \in ProcessState /\ flag \in [Ranks -> {0, 1}]
    BY DEF RuntimeTypeOK
  <1>5. \A h \in held[r] : h.id \in RequestIds
    BY DEF RuntimeTypeOK, Handle
  <1>6. ASSUME NEW h \in held[r], Wait(r, h)  PROVE RuntimeTypeOK'
    <2>1. SetWait(procs[r], {h.id}) \in ProcessState
      BY <1>4, <1>5, SetWaitFacts
    <2> QED  BY <1>3, <1>4, <1>6, <2>1 DEF Wait
  <1>7. ASSUME NEW hs \in SUBSET held[r], Waitall(r, hs)  PROVE RuntimeTypeOK'
    <2>1. {h.id : h \in hs} \subseteq RequestIds
      BY <1>5
    <2>2. SetWait(procs[r], {h.id : h \in hs}) \in ProcessState
      BY <1>4, <2>1, SetWaitFacts
    <2> QED  BY <1>3, <1>4, <1>7, <2>2 DEF Waitall
  <1>8. ASSUME NEW h \in held[r], Test(r, h)  PROVE RuntimeTypeOK'
    <2>1. SetTest(procs[r], h.id) \in ProcessState
      BY <1>4, <1>5, SetTestFacts
    <2>2. flag' \in [Ranks -> {0, 1}]
      BY <1>4, <1>8 DEF Test
    <2> QED  BY <1>3, <1>8, <2>1, <2>2 DEF Test
  <1>9. ASSUME Return(r)  PROVE RuntimeTypeOK'
    BY <1>3, <1>4, <1>9, SetFinishedFacts DEF Return
  <1> QED  BY <1>1, <1>2, <1>6, <1>7, <1>8, <1>9 DEF ClientStep

LEMMA ResumeTyped ==
    ASSUME RuntimeTypeOK, NEW r \in Ranks, NEW b \in {0, 1}, Resume(r, b)
    PROVE  /\ running' \in Ranks \cup {Nobody}
           /\ flag' \in [Ranks -> {0, 1}]
           /\ held' \in [Ranks -> SUBSET Handle]
  BY DEF Resume, RuntimeTypeOK

LEMMA MatchingsFacts ==
    ASSUME NEW p, NEW r, NEW ms, NEW f \in WaitMatchings(p, r, ms)
    PROVE  /\ f \in [ReceiveIds(p) -> ms \cup {NoMessage}]
           /\ DOMAIN f = ReceiveIds(p)
           /\ \A i \in ReceiveIds(p) :
                 LegalChoice(ms, r, p.requests, p.active, f, i)
  BY DEF WaitMatchings, Matchings

LEMMA ForkTyped ==
    ASSUME RuntimeTypeOK, NEW r \in Ranks, NEW f, ForkWaitOrTest(r, f)
    PROVE  RuntimeTypeOK'
  <1> DEFINE p == procs[r]
  <1>1. p \in ProcessState /\ flag[r] \in {0, 1}
    BY DEF RuntimeTypeOK
  <1>2. f \in [ReceiveIds(p) -> messages \cup {NoMessage}] /\ DOMAIN f = ReceiveIds(p)
    BY MatchingsFacts DEF ForkWaitOrTest
  <1>3. Resume(r, IF p.hasFlag THEN 1 ELSE flag[r])
    BY DEF ForkWaitOrTest
  <1>4. (IF p.hasFlag THEN 1 ELSE flag[r]) \in {0, 1}
    BY <1>1
  <1>5. /\ running' \in Ranks \cup {Nobody}
        /\ flag' \in [Ranks -> {0, 1}]
        /\ held' \in [Ranks -> SUBSET Handle]
    BY <1>3, <1>4, ResumeTyped
  <1>6. procs' \in [Ranks -> ProcessState]
    BY <1>1, <1>2, AfterMatchingFacts DEF ForkWaitOrTest, RuntimeTypeOK
  <1>7. messages' \subseteq Message
    BY DEF ForkWaitOrTest, RemoveMessages, RuntimeTypeOK
  <1>8. ASSUME NEW i \in DOMAIN f, f[i] # NoMessage
        PROVE  [send |-> f[i], recv |-> RecvOf(r, p.requests[i])] \in Delivery
    <2>1. f[i] \in Message
      BY <1>2, <1>8 DEF RuntimeTypeOK
    <2>2. p.requests[i] \in RecvRequest
      BY <1>1, <1>2, <1>8, PendingRecvFacts DEF ReceiveIds, ProcessState, RequestTable
    <2>3. RecvOf(r, p.requests[i]) \in [rank : Ranks, sender : Ranks \cup {AnySource},
                                        tag : Tags, post : Nat]
      BY <2>2 DEF RecvOf, RecvRequest
    <2> QED  BY <2>1, <2>3 DEF Delivery
  <1>9. delivered' \subseteq Delivery
    BY <1>8 DEF ForkWaitOrTest, Deliveries, RuntimeTypeOK
  <1> QED  BY <1>5, <1>6, <1>7, <1>9 DEF ForkWaitOrTest, RuntimeTypeOK

LEMMA ExplorerTyped ==
    ASSUME RuntimeTypeOK, NEW r \in Ranks, ExplorerStep(r)
    PROVE  RuntimeTypeOK'
  <1>1. CASE Boot(r)
    BY <1>1, NumRanksAssumption DEF Boot, RuntimeTypeOK, Ranks
  <1>2. CASE FastRunWait(r)
    <2>1. flag[r] \in {0, 1} /\ procs[r] \in ProcessState
      BY DEF RuntimeTypeOK
    <2>2. RemoveRequests(procs[r], procs[r].active) \in ProcessState
      BY <2>1, RemoveRequestsFacts
    <2> QED  BY <1>2, <2>1, <2>2, ResumeTyped DEF FastRunWait, RuntimeTypeOK
  <1>3. CASE TestNotReady(r)
    <2>1. flag[r] \in {0, 1}
      BY DEF RuntimeTypeOK
    <2> QED  BY <1>3, <2>1, ResumeTyped DEF TestNotReady, RuntimeTypeOK
  <1>4. CASE \E f \in WaitMatchings(procs[r], r, messages) : ForkWaitOrTest(r, f)
    BY <1>4, ForkTyped
  <1> QED  BY <1>1, <1>2, <1>3, <1>4 DEF ExplorerStep

(* Every reachable state is well typed: handles and active ids are slots   *)
(* of the request table, tables hold requests, messages have real ranks.   *)
THEOREM TypeCorrect == Spec => []RuntimeTypeOK
  <1>1. Init => RuntimeTypeOK
    BY InitTyped
  <1>2. RuntimeTypeOK /\ [Next]_vars => RuntimeTypeOK'
    <2>1. CASE Next
      BY <2>1, ClientTyped, ExplorerTyped DEF Next
    <2>2. CASE UNCHANGED vars
      BY <2>2 DEF vars, RuntimeTypeOK
    <2> QED  BY <2>1, <2>2
  <1> QED  BY <1>1, <1>2, PTL DEF Spec

-----------------------------------------------------------------------------
(* What a matching of MPIObjects guarantees, whatever the table holds.     *)

(* Two slots never get the same message.                                   *)
LEMMA MatchingOneToOne ==
    ASSUME NEW ms, NEW rank, NEW table, NEW must, NEW ids \in SUBSET RequestIds,
           NEW f \in Matchings(ms, rank, table, must, ids),
           NEW i \in ids, NEW j \in ids, f[i] = f[j], f[i] # NoMessage
    PROVE  i = j
  <1>1. DOMAIN f = ids
    BY DEF Matchings
  <1>2. \A k \in ids : f[k] # NoMessage =>
           \A l \in ids : l < k => f[l] # f[k]
    BY <1>1 DEF Matchings, LegalChoice, FirstOfEachSender, Available
  <1>3. i \in Int /\ j \in Int
    BY MaxRequestsAssumption DEF RequestIds
  <1> QED  BY <1>2, <1>3

(* A slot gets a message of the deque that fits its request.               *)
LEMMA MatchingFits ==
    ASSUME NEW ms, NEW rank, NEW table, NEW must, NEW ids,
           NEW f \in Matchings(ms, rank, table, must, ids),
           NEW i \in ids, f[i] # NoMessage
    PROVE  f[i] \in ms /\ Fits(f[i], rank, table[i])
  BY DEF Matchings, LegalChoice, FirstOfEachSender, Available

(* A fitting message that no lower slot took is not older than the one the *)
(* slot got from the same sender.                                          *)
LEMMA MatchingTakesOldest ==
    ASSUME NEW ms, NEW rank, NEW table, NEW must, NEW ids,
           NEW f \in Matchings(ms, rank, table, must, ids),
           NEW i \in ids, f[i] # NoMessage,
           NEW m \in ms, Fits(m, rank, table[i]), m.from = f[i].from,
           \A j \in ids : j < i => f[j] # m
    PROVE  f[i].seq <= m.seq
  <1>1. DOMAIN f = ids /\ LegalChoice(ms, rank, table, must, f, i)
    BY DEF Matchings
  <1>2. m \in Available(ms, rank, table, f, i)
    BY <1>1 DEF Available
  <1>3. f[i] \in FirstOfEachSender(Available(ms, rank, table, f, i))
    BY <1>1 DEF LegalChoice
  <1> QED  BY <1>2, <1>3 DEF FirstOfEachSender

(* A slot that could have had what a higher slot got is not left empty.    *)
LEMMA MatchingFillsLower ==
    ASSUME NEW ms \in SUBSET Message, NEW rank, NEW table, NEW must, NEW ids \in SUBSET RequestIds,
           NEW f \in Matchings(ms, rank, table, must, ids),
           NEW i \in ids, f[i] # NoMessage,
           NEW k \in ids, k < i, Fits(f[i], rank, table[k])
    PROVE  f[k] # NoMessage
  <1>1. DOMAIN f = ids /\ LegalChoice(ms, rank, table, must, f, k)
    BY DEF Matchings
  <1>2. f[i] \in ms
    BY MatchingFits
  <1>3. \A j \in ids : j < k => f[j] # f[i]
    BY MatchingOneToOne, MaxRequestsAssumption DEF RequestIds
  <1>4. f[i] \in Available(ms, rank, table, f, k)
    BY <1>1, <1>2, <1>3 DEF Available
  <1>5. CASE f[k] \in FirstOfEachSender(Available(ms, rank, table, f, k))
    <2>1. f[k] \in ms
      BY <1>5 DEF FirstOfEachSender, Available
    <2> QED  BY <2>1, NoMessageAssumption
  <1> QED  BY <1>1, <1>4, <1>5 DEF LegalChoice

-----------------------------------------------------------------------------
(* The pairs one fork adds respect the non-overtaking rule.                *)

(* A receive of rank r that was posted is in the history or in a slot.     *)
LEMMA PostedRecvFacts ==
    ASSUME NEW q \in PostedRecvs, ~ \E d \in delivered : d.recv = q
    PROVE  /\ q.rank \in Ranks
           /\ \E k \in RequestIds :
                 /\ IsPendingRecv(procs[q.rank].requests[k])
                 /\ q = RecvOf(q.rank, procs[q.rank].requests[k])
  <1>1. PICK r \in Ranks : q \in PendingRecvs(r)
    BY DEF PostedRecvs
  <1>2. PICK k \in RequestIds : /\ IsPendingRecv(procs[r].requests[k])
                                /\ q = RecvOf(r, procs[r].requests[k])
    BY <1>1 DEF PendingRecvs
  <1>3. q.rank = r
    BY <1>2 DEF RecvOf
  <1> QED  BY <1>2, <1>3

LEMMA PendingIsLive ==
    ASSUME NEW r \in Ranks, NEW k \in RequestIds,
           IsPendingRecv(procs[r].requests[k])
    PROVE  k \in LiveIds(procs[r].requests)
  BY DEF LiveIds, IsLive, IsPendingRecv, NoRequest

LEMMA DeliveryFacts ==
    ASSUME RuntimeTypeOK, TypeTellsDelivery, InFlightNotDelivered,
           NEW r \in Ranks, NEW f \in WaitMatchings(procs[r], r, messages),
           NEW d \in Deliveries(r, procs[r], f)
    PROVE  \E i \in ReceiveIds(procs[r]) :
              /\ f[i] # NoMessage
              /\ d.send = f[i] /\ d.send \in messages
              /\ d.recv = RecvOf(r, procs[r].requests[i])
              /\ procs[r].requests[i] \in RecvRequest
              /\ Fits(d.send, r, procs[r].requests[i])
              /\ ~ \E e \in delivered : e.recv = d.recv
              /\ ~ \E e \in delivered : e.send = d.send
  <1>1. PICK i \in DOMAIN f : /\ f[i] # NoMessage
                              /\ d = [send |-> f[i], recv |-> RecvOf(r, procs[r].requests[i])]
    BY DEF Deliveries
  <1>2. i \in ReceiveIds(procs[r])
    BY MatchingsFacts
  <1>3. i \in RequestIds /\ IsPendingRecv(procs[r].requests[i])
    BY <1>2 DEF ReceiveIds
  <1>4. procs[r].requests[i] \in RecvRequest
    BY <1>3, PendingRecvFacts DEF RuntimeTypeOK, ProcessState, RequestTable
  <1>5. f[i] \in messages /\ Fits(f[i], r, procs[r].requests[i])
    BY <1>1, <1>2, MatchingFits DEF WaitMatchings
  <1>6. ~ \E e \in delivered : e.recv = d.recv
    BY <1>1, <1>3 DEF TypeTellsDelivery, IsPendingRecv
  <1>7. ~ \E e \in delivered : e.send = d.send
    BY <1>1, <1>5 DEF InFlightNotDelivered
  <1> QED  BY <1>1, <1>2, <1>4, <1>5, <1>6, <1>7

LEMMA ForkIsLegal ==
    ASSUME RuntimeTypeOK, IdsFollowPostOrder, TypeTellsDelivery,
           InFlightNotDelivered, MatchingIsLegal,
           NEW r \in Ranks, NEW f \in WaitMatchings(procs[r], r, messages)
    PROVE  Matching!NonOvertaking(PostedSends, PostedRecvs,
                                  delivered \cup Deliveries(r, procs[r], f))
  <1> DEFINE table == procs[r].requests
             ids == ReceiveIds(procs[r])
             new == Deliveries(r, procs[r], f)
             At(d, i) == /\ i \in ids
                         /\ f[i] # NoMessage
                         /\ d.send = f[i] /\ d.send \in messages
                         /\ d.recv = RecvOf(r, table[i])
                         /\ table[i] \in RecvRequest
                         /\ Fits(d.send, r, table[i])
                         /\ ~ \E e \in delivered : e.recv = d.recv
                         /\ ~ \E e \in delivered : e.send = d.send
  <1>1. \A d \in new : \E i \in ids : At(d, i)
    BY DeliveryFacts
  <1>2. \A i \in ids : f[i] # NoMessage =>
           [send |-> f[i], recv |-> RecvOf(r, table[i])] \in new
    BY MatchingsFacts DEF Deliveries
  <1>3. /\ ids \subseteq RequestIds
        /\ f \in Matchings(messages, r, table, procs[r].active, ids)
        /\ messages \in SUBSET Message
        /\ table \in RequestTable
    BY DEF ReceiveIds, WaitMatchings, RuntimeTypeOK, ProcessState
  <1>4. \A i, j \in ids : table[i].post < table[j].post => i < j
    <2>1. \A i \in ids : i \in LiveIds(table) /\ table[i].post \in Nat /\ i \in Int
      BY <1>3, PendingIsLive, PendingRecvFacts, MaxRequestsAssumption
         DEF ReceiveIds, RequestTable, RecvRequest, RequestIds
    <2> QED  BY <2>1 DEF IdsFollowPostOrder
  <1>5. \A i, j \in ids : table[i].post = table[j].post => i = j
    <2>1. \A i \in ids : i \in LiveIds(table) /\ table[i].post \in Nat /\ i \in Int
      BY <1>3, PendingIsLive, PendingRecvFacts, MaxRequestsAssumption
         DEF ReceiveIds, RequestTable, RecvRequest, RequestIds
    <2> QED  BY <2>1 DEF IdsFollowPostOrder
  <1>6. \A q \in PostedRecvs : (q.rank = r /\ ~ \E d \in delivered : d.recv = q) =>
           \E k \in RequestIds : /\ k \in LiveIds(table)
                                /\ IsPendingRecv(table[k])
                                /\ q = RecvOf(r, table[k])
    BY PostedRecvFacts, PendingIsLive
  <1> HIDE DEF table, ids, new
  <1>7. Matching!PairsAreOneToOne(delivered \cup new)
    <2>1. SUFFICES ASSUME NEW p \in delivered \cup new, NEW q \in delivered \cup new,
                          p.send = q.send \/ p.recv = q.recv
                   PROVE  p = q
      BY DEF Matching!PairsAreOneToOne
    <2>2. CASE p \in delivered /\ q \in delivered
      BY <2>1, <2>2 DEF MatchingIsLegal, Matching!NonOvertaking, Matching!PairsAreOneToOne
    <2>3. CASE p \in delivered /\ q \in new
      BY <2>1, <2>3, <1>1
    <2>4. CASE p \in new /\ q \in delivered
      BY <2>1, <2>4, <1>1
    <2>5. CASE p \in new /\ q \in new
      <3>1. PICK i \in ids : At(p, i)
        BY <1>1, <2>5
      <3>2. PICK j \in ids : At(q, j)
        BY <1>1, <2>5
      <3>3. ASSUME p.send = q.send  PROVE i = j
        <4>1. f[i] = f[j] /\ f[i] # NoMessage
          BY <3>1, <3>2, <3>3
        <4> QED  BY <4>1, <1>3, MatchingOneToOne
      <3>4. p.recv = q.recv => i = j
        BY <3>1, <3>2, <1>5 DEF RecvOf
      <3>5. p = [send |-> p.send, recv |-> p.recv] /\ q = [send |-> q.send, recv |-> q.recv]
        BY <2>5 DEF new, Deliveries
      <3> QED  BY <2>1, <3>1, <3>2, <3>3, <3>4, <3>5
    <2> QED  BY <2>2, <2>3, <2>4, <2>5
  <1>8. Matching!PairsFit(delivered \cup new)
    <2>1. ASSUME NEW p \in new  PROVE Matching!Accepts(p.recv, p.send)
      <3>1. PICK i \in ids : At(p, i)
        BY <1>1
      <3>2. p.recv.rank = r /\ p.recv.sender = table[i].sender /\ p.recv.tag = table[i].tag
        BY <3>1 DEF RecvOf
      <3> QED  BY <3>1, <3>2 DEF Fits, Matching!Accepts
    <2> QED  BY <2>1 DEF MatchingIsLegal, Matching!NonOvertaking, Matching!PairsFit
  <1>9. Matching!SendsDoNotOvertake(PostedSends, delivered \cup new)
    <2>1. SUFFICES ASSUME NEW p \in delivered \cup new, NEW s \in PostedSends,
                          Matching!SentBefore(s, p.send), Matching!Accepts(p.recv, s)
                   PROVE  Matching!WasReceived(s, delivered \cup new)
      BY DEF Matching!SendsDoNotOvertake
    <2>2. CASE p \in delivered
      BY <2>1, <2>2 DEF MatchingIsLegal, Matching!NonOvertaking,
                        Matching!SendsDoNotOvertake, Matching!WasReceived
    <2>3. CASE s \notin messages
      BY <2>1, <2>3 DEF PostedSends, Matching!WasReceived
    <2>4. CASE p \in new /\ s \in messages
      <3>1. PICK i \in ids : At(p, i)
        BY <1>1, <2>4
      <3>2. Fits(s, r, table[i])
        BY <2>1, <3>1 DEF Matching!Accepts, Fits, RecvOf
      <3>3. s.seq \in Nat /\ f[i].seq \in Nat /\ s.seq < f[i].seq /\ s.from = f[i].from
        BY <2>1, <2>4, <3>1, <1>3 DEF Message, Matching!SentBefore
      <3>4. PICK j \in ids : f[j] = s
        BY <3>1, <3>2, <3>3, <2>4, <1>3, MatchingTakesOldest
      <3>5. f[j] # NoMessage
        BY <3>4, <2>4, <1>3, NoMessageAssumption
      <3> DEFINE e == [send |-> f[j], recv |-> RecvOf(r, table[j])]
      <3>6. e \in new /\ e.send = s
        BY <1>2, <3>4, <3>5
      <3> QED  BY <3>6 DEF Matching!WasReceived
    <2> QED  BY <2>2, <2>3, <2>4
  <1>10. Matching!RecvsDoNotOvertake(PostedRecvs, delivered \cup new)
    <2>1. SUFFICES ASSUME NEW p \in delivered \cup new, NEW q \in PostedRecvs,
                          Matching!PostedBefore(q, p.recv), Matching!Accepts(q, p.send)
                   PROVE  Matching!WasFilled(q, delivered \cup new)
      BY DEF Matching!RecvsDoNotOvertake
    <2>2. CASE p \in delivered
      BY <2>1, <2>2 DEF MatchingIsLegal, Matching!NonOvertaking,
                        Matching!RecvsDoNotOvertake, Matching!WasFilled
    <2>3. CASE \E d \in delivered : d.recv = q
      BY <2>3 DEF Matching!WasFilled
    <2>4. CASE p \in new /\ ~ \E d \in delivered : d.recv = q
      <3>1. PICK i \in ids : At(p, i)
        BY <1>1, <2>4
      <3>2. q.rank = r /\ q.post < table[i].post
        BY <2>1, <3>1 DEF Matching!PostedBefore, RecvOf
      <3>3. PICK k \in RequestIds : /\ k \in LiveIds(table)
                                    /\ IsPendingRecv(table[k])
                                    /\ q = RecvOf(r, table[k])
        BY <1>6, <2>4, <3>2
      <3>4. k < i
        <4>1. table[k].post < table[i].post /\ i \in LiveIds(table) /\ i \in Int /\ k \in Int
          BY <3>1, <3>2, <3>3, <1>3, MaxRequestsAssumption
             DEF RecvOf, LiveIds, IsLive, NoRequest, RecvRequest, RequestIds
        <4>2. table[k].post \in Nat /\ table[i].post \in Nat
          BY <3>1, <3>3, <1>3, PendingRecvFacts DEF RequestTable, RecvRequest
        <4> QED  BY <4>1, <4>2, <3>3 DEF IdsFollowPostOrder, table
      <3>5. k \in ids
        <4>1. PICK l \in procs[r].active : i <= l /\ IsPendingRecv(table[l])
          BY <3>1 DEF ids, ReceiveIds, table
        <4>2. l \in RequestIds
          BY DEF RuntimeTypeOK, ProcessState
        <4>3. k <= l
          BY <3>4, <4>1, <4>2, <1>3, MaxRequestsAssumption DEF RequestIds
        <4> QED  BY <3>3, <4>1, <4>3 DEF ids, ReceiveIds, table
      <3>6. Fits(f[i], r, table[k])
        BY <2>1, <3>1, <3>3 DEF Matching!Accepts, Fits, RecvOf
      <3>7. f[k] # NoMessage
        BY <3>1, <3>4, <3>5, <3>6, <1>3, MatchingFillsLower
      <3> DEFINE e == [send |-> f[k], recv |-> RecvOf(r, table[k])]
      <3>8. e \in new /\ e.recv = q
        BY <1>2, <3>3, <3>5, <3>7
      <3> QED  BY <3>8 DEF Matching!WasFilled
    <2> QED  BY <2>2, <2>3, <2>4
  <1>11. Matching!PairsDoNotCross(delivered \cup new)
    <2>1. SUFFICES ASSUME NEW p \in delivered \cup new, NEW q \in delivered \cup new,
                          Matching!SentBefore(p.send, q.send),
                          Matching!Accepts(q.recv, p.send),
                          Matching!PostedBefore(q.recv, p.recv)
                   PROVE  FALSE
      BY DEF Matching!PairsDoNotCross
    <2>2. CASE p \in delivered /\ q \in delivered
      BY <2>1, <2>2 DEF MatchingIsLegal, Matching!NonOvertaking, Matching!PairsDoNotCross
    <2>3. CASE p \in delivered /\ q \in new
      <3>1. PICK j \in ids : At(q, j)
        BY <1>1, <2>3
      <3>2. q.recv \in PendingRecvs(r)
        BY <3>1 DEF PendingRecvs, ids, ReceiveIds, table
      <3>3. q.recv \in PostedRecvs
        BY <3>2 DEF PostedRecvs
      <3> QED  BY <2>1, <2>3, <3>1, <3>3
               DEF MatchingIsLegal, Matching!NonOvertaking,
                   Matching!RecvsDoNotOvertake, Matching!WasFilled
    <2>4. CASE p \in new /\ q \in delivered
      <3>1. PICK i \in ids : At(p, i)
        BY <1>1, <2>4
      <3>2. p.send \in PostedSends
        BY <3>1 DEF PostedSends
      <3> QED  BY <2>1, <2>4, <3>1, <3>2
               DEF MatchingIsLegal, Matching!NonOvertaking,
                   Matching!SendsDoNotOvertake, Matching!WasReceived
    <2>5. CASE p \in new /\ q \in new
      <3>1. PICK i \in ids : At(p, i)
        BY <1>1, <2>5
      <3>2. PICK j \in ids : At(q, j)
        BY <1>1, <2>5
      <3>3. j < i
        BY <2>1, <3>1, <3>2, <1>4 DEF Matching!PostedBefore, RecvOf
      <3>4. Fits(f[i], r, table[j])
        BY <2>1, <3>1, <3>2 DEF Matching!Accepts, Fits, RecvOf
      <3>5. \A l \in ids : l < j => f[l] # f[i]
        BY <1>3, <3>1, <3>3, MatchingOneToOne, MaxRequestsAssumption DEF RequestIds
      <3>6. f[j].seq <= f[i].seq
        BY <3>1, <3>2, <3>4, <3>5, <1>3, <2>1, MatchingTakesOldest
           DEF Matching!SentBefore
      <3>7. f[i].seq < f[j].seq /\ f[i].seq \in Nat /\ f[j].seq \in Nat
        BY <2>1, <3>1, <3>2, <1>3 DEF Matching!SentBefore, Message
      <3> QED  BY <3>6, <3>7
    <2> QED  BY <2>2, <2>3, <2>4, <2>5
  <1> QED  BY <1>7, <1>8, <1>9, <1>10, <1>11 DEF Matching!NonOvertaking, new

-----------------------------------------------------------------------------
(* The invariant, step by step.                                            *)

TablesSame == \A r \in Ranks : procs'[r].requests = procs[r].requests

LEMMA PostedSame ==
    ASSUME TablesSame, UNCHANGED <<messages, delivered>>
    PROVE  /\ PostedSends' = PostedSends
           /\ PostedRecvs' = PostedRecvs
           /\ \A r \in Ranks : PendingRecvs(r)' = PendingRecvs(r)
  <1>1. \A r \in Ranks : PendingRecvs(r)' = PendingRecvs(r)
    BY DEF PendingRecvs, TablesSame
  <1> QED  BY <1>1 DEF PostedSends, PostedRecvs

(* Starting a rank, calling Wait or Test, returning from main and a Test   *)
(* that finds nothing leave tables, deque and history alone.               *)
LEMMA QuietStep ==
    ASSUME TablesInv, TablesSame, UNCHANGED <<messages, posts, delivered>>
    PROVE  /\ IdsFollowPostOrder'
           /\ NumbersAreGivenOut'
           /\ InFlightNotDelivered'
           /\ TypeTellsDelivery'
           /\ MatchingIsLegal'
           /\ InFlightHasRequest'
           /\ UNCHANGED held => HandlesNameTheirRequests'
  <1>1. IdsFollowPostOrder'
    BY DEF TablesInv, IdsFollowPostOrder, TablesSame, LiveIds, IsLive
  <1>2. NumbersAreGivenOut'
    BY DEF TablesInv, NumbersAreGivenOut, TablesSame, LiveIds, IsLive
  <1>3. InFlightNotDelivered'
    BY DEF TablesInv, InFlightNotDelivered
  <1>4. TypeTellsDelivery'
    BY DEF TablesInv, TypeTellsDelivery, TablesSame
  <1>5. MatchingIsLegal'
    BY PostedSame DEF TablesInv, MatchingIsLegal
  <1>6. InFlightHasRequest'
    <2>1. \A m \in messages : m.from \in Ranks
      BY DEF TablesInv, RuntimeTypeOK, Message
    <2> QED  BY <2>1 DEF TablesInv, InFlightHasRequest, TablesSame
  <1>7. UNCHANGED held => HandlesNameTheirRequests'
    BY DEF TablesInv, HandlesNameTheirRequests, TablesSame, LiveIds, IsLive
  <1> QED  BY <1>1, <1>2, <1>3, <1>4, <1>5, <1>6, <1>7

(* A rank that calls Wait, Waitall or Test, or returns.                    *)
LEMMA PauseStep ==
    ASSUME TablesInv, NEW r \in Ranks, NEW p \in ProcessState, Pause(r, p),
           RuntimeTypeOK', p.requests = procs[r].requests,
           p.hasFlag <=> p.status = "PS_TEST",
           \/ p.status # "PS_TEST" /\ UNCHANGED flag
           \/ flag' = [flag EXCEPT ![r] = 0]
    PROVE  TablesInv'
  <1>1. procs' = [procs EXCEPT ![r] = p] /\ procs \in [Ranks -> ProcessState]
           /\ flag \in [Ranks -> {0, 1}]
    BY DEF Pause, TablesInv, RuntimeTypeOK
  <1>2. TablesSame
    BY <1>1 DEF TablesSame
  <1>3. UNCHANGED <<messages, posts, delivered, held>> /\ running = r /\ running' = Nobody
    BY DEF Pause
  <1>4. UndecidedTestIsClear'
    <2>1. SUFFICES ASSUME NEW q \in Ranks
                   PROVE  /\ procs'[q].hasFlag <=> procs'[q].status = "PS_TEST"
                          /\ procs'[q].status = "PS_TEST" => flag'[q] = 0
      BY DEF UndecidedTestIsClear
    <2>2. CASE q = r
      BY <1>1, <2>2
    <2>3. CASE q # r
      BY <1>1, <1>3, <2>3 DEF TablesInv, UndecidedTestIsClear
    <2> QED  BY <2>2, <2>3
  <1> QED  BY <1>2, <1>3, <1>4, QuietStep DEF TablesInv

LEMMA BootStep ==
    ASSUME TablesInv, NEW r \in Ranks, Boot(r), RuntimeTypeOK'
    PROVE  TablesInv'
  <1>1. TablesSame /\ UNCHANGED <<procs, messages, posts, delivered, held, flag>>
    BY DEF Boot, TablesSame
  <1>2. UndecidedTestIsClear'
    BY <1>1 DEF Boot, TablesInv, UndecidedTestIsClear, Nobody, Ranks
  <1> QED  BY <1>1, <1>2, QuietStep DEF TablesInv

(* The flag of the Test is 0, so the program keeps its handle.             *)
LEMMA TestNotReadyStep ==
    ASSUME TablesInv, NEW r \in Ranks, TestNotReady(r), RuntimeTypeOK'
    PROVE  TablesInv'
  <1>1. TablesSame /\ UNCHANGED <<procs, messages, posts, delivered>>
    BY DEF TestNotReady, TablesSame
  <1>2. /\ running = Nobody /\ running' = r
        /\ flag' = [flag EXCEPT ![r] = flag[r]]
        /\ procs[r].status = "PS_TEST"
    BY DEF TestNotReady, Forking, Paused, Resume
  <1>3. flag[r] = 0
    BY <1>2, NumRanksAssumption DEF TablesInv, UndecidedTestIsClear, Nobody, Ranks
  <1>4. held' = held
    BY <1>2, <1>3 DEF TestNotReady, Resume, TablesInv, RuntimeTypeOK
  <1>5. flag' = flag
    BY <1>2 DEF TablesInv, RuntimeTypeOK
  <1>6. UndecidedTestIsClear'
    BY <1>1, <1>2, <1>5 DEF TablesInv, UndecidedTestIsClear, Nobody, Ranks
  <1> QED  BY <1>1, <1>4, <1>6, QuietStep DEF TablesInv

(* What a post does to the tables: one slot, above every live one.         *)
LEMMA PostFacts ==
    ASSUME RuntimeTypeOK, NEW r \in Ranks, NEW id \in RequestIds,
           NEW R \in Request, Post(r, id, R)
    PROVE  /\ \A q \in Ranks : q # r => procs'[q] = procs[q]
           /\ procs'[r].requests = [procs[r].requests EXCEPT ![id] = R]
           /\ procs'[r].status = procs[r].status
           /\ procs'[r].hasFlag = procs[r].hasFlag
           /\ procs[r].requests \in RequestTable
           /\ posts' = [posts EXCEPT ![r] = R.post]
           /\ held' = [held EXCEPT ![r] = @ \cup {[id |-> id, post |-> R.post]}]
           /\ \A i \in LiveIds(procs[r].requests) : i < id
  <1>1. procs \in [Ranks -> ProcessState] /\ posts \in [Ranks -> Nat]
           /\ procs[r] \in ProcessState /\ procs[r].requests \in RequestTable
    BY DEF RuntimeTypeOK, ProcessState
  <1>2. procs' = [procs EXCEPT ![r] = SetRequest(procs[r], id, R)]
    BY DEF Post
  <1>3. \A i \in LiveIds(procs[r].requests) : i < id
    BY MaxRequestsAssumption DEF Post, IsNewRequestId, LiveIds, RequestIds
  <1> QED  BY <1>1, <1>2, <1>3, SetRequestFacts DEF Post, SetRequest, ProcessState

LEMMA RequestIsLive ==
    ASSUME NEW R \in Request
    PROVE  R # NoRequest /\ R.post \in Nat
  BY DEF Request, SsendRequest, RecvRequest, NoRequest

(* The parts of the invariant that only depend on the new slot.            *)
LEMMA PostKeepsTables ==
    ASSUME TablesInv, NEW r \in Ranks, NEW id \in RequestIds,
           NEW R \in Request, R.post = posts[r] + 1, Post(r, id, R),
           UNCHANGED <<running, flag, delivered>>
    PROVE  /\ IdsFollowPostOrder'
           /\ HandlesNameTheirRequests'
           /\ UndecidedTestIsClear'
           /\ \A q \in Ranks : \A i \in LiveIds(procs'[q].requests) :
                 procs'[q].requests[i].post <= posts'[q]
           /\ \A d \in delivered' : /\ d.send.seq <= posts'[d.send.from]
                                   /\ d.recv.post <= posts'[d.recv.rank]
  <1>a. RuntimeTypeOK /\ IdsFollowPostOrder /\ NumbersAreGivenOut
           /\ HandlesNameTheirRequests /\ UndecidedTestIsClear
    BY DEF TablesInv
  <1>b. /\ \A q \in Ranks : q # r => procs'[q] = procs[q]
        /\ procs'[r].requests = [procs[r].requests EXCEPT ![id] = R]
        /\ procs'[r].status = procs[r].status
        /\ procs'[r].hasFlag = procs[r].hasFlag
        /\ procs[r].requests \in RequestTable
        /\ posts' = [posts EXCEPT ![r] = R.post]
        /\ held' = [held EXCEPT ![r] = @ \cup {[id |-> id, post |-> R.post]}]
        /\ \A i \in LiveIds(procs[r].requests) : i < id
    BY <1>a, PostFacts
  <1>1. R # NoRequest /\ posts \in [Ranks -> Nat] /\ held \in [Ranks -> SUBSET Handle]
    BY <1>a, RequestIsLive DEF RuntimeTypeOK
  <1>2. LiveIds(procs'[r].requests) = LiveIds(procs[r].requests) \cup {id}
    BY <1>1, <1>b DEF LiveIds, IsLive, RequestTable
  <1>3. \A i \in LiveIds(procs[r].requests) :
           /\ i < id /\ i # id /\ i \in Int /\ id \in Int
           /\ procs'[r].requests[i] = procs[r].requests[i]
           /\ procs[r].requests[i] \in Request
           /\ procs[r].requests[i].post \in Nat
           /\ procs[r].requests[i].post <= posts[r]
    BY <1>a, <1>b, RequestIsLive, MaxRequestsAssumption
       DEF LiveIds, IsLive, RequestTable, NumbersAreGivenOut, RequestIds
  <1>4. procs'[r].requests[id] = R
    BY <1>b DEF RequestTable
  <1>5. \A i, j \in LiveIds(procs'[r].requests) :
           i < j => procs'[r].requests[i].post < procs'[r].requests[j].post
    <2>1. SUFFICES ASSUME NEW i \in LiveIds(procs'[r].requests),
                          NEW j \in LiveIds(procs'[r].requests), i < j
                   PROVE  procs'[r].requests[i].post < procs'[r].requests[j].post
      OBVIOUS
    <2>2. i \in LiveIds(procs[r].requests)
      BY <1>2, <1>3, <2>1, MaxRequestsAssumption DEF RequestIds
    <2>3. CASE j = id
      BY <1>1, <1>3, <1>4, <2>2, <2>3
    <2>4. CASE j \in LiveIds(procs[r].requests)
      BY <1>a, <1>3, <2>1, <2>2, <2>4 DEF IdsFollowPostOrder
    <2> QED  BY <1>2, <2>3, <2>4
  <1>6. IdsFollowPostOrder'
    BY <1>5, <1>a, <1>b DEF IdsFollowPostOrder
  <1>7. HandlesNameTheirRequests'
    <2>1. ASSUME NEW q \in Ranks, q # r
          PROVE  held'[q] = {[id |-> i, post |-> procs'[q].requests[i].post] :
                                i \in LiveIds(procs'[q].requests)}
      BY <2>1, <1>a, <1>b, <1>1 DEF HandlesNameTheirRequests
    <2>2. held'[r] = held[r] \cup {[id |-> id, post |-> R.post]}
      BY <1>b, <1>1
    <2>3. held'[r] = {[id |-> i, post |-> procs'[r].requests[i].post] :
                        i \in LiveIds(procs'[r].requests)}
      BY <1>a, <1>2, <1>3, <1>4, <2>2 DEF HandlesNameTheirRequests
    <2> QED  BY <2>1, <2>3 DEF HandlesNameTheirRequests
  <1>8. UndecidedTestIsClear'
    BY <1>a, <1>b DEF UndecidedTestIsClear
  <1>9. \A q \in Ranks : \A i \in LiveIds(procs'[q].requests) :
           procs'[q].requests[i].post <= posts'[q]
    <2>1. ASSUME NEW i \in LiveIds(procs'[r].requests)
          PROVE  procs'[r].requests[i].post <= posts'[r]
      BY <1>b, <1>1, <1>2, <1>3, <1>4
    <2> QED  BY <1>a, <1>b, <1>1, <2>1 DEF NumbersAreGivenOut
  <1>10. \A d \in delivered' : /\ d.send.seq <= posts'[d.send.from]
                              /\ d.recv.post <= posts'[d.recv.rank]
    <2>1. ASSUME NEW d \in delivered
          PROVE  /\ d.send.seq <= posts'[d.send.from]
                 /\ d.recv.post <= posts'[d.recv.rank]
      <3>1. d.send \in Message /\ d.recv.post \in Nat /\ d.recv.rank \in Ranks
        BY <1>a DEF RuntimeTypeOK, Delivery
      <3>2. d.send.seq \in Nat /\ d.send.from \in Ranks
        BY <3>1 DEF Message
      <3>3. d.send.seq <= posts[d.send.from] /\ d.recv.post <= posts[d.recv.rank]
        BY <1>a DEF NumbersAreGivenOut
      <3>4. \A q \in Ranks : posts[q] <= posts'[q] /\ posts[q] \in Nat /\ posts'[q] \in Nat
        BY <1>b, <1>1
      <3> QED  BY <3>1, <3>2, <3>3, <3>4
    <2> QED  BY <2>1
  <1> QED  BY <1>6, <1>7, <1>8, <1>9, <1>10

LEMMA IsendStep ==
    ASSUME TablesInv, NEW r \in Ranks, NEW target \in Ranks, NEW tag \in Tags,
           NEW id \in RequestIds, Isend(r, target, tag, id), RuntimeTypeOK'
    PROVE  TablesInv' /\ Matching!PostSend([from |-> r, to |-> target, tag |-> tag,
                                             seq |-> posts[r] + 1])
  <1> DEFINE m == [from |-> r, to |-> target, tag |-> tag, seq |-> posts[r] + 1]
             R == [type |-> "REQUEST_SSEND", msg |-> m, post |-> m.seq]
  <1>1. m \in Message /\ R \in Request
    BY SendIsTyped DEF TablesInv
  <1>2. /\ messages' = messages \cup {m}
        /\ Post(r, id, R)
        /\ UNCHANGED <<running, booted, flag, delivered>>
    BY DEF Isend
  <1>3. /\ m.from = r /\ m.seq = posts[r] + 1 /\ posts[r] \in Nat
        /\ R.post = posts[r] + 1 /\ R.type = "REQUEST_SSEND" /\ R.msg = m
    BY DEF TablesInv, RuntimeTypeOK
  <1> HIDE DEF m, R
  <1>4. RuntimeTypeOK /\ NumbersAreGivenOut /\ InFlightNotDelivered /\ TypeTellsDelivery
           /\ MatchingIsLegal /\ InFlightHasRequest
    BY DEF TablesInv
  <1>5. /\ \A q \in Ranks : q # r => procs'[q] = procs[q]
        /\ procs'[r].requests = [procs[r].requests EXCEPT ![id] = R]
        /\ procs[r].requests \in RequestTable
        /\ posts' = [posts EXCEPT ![r] = R.post]
        /\ \A i \in LiveIds(procs[r].requests) : i < id
    BY <1>1, <1>2, <1>4, PostFacts
  <1>6. /\ IdsFollowPostOrder'
        /\ HandlesNameTheirRequests'
        /\ UndecidedTestIsClear'
        /\ \A q \in Ranks : \A i \in LiveIds(procs'[q].requests) :
              procs'[q].requests[i].post <= posts'[q]
        /\ \A d \in delivered' : /\ d.send.seq <= posts'[d.send.from]
                                /\ d.recv.post <= posts'[d.recv.rank]
    BY <1>1, <1>2, <1>3, PostKeepsTables
  <1>7. \A n \in PostedSends : /\ n \in Message /\ n.seq \in Nat /\ n.from \in Ranks
                              /\ n.seq <= posts[n.from]
    BY <1>4 DEF PostedSends, RuntimeTypeOK, Delivery, Message, NumbersAreGivenOut
  <1>8. \A n \in PostedSends : n # m /\ ~ Matching!SentBefore(m, n)
    BY <1>3, <1>7 DEF Matching!SentBefore
  <1>9. NumbersAreGivenOut'
    <2>1. ASSUME NEW n \in messages'  PROVE n.seq <= posts'[n.from]
      <3>1. CASE n = m
        BY <1>3, <1>5, <3>1, <1>4 DEF RuntimeTypeOK
      <3>2. CASE n \in messages
        <4>1. n.seq \in Nat /\ n.from \in Ranks /\ n.seq <= posts[n.from]
          BY <1>7, <3>2 DEF PostedSends
        <4>2. posts[n.from] <= posts'[n.from] /\ posts[n.from] \in Nat /\ posts'[n.from] \in Nat
          BY <1>3, <1>5, <1>4, <4>1 DEF RuntimeTypeOK
        <4> QED  BY <4>1, <4>2
      <3> QED  BY <1>2, <2>1, <3>1, <3>2
    <2> QED  BY <1>6, <2>1 DEF NumbersAreGivenOut
  <1>10. InFlightNotDelivered'
    BY <1>2, <1>4, <1>8 DEF InFlightNotDelivered, PostedSends
  <1>11. \A q \in Ranks, i \in RequestIds :
            procs'[q].requests[i] = IF q = r /\ i = id THEN R ELSE procs[q].requests[i]
    BY <1>5 DEF RequestTable
  <1>12. TypeTellsDelivery'
    BY <1>2, <1>3, <1>4, <1>11 DEF TypeTellsDelivery
  <1>13. ~ IsLive(procs[r].requests, id)
    BY <1>5, MaxRequestsAssumption DEF LiveIds, RequestIds
  <1>14. \A q \in Ranks : PendingRecvs(q)' = PendingRecvs(q)
    <2>1. ~ IsPendingRecv(procs[r].requests[id]) /\ ~ IsPendingRecv(R)
      BY <1>3, <1>13 DEF IsLive, IsPendingRecv, NoRequest
    <2> QED  BY <1>11, <2>1 DEF PendingRecvs
  <1>15. PostedRecvs' = PostedRecvs /\ PostedSends' = PostedSends \cup {m}
    BY <1>2, <1>14 DEF PostedRecvs, PostedSends
  <1>16. MatchingIsLegal'
    <2>1. \A d \in delivered : d.send \in PostedSends
      BY DEF PostedSends
    <2>2. Matching!SendsDoNotOvertake(PostedSends \cup {m}, delivered)
      BY <1>4, <1>8, <2>1 DEF MatchingIsLegal, Matching!NonOvertaking, Matching!SendsDoNotOvertake
    <2> QED  BY <1>2, <1>4, <1>15, <2>2 DEF MatchingIsLegal, Matching!NonOvertaking
  <1>17. InFlightHasRequest'
    <2>1. ASSUME NEW n \in messages'
          PROVE  \E i \in RequestIds : /\ procs'[n.from].requests[i].type = "REQUEST_SSEND"
                                      /\ procs'[n.from].requests[i].msg = n
      <3>1. CASE n = m
        BY <1>3, <1>11, <3>1
      <3>2. CASE n \in messages
        <4>1. PICK i \in RequestIds : /\ procs[n.from].requests[i].type = "REQUEST_SSEND"
                                      /\ procs[n.from].requests[i].msg = n
          BY <1>4, <3>2 DEF InFlightHasRequest
        <4>2. n.from \in Ranks
          BY <1>7, <3>2 DEF PostedSends
        <4>3. ~ (n.from = r /\ i = id)
          BY <1>13, <4>1 DEF IsLive, NoRequest
        <4> QED  BY <1>11, <4>1, <4>2, <4>3
      <3> QED  BY <1>2, <3>1, <3>2
    <2> QED  BY <2>1 DEF InFlightHasRequest
  <1>18. Matching!PostSend(m)
    <2>1. m \notin PostedSends
      BY <1>8
    <2>2. \A t \in PostedSends : t.from = m.from => Matching!SentBefore(t, m)
      BY <1>3, <1>7 DEF Matching!SentBefore
    <2> QED  BY <1>2, <1>15, <2>1, <2>2 DEF Matching!PostSend
  <1> QED  BY <1>6, <1>9, <1>10, <1>12, <1>16, <1>17, <1>18 DEF TablesInv, m

LEMMA IrecvStep ==
    ASSUME TablesInv, NEW r \in Ranks, NEW sender \in Ranks \cup {AnySource},
           NEW tag \in Tags, NEW id \in RequestIds, Irecv(r, sender, tag, id),
           RuntimeTypeOK'
    PROVE  TablesInv' /\ Matching!PostRecv([rank |-> r, sender |-> sender, tag |-> tag,
                                             post |-> posts[r] + 1])
  <1> DEFINE R == [type |-> "REQUEST_RECV", sender |-> sender, tag |-> tag,
                   post |-> posts[r] + 1]
             q0 == [rank |-> r, sender |-> sender, tag |-> tag, post |-> posts[r] + 1]
  <1>1. R \in Request
    BY RecvIsTyped DEF TablesInv
  <1>2. Post(r, id, R) /\ UNCHANGED <<running, booted, messages, flag, delivered>>
    BY DEF Irecv
  <1>3. /\ R.post = posts[r] + 1 /\ R.type = "REQUEST_RECV" /\ posts[r] \in Nat
        /\ RecvOf(r, R) = q0 /\ q0.rank = r /\ q0.post = posts[r] + 1
    BY DEF TablesInv, RuntimeTypeOK, RecvOf
  <1> HIDE DEF R, q0
  <1>4. RuntimeTypeOK /\ NumbersAreGivenOut /\ InFlightNotDelivered /\ TypeTellsDelivery
           /\ MatchingIsLegal /\ InFlightHasRequest
    BY DEF TablesInv
  <1>5. /\ \A q \in Ranks : q # r => procs'[q] = procs[q]
        /\ procs'[r].requests = [procs[r].requests EXCEPT ![id] = R]
        /\ procs[r].requests \in RequestTable
        /\ posts' = [posts EXCEPT ![r] = R.post]
        /\ \A i \in LiveIds(procs[r].requests) : i < id
    BY <1>1, <1>2, <1>4, PostFacts
  <1>6. /\ IdsFollowPostOrder'
        /\ HandlesNameTheirRequests'
        /\ UndecidedTestIsClear'
        /\ \A q \in Ranks : \A i \in LiveIds(procs'[q].requests) :
              procs'[q].requests[i].post <= posts'[q]
        /\ \A d \in delivered' : /\ d.send.seq <= posts'[d.send.from]
                                /\ d.recv.post <= posts'[d.recv.rank]
    BY <1>1, <1>2, <1>3, PostKeepsTables
  <1>7. \A q \in PostedRecvs : q.rank \in Ranks /\ q.post \in Nat /\ q.post <= posts[q.rank]
    <2>1. SUFFICES ASSUME NEW q \in PostedRecvs
                   PROVE  q.rank \in Ranks /\ q.post \in Nat /\ q.post <= posts[q.rank]
      OBVIOUS
    <2>2. CASE \E d \in delivered : d.recv = q
      BY <1>4, <2>2 DEF RuntimeTypeOK, Delivery, NumbersAreGivenOut
    <2>3. CASE ~ \E d \in delivered : d.recv = q
      <3>1. PICK k \in RequestIds : /\ q.rank \in Ranks
                                    /\ IsPendingRecv(procs[q.rank].requests[k])
                                    /\ q = RecvOf(q.rank, procs[q.rank].requests[k])
        BY <2>3, PostedRecvFacts
      <3>2. k \in LiveIds(procs[q.rank].requests) /\ procs[q.rank].requests[k] \in RecvRequest
        <4>1. k \in LiveIds(procs[q.rank].requests)
          BY <3>1, PendingIsLive
        <4>2. procs[q.rank].requests[k] \in Request \cup {NoRequest}
          BY <1>4, <3>1 DEF RuntimeTypeOK, ProcessState, RequestTable
        <4> QED  BY <3>1, <4>1, <4>2, PendingRecvFacts
      <3>3. q.post = procs[q.rank].requests[k].post
        BY <3>1 DEF RecvOf
      <3> QED  BY <1>4, <3>1, <3>2, <3>3 DEF NumbersAreGivenOut, RecvRequest
    <2> QED  BY <2>2, <2>3
  <1>8. \A q \in PostedRecvs : q # q0 /\ ~ Matching!PostedBefore(q0, q)
    BY <1>3, <1>7 DEF Matching!PostedBefore
  <1>9. NumbersAreGivenOut'
    <2>1. ASSUME NEW n \in messages'  PROVE n.seq <= posts'[n.from]
      <3>1. n.seq \in Nat /\ n.from \in Ranks /\ n.seq <= posts[n.from]
        BY <1>2, <1>4 DEF RuntimeTypeOK, Message, NumbersAreGivenOut
      <3>2. posts[n.from] <= posts'[n.from] /\ posts[n.from] \in Nat /\ posts'[n.from] \in Nat
        BY <1>3, <1>5, <1>4, <3>1 DEF RuntimeTypeOK
      <3> QED  BY <3>1, <3>2
    <2> QED  BY <1>6, <2>1 DEF NumbersAreGivenOut
  <1>10. InFlightNotDelivered'
    BY <1>2, <1>4 DEF InFlightNotDelivered
  <1>11. \A q \in Ranks, i \in RequestIds :
            procs'[q].requests[i] = IF q = r /\ i = id THEN R ELSE procs[q].requests[i]
    BY <1>5 DEF RequestTable
  <1>12. \A d \in delivered : d.recv \in PostedRecvs
    BY DEF PostedRecvs
  <1>13. TypeTellsDelivery'
    <2>1. ~ \E d \in delivered : d.recv = RecvOf(r, R)
      BY <1>3, <1>8, <1>12
    <2> QED  BY <1>2, <1>3, <1>4, <1>11, <2>1 DEF TypeTellsDelivery
  <1>14. ~ IsLive(procs[r].requests, id)
    BY <1>5, MaxRequestsAssumption DEF LiveIds, RequestIds
  <1>15. PendingRecvs(r)' = PendingRecvs(r) \cup {q0}
    <2>1. ~ IsPendingRecv(procs[r].requests[id]) /\ IsPendingRecv(R)
      BY <1>3, <1>14 DEF IsLive, IsPendingRecv, NoRequest
    <2> QED  BY <1>3, <1>11, <2>1 DEF PendingRecvs
  <1>16. \A q \in Ranks : q # r => PendingRecvs(q)' = PendingRecvs(q)
    BY <1>5 DEF PendingRecvs
  <1>17. PostedRecvs' = PostedRecvs \cup {q0} /\ PostedSends' = PostedSends
    BY <1>2, <1>15, <1>16 DEF PostedRecvs, PostedSends
  <1>18. MatchingIsLegal'
    <2>1. Matching!RecvsDoNotOvertake(PostedRecvs \cup {q0}, delivered)
      BY <1>4, <1>8, <1>12 DEF MatchingIsLegal, Matching!NonOvertaking, Matching!RecvsDoNotOvertake
    <2> QED  BY <1>2, <1>4, <1>17, <2>1 DEF MatchingIsLegal, Matching!NonOvertaking
  <1>19. InFlightHasRequest'
    <2>1. ASSUME NEW n \in messages
          PROVE  \E i \in RequestIds : /\ procs'[n.from].requests[i].type = "REQUEST_SSEND"
                                      /\ procs'[n.from].requests[i].msg = n
      <3>1. PICK i \in RequestIds : /\ procs[n.from].requests[i].type = "REQUEST_SSEND"
                                    /\ procs[n.from].requests[i].msg = n
        BY <1>4 DEF InFlightHasRequest
      <3>2. n.from \in Ranks
        BY <1>4 DEF RuntimeTypeOK, Message
      <3>3. ~ (n.from = r /\ i = id)
        BY <1>14, <3>1 DEF IsLive, NoRequest
      <3> QED  BY <1>11, <3>1, <3>2, <3>3
    <2> QED  BY <1>2, <2>1 DEF InFlightHasRequest
  <1>20. Matching!PostRecv(q0)
    <2>1. \A q \in PostedRecvs : q.rank = q0.rank => Matching!PostedBefore(q, q0)
      BY <1>3, <1>7 DEF Matching!PostedBefore
    <2> QED  BY <1>2, <1>8, <1>17, <2>1 DEF Matching!PostRecv
  <1> QED  BY <1>6, <1>9, <1>10, <1>13, <1>18, <1>19, <1>20 DEF TablesInv, q0

(* The rank that goes on forgets the requests it waited for, and slots of  *)
(* the requests it did not wait for keep their numbers.                    *)
LEMMA ResumeKeepsTables ==
    ASSUME TablesInv, NEW r \in Ranks, NEW b \in {0, 1}, Resume(r, b),
           running = Nobody, UNCHANGED posts,
           procs[r].status = "PS_WAIT" \/ b = 1,
           procs[r].status = "PS_WAIT" => b = flag[r],
           \A q \in Ranks : q # r => procs'[q] = procs[q],
           procs'[r].status = procs[r].status,
           procs'[r].hasFlag = procs[r].hasFlag,
           \A i \in RequestIds :
              /\ i \in procs[r].active => procs'[r].requests[i] = NoRequest
              /\ i \notin procs[r].active =>
                    /\ IsLive(procs'[r].requests, i) <=> IsLive(procs[r].requests, i)
                    /\ procs'[r].requests[i].post = procs[r].requests[i].post
    PROVE  /\ IdsFollowPostOrder'
           /\ HandlesNameTheirRequests'
           /\ UndecidedTestIsClear'
           /\ \A q \in Ranks : \A i \in LiveIds(procs'[q].requests) :
                 procs'[q].requests[i].post <= posts'[q]
  <1>1. /\ RuntimeTypeOK /\ IdsFollowPostOrder /\ NumbersAreGivenOut
        /\ HandlesNameTheirRequests /\ UndecidedTestIsClear
    BY DEF TablesInv
  <1>2. LiveIds(procs'[r].requests) = LiveIds(procs[r].requests) \ procs[r].active
    BY DEF LiveIds, IsLive
  <1>3. \A i \in LiveIds(procs'[r].requests) :
           procs'[r].requests[i].post = procs[r].requests[i].post
    BY <1>2 DEF LiveIds
  <1>4. IdsFollowPostOrder'
    <2>1. \A i, j \in LiveIds(procs'[r].requests) :
             i < j => procs'[r].requests[i].post < procs'[r].requests[j].post
      BY <1>1, <1>2, <1>3 DEF IdsFollowPostOrder
    <2> QED  BY <1>1, <2>1 DEF IdsFollowPostOrder
  <1>5. HandlesNameTheirRequests'
    <2>1. held'[r] = {h \in held[r] : h.id \notin procs[r].active}
      BY <1>1 DEF Resume, RuntimeTypeOK
    <2>2. held'[r] = {[id |-> i, post |-> procs'[r].requests[i].post] :
                        i \in LiveIds(procs'[r].requests)}
      BY <1>1, <1>2, <1>3, <2>1 DEF HandlesNameTheirRequests
    <2>3. ASSUME NEW q \in Ranks, q # r
          PROVE  held'[q] = {[id |-> i, post |-> procs'[q].requests[i].post] :
                                i \in LiveIds(procs'[q].requests)}
      <3>1. held'[q] = held[q]
        BY <1>1, <2>3 DEF Resume, RuntimeTypeOK
      <3> QED  BY <1>1, <2>3, <3>1 DEF HandlesNameTheirRequests
    <2> QED  BY <2>2, <2>3 DEF HandlesNameTheirRequests
  <1>6. UndecidedTestIsClear'
    <2>1. running' = r /\ flag' = [flag EXCEPT ![r] = b] /\ flag \in [Ranks -> {0, 1}]
      BY <1>1 DEF Resume, RuntimeTypeOK
    <2>2. ASSUME NEW q \in Ranks, q # r
          PROVE  /\ procs'[q].hasFlag <=> procs'[q].status = "PS_TEST"
                 /\ procs'[q].status = "PS_TEST" => flag'[q] = 0
      BY <1>1, <2>1, <2>2 DEF UndecidedTestIsClear, Nobody, Ranks
    <2>3. procs'[r].hasFlag <=> procs'[r].status = "PS_TEST"
      BY <1>1 DEF UndecidedTestIsClear
    <2> QED  BY <2>1, <2>2, <2>3 DEF UndecidedTestIsClear
  <1>7. \A q \in Ranks : \A i \in LiveIds(procs'[q].requests) :
           procs'[q].requests[i].post <= posts'[q]
    BY <1>1, <1>2, <1>3 DEF NumbersAreGivenOut
  <1> QED  BY <1>4, <1>5, <1>6, <1>7

LEMMA FastRunStep ==
    ASSUME TablesInv, NEW r \in Ranks, FastRunWait(r), RuntimeTypeOK'
    PROVE  TablesInv' /\ UNCHANGED <<PostedSends, PostedRecvs, delivered>>
  <1>1. /\ running = Nobody /\ CanFastRun(procs[r], messages)
        /\ procs' = [procs EXCEPT ![r] = RemoveRequests(procs[r], procs[r].active)]
        /\ Resume(r, flag[r])
        /\ UNCHANGED <<booted, messages, posts, delivered>>
    BY DEF FastRunWait, Paused, FastRunnable
  <1>2. /\ RuntimeTypeOK /\ NumbersAreGivenOut /\ InFlightNotDelivered /\ TypeTellsDelivery
        /\ MatchingIsLegal /\ InFlightHasRequest
    BY DEF TablesInv
  <1>3. procs \in [Ranks -> ProcessState] /\ procs[r] \in ProcessState /\ flag[r] \in {0, 1}
    BY <1>2 DEF RuntimeTypeOK
  <1>4. /\ \A q \in Ranks : q # r => procs'[q] = procs[q]
        /\ \A i \in RequestIds : procs'[r].requests[i] =
              IF i \in procs[r].active THEN NoRequest ELSE procs[r].requests[i]
        /\ procs'[r].status = procs[r].status /\ procs'[r].hasFlag = procs[r].hasFlag
    BY <1>1, <1>3, RemoveRequestsFacts DEF RemoveRequests, ProcessState
  <1>5. procs[r].status = "PS_WAIT"
    BY <1>1 DEF CanFastRun
  <1>6. /\ IdsFollowPostOrder'
        /\ HandlesNameTheirRequests'
        /\ UndecidedTestIsClear'
        /\ \A q \in Ranks : \A i \in LiveIds(procs'[q].requests) :
              procs'[q].requests[i].post <= posts'[q]
    BY <1>1, <1>3, <1>4, <1>5, ResumeKeepsTables DEF IsLive
  <1>7. NumbersAreGivenOut'
    BY <1>1, <1>2, <1>6 DEF NumbersAreGivenOut
  <1>8. InFlightNotDelivered'
    BY <1>1, <1>2 DEF InFlightNotDelivered
  <1>9. TypeTellsDelivery'
    BY <1>1, <1>2, <1>4 DEF TypeTellsDelivery, NoRequest
  <1>10. \A q \in Ranks : PendingRecvs(q)' = PendingRecvs(q)
    <2>1. \A i \in procs[r].active : ~ IsPendingRecv(procs[r].requests[i])
      BY <1>1 DEF CanFastRun
    <2>2. ~ IsPendingRecv(NoRequest)
      BY DEF IsPendingRecv, NoRequest
    <2> QED  BY <1>4, <2>1, <2>2 DEF PendingRecvs
  <1>11. PostedRecvs' = PostedRecvs /\ PostedSends' = PostedSends
    BY <1>1, <1>10 DEF PostedRecvs, PostedSends
  <1>12. MatchingIsLegal'
    BY <1>1, <1>2, <1>11 DEF MatchingIsLegal
  <1>13. InFlightHasRequest'
    <2>1. ASSUME NEW n \in messages
          PROVE  \E i \in RequestIds : /\ procs'[n.from].requests[i].type = "REQUEST_SSEND"
                                      /\ procs'[n.from].requests[i].msg = n
      <3>1. PICK i \in RequestIds : /\ procs[n.from].requests[i].type = "REQUEST_SSEND"
                                    /\ procs[n.from].requests[i].msg = n
        BY <1>2 DEF InFlightHasRequest
      <3>2. n.from \in Ranks
        BY <1>2 DEF RuntimeTypeOK, Message
      <3>3. ~ (n.from = r /\ i \in procs[r].active)
        BY <1>1, <3>1 DEF CanFastRun, SendsReceived, CheckMessage
      <3> QED  BY <1>4, <3>1, <3>2, <3>3
    <2> QED  BY <1>1, <2>1 DEF InFlightHasRequest
  <1> QED  BY <1>1, <1>6, <1>7, <1>8, <1>9, <1>11, <1>12, <1>13 DEF TablesInv

(* Every receive a fork waits for gets a message.                          *)
LEMMA WaitedRecvIsMatched ==
    ASSUME RuntimeTypeOK, NEW r \in Ranks,
           NEW f \in WaitMatchings(procs[r], r, messages),
           NEW i \in procs[r].active, IsPendingRecv(procs[r].requests[i])
    PROVE  i \in ReceiveIds(procs[r]) /\ f[i] # NoMessage
  <1>1. i \in RequestIds /\ i \in Int
    BY MaxRequestsAssumption DEF RuntimeTypeOK, ProcessState, RequestIds
  <1>2. i \in ReceiveIds(procs[r])
    BY <1>1 DEF ReceiveIds
  <1>3. LegalChoice(messages, r, procs[r].requests, procs[r].active, f, i)
    BY <1>2, MatchingsFacts
  <1>4. f[i] \in messages
    BY <1>3 DEF LegalChoice, FirstOfEachSender, Available
  <1> QED  BY <1>2, <1>4, NoMessageAssumption DEF RuntimeTypeOK

(* Tables, deque and history after a fork.                                 *)
LEMMA ForkFacts ==
    ASSUME RuntimeTypeOK, NEW r \in Ranks, NEW f, ForkWaitOrTest(r, f)
    PROVE  /\ f \in WaitMatchings(procs[r], r, messages)
           /\ running = Nobody
           /\ \A q \in Ranks : q # r => procs'[q] = procs[q]
           /\ \A i \in RequestIds : procs'[r].requests[i] =
                 IF i \in procs[r].active THEN NoRequest
                 ELSE IF i \in ReceiveIds(procs[r]) /\ f[i] # NoMessage
                      THEN CompletedCopy(procs[r].requests[i])
                      ELSE procs[r].requests[i]
           /\ procs'[r].status = procs[r].status
           /\ procs'[r].hasFlag = procs[r].hasFlag
           /\ messages' = messages \ Taken(f)
           /\ delivered' = delivered \cup Deliveries(r, procs[r], f)
  <1>1. f \in WaitMatchings(procs[r], r, messages) /\ running = Nobody
    BY DEF ForkWaitOrTest, Forking, Paused
  <1>2. DOMAIN f = ReceiveIds(procs[r])
    BY <1>1, MatchingsFacts
  <1>3. procs \in [Ranks -> ProcessState] /\ procs[r] \in ProcessState
    BY DEF RuntimeTypeOK
  <1>4. procs' = [procs EXCEPT ![r] = AfterMatching(procs[r], f)]
    BY DEF ForkWaitOrTest
  <1>5. AfterMatching(procs[r], f).status = procs[r].status
           /\ AfterMatching(procs[r], f).hasFlag = procs[r].hasFlag
    BY <1>3 DEF AfterMatching, RemoveRequests, ProcessState
  <1>6. \A i \in RequestIds : AfterMatching(procs[r], f).requests[i] =
           IF i \in procs[r].active THEN NoRequest
           ELSE IF i \in ReceiveIds(procs[r]) /\ f[i] # NoMessage
                THEN CompletedCopy(procs[r].requests[i])
                ELSE procs[r].requests[i]
    BY <1>2, <1>3, AfterMatchingFacts
  <1> QED  BY <1>1, <1>3, <1>4, <1>5, <1>6 DEF ForkWaitOrTest, RemoveMessages

LEMMA ForkStep ==
    ASSUME TablesInv, NEW r \in Ranks, NEW f, ForkWaitOrTest(r, f), RuntimeTypeOK'
    PROVE  /\ TablesInv'
           /\ UNCHANGED <<PostedSends, PostedRecvs>>
           /\ delivered' = delivered \/ Matching!Match(delivered' \ delivered)
  <1> DEFINE table == procs[r].requests
             ids == ReceiveIds(procs[r])
             new == Deliveries(r, procs[r], f)
  <1>1. /\ RuntimeTypeOK /\ IdsFollowPostOrder /\ NumbersAreGivenOut /\ InFlightNotDelivered
        /\ TypeTellsDelivery /\ MatchingIsLegal /\ UndecidedTestIsClear /\ InFlightHasRequest
    BY DEF TablesInv
  <1>2. /\ f \in WaitMatchings(procs[r], r, messages)
        /\ running = Nobody
        /\ \A q \in Ranks : q # r => procs'[q] = procs[q]
        /\ \A i \in RequestIds : procs'[r].requests[i] =
              IF i \in procs[r].active THEN NoRequest
              ELSE IF i \in ids /\ f[i] # NoMessage THEN CompletedCopy(table[i])
                   ELSE table[i]
        /\ procs'[r].status = procs[r].status /\ procs'[r].hasFlag = procs[r].hasFlag
        /\ messages' = messages \ Taken(f)
        /\ delivered' = delivered \cup new
    BY <1>1, ForkFacts
  <1>3. DOMAIN f = ids /\ ids \subseteq RequestIds
    <2>1. DOMAIN f = ids
      BY <1>2, MatchingsFacts
    <2>2. ids \subseteq RequestIds
      BY DEF ReceiveIds
    <2> QED  BY <2>1, <2>2
  <1>4. \A i \in ids : /\ IsPendingRecv(table[i]) /\ table[i] \in Request
                      /\ CompletedCopy(table[i]) \in Request
                      /\ CompletedCopy(table[i]).type = "REQUEST_RECV_COMPLETED"
                      /\ CompletedCopy(table[i]).post = table[i].post
                      /\ RecvOf(r, CompletedCopy(table[i])) = RecvOf(r, table[i])
    <2>1. ASSUME NEW i \in ids
          PROVE  IsPendingRecv(table[i]) /\ table[i] \in Request
      BY <1>1, PendingRecvFacts DEF ReceiveIds, RuntimeTypeOK, ProcessState, RequestTable
    <2> QED  BY <2>1, CompletedCopyFacts
  <1>5. \A i \in procs[r].active : IsPendingRecv(table[i]) => i \in ids /\ f[i] # NoMessage
    BY <1>1, <1>2, WaitedRecvIsMatched
  <1>6. \A d \in new : \E i \in ids :
           /\ f[i] # NoMessage
           /\ d.send = f[i] /\ d.send \in messages
           /\ d.recv = RecvOf(r, table[i])
           /\ table[i] \in RecvRequest
           /\ Fits(d.send, r, table[i])
           /\ ~ \E e \in delivered : e.recv = d.recv
           /\ ~ \E e \in delivered : e.send = d.send
    BY <1>1, <1>2, DeliveryFacts
  <1>7. \A i \in ids : f[i] # NoMessage =>
           \E d \in new : d.send = f[i] /\ d.recv = RecvOf(r, table[i])
    <2>1. ASSUME NEW i \in ids, f[i] # NoMessage
          PROVE  [send |-> f[i], recv |-> RecvOf(r, table[i])] \in new
      BY <1>3, <2>1 DEF Deliveries
    <2> QED  BY <2>1
  <1>8. Matching!NonOvertaking(PostedSends, PostedRecvs, delivered \cup new)
    BY <1>1, <1>2, ForkIsLegal
  <1>9. /\ Resume(r, IF procs[r].hasFlag THEN 1 ELSE flag[r]) /\ UNCHANGED posts
        /\ procs[r].status \in {"PS_WAIT", "PS_TEST"} /\ SendsReceived(procs[r], messages)
    BY DEF ForkWaitOrTest
  <1>10. \A i, j \in RequestIds :
            /\ IsPendingRecv(table[i]) /\ IsPendingRecv(table[j])
            /\ RecvOf(r, table[i]) = RecvOf(r, table[j])
            => i = j
    <2>1. \A i \in RequestIds : IsPendingRecv(table[i]) =>
             i \in LiveIds(table) /\ i \in Int /\ table[i].post \in Nat
      <3>1. ASSUME NEW i \in RequestIds, IsPendingRecv(table[i])
            PROVE  i \in LiveIds(table) /\ i \in Int /\ table[i].post \in Nat
        <4>1. table[i] \in RecvRequest
          BY <1>1, <3>1, PendingRecvFacts DEF RuntimeTypeOK, ProcessState, RequestTable
        <4> QED  BY <3>1, <4>1, PendingIsLive, MaxRequestsAssumption DEF RecvRequest, RequestIds
      <3> QED  BY <3>1
    <2> QED  BY <1>1, <2>1 DEF IdsFollowPostOrder, RecvOf
  <1>11. \A i \in RequestIds : ~ IsPendingRecv(table[i]) => i \notin ids
    BY <1>4
  <1>12. ~ IsPendingRecv(NoRequest) /\ \A i \in ids : ~ IsPendingRecv(CompletedCopy(table[i]))
    BY <1>4 DEF IsPendingRecv, NoRequest
  <1> HIDE DEF table, ids, new
  <1>13. /\ IdsFollowPostOrder'
         /\ HandlesNameTheirRequests'
         /\ UndecidedTestIsClear'
         /\ \A q \in Ranks : \A i \in LiveIds(procs'[q].requests) :
               procs'[q].requests[i].post <= posts'[q]
    <2> DEFINE b == IF procs[r].hasFlag THEN 1 ELSE flag[r]
    <2>1. /\ b \in {0, 1}
          /\ procs[r].status = "PS_WAIT" \/ b = 1
          /\ procs[r].status = "PS_WAIT" => b = flag[r]
      BY <1>1, <1>9 DEF RuntimeTypeOK, UndecidedTestIsClear
    <2>2. \A i \in RequestIds :
             /\ i \in procs[r].active => procs'[r].requests[i] = NoRequest
             /\ i \notin procs[r].active =>
                   /\ IsLive(procs'[r].requests, i) <=> IsLive(procs[r].requests, i)
                   /\ procs'[r].requests[i].post = procs[r].requests[i].post
      BY <1>2, <1>4, RequestIsLive DEF IsLive, table
    <2>3. Resume(r, b)
      BY <1>9
    <2> HIDE DEF b
    <2> QED  BY <1>2, <1>9, <2>1, <2>2, <2>3, ResumeKeepsTables
  <1>14. NumbersAreGivenOut'
    <2>1. ASSUME NEW d \in new
          PROVE  d.send.seq <= posts[d.send.from] /\ d.recv.post <= posts[d.recv.rank]
      <3>1. PICK i \in ids : d.send \in messages /\ d.recv = RecvOf(r, table[i])
        BY <1>6
      <3>2. i \in LiveIds(table)
        BY <1>3, <1>4, <3>1, PendingIsLive DEF table
      <3> QED  BY <1>1, <3>1, <3>2 DEF NumbersAreGivenOut, RecvOf, table
    <2> QED  BY <1>1, <1>2, <1>9, <1>13, <2>1 DEF NumbersAreGivenOut
  <1>15. InFlightNotDelivered'
    <2>1. \A d \in new : d.send \in Taken(f)
      BY <1>3, <1>6 DEF Taken
    <2> QED  BY <1>1, <1>2, <2>1 DEF InFlightNotDelivered
  <1>16. TypeTellsDelivery'
    <2>1. ASSUME NEW q \in Ranks, q # r, NEW i \in RequestIds, NEW d \in new
          PROVE  d.recv # RecvOf(q, procs[q].requests[i])
      <3>1. d.recv.rank = r
        <4>1. PICK j \in ids : d.recv = RecvOf(r, table[j])
          BY <1>6
        <4> QED  BY <4>1 DEF RecvOf
      <3>2. RecvOf(q, procs[q].requests[i]).rank = q
        BY DEF RecvOf
      <3> QED  BY <2>1, <3>1, <3>2
    <2>2. ASSUME NEW i \in RequestIds, IsPendingRecv(procs'[r].requests[i])
          PROVE  ~ \E d \in delivered' : d.recv = RecvOf(r, procs'[r].requests[i])
      <3>1. procs'[r].requests[i] = table[i] /\ ~ (i \in ids /\ f[i] # NoMessage)
        BY <1>2, <1>12, <2>2
      <3>2. ~ \E d \in delivered : d.recv = RecvOf(r, table[i])
        BY <1>1, <2>2, <3>1 DEF TypeTellsDelivery, IsPendingRecv, table
      <3>3. ASSUME NEW d \in new, d.recv = RecvOf(r, table[i])  PROVE FALSE
        <4>1. PICK j \in ids : f[j] # NoMessage /\ d.recv = RecvOf(r, table[j])
          BY <1>6
        <4>2. i = j
          BY <1>3, <1>4, <1>10, <2>2, <3>1, <3>3, <4>1
        <4> QED  BY <3>1, <4>1, <4>2
      <3> QED  BY <1>2, <3>1, <3>2, <3>3
    <2>3. ASSUME NEW i \in RequestIds,
                 procs'[r].requests[i].type = "REQUEST_RECV_COMPLETED"
          PROVE  \E d \in delivered' : d.recv = RecvOf(r, procs'[r].requests[i])
      <3>1. i \notin procs[r].active
        BY <1>2, <2>3 DEF NoRequest
      <3>2. CASE i \in ids /\ f[i] # NoMessage
        BY <1>2, <1>4, <1>7, <3>1, <3>2
      <3>3. CASE ~ (i \in ids /\ f[i] # NoMessage)
        BY <1>1, <1>2, <2>3, <3>1, <3>3 DEF TypeTellsDelivery, table
      <3> QED  BY <3>2, <3>3
    <2>4. \A q \in Ranks, i \in RequestIds : q # r =>
             (\E d \in delivered' : d.recv = RecvOf(q, procs[q].requests[i])) <=>
             (\E d \in delivered : d.recv = RecvOf(q, procs[q].requests[i]))
      BY <1>2, <2>1
    <2>5. ASSUME NEW q \in Ranks, NEW i \in RequestIds,
                 procs'[q].requests[i].type \in {"REQUEST_RECV", "REQUEST_RECV_COMPLETED"}
          PROVE  (procs'[q].requests[i].type = "REQUEST_RECV_COMPLETED") <=>
                    \E d \in delivered' : d.recv = RecvOf(q, procs'[q].requests[i])
      <3>1. CASE q = r
        BY <2>2, <2>3, <2>5, <3>1 DEF IsPendingRecv
      <3>2. CASE q # r
        BY <1>1, <1>2, <2>4, <2>5, <3>2 DEF TypeTellsDelivery
      <3> QED  BY <3>1, <3>2
    <2> QED  BY <2>5 DEF TypeTellsDelivery
  <1>17. PostedSends' = PostedSends
    <2>1. Taken(f) = {d.send : d \in new}
      BY <1>3, <1>6, <1>7 DEF Taken
    <2>2. \A d \in new : d.send \in messages
      BY <1>6
    <2> QED  BY <1>2, <2>1, <2>2 DEF PostedSends
  <1>18. PostedRecvs' = PostedRecvs
    <2>1. \A q \in Ranks : q # r => PendingRecvs(q)' = PendingRecvs(q)
      BY <1>2 DEF PendingRecvs
    <2>2. PendingRecvs(r)' \subseteq PendingRecvs(r)
      BY <1>2, <1>12 DEF PendingRecvs, table
    <2>3. ASSUME NEW q \in PendingRecvs(r), q \notin PendingRecvs(r)'
          PROVE  \E d \in new : d.recv = q
      <3>1. PICK i \in RequestIds : IsPendingRecv(table[i]) /\ q = RecvOf(r, table[i])
        BY DEF PendingRecvs, table
      <3>2. procs'[r].requests[i] # table[i]
        BY <2>3, <3>1 DEF PendingRecvs
      <3>3. i \in ids /\ f[i] # NoMessage
        BY <1>2, <1>5, <3>1, <3>2
      <3> QED  BY <1>7, <3>1, <3>3
    <2>4. ASSUME NEW d \in new  PROVE d.recv \in PendingRecvs(r)
      <3>1. PICK i \in ids : d.recv = RecvOf(r, table[i])
        BY <1>6
      <3> QED  BY <1>3, <1>4, <3>1 DEF PendingRecvs, table
    <2>5. PostedRecvs' \subseteq PostedRecvs
      BY <1>2, <2>1, <2>2, <2>4 DEF PostedRecvs
    <2>6. PostedRecvs \subseteq PostedRecvs'
      BY <1>2, <2>1, <2>3 DEF PostedRecvs
    <2> QED  BY <2>5, <2>6
  <1>19. MatchingIsLegal'
    BY <1>2, <1>8, <1>17, <1>18 DEF MatchingIsLegal
  <1>20. InFlightHasRequest'
    <2>1. ASSUME NEW n \in messages'
          PROVE  \E i \in RequestIds : /\ procs'[n.from].requests[i].type = "REQUEST_SSEND"
                                      /\ procs'[n.from].requests[i].msg = n
      <3>1. n \in messages
        BY <1>2
      <3>2. PICK i \in RequestIds : /\ procs[n.from].requests[i].type = "REQUEST_SSEND"
                                    /\ procs[n.from].requests[i].msg = n
        BY <1>1, <3>1 DEF InFlightHasRequest
      <3>3. n.from \in Ranks
        BY <1>1, <3>1 DEF RuntimeTypeOK, Message
      <3>4. ASSUME n.from = r  PROVE i \notin procs[r].active /\ i \notin ids
        BY <1>9, <1>11, <3>1, <3>2, <3>4 DEF SendsReceived, CheckMessage, IsPendingRecv, table
      <3> QED  BY <1>2, <3>2, <3>3, <3>4 DEF table
    <2> QED  BY <2>1 DEF InFlightHasRequest
  <1>21. delivered' = delivered \/ Matching!Match(delivered' \ delivered)
    <2>1. SUFFICES ASSUME delivered' # delivered
                   PROVE  Matching!Match(delivered' \ delivered)
      OBVIOUS
    <2>2. /\ delivered' \ delivered # {}
          /\ (delivered' \ delivered) \cap delivered = {}
          /\ delivered' = delivered \cup (delivered' \ delivered)
      BY <1>2, <2>1
    <2>3. \A d \in delivered' : d.send \in PostedSends /\ d.recv \in PostedRecvs
      BY <1>17, <1>18 DEF PostedSends, PostedRecvs
    <2>4. Matching!NonOvertaking(PostedSends, PostedRecvs, delivered')
      BY <1>2, <1>8
    <2> QED  BY <1>17, <1>18, <2>2, <2>3, <2>4 DEF Matching!Match
  <1> QED  BY <1>13, <1>14, <1>15, <1>16, <1>17, <1>18, <1>19, <1>20, <1>21 DEF TablesInv

-----------------------------------------------------------------------------
(* The theorems.                                                           *)

LEMMA InitInv == Init => TablesInv
  <1> SUFFICES ASSUME Init  PROVE TablesInv
    OBVIOUS
  <1>1. RuntimeTypeOK
    BY InitTyped
  <1>2. /\ messages = {} /\ delivered = {}
        /\ \A r \in Ranks : /\ held[r] = {} /\ procs[r].status = "PS_INITED"
                            /\ procs[r].hasFlag = FALSE
                            /\ \A i \in RequestIds : procs[r].requests[i] = NoRequest
    BY DEF Init, InitProcessState, EmptyTable
  <1>3. \A r \in Ranks : LiveIds(procs[r].requests) = {}
    BY <1>2 DEF LiveIds, IsLive
  <1>4. IdsFollowPostOrder /\ NumbersAreGivenOut /\ InFlightNotDelivered
    BY <1>2, <1>3 DEF IdsFollowPostOrder, NumbersAreGivenOut, InFlightNotDelivered
  <1>5. TypeTellsDelivery /\ UndecidedTestIsClear /\ InFlightHasRequest
    BY <1>2 DEF TypeTellsDelivery, UndecidedTestIsClear, InFlightHasRequest, NoRequest
  <1>6. HandlesNameTheirRequests
    BY <1>2, <1>3 DEF HandlesNameTheirRequests
  <1>7. MatchingIsLegal
    BY <1>2 DEF MatchingIsLegal, Matching!NonOvertaking, Matching!PairsAreOneToOne,
                Matching!PairsFit, Matching!SendsDoNotOvertake,
                Matching!RecvsDoNotOvertake, Matching!PairsDoNotCross
  <1> QED  BY <1>1, <1>4, <1>5, <1>6, <1>7 DEF TablesInv

(* A call that pauses posts and matches nothing.                           *)
LEMMA PauseIsQuiet ==
    ASSUME RuntimeTypeOK, NEW r \in Ranks, NEW p, Pause(r, p),
           p.requests = procs[r].requests
    PROVE  UNCHANGED <<PostedSends, PostedRecvs, delivered>>
  <1>1. TablesSame /\ UNCHANGED <<messages, delivered>>
    BY DEF Pause, TablesSame, RuntimeTypeOK
  <1> QED  BY <1>1, PostedSame

(* Every step keeps the invariant and is a step of MPIMatching or a        *)
(* stutter of it.                                                          *)
LEMMA ClientStepLemma ==
    ASSUME TablesInv, NEW r \in Ranks, ClientStep(r)
    PROVE  TablesInv' /\ [Matching!MatchingNext]_(Matching!matchingVars)
  <1>1. RuntimeTypeOK /\ RuntimeTypeOK'
    BY ClientTyped DEF TablesInv
  <1>2. procs[r] \in ProcessState /\ \A h \in held[r] : h.id \in RequestIds
    BY <1>1 DEF RuntimeTypeOK, Handle
  <1>3. ASSUME NEW target \in Ranks, NEW tag \in Tags, NEW id \in RequestIds,
               Isend(r, target, tag, id)
        PROVE  TablesInv' /\ Matching!MatchingNext
    <2> DEFINE m == [from |-> r, to |-> target, tag |-> tag, seq |-> posts[r] + 1]
    <2>1. TablesInv' /\ Matching!PostSend(m)
      BY <1>1, <1>3, IsendStep
    <2> HIDE DEF m
    <2>2. m \in PostedSends' \ PostedSends
      BY <2>1 DEF Matching!PostSend
    <2> QED  BY <2>1, <2>2 DEF Matching!MatchingNext
  <1>4. ASSUME NEW sender \in Ranks \cup {AnySource}, NEW tag \in Tags,
               NEW id \in RequestIds, Irecv(r, sender, tag, id)
        PROVE  TablesInv' /\ Matching!MatchingNext
    <2> DEFINE q == [rank |-> r, sender |-> sender, tag |-> tag, post |-> posts[r] + 1]
    <2>1. TablesInv' /\ Matching!PostRecv(q)
      BY <1>1, <1>4, IrecvStep
    <2> HIDE DEF q
    <2>2. q \in PostedRecvs' \ PostedRecvs
      BY <2>1 DEF Matching!PostRecv
    <2> QED  BY <2>1, <2>2 DEF Matching!MatchingNext
  <1>5. ASSUME NEW ids \in SUBSET RequestIds, Pause(r, SetWait(procs[r], ids)),
               UNCHANGED flag
        PROVE  TablesInv' /\ UNCHANGED <<PostedSends, PostedRecvs, delivered>>
    <2> DEFINE p == SetWait(procs[r], ids)
    <2>1. p \in ProcessState /\ p.requests = procs[r].requests
      BY <1>2, SetWaitFacts
    <2>2. p.status = "PS_WAIT" /\ p.hasFlag = FALSE
      BY <1>2 DEF SetWait, ProcessState
    <2>3. Pause(r, p)
      BY <1>5
    <2> HIDE DEF p
    <2> QED  BY <1>1, <1>5, <2>1, <2>2, <2>3, PauseStep, PauseIsQuiet
  <1>6. ASSUME NEW h \in held[r], Wait(r, h)
        PROVE  TablesInv' /\ UNCHANGED <<PostedSends, PostedRecvs, delivered>>
    BY <1>2, <1>5, <1>6 DEF Wait
  <1>7. ASSUME NEW hs \in SUBSET held[r], Waitall(r, hs)
        PROVE  TablesInv' /\ UNCHANGED <<PostedSends, PostedRecvs, delivered>>
    <2>1. {h.id : h \in hs} \in SUBSET RequestIds
      BY <1>2
    <2> QED  BY <1>5, <1>7, <2>1 DEF Waitall
  <1>8. ASSUME NEW h \in held[r], Test(r, h)
        PROVE  TablesInv' /\ UNCHANGED <<PostedSends, PostedRecvs, delivered>>
    <2> DEFINE p == SetTest(procs[r], h.id)
    <2>1. p \in ProcessState /\ p.requests = procs[r].requests
      BY <1>2, SetTestFacts
    <2>2. p.status = "PS_TEST" /\ p.hasFlag = TRUE
      BY <1>2 DEF SetTest, ProcessState
    <2>3. Pause(r, p) /\ flag' = [flag EXCEPT ![r] = 0]
      BY <1>8 DEF Test
    <2> HIDE DEF p
    <2> QED  BY <1>1, <2>1, <2>2, <2>3, PauseStep, PauseIsQuiet
  <1>9. ASSUME Return(r)
        PROVE  TablesInv' /\ UNCHANGED <<PostedSends, PostedRecvs, delivered>>
    <2> DEFINE p == SetFinished(procs[r])
    <2>1. p \in ProcessState /\ p.requests = procs[r].requests
      BY <1>2, SetFinishedFacts
    <2>2. p.status = "PS_FINISHED" /\ p.hasFlag = FALSE
      BY <1>2 DEF SetFinished, ProcessState
    <2>3. Pause(r, p) /\ UNCHANGED flag
      BY <1>9 DEF Return
    <2> HIDE DEF p
    <2> QED  BY <1>1, <2>1, <2>2, <2>3, PauseStep, PauseIsQuiet
  <1> QED  BY <1>3, <1>4, <1>6, <1>7, <1>8, <1>9 DEF ClientStep, Matching!matchingVars

LEMMA ExplorerStepLemma ==
    ASSUME TablesInv, NEW r \in Ranks, ExplorerStep(r)
    PROVE  TablesInv' /\ [Matching!MatchingNext]_(Matching!matchingVars)
  <1>1. RuntimeTypeOK /\ RuntimeTypeOK'
    BY ExplorerTyped DEF TablesInv
  <1>2. CASE Boot(r)
    <2>1. TablesSame /\ UNCHANGED <<messages, delivered>>
      BY <1>2 DEF Boot, TablesSame
    <2>2. UNCHANGED <<PostedSends, PostedRecvs, delivered>>
      BY <2>1, PostedSame
    <2> QED  BY <1>1, <1>2, <2>2, BootStep DEF Matching!matchingVars
  <1>3. CASE FastRunWait(r)
    BY <1>1, <1>3, FastRunStep DEF Matching!matchingVars
  <1>4. CASE TestNotReady(r)
    <2>1. TablesSame /\ UNCHANGED <<messages, delivered>>
      BY <1>4 DEF TestNotReady, TablesSame
    <2>2. UNCHANGED <<PostedSends, PostedRecvs, delivered>>
      BY <2>1, PostedSame
    <2> QED  BY <1>1, <1>4, <2>2, TestNotReadyStep DEF Matching!matchingVars
  <1>5. ASSUME NEW f, ForkWaitOrTest(r, f)
        PROVE  TablesInv' /\ [Matching!MatchingNext]_(Matching!matchingVars)
    BY <1>1, <1>5, ForkStep DEF Matching!matchingVars, Matching!MatchingNext
  <1> QED  BY <1>2, <1>3, <1>4, <1>5 DEF ExplorerStep

LEMMA NextStep ==
    TablesInv /\ [Next]_vars => TablesInv' /\ [Matching!MatchingNext]_(Matching!matchingVars)
  <1> SUFFICES ASSUME TablesInv, [Next]_vars
               PROVE  TablesInv' /\ [Matching!MatchingNext]_(Matching!matchingVars)
    OBVIOUS
  <1>1. CASE Next
    BY <1>1, ClientStepLemma, ExplorerStepLemma DEF Next
  <1>2. CASE UNCHANGED vars
    <2>1. TablesSame /\ UNCHANGED <<messages, posts, delivered, held>>
      BY <1>2 DEF vars, TablesSame
    <2>2. RuntimeTypeOK' /\ UndecidedTestIsClear'
      BY <1>2 DEF vars, TablesInv, RuntimeTypeOK, UndecidedTestIsClear
    <2>3. UNCHANGED <<PostedSends, PostedRecvs, delivered>>
      BY <2>1, PostedSame
    <2> QED  BY <2>1, <2>2, <2>3, QuietStep DEF TablesInv, Matching!matchingVars
  <1> QED  BY <1>1, <1>2

-----------------------------------------------------------------------------
(* What a call that returns relies on.                                     *)

(* A step of rank r: the others neither run nor change.                    *)
LEMMA OneRankSteps ==
    ASSUME RuntimeTypeOK, NEW r \in Ranks, ClientStep(r) \/ ExplorerStep(r)
    PROVE  /\ running \in {Nobody, r} /\ running' \in {Nobody, r}
           /\ \A q \in Ranks : q # r => procs'[q] = procs[q]
  <1>1. procs \in [Ranks -> ProcessState]
    BY DEF RuntimeTypeOK
  <1>2. CASE ClientStep(r)
    BY <1>1, <1>2 DEF ClientStep, Isend, Irecv, Wait, Waitall, Test, Return, Pause, Post
  <1>3. CASE ExplorerStep(r)
    BY <1>1, <1>3 DEF ExplorerStep, Boot, FastRunWait, TestNotReady, ForkWaitOrTest, Forking,
                      Paused, Resume
  <1> QED  BY <1>2, <1>3

LEMMA SendsGrow ==
    ASSUME TablesInv, [Next]_vars
    PROVE  PostedSends \subseteq PostedSends'
  <1>1. [Matching!MatchingNext]_(Matching!matchingVars)
    BY NextStep
  <1> QED  BY <1>1 DEF Matching!MatchingNext, Matching!matchingVars, Matching!PostSend,
                       Matching!PostRecv, Matching!Match

LEMMA SendsKept ==
    ASSUME RuntimeInv, NEW r \in Ranks, ClientStep(r) \/ ExplorerStep(r)
    PROVE  SendsAreAccountedFor'
  <1>1. RuntimeTypeOK /\ TablesInv /\ SendsAreAccountedFor
    BY DEF RuntimeInv, TablesInv
  <1>2. procs \in [Ranks -> ProcessState] /\ procs[r] \in ProcessState
    BY <1>1 DEF RuntimeTypeOK
  <1>3. \A q \in Ranks : q # r => procs'[q] = procs[q]
    BY <1>1, OneRankSteps
  <1>4. PostedSends \subseteq PostedSends'
    BY <1>1, SendsGrow DEF Next
  <1>5. SUFFICES ASSUME NEW i \in RequestIds, procs'[r].requests[i].type = "REQUEST_SSEND"
                 PROVE  \/ procs[r].requests[i] = procs'[r].requests[i]
                        \/ procs'[r].requests[i].msg \in messages'
    <2>1. ASSUME NEW q \in Ranks, NEW i \in RequestIds,
                 procs'[q].requests[i].type = "REQUEST_SSEND"
          PROVE  procs'[q].requests[i].msg \in PostedSends'
      <3>1. CASE procs[q].requests[i] = procs'[q].requests[i]
        BY <1>1, <1>4, <2>1, <3>1 DEF SendsAreAccountedFor
      <3>2. CASE procs'[q].requests[i].msg \in messages'
        BY <3>2 DEF PostedSends
      <3> QED  BY <1>3, <1>5, <2>1, <3>1, <3>2
    <2> QED  BY <2>1 DEF SendsAreAccountedFor
  <1>6. ASSUME NEW target \in Ranks, NEW tag \in Tags, NEW id \in RequestIds,
               Isend(r, target, tag, id)
        PROVE  \/ procs[r].requests[i] = procs'[r].requests[i]
               \/ procs'[r].requests[i].msg \in messages'
    <2> DEFINE m == [from |-> r, to |-> target, tag |-> tag, seq |-> posts[r] + 1]
               R == [type |-> "REQUEST_SSEND", msg |-> m, post |-> m.seq]
    <2>1. R \in Request /\ R.msg = m
      BY <1>1, SendIsTyped
    <2>2. Post(r, id, R) /\ messages' = messages \cup {m}
      BY <1>6 DEF Isend
    <2> HIDE DEF m, R
    <2>3. procs'[r].requests = [procs[r].requests EXCEPT ![id] = R]
             /\ procs[r].requests \in RequestTable
      BY <1>1, <2>1, <2>2, PostFacts
    <2> QED  BY <2>1, <2>2, <2>3 DEF RequestTable
  <1>7. ASSUME NEW sender \in Ranks \cup {AnySource}, NEW tag \in Tags,
               NEW id \in RequestIds, Irecv(r, sender, tag, id)
        PROVE  procs[r].requests[i] = procs'[r].requests[i]
    <2> DEFINE R == [type |-> "REQUEST_RECV", sender |-> sender, tag |-> tag,
                     post |-> posts[r] + 1]
    <2>1. R \in Request /\ R.type # "REQUEST_SSEND"
      BY <1>1, RecvIsTyped
    <2>2. Post(r, id, R)
      BY <1>7 DEF Irecv
    <2> HIDE DEF R
    <2>3. procs'[r].requests = [procs[r].requests EXCEPT ![id] = R]
             /\ procs[r].requests \in RequestTable
      BY <1>1, <2>1, <2>2, PostFacts
    <2> QED  BY <1>5, <2>1, <2>3 DEF RequestTable
  <1>8. ASSUME NEW p, Pause(r, p), p.requests = procs[r].requests
        PROVE  procs[r].requests[i] = procs'[r].requests[i]
    BY <1>2, <1>8 DEF Pause
  <1>9. CASE ClientStep(r)
    <2>1. \A h \in held[r] : h.id \in RequestIds
      BY <1>1 DEF RuntimeTypeOK, Handle
    <2>2. ASSUME NEW h \in held[r], Wait(r, h)  PROVE procs[r].requests[i] = procs'[r].requests[i]
      BY <1>2, <1>8, <2>1, <2>2, SetWaitFacts DEF Wait
    <2>3. ASSUME NEW hs \in SUBSET held[r], Waitall(r, hs)
          PROVE  procs[r].requests[i] = procs'[r].requests[i]
      <3>1. {h.id : h \in hs} \in SUBSET RequestIds
        BY <2>1
      <3> QED  BY <1>2, <1>8, <2>3, <3>1, SetWaitFacts DEF Waitall
    <2>4. ASSUME NEW h \in held[r], Test(r, h)  PROVE procs[r].requests[i] = procs'[r].requests[i]
      BY <1>2, <1>8, <2>1, <2>4, SetTestFacts DEF Test
    <2>5. ASSUME Return(r)  PROVE procs[r].requests[i] = procs'[r].requests[i]
      BY <1>2, <1>8, <2>5, SetFinishedFacts DEF Return
    <2> QED  BY <1>6, <1>7, <1>9, <2>2, <2>3, <2>4, <2>5 DEF ClientStep
  <1>10. CASE Boot(r) \/ TestNotReady(r)
    BY <1>10 DEF Boot, TestNotReady
  <1>11. CASE FastRunWait(r)
    BY <1>2, <1>5, <1>11, RemoveRequestsFacts DEF FastRunWait, NoRequest
  <1>12. ASSUME NEW f, ForkWaitOrTest(r, f)  PROVE procs[r].requests[i] = procs'[r].requests[i]
    <2>1. procs'[r].requests[i] =
             IF i \in procs[r].active THEN NoRequest
             ELSE IF i \in ReceiveIds(procs[r]) /\ f[i] # NoMessage
                  THEN CompletedCopy(procs[r].requests[i])
                  ELSE procs[r].requests[i]
      BY <1>1, <1>12, ForkFacts
    <2>2. i \in ReceiveIds(procs[r]) =>
             CompletedCopy(procs[r].requests[i]).type = "REQUEST_RECV_COMPLETED"
      BY <1>2, PendingRecvFacts, CompletedCopyFacts DEF ReceiveIds, ProcessState, RequestTable
    <2> QED  BY <1>5, <2>1, <2>2 DEF NoRequest
  <1> QED  BY <1>9, <1>10, <1>11, <1>12 DEF ExplorerStep

LEMMA WaitedKept ==
    ASSUME RuntimeInv, NEW r \in Ranks, ClientStep(r) \/ ExplorerStep(r)
    PROVE  WaitedRequestsAreLive'
  <1>1. RuntimeTypeOK /\ WaitedRequestsAreLive /\ HandlesNameTheirRequests
    BY DEF RuntimeInv, TablesInv
  <1>2. procs \in [Ranks -> ProcessState] /\ procs[r] \in ProcessState
    BY <1>1 DEF RuntimeTypeOK
  <1>3. /\ running \in {Nobody, r} /\ running' \in {Nobody, r}
        /\ \A q \in Ranks : q # r => procs'[q] = procs[q]
    BY <1>1, OneRankSteps
  <1>4. \A q \in Ranks : Nobody # q
    BY NumRanksAssumption DEF Nobody, Ranks
  <1>5. ASSUME NEW q \in Ranks, q # r
        PROVE  procs'[q].active \subseteq LiveIds(procs'[q].requests)
    BY <1>1, <1>3, <1>4, <1>5 DEF WaitedRequestsAreLive
  <1>6. ASSUME running' # r
        PROVE  procs'[r].active \subseteq LiveIds(procs'[r].requests)
    <2>1. \A h \in held[r] : h.id \in LiveIds(procs[r].requests) /\ h.id \in RequestIds
      BY <1>1 DEF HandlesNameTheirRequests, LiveIds
    <2>2. ASSUME NEW p, Pause(r, p), p.requests = procs[r].requests,
                 p.active \subseteq LiveIds(procs[r].requests)
          PROVE  procs'[r].active \subseteq LiveIds(procs'[r].requests)
      BY <1>2, <2>2 DEF Pause
    <2>3. ASSUME NEW ids \in SUBSET RequestIds, ids \subseteq LiveIds(procs[r].requests)
          PROVE  /\ SetWait(procs[r], ids).active = ids
                 /\ \A id \in ids : SetTest(procs[r], id).active = {id}
      BY <1>2 DEF SetWait, SetTest, ProcessState
    <2>4. SetFinished(procs[r]).active = {}
      BY <1>2 DEF SetFinished, ProcessState
    <2>5. ASSUME NEW h \in held[r], Wait(r, h)
          PROVE  procs'[r].active \subseteq LiveIds(procs'[r].requests)
      BY <1>2, <2>1, <2>2, <2>3, <2>5, SetWaitFacts DEF Wait
    <2>6. ASSUME NEW hs \in SUBSET held[r], Waitall(r, hs)
          PROVE  procs'[r].active \subseteq LiveIds(procs'[r].requests)
      <3> DEFINE ids == {h.id : h \in hs}
      <3>1. ids \in SUBSET RequestIds /\ ids \subseteq LiveIds(procs[r].requests)
        BY <2>1
      <3>2. Pause(r, SetWait(procs[r], ids))
        BY <2>6 DEF Waitall
      <3> HIDE DEF ids
      <3> QED  BY <1>2, <2>2, <2>3, <3>1, <3>2, SetWaitFacts
    <2>7. ASSUME NEW h \in held[r], Test(r, h)
          PROVE  procs'[r].active \subseteq LiveIds(procs'[r].requests)
      <3>1. {h.id} \in SUBSET RequestIds /\ {h.id} \subseteq LiveIds(procs[r].requests)
        BY <2>1
      <3>2. SetTest(procs[r], h.id).active = {h.id}
        BY <2>3, <3>1
      <3> QED  BY <1>2, <2>1, <2>2, <2>7, <3>1, <3>2, SetTestFacts DEF Test
    <2>8. ASSUME Return(r)  PROVE procs'[r].active \subseteq LiveIds(procs'[r].requests)
      BY <1>2, <2>2, <2>4, <2>8, SetFinishedFacts DEF Return
    <2>9. ASSUME NEW target \in Ranks, NEW tag \in Tags, NEW id \in RequestIds,
                 Isend(r, target, tag, id)
          PROVE  FALSE
      BY <1>6, <2>9 DEF Isend
    <2>10. ASSUME NEW sender \in Ranks \cup {AnySource}, NEW tag \in Tags,
                  NEW id \in RequestIds, Irecv(r, sender, tag, id)
           PROVE  FALSE
      BY <1>6, <2>10 DEF Irecv
    <2>11. ~ ExplorerStep(r)
      BY <1>6 DEF ExplorerStep, Boot, FastRunWait, TestNotReady, ForkWaitOrTest, Resume
    <2> QED  BY <2>5, <2>6, <2>7, <2>8, <2>9, <2>10, <2>11 DEF ClientStep
  <1> QED  BY <1>5, <1>6 DEF WaitedRequestsAreLive

LEMMA StepKeepsInv == RuntimeInv /\ [Next]_vars => RuntimeInv'
  <1> SUFFICES ASSUME RuntimeInv, [Next]_vars PROVE RuntimeInv'
    OBVIOUS
  <1>1. TablesInv'
    BY NextStep DEF RuntimeInv
  <1>2. CASE Next
    BY <1>1, <1>2, SendsKept, WaitedKept DEF Next, RuntimeInv
  <1>3. CASE UNCHANGED vars
    <2>1. SendsAreAccountedFor' /\ WaitedRequestsAreLive'
      BY <1>3 DEF vars, RuntimeInv, SendsAreAccountedFor, WaitedRequestsAreLive, PostedSends
    <2> QED  BY <1>1, <2>1 DEF RuntimeInv
  <1> QED  BY <1>2, <1>3

LEMMA InitRuntime == Init => RuntimeInv
  <1> SUFFICES ASSUME Init PROVE RuntimeInv
    OBVIOUS
  <1>1. SendsAreAccountedFor
    BY DEF Init, InitProcessState, EmptyTable, NoRequest, SendsAreAccountedFor
  <1>2. WaitedRequestsAreLive
    BY DEF Init, InitProcessState, WaitedRequestsAreLive
  <1> QED  BY <1>1, <1>2, InitInv DEF RuntimeInv

(* The inductive invariant: tables, in-flight messages, handles of the     *)
(* program and history agree in every reachable state.                     *)
THEOREM Invariance == Spec => []RuntimeInv
  BY InitRuntime, StepKeepsInv, PTL DEF Spec

(* Nothing Aislinn matches along a path breaks the non-overtaking rule.    *)
THEOREM MatchingNeverOvertakes == Spec => []MatchingIsLegal
  <1>1. RuntimeInv => MatchingIsLegal
    BY DEF RuntimeInv, TablesInv
  <1> QED  BY <1>1, Invariance, PTL

(* Request slots stay in posting order, and a handle the program holds     *)
(* names the request it was returned for.                                  *)
THEOREM RequestTablesAreSound ==
    Spec => [](IdsFollowPostOrder /\ HandlesNameTheirRequests)
  <1>1. RuntimeInv => IdsFollowPostOrder /\ HandlesNameTheirRequests
    BY DEF RuntimeInv, TablesInv
  <1> QED  BY <1>1, Invariance, PTL

(* No message is lost: one that is in flight has its SSEND request, and a  *)
(* request is completed exactly when the history has its match.            *)
THEOREM NothingIsLost == Spec => [](InFlightHasRequest /\ TypeTellsDelivery)
  <1>1. RuntimeInv => InFlightHasRequest /\ TypeTellsDelivery
    BY DEF RuntimeInv, TablesInv
  <1> QED  BY <1>1, Invariance, PTL

(* The runtime implements the abstract specification of MPI matching.      *)
THEOREM RuntimeImplementsMatching == Spec => ImplementsMatching
  <1>1. Init => Matching!MatchingInit
    <2> SUFFICES ASSUME Init  PROVE Matching!MatchingInit
      OBVIOUS
    <2>1. messages = {} /\ delivered = {}
      BY DEF Init
    <2>2. \A r \in Ranks : PendingRecvs(r) = {}
      BY DEF Init, InitProcessState, EmptyTable, PendingRecvs, IsPendingRecv, NoRequest
    <2>3. PostedSends = {} /\ PostedRecvs = {}
      BY <2>1, <2>2 DEF PostedSends, PostedRecvs
    <2> QED  BY <2>1, <2>3 DEF Matching!MatchingInit
  <1>2. TablesInv /\ [Next]_vars => [Matching!MatchingNext]_(Matching!matchingVars)
    BY NextStep
  <1>3. RuntimeInv => TablesInv
    BY DEF RuntimeInv
  <1> QED  BY <1>1, <1>2, <1>3, Invariance, PTL DEF Spec, ImplementsMatching, Matching!MatchingSpec

-----------------------------------------------------------------------------
(* A call that returns.                                                    *)

LEMMA LiveRequestFacts ==
    ASSUME RuntimeTypeOK, NEW r \in Ranks, NEW i \in LiveIds(procs[r].requests)
    PROVE  LET R == procs[r].requests[i]
           IN  /\ i \in RequestIds /\ R \in Request
               /\ \/ R.type = "REQUEST_SSEND"
                  \/ R.type = "REQUEST_RECV_COMPLETED"
                  \/ R.type = "REQUEST_RECV" /\ IsPendingRecv(R)
  <1>1. i \in RequestIds /\ procs[r].requests[i] \in Request
    BY DEF LiveIds, IsLive, RuntimeTypeOK, ProcessState, RequestTable
  <1> QED  BY <1>1 DEF Request, SsendRequest, RecvRequest, IsPendingRecv

(* A request that was done before the step, with its send received.        *)
LEMMA DoneBefore ==
    ASSUME RuntimeInv, NEW r \in Ranks, NEW i \in RequestIds,
           \/ /\ procs[r].requests[i].type = "REQUEST_SSEND"
              /\ procs[r].requests[i].msg \notin messages
           \/ procs[r].requests[i].type = "REQUEST_RECV_COMPLETED",
           messages' \subseteq messages, delivered \subseteq delivered'
    PROVE  IsDone(r, procs[r].requests[i], messages', delivered')
  <1>1. SendsAreAccountedFor /\ TypeTellsDelivery
    BY DEF RuntimeInv, TablesInv
  <1>2. CASE /\ procs[r].requests[i].type = "REQUEST_SSEND"
             /\ procs[r].requests[i].msg \notin messages
    <2>1. procs[r].requests[i].msg \in PostedSends
      BY <1>1, <1>2 DEF SendsAreAccountedFor
    <2>2. \E d \in delivered : d.send = procs[r].requests[i].msg
      BY <1>2, <2>1 DEF PostedSends
    <2> QED  BY <1>2, <2>2 DEF IsDone
  <1>3. CASE procs[r].requests[i].type = "REQUEST_RECV_COMPLETED"
    <2>1. \E d \in delivered : d.recv = RecvOf(r, procs[r].requests[i])
      BY <1>1, <1>3 DEF TypeTellsDelivery
    <2> QED  BY <1>3, <2>1 DEF IsDone
  <1> QED  BY <1>2, <1>3

LEMMA FastRunReturns ==
    ASSUME RuntimeInv, NEW r \in Ranks, FastRunWait(r), running = Nobody
    PROVE  /\ procs[r].status = "PS_WAIT"
           /\ \A i \in procs[r].active :
                 /\ IsDone(r, procs[r].requests[i], messages', delivered')
                 /\ ~ IsLive(procs'[r].requests, i)
  <1>1. RuntimeTypeOK /\ WaitedRequestsAreLive /\ Nobody # r
    BY NumRanksAssumption DEF RuntimeInv, TablesInv, Nobody, Ranks
  <1>2. /\ CanFastRun(procs[r], messages)
        /\ procs' = [procs EXCEPT ![r] = RemoveRequests(procs[r], procs[r].active)]
        /\ UNCHANGED <<messages, delivered>>
    BY DEF FastRunWait, FastRunnable
  <1>3. procs \in [Ranks -> ProcessState] /\ procs[r] \in ProcessState
    BY <1>1 DEF RuntimeTypeOK
  <1>4. ASSUME NEW i \in procs[r].active
        PROVE  /\ IsDone(r, procs[r].requests[i], messages', delivered')
               /\ ~ IsLive(procs'[r].requests, i)
    <2>1. i \in LiveIds(procs[r].requests)
      BY <1>1 DEF WaitedRequestsAreLive
    <2>2. i \in RequestIds /\ ~ IsPendingRecv(procs[r].requests[i])
      BY <1>1, <1>2, <2>1, LiveRequestFacts DEF CanFastRun
    <2>3. \/ /\ procs[r].requests[i].type = "REQUEST_SSEND"
             /\ procs[r].requests[i].msg \notin messages
          \/ procs[r].requests[i].type = "REQUEST_RECV_COMPLETED"
      BY <1>1, <1>2, <2>1, <2>2, LiveRequestFacts DEF CanFastRun, SendsReceived, CheckMessage
    <2>4. IsDone(r, procs[r].requests[i], messages', delivered')
      BY <1>2, <2>2, <2>3, DoneBefore
    <2>5. procs'[r].requests[i] = NoRequest
      BY <1>2, <1>3, <2>2, RemoveRequestsFacts
    <2> QED  BY <2>4, <2>5 DEF IsLive
  <1> QED  BY <1>2, <1>4 DEF CanFastRun

LEMMA ForkReturns ==
    ASSUME RuntimeInv, NEW r \in Ranks, NEW f, ForkWaitOrTest(r, f)
    PROVE  /\ procs[r].status = "PS_WAIT" \/ flag'[r] = 1
           /\ \A i \in procs[r].active :
                 /\ IsDone(r, procs[r].requests[i], messages', delivered')
                 /\ ~ IsLive(procs'[r].requests, i)
  <1>1. RuntimeTypeOK /\ WaitedRequestsAreLive /\ Nobody # r /\ UndecidedTestIsClear
    BY NumRanksAssumption DEF RuntimeInv, TablesInv, Nobody, Ranks
  <1>2. /\ f \in WaitMatchings(procs[r], r, messages)
        /\ running = Nobody
        /\ \A i \in RequestIds : i \in procs[r].active => procs'[r].requests[i] = NoRequest
        /\ messages' = messages \ Taken(f)
        /\ delivered' = delivered \cup Deliveries(r, procs[r], f)
    BY <1>1, ForkFacts
  <1>3. /\ procs[r].status \in {"PS_WAIT", "PS_TEST"} /\ SendsReceived(procs[r], messages)
        /\ flag' = [flag EXCEPT ![r] = IF procs[r].hasFlag THEN 1 ELSE flag[r]]
    BY DEF ForkWaitOrTest, Resume
  <1>4. procs[r].status = "PS_WAIT" \/ flag'[r] = 1
    BY <1>1, <1>3 DEF UndecidedTestIsClear, RuntimeTypeOK
  <1>5. ASSUME NEW i \in procs[r].active
        PROVE  /\ IsDone(r, procs[r].requests[i], messages', delivered')
               /\ ~ IsLive(procs'[r].requests, i)
    <2>1. i \in LiveIds(procs[r].requests)
      BY <1>1, <1>2 DEF WaitedRequestsAreLive
    <2>2. i \in RequestIds
      BY <2>1 DEF LiveIds
    <2>3. CASE IsPendingRecv(procs[r].requests[i])
      <3>1. i \in ReceiveIds(procs[r]) /\ f[i] # NoMessage /\ DOMAIN f = ReceiveIds(procs[r])
        BY <1>1, <1>2, <2>3, WaitedRecvIsMatched, MatchingsFacts
      <3> DEFINE d == [send |-> f[i], recv |-> RecvOf(r, procs[r].requests[i])]
      <3>2. d \in Deliveries(r, procs[r], f)
        BY <3>1 DEF Deliveries
      <3>3. \E e \in delivered' : e.recv = RecvOf(r, procs[r].requests[i])
        BY <1>2, <3>2
      <3> QED  BY <1>2, <2>2, <2>3, <3>3 DEF IsDone, IsPendingRecv, IsLive
    <2>4. CASE ~ IsPendingRecv(procs[r].requests[i])
      <3>1. \/ /\ procs[r].requests[i].type = "REQUEST_SSEND"
               /\ procs[r].requests[i].msg \notin messages
            \/ procs[r].requests[i].type = "REQUEST_RECV_COMPLETED"
        BY <1>1, <1>3, <2>1, <2>4, LiveRequestFacts DEF SendsReceived, CheckMessage
      <3> QED  BY <1>2, <2>2, <3>1, DoneBefore DEF IsLive
    <2> QED  BY <2>3, <2>4
  <1> QED  BY <1>4, <1>5

LEMMA TestNotReadyReturns ==
    ASSUME RuntimeInv, NEW r \in Ranks, TestNotReady(r)
    PROVE  /\ ~ (procs[r].status = "PS_WAIT" \/ flag'[r] = 1)
           /\ procs'[r].requests = procs[r].requests
  <1>1. /\ running = Nobody /\ procs[r].status = "PS_TEST" /\ procs' = procs
        /\ flag' = [flag EXCEPT ![r] = flag[r]]
    BY DEF TestNotReady, Forking, Paused, Resume
  <1>2. UndecidedTestIsClear /\ RuntimeTypeOK /\ Nobody # r
    BY NumRanksAssumption DEF RuntimeInv, TablesInv, Nobody, Ranks
  <1>3. flag[r] = 0
    BY <1>1, <1>2 DEF UndecidedTestIsClear
  <1> QED  BY <1>1, <1>2, <1>3 DEF RuntimeTypeOK

LEMMA DoneRequestsAreDecided ==
    ASSUME RuntimeInv, NEW r \in Ranks, running # r, AllAreDone(r)
    PROVE  /\ SendsReceived(procs[r], messages)
           /\ \A i \in procs[r].active : ~ IsPendingRecv(procs[r].requests[i])
  <1>1. RuntimeTypeOK /\ WaitedRequestsAreLive /\ TypeTellsDelivery
    BY DEF RuntimeInv, TablesInv
  <1>2. ASSUME NEW i \in procs[r].active
        PROVE  /\ procs[r].requests[i].type = "REQUEST_SSEND"
                     => ~ CheckMessage(messages, procs[r].requests[i].msg)
               /\ ~ IsPendingRecv(procs[r].requests[i])
    <2>1. i \in LiveIds(procs[r].requests) /\ i \in RequestIds
      BY <1>1 DEF WaitedRequestsAreLive, LiveIds
    <2>2. IsDone(r, procs[r].requests[i], messages, delivered)
      BY DEF AllAreDone
    <2>3. CASE procs[r].requests[i].type = "REQUEST_SSEND"
      BY <2>2, <2>3 DEF IsDone, CheckMessage, IsPendingRecv
    <2>4. CASE procs[r].requests[i].type = "REQUEST_RECV"
      <3>1. \E d \in delivered : d.recv = RecvOf(r, procs[r].requests[i])
        BY <2>2, <2>4 DEF IsDone
      <3> QED  BY <1>1, <2>1, <2>4, <3>1 DEF TypeTellsDelivery
    <2> QED  BY <2>3, <2>4 DEF IsPendingRecv
  <1> QED  BY <1>2 DEF SendsReceived

LEMMA DoneCallsReturn ==
    ASSUME RuntimeInv
    PROVE  DoneCallsCanReturn
  <1> SUFFICES ASSUME NEW r \in Ranks, running # r, AllAreDone(r)
               PROVE  /\ procs[r].status = "PS_WAIT" => FastRunnable(r)
                      /\ SendsReceived(procs[r], messages)
                      /\ WaitMatchings(procs[r], r, messages) # {}
    BY DEF DoneCallsCanReturn
  <1>1. /\ SendsReceived(procs[r], messages)
        /\ \A i \in procs[r].active : ~ IsPendingRecv(procs[r].requests[i])
    BY DoneRequestsAreDecided
  <1>2. ReceiveIds(procs[r]) = {}
    BY <1>1 DEF ReceiveIds
  <1>3. [i \in {} |-> NoMessage] \in WaitMatchings(procs[r], r, messages)
    BY <1>2 DEF WaitMatchings, Matchings
  <1> QED  BY <1>1, <1>3 DEF FastRunnable, CanFastRun

(* A Wait, a Waitall or a Test that sets its flag returns only when every  *)
(* request it names is done, and then all of them are gone; a Test whose   *)
(* flag is 0 leaves its request alone. A Wait or a Waitall whose requests  *)
(* are all done needs no decision, and such a Test can set its flag        *)
(* (forkWaitOrTest, checkFastRunWait).                                     *)
THEOREM CallsReturnExactlyWhenDone == Spec => ReturnsExactlyWhenDone
  <1> DEFINE Returned(r) ==
        IF procs[r].status = "PS_WAIT" \/ flag'[r] = 1
        THEN \A i \in procs[r].active :
                /\ IsDone(r, procs[r].requests[i], messages', delivered')
                /\ ~ IsLive(procs'[r].requests, i)
        ELSE procs'[r].requests = procs[r].requests
  <1>1. ASSUME RuntimeInv, [Next]_vars, NEW r \in Ranks,
               running = Nobody, running' = r, booted' = booted
        PROVE  Returned(r)
    <2>1. RuntimeTypeOK /\ \A q \in Ranks : q # Nobody
      BY <1>1, NumRanksAssumption DEF RuntimeInv, TablesInv, Nobody, Ranks
    <2>2. PICK q \in Ranks : ClientStep(q) \/ ExplorerStep(q)
      BY <1>1, <2>1 DEF Next, vars
    <2>3. q = r
      BY <1>1, <2>1, <2>2, OneRankSteps
    <2>4. ~ ClientStep(r)
      BY <1>1, <2>1 DEF ClientStep, Isend, Irecv, Wait, Waitall, Test, Return, Pause
    <2>5. ~ Boot(r)
      <3>1. booted \in Nat
        BY <2>1, NumRanksAssumption DEF RuntimeTypeOK
      <3> QED  BY <1>1, <3>1 DEF Boot
    <2>6. \/ FastRunWait(r) \/ TestNotReady(r) \/ \E f : ForkWaitOrTest(r, f)
      BY <2>2, <2>3, <2>4, <2>5 DEF ExplorerStep
    <2> QED  BY <1>1, <2>6, FastRunReturns, TestNotReadyReturns, ForkReturns
  <1>2. RuntimeInv /\ [Next]_vars =>
          [\A r \in Ranks : (running = Nobody /\ running' = r /\ booted' = booted)
                               => Returned(r)]_vars
    BY <1>1
  <1>3. RuntimeInv => DoneCallsCanReturn
    BY DoneCallsReturn
  <1> QED  BY <1>2, <1>3, Invariance, PTL DEF Spec, ReturnsExactlyWhenDone

-----------------------------------------------------------------------------
(* What other ranks do never makes a rank that can go on wait.             *)

LEMMA LeastSlot ==
    ASSUME NEW T \in SUBSET Nat, T # {}
    PROVE  \E k \in T : \A i \in T : k <= i
  <1> DEFINE R == OpToRel(<, Nat)
  <1>1. IsWellFoundedOn(R, Nat)
    BY NatLessThanWellFounded
  <1>2. \A i, k \in Nat : i < k => <<i, k>> \in R
    BY DEF OpToRel
  <1> HIDE DEF R
  <1>3. PICK k \in T : \A i \in T : ~ (<<i, k>> \in R)
    BY <1>1, WFMin
  <1>4. \A i \in T : ~ (i < k)
    BY <1>2, <1>3
  <1> QED  BY <1>4

(* What makes a slot keep its choice in a larger deque: nothing older than *)
(* the choice comes, and nothing at all for a slot that stays empty.       *)
LEMMA ChoiceStays ==
    ASSUME NEW ms, NEW more, NEW rank, NEW table, NEW must, NEW f, NEW g, NEW i,
           LegalChoice(ms, rank, table, must, f, i), g[i] = f[i], f[i] = NoMessage \/ f[i] \in ms,
           NoMessage \notin ms,
           Available(ms, rank, table, f, i) \subseteq Available(more, rank, table, g, i),
           \A n \in Available(more, rank, table, g, i) :
              \/ n \in Available(ms, rank, table, f, i)
              \/ f[i] # NoMessage /\ (n.from = f[i].from => f[i].seq <= n.seq)
    PROVE  LegalChoice(more, rank, table, must, g, i)
  <1>1. CASE f[i] \in FirstOfEachSender(Available(ms, rank, table, f, i))
    BY <1>1 DEF FirstOfEachSender, LegalChoice
  <1>2. CASE /\ Available(ms, rank, table, f, i) = {}
             /\ i \notin must
             /\ f[i] = NoMessage
    BY <1>2 DEF LegalChoice
  <1> QED  BY <1>1, <1>2 DEF LegalChoice

(* A new message is younger than all others of its sender: the lowest slot *)
(* that was left empty and accepts it gets it, the other slots keep what   *)
(* they have.                                                              *)
LEMMA MatchingGrows ==
    ASSUME NEW ms \in SUBSET Message, NEW rank, NEW table, NEW must,
           NEW ids \in SUBSET RequestIds, NEW f \in Matchings(ms, rank, table, must, ids),
           NEW m \in Message, m \notin ms, \A n \in ms : n.from = m.from => n.seq <= m.seq
    PROVE  Matchings(ms \cup {m}, rank, table, must, ids) # {}
  <1> DEFINE more == ms \cup {m}
             Waiting == {i \in ids : f[i] = NoMessage /\ Fits(m, rank, table[i])}
  <1>1. /\ f \in [ids -> ms \cup {NoMessage}] /\ DOMAIN f = ids
        /\ \A i \in ids : LegalChoice(ms, rank, table, must, f, i)
    BY DEF Matchings
  <1>2. ids \subseteq Nat /\ NoMessage \notin ms /\ m # NoMessage /\ m.seq \in Nat
    BY NoMessageAssumption, MaxRequestsAssumption DEF RequestIds, Message
  <1>3. \A i \in ids : f[i] # m /\ (f[i] = NoMessage \/ f[i] \in ms)
    BY <1>1, <1>2
  <1>4. ASSUME NEW g, DOMAIN g = ids, NEW i \in ids, g[i] = f[i], i \notin Waiting,
               \A j \in ids : j < i => g[j] = f[j]
        PROVE  LegalChoice(more, rank, table, must, g, i)
    <2>1. Available(ms, rank, table, f, i) \subseteq Available(more, rank, table, g, i)
      BY <1>1, <1>4 DEF Available
    <2>2. \A n \in Available(more, rank, table, g, i) :
             n \in Available(ms, rank, table, f, i) \/ (n = m /\ Fits(m, rank, table[i]))
      BY <1>1, <1>4 DEF Available
    <2>3. ASSUME Fits(m, rank, table[i])
          PROVE  f[i] # NoMessage /\ (m.from = f[i].from => f[i].seq <= m.seq)
      BY <1>3, <1>4, <2>3
    <2>4. \A n \in Available(more, rank, table, g, i) :
             \/ n \in Available(ms, rank, table, f, i)
             \/ f[i] # NoMessage /\ (n.from = f[i].from => f[i].seq <= n.seq)
      BY <2>2, <2>3
    <2> HIDE DEF more, Waiting
    <2> QED  BY <1>1, <1>2, <1>3, <1>4, <2>1, <2>4, ChoiceStays
  <1>5. CASE Waiting = {}
    <2>1. \A i \in ids : LegalChoice(more, rank, table, must, f, i)
      BY <1>1, <1>4, <1>5
    <2>2. f \in [ids -> more \cup {NoMessage}]
      BY <1>1
    <2>3. f \in Matchings(more, rank, table, must, ids)
      BY <2>1, <2>2 DEF Matchings
    <2> QED  BY <2>3
  <1>6. CASE Waiting # {}
    <2>1. PICK k \in Waiting : \A i \in Waiting : k <= i
      BY <1>2, <1>6, LeastSlot
    <2> DEFINE g == [f EXCEPT ![k] = m]
    <2>2. /\ k \in ids /\ f[k] = NoMessage /\ Fits(m, rank, table[k]) /\ k \in Nat
          /\ DOMAIN g = ids /\ g[k] = m
          /\ \A i \in ids : i # k => g[i] = f[i]
          /\ g \in [ids -> more \cup {NoMessage}]
      BY <1>1, <1>2
    <2> HIDE DEF g
    <2>3. ASSUME NEW i \in ids PROVE LegalChoice(more, rank, table, must, g, i)
      <3>1. CASE i < k
        <4>1. i \notin Waiting /\ i \in Nat
          BY <1>2, <2>1, <3>1
        <4>2. i # k /\ \A j \in ids : j < i => j # k
          BY <1>2, <2>2, <3>1
        <4> HIDE DEF more, Waiting
        <4> QED  BY <1>4, <2>2, <4>1, <4>2
      <3>2. CASE i = k
        <4>1. Available(ms, rank, table, f, k) = {}
          BY <1>1, <1>2, <2>2 DEF LegalChoice, FirstOfEachSender, Available
        <4>2. \A j \in ids : j < k => g[j] # m
          BY <1>2, <1>3, <2>2
        <4>3. \A n \in ms : n \in Available(more, rank, table, g, k) =>
                               n \in Available(ms, rank, table, f, k)
          <5>1. \A j \in ids : j < k => g[j] = f[j]
            BY <1>2, <2>2
          <5> QED  BY <1>1, <2>2, <5>1 DEF Available
        <4>4. m \in Available(more, rank, table, g, k)
          BY <2>2, <4>2 DEF Available
        <4>5. Available(more, rank, table, g, k) = {m}
          <5>1. Available(more, rank, table, g, k) \subseteq more
            BY DEF Available
          <5> QED  BY <4>1, <4>3, <4>4, <5>1
        <4>6. g[k] \in FirstOfEachSender(Available(more, rank, table, g, k))
          <5>1. m.seq <= m.seq
            BY ONLY <1>2
          <5>2. PICK M : M = Available(more, rank, table, g, k)
            OBVIOUS
          <5>3. M = {m} /\ m \in M
            BY <4>5, <5>2
          <5>4. m \in FirstOfEachSender(M)
            BY ONLY <5>1, <5>3 DEF FirstOfEachSender
          <5> QED  BY ONLY <2>2, <5>2, <5>4
        <4> QED  BY <3>2, <4>6 DEF LegalChoice
      <3>3. CASE i > k
        <4>1. g[i] = f[i] /\ i \in Nat
          BY <1>2, <2>2, <3>3
        <4>2. \A n \in Available(more, rank, table, g, i) : n # m
          BY <2>2, <3>3 DEF Available
        <4>3. \A n \in ms : (\A j \in ids : j < i => g[j] # n) <=> (\A j \in ids : j < i => f[j] # n)
          BY <1>2, <2>2
        <4>4. Available(more, rank, table, g, i) = Available(ms, rank, table, f, i)
          BY <1>1, <2>2, <4>2, <4>3 DEF Available
        <4> HIDE DEF more, Waiting
        <4> QED  BY <1>1, <1>2, <1>3, <4>1, <4>4, ChoiceStays
      <3> QED  BY <1>2, <2>2, <3>1, <3>2, <3>3
    <2>4. g \in Matchings(more, rank, table, must, ids)
      BY <2>2, <2>3 DEF Matchings
    <2> QED  BY <2>4
  <1> QED  BY <1>5, <1>6

(* What another rank takes was not meant for this one.                     *)
LEMMA MatchingSurvives ==
    ASSUME NEW ms \in SUBSET Message, NEW taken, NEW rank, \A n \in taken : n.to # rank,
           NEW table, NEW must, NEW ids, NEW f \in Matchings(ms, rank, table, must, ids)
    PROVE  f \in Matchings(ms \ taken, rank, table, must, ids)
  <1> DEFINE less == ms \ taken
  <1>1. \A i : Available(less, rank, table, f, i) = Available(ms, rank, table, f, i)
    BY DEF Available, Fits
  <1>2. /\ f \in [ids -> ms \cup {NoMessage}]
        /\ \A i \in ids : LegalChoice(ms, rank, table, must, f, i)
    BY DEF Matchings
  <1>3. \A i \in ids : LegalChoice(less, rank, table, must, f, i)
    BY <1>1, <1>2 DEF LegalChoice
  <1>4. \A i \in ids : f[i] \in less \cup {NoMessage}
    BY <1>3 DEF LegalChoice, FirstOfEachSender, Available
  <1>5. f \in [ids -> less \cup {NoMessage}]
    BY <1>2, <1>4
  <1> QED  BY <1>3, <1>5 DEF Matchings

LEMMA TakenIsMine ==
    ASSUME RuntimeTypeOK, NEW q \in Ranks, NEW f \in WaitMatchings(procs[q], q, messages)
    PROVE  \A n \in Taken(f) : n.to = q
  <1>1. DOMAIN f = ReceiveIds(procs[q])
    BY MatchingsFacts
  <1>2. \A i \in ReceiveIds(procs[q]) : f[i] # NoMessage => f[i].to = q
    BY MatchingFits DEF WaitMatchings, Fits
  <1> QED  BY <1>1, <1>2 DEF Taken

LEMMA ReadyAfterSend ==
    ASSUME RuntimeInv, NEW r \in Ranks, CanGoOn(r, procs, messages), NEW q \in Ranks,
           NEW target \in Ranks, NEW tag \in Tags, NEW id \in RequestIds,
           Isend(q, target, tag, id), procs'[r] = procs[r]
    PROVE  CanGoOn(r, procs', messages')
  <1> DEFINE m == [from |-> q, to |-> target, tag |-> tag, seq |-> posts[q] + 1]
  <1>1. TablesInv /\ RuntimeTypeOK /\ SendsAreAccountedFor /\ NumbersAreGivenOut
    BY DEF RuntimeInv, TablesInv
  <1>2. m \in Message /\ m.from = q /\ m.seq = posts[q] + 1 /\ posts[q] \in Nat
    BY <1>1, SendIsTyped DEF RuntimeTypeOK
  <1>3. messages' = messages \cup {m}
    BY DEF Isend
  <1>4. m \notin PostedSends
    <2>1. RuntimeTypeOK'
      BY <1>1, ClientTyped DEF ClientStep
    <2>2. Matching!PostSend(m)
      BY <1>1, <2>1, IsendStep
    <2> QED  BY <2>2 DEF Matching!PostSend
  <1> HIDE DEF m
  <1>5. SendsReceived(procs'[r], messages')
    <2>1. procs[r].active \subseteq RequestIds
      BY <1>1 DEF RuntimeTypeOK, ProcessState
    <2>2. \A i \in procs[r].active : procs[r].requests[i].type = "REQUEST_SSEND" =>
             procs[r].requests[i].msg # m
      BY <1>1, <1>4, <2>1 DEF SendsAreAccountedFor
    <2> QED  BY <1>3, <2>2 DEF CanGoOn, SendsReceived, CheckMessage
  <1>6. PICK f : f \in Matchings(messages, r, procs[r].requests, procs[r].active,
                                 ReceiveIds(procs[r]))
    BY DEF CanGoOn, WaitMatchings
  <1>7. Matchings(messages \cup {m}, r, procs[r].requests, procs[r].active,
                  ReceiveIds(procs[r])) # {}
    <2>1. messages \in SUBSET Message /\ ReceiveIds(procs[r]) \in SUBSET RequestIds
      BY <1>1 DEF RuntimeTypeOK, ReceiveIds
    <2>2. m \notin messages
      BY <1>4 DEF PostedSends
    <2>3. \A n \in messages : n.from = m.from => n.seq <= m.seq
      <3>1. \A n \in messages : n.seq \in Nat
        BY <2>1 DEF Message
      <3> QED  BY <1>1, <1>2, <3>1 DEF NumbersAreGivenOut
    <2> QED  BY <1>2, <1>6, <2>1, <2>2, <2>3, MatchingGrows
  <1> QED  BY <1>3, <1>5, <1>7 DEF CanGoOn, WaitMatchings

LEMMA ReadyAfterFork ==
    ASSUME RuntimeInv, NEW r \in Ranks, CanGoOn(r, procs, messages), NEW q \in Ranks, q # r,
           NEW g, ForkWaitOrTest(q, g), procs'[r] = procs[r]
    PROVE  CanGoOn(r, procs', messages')
  <1>1. RuntimeTypeOK
    BY DEF RuntimeInv, TablesInv
  <1>2. g \in WaitMatchings(procs[q], q, messages) /\ messages' = messages \ Taken(g)
    BY <1>1, ForkFacts
  <1>3. \A n \in Taken(g) : n.to # r
    BY <1>1, <1>2, TakenIsMine
  <1>4. PICK f : f \in Matchings(messages, r, procs[r].requests, procs[r].active,
                                 ReceiveIds(procs[r]))
    BY DEF CanGoOn, WaitMatchings
  <1>5. messages \in SUBSET Message
    BY <1>1 DEF RuntimeTypeOK
  <1>6. f \in Matchings(messages', r, procs[r].requests, procs[r].active, ReceiveIds(procs[r]))
    BY <1>2, <1>3, <1>4, <1>5, MatchingSurvives
  <1>7. SendsReceived(procs'[r], messages')
    BY <1>2 DEF CanGoOn, SendsReceived, CheckMessage
  <1> QED  BY <1>6, <1>7 DEF CanGoOn, WaitMatchings

(* What other ranks do never takes away the possibility to go on from a    *)
(* waiting rank: computeChilds may run one decided rank and ignore the     *)
(* others in that node, and no message that comes or goes can turn a rank  *)
(* that goes on into one that is reported as a deadlock.                   *)
THEOREM ReadyRanksStayReady == Spec => ReadyStaysReady
  <1>1. ASSUME RuntimeInv, [Next]_vars, NEW r \in Ranks, CanGoOn(r, procs, messages),
               running # r, running' # r
        PROVE  CanGoOn(r, procs', messages')
    <2>1. RuntimeTypeOK
      BY <1>1 DEF RuntimeInv, TablesInv
    <2>2. CASE UNCHANGED vars
      BY <1>1, <2>2 DEF vars
    <2>3. ASSUME NEW q \in Ranks, ClientStep(q) \/ ExplorerStep(q)
          PROVE  CanGoOn(r, procs', messages')
      <3>1. running = q \/ running' = q
        BY <2>3 DEF ClientStep, Isend, Irecv, Wait, Waitall, Test, Return, Pause,
                    ExplorerStep, Boot, FastRunWait, TestNotReady, ForkWaitOrTest, Resume
      <3>2. q # r /\ procs'[r] = procs[r]
        BY <1>1, <2>1, <2>3, <3>1, OneRankSteps
      <3>3. CASE messages' = messages
        BY <1>1, <3>2, <3>3 DEF CanGoOn
      <3>4. \/ messages' = messages
            \/ \E target \in Ranks, tag \in Tags, id \in RequestIds : Isend(q, target, tag, id)
            \/ \E g : ForkWaitOrTest(q, g)
        BY <2>3 DEF ClientStep, Irecv, Wait, Waitall, Test, Return, Pause,
                    ExplorerStep, Boot, FastRunWait, TestNotReady
      <3> QED  BY <1>1, <3>2, <3>3, <3>4, ReadyAfterSend, ReadyAfterFork
    <2> QED  BY <1>1, <2>2, <2>3 DEF Next
  <1>2. RuntimeInv /\ [Next]_vars =>
          [\A r \in Ranks : CanGoOn(r, procs, messages) /\ running # r /\ running' # r
                               => CanGoOn(r, procs', messages')]_vars
    BY <1>1
  <1> QED  BY <1>2, Invariance, PTL DEF Spec, ReadyStaysReady

-----------------------------------------------------------------------------
(* The search of ProgramState::collectMessages finds the matchings that    *)
(* MPIObjects states, for every deque, request table and number of ranks.  *)
(* What is left to search for a partial matching has a closed form, the    *)
(* Completions: the recursion of collectMessagesHelper holds of it, and of *)
(* no other function.                                                      *)

-----------------------------------------------------------------------------
(* One receive: what the scan of the deque tries.                          *)

(* The messages a partial matching leaves for a request.                   *)
Left(ms, rank, R, matched) ==
    {m \in ms : Fits(m, rank, R) /\ \A j \in DOMAIN matched : matched[j] # m}

LEMMA DequeFacts ==
    ASSUME NEW ms \in SUBSET Message, IsFiniteSet(ms), NEW deque \in Deques(ms)
    PROVE  /\ DOMAIN deque = 1 .. Cardinality(ms) /\ Cardinality(ms) \in Nat
           /\ {deque[k] : k \in DOMAIN deque} = ms
           /\ \A k \in DOMAIN deque : deque[k] \in ms /\ deque[k].seq \in Nat
           /\ \A j, k \in DOMAIN deque :
                 j < k => /\ deque[j] # deque[k]
                          /\ deque[j].from = deque[k].from => deque[j].seq < deque[k].seq
  <1>1. Cardinality(ms) \in Nat
    BY FS_CardinalityType
  <1>2. \A m \in ms : m.seq \in Nat
    BY DEF Message
  <1> QED  BY <1>1, <1>2 DEF Deques

(* The scan tries the oldest message each sender has left for the request, *)
(* and tries none only if there is none.                                   *)
LEMMA TriedAreOldest ==
    ASSUME NEW ms \in SUBSET Message, IsFiniteSet(ms), NEW deque \in Deques(ms),
           NEW rank, NEW R, NEW matched
    PROVE  LET left == Left(ms, rank, R, matched)
               tried == Tried(deque, rank, R, matched)
           IN /\ {deque[k] : k \in tried} = FirstOfEachSender(left)
              /\ tried = {} <=> left = {}
              /\ tried \subseteq DOMAIN deque
  <1> DEFINE D == DOMAIN deque
             left == Left(ms, rank, R, matched)
             tried == Tried(deque, rank, R, matched)
             U == {k \in D : Usable(deque, rank, R, matched, k)}
  <1>1. /\ D = 1 .. Cardinality(ms) /\ Cardinality(ms) \in Nat
        /\ {deque[k] : k \in D} = ms
        /\ \A k \in D : deque[k] \in ms /\ deque[k].seq \in Nat
        /\ \A j, k \in D :
              j < k => /\ deque[j] # deque[k]
                       /\ deque[j].from = deque[k].from => deque[j].seq < deque[k].seq
    BY DequeFacts
  <1>2. \A k \in D : k \in U <=> deque[k] \in left
    BY <1>1 DEF Usable, Left
  <1>3. left \subseteq ms
    BY DEF Left
  <1>4. \A k \in D : \A j \in 1 .. k - 1 : j \in D /\ j < k
    BY <1>1
  <1>5. \A j, k \in D : j < k => j \in 1 .. k - 1
    BY <1>1
  <1>6. \A k : k \in tried <=>
              k \in U /\ \A j \in D : j < k /\ j \in U => deque[j].from # deque[k].from
    BY <1>4, <1>5 DEF Tried
  <1>7. D \subseteq Nat
    BY <1>1
  <1> HIDE DEF tried, left
  <1>8. ASSUME NEW k \in tried  PROVE deque[k] \in FirstOfEachSender(left)
    <2>1. k \in D /\ k \in U /\ deque[k] \in left
      BY <1>2, <1>6
    <2>2. ASSUME NEW n \in left, n.from = deque[k].from  PROVE deque[k].seq <= n.seq
      <3>1. PICK j \in D : deque[j] = n
        BY <1>1, <1>3
      <3>2. ~ j < k
        BY <1>2, <1>6, <2>2, <3>1
      <3>3. j = k \/ k < j
        BY <1>7, <2>1, <3>2
      <3> QED  BY <1>1, <2>1, <2>2, <3>1, <3>3
    <2> QED  BY <2>1, <2>2 DEF FirstOfEachSender
  <1>9. ASSUME NEW m \in FirstOfEachSender(left)  PROVE \E k \in tried : deque[k] = m
    <2>1. m \in left /\ \A n \in left : n.from = m.from => m.seq <= n.seq
      BY DEF FirstOfEachSender
    <2>2. PICK k \in D : deque[k] = m
      BY <1>1, <1>3, <2>1
    <2>3. ASSUME NEW j \in D, j < k, j \in U, deque[j].from = m.from  PROVE FALSE
      <3>1. deque[j].seq < m.seq /\ deque[j] \in left
        BY <1>1, <1>2, <2>2, <2>3
      <3>2. m.seq <= deque[j].seq
        BY <2>1, <2>3, <3>1
      <3>3. m.seq \in Nat /\ deque[j].seq \in Nat
        BY <1>1, <2>2
      <3> QED  BY <3>1, <3>2, <3>3
    <2> QED  BY <1>2, <1>6, <2>1, <2>2, <2>3
  <1>10. ASSUME left # {}  PROVE tried # {}
    <2>1. U # {} /\ U \in SUBSET Nat
      BY <1>1, <1>2, <1>3, <1>7, <1>10
    <2>2. PICK k \in U : \A j \in U : k <= j
      BY <2>1, LeastSlot
    <2>3. \A j \in D : ~ (j < k /\ j \in U)
      BY <1>7, <2>1, <2>2
    <2> QED  BY <1>6, <2>2, <2>3
  <1>11. tried # {} => left # {}
    BY <1>2, <1>6
  <1>12. {deque[k] : k \in tried} = FirstOfEachSender(left)
    BY <1>8, <1>9
  <1>13. tried \subseteq D
    BY <1>6
  <1> QED  BY <1>10, <1>11, <1>12, <1>13 DEF tried, left
-----------------------------------------------------------------------------
(* Partial matchings.                                                      *)

First(ids, n) == {i \in ids : i < n}

LEMMA PartialFacts ==
    ASSUME NEW ms, NEW ids \in SUBSET RequestIds
    PROVE  /\ \A matched \in PartialMatchings(ms, ids) : \E n \in 0 .. MaxRequests :
                  matched \in [First(ids, n) -> ms \cup {NoMessage}]
           /\ \A n \in 0 .. MaxRequests :
                 [First(ids, n) -> ms \cup {NoMessage}] \subseteq PartialMatchings(ms, ids)
  BY DEF PartialMatchings, First

(* The next request is the lowest slot that has nothing yet; with it, the  *)
(* partial matching is one of the lower slots and of this one.             *)
LEMMA NextFacts ==
    ASSUME NEW ms, NEW ids \in SUBSET RequestIds,
           NEW matched \in PartialMatchings(ms, ids), DOMAIN matched # ids,
           NEW i, i = NextId(ids, matched)
    PROVE  /\ i \in ids \ DOMAIN matched
           /\ DOMAIN matched = First(ids, i)
           /\ First(ids, i + 1) = First(ids, i) \cup {i}
           /\ i + 1 \in 0 .. MaxRequests
           /\ \A m \in ms \cup {NoMessage} :
                 /\ PushMatch(matched, i, m) \in PartialMatchings(ms, ids)
                 /\ DOMAIN PushMatch(matched, i, m) = First(ids, i + 1)
                 /\ PushMatch(matched, i, m)[i] = m
                 /\ \A j \in First(ids, i) : PushMatch(matched, i, m)[j] = matched[j]
  <1> DEFINE rest == ids \ DOMAIN matched
  <1>1. PICK n \in 0 .. MaxRequests : matched \in [First(ids, n) -> ms \cup {NoMessage}]
    BY PartialFacts
  <1>2. DOMAIN matched = First(ids, n) /\ \A j \in DOMAIN matched : matched[j] \in ms \cup {NoMessage}
    BY <1>1
  <1>3. ids \subseteq Nat /\ MaxRequests \in Nat /\ \A j \in ids : j + 1 \in 0 .. MaxRequests
    BY MaxRequestsAssumption DEF RequestIds
  <1>4. rest # {} /\ rest \in SUBSET Nat
    BY <1>2, <1>3 DEF First
  <1>5. \E k \in rest : \A j \in rest : k <= j
    BY <1>4, LeastSlot
  <1>6. i \in rest /\ \A j \in rest : i <= j
    BY <1>5 DEF NextId
  <1>7. DOMAIN matched = First(ids, i)
    <2>1. ~ i < n
      BY <1>2, <1>6 DEF First
    <2>2. ASSUME NEW j \in ids  PROVE j < n <=> j < i
      <3>1. j < n => j < i
        BY <1>3, <1>6, <2>1
      <3>2. j < i => j \notin rest
        BY <1>3, <1>6
      <3> QED  BY <1>2, <3>1, <3>2 DEF First
    <2> QED  BY <1>2, <2>2 DEF First
  <1>8. First(ids, i + 1) = First(ids, i) \cup {i}
    <2>1. i \in ids /\ \A j \in ids : j \in Nat
      BY <1>3, <1>6
    <2>2. \A j \in ids : j < i + 1 <=> j < i \/ j = i
      BY <2>1
    <2> QED  BY <2>1, <2>2 DEF First
  <1>9. i + 1 \in 0 .. MaxRequests
    BY <1>3, <1>6
  <1>10. ASSUME NEW m \in ms \cup {NoMessage}
         PROVE  /\ PushMatch(matched, i, m) \in [First(ids, i + 1) -> ms \cup {NoMessage}]
                /\ DOMAIN PushMatch(matched, i, m) = First(ids, i + 1)
                /\ PushMatch(matched, i, m)[i] = m
                /\ \A j \in First(ids, i) : PushMatch(matched, i, m)[j] = matched[j]
    <2>1. i \notin First(ids, i)
      BY <1>6, <1>7
    <2> QED  BY <1>2, <1>7, <1>8, <2>1 DEF PushMatch
  <1>11. ASSUME NEW m \in ms \cup {NoMessage}
         PROVE  PushMatch(matched, i, m) \in PartialMatchings(ms, ids)
    BY <1>9, <1>10, PartialFacts
  <1> QED  BY <1>6, <1>7, <1>8, <1>9, <1>10, <1>11

-----------------------------------------------------------------------------
(* The closed form.                                                        *)

(* The matchings that begin with a partial one and choose legally for the  *)
(* other slots.                                                            *)
Completions(ms, rank, table, active, ids, matched) ==
    {f \in [ids -> ms \cup {NoMessage}] :
        /\ \A j \in DOMAIN matched : f[j] = matched[j]
        /\ \A i \in ids \ DOMAIN matched : LegalChoice(ms, rank, table, active, f, i)}

LEMMA NothingToComplete ==
    ASSUME NEW ms, NEW rank, NEW table, NEW active, NEW ids \in SUBSET RequestIds,
           NEW matched \in PartialMatchings(ms, ids), DOMAIN matched = ids
    PROVE  Completions(ms, rank, table, active, ids, matched) = {matched}
  <1>1. PICK n \in 0 .. MaxRequests : matched \in [First(ids, n) -> ms \cup {NoMessage}]
    BY PartialFacts
  <1>2. matched \in [ids -> ms \cup {NoMessage}]
    BY <1>1
  <1>3. \A f \in [ids -> ms \cup {NoMessage}] :
           (\A j \in ids : f[j] = matched[j]) => f = matched
    BY <1>2
  <1>4. \A f : f \in Completions(ms, rank, table, active, ids, matched)
                 <=> f \in [ids -> ms \cup {NoMessage}] /\ \A j \in ids : f[j] = matched[j]
    BY DEF Completions
  <1> QED  BY <1>2, <1>3, <1>4

(* How completions of a partial matching and of one with the next request  *)
(* are related.                                                            *)
PushKeeps(ms, rank, table, active, ids, matched, i, m, p, f) ==
    /\ f \in Completions(ms, rank, table, active, ids, matched)
         => f[i] \in ms \cup {NoMessage} /\ LegalChoice(ms, rank, table, active, f, i)
    /\ f[i] = m /\ LegalChoice(ms, rank, table, active, f, i)
         => (f \in Completions(ms, rank, table, active, ids, matched) <=>
             f \in Completions(ms, rank, table, active, ids, p))
    /\ f \in Completions(ms, rank, table, active, ids, p)
         => /\ f[i] = m
            /\ \A j \in DOMAIN matched : f[j] = matched[j]
            /\ f \in [ids -> ms \cup {NoMessage}]

(* A completion gives the next request some message, or nothing.           *)
LEMMA CompletionsOfPush ==
    ASSUME NEW ms, NEW rank, NEW table, NEW active, NEW ids \in SUBSET RequestIds,
           NEW matched \in PartialMatchings(ms, ids), DOMAIN matched # ids,
           NEW i, i = NextId(ids, matched),
           NEW m \in ms \cup {NoMessage}, NEW p, p = PushMatch(matched, i, m),
           NEW f
    PROVE  PushKeeps(ms, rank, table, active, ids, matched, i, m, p, f)
  <1> DEFINE Legal(j) == LegalChoice(ms, rank, table, active, f, j)
  <1>1. /\ i \in ids \ DOMAIN matched
        /\ DOMAIN p = DOMAIN matched \cup {i}
        /\ p[i] = m /\ \A j \in DOMAIN matched : p[j] = matched[j]
    <2>1. /\ i \in ids \ DOMAIN matched /\ DOMAIN matched = First(ids, i)
          /\ First(ids, i + 1) = First(ids, i) \cup {i}
          /\ DOMAIN p = First(ids, i + 1) /\ p[i] = m
          /\ \A j \in First(ids, i) : p[j] = matched[j]
      BY NextFacts, SMTT(30)
    <2> QED  BY <2>1
  <1>2. f \in Completions(ms, rank, table, active, ids, matched)
          <=> /\ f \in [ids -> ms \cup {NoMessage}]
              /\ \A j \in DOMAIN matched : f[j] = matched[j]
              /\ \A j \in ids \ DOMAIN matched : Legal(j)
    BY DEF Completions
  <1>3. f \in Completions(ms, rank, table, active, ids, p)
          <=> /\ f \in [ids -> ms \cup {NoMessage}]
              /\ \A j \in DOMAIN p : f[j] = p[j]
              /\ \A j \in ids \ DOMAIN p : Legal(j)
    BY DEF Completions
  <1> HIDE DEF Legal
  <1>4. f \in [ids -> ms \cup {NoMessage}] => f[i] \in ms \cup {NoMessage}
    BY <1>1
  <1>5. (\A j \in DOMAIN p : f[j] = p[j]) <=> f[i] = m /\ \A j \in DOMAIN matched : f[j] = matched[j]
    BY <1>1
  <1>6. (\A j \in ids \ DOMAIN matched : Legal(j)) <=> Legal(i) /\ \A j \in ids \ DOMAIN p : Legal(j)
    BY <1>1
  <1> QED  BY <1>1, <1>2, <1>3, <1>4, <1>5, <1>6 DEF Legal, PushKeeps
LEMMA AvailableIsLeft ==
    ASSUME NEW ms, NEW rank, NEW table, NEW ids \in SUBSET RequestIds,
           NEW matched \in PartialMatchings(ms, ids), DOMAIN matched # ids,
           NEW i, i = NextId(ids, matched),
           NEW f \in [ids -> ms \cup {NoMessage}],
           \A j \in DOMAIN matched : f[j] = matched[j]
    PROVE  Available(ms, rank, table, f, i) = Left(ms, rank, table[i], matched)
  <1>1. DOMAIN matched = First(ids, i)
    BY NextFacts
  <1>2. \A j : j \in DOMAIN f /\ j < i <=> j \in DOMAIN matched
    BY <1>1 DEF First
  <1> QED  BY <1>2 DEF Available, Left

(* The recursion of collectMessagesHelper.                                 *)
CompletionsSplit(ms, deque, rank, table, active, ids, matched, i, tried) ==
    Completions(ms, rank, table, active, ids, matched) =
        IF tried # {}
        THEN UNION {Completions(ms, rank, table, active, ids,
                                PushMatch(matched, i, deque[k])) : k \in tried}
        ELSE IF i \in active THEN {}
        ELSE Completions(ms, rank, table, active, ids, PushMatch(matched, i, NoMessage))

(* It holds of the closed form.                                            *)
LEMMA CompletionsRecur ==
    ASSUME NEW ms \in SUBSET Message, IsFiniteSet(ms), NEW deque \in Deques(ms),
           NEW rank, NEW table, NEW active, NEW ids \in SUBSET RequestIds,
           NEW matched \in PartialMatchings(ms, ids), DOMAIN matched # ids,
           NEW i, i = NextId(ids, matched),
           NEW tried, tried = Tried(deque, rank, table[i], matched)
    PROVE  CompletionsSplit(ms, deque, rank, table, active, ids, matched, i, tried)
  <1> DEFINE C == Completions(ms, rank, table, active, ids, matched)
             P(m) == Completions(ms, rank, table, active, ids, PushMatch(matched, i, m))
             left == Left(ms, rank, table[i], matched)
             Legal(f) == LegalChoice(ms, rank, table, active, f, i)
             Begins(f) == \A j \in DOMAIN matched : f[j] = matched[j]
  <1>1. /\ {deque[k] : k \in tried} = FirstOfEachSender(left)
        /\ tried = {} <=> left = {}
        /\ tried \subseteq DOMAIN deque
    BY TriedAreOldest
  <1>2. \A k \in tried : deque[k] \in ms
    BY <1>1, DequeFacts
  <1>3. NoMessage \notin FirstOfEachSender(left)
    BY NoMessageAssumption DEF FirstOfEachSender, Left
  <1>4. ASSUME NEW f \in [ids -> ms \cup {NoMessage}], Begins(f)
        PROVE  Legal(f) <=> \/ f[i] \in FirstOfEachSender(left)
                            \/ left = {} /\ i \notin active /\ f[i] = NoMessage
    <2>1. Available(ms, rank, table, f, i) = left
      BY <1>4, AvailableIsLeft
    <2> QED  BY <2>1 DEF LegalChoice
  <1>5. ASSUME NEW f \in C  PROVE f \in [ids -> ms \cup {NoMessage}] /\ Begins(f)
    BY DEF Completions
  <1>6. ASSUME NEW f, NEW m \in ms \cup {NoMessage}
        PROVE  /\ f \in C => f[i] \in ms \cup {NoMessage} /\ Legal(f)
               /\ f[i] = m /\ Legal(f) => (f \in C <=> f \in P(m))
               /\ f \in P(m) => /\ f[i] = m /\ Begins(f)
                                /\ f \in [ids -> ms \cup {NoMessage}]
    <2>1. PICK p : p = PushMatch(matched, i, m)
      OBVIOUS
    <2>2. PushKeeps(ms, rank, table, active, ids, matched, i, m, p, f)
      BY <2>1, CompletionsOfPush
    <2> QED  BY <2>1, <2>2 DEF PushKeeps
  <1>7. NoMessage \in ms \cup {NoMessage}
    OBVIOUS
  <1> HIDE DEF C, P, left, Legal, Begins
  <1>9. CASE tried # {}
    <2>1. left # {}
      BY <1>1, <1>9
    <2>2. ASSUME NEW f \in C  PROVE \E k \in tried : f \in P(deque[k])
      <3>1. f[i] \in FirstOfEachSender(left)
        BY <1>4, <1>5, <1>6, <1>7, <2>1
      <3>2. PICK k \in tried : deque[k] = f[i]
        BY <1>1, <3>1
      <3> QED  BY <1>2, <1>6, <1>7, <3>2
    <2>3. ASSUME NEW k \in tried, NEW f \in P(deque[k])  PROVE f \in C
      <3>1. f[i] = deque[k] /\ Begins(f) /\ f \in [ids -> ms \cup {NoMessage}]
        BY <1>2, <1>6
      <3>2. deque[k] \in FirstOfEachSender(left)
        BY <1>1
      <3>3. Legal(f)
        BY <1>4, <3>1, <3>2
      <3> QED  BY <1>2, <1>6, <3>1, <3>3
    <2>4. C = UNION {P(deque[k]) : k \in tried}
      BY <2>2, <2>3
    <2> QED  BY <1>9, <2>4 DEF C, P, CompletionsSplit
  <1>10. CASE tried = {} /\ i \in active
    <2>1. FirstOfEachSender(left) = {}
      BY <1>1, <1>10
    <2>2. C = {}
      BY <1>4, <1>5, <1>6, <1>7, <1>10, <2>1
    <2> QED  BY <1>10, <2>2 DEF C, CompletionsSplit
  <1>11. CASE tried = {} /\ i \notin active
    <2>1. left = {} /\ FirstOfEachSender(left) = {}
      BY <1>1, <1>11
    <2>2. ASSUME NEW f \in C  PROVE f \in P(NoMessage)
      <3>1. f[i] = NoMessage
        BY <1>4, <1>5, <1>6, <1>7, <2>1
      <3> QED  BY <1>6, <1>7, <3>1
    <2>3. ASSUME NEW f \in P(NoMessage)  PROVE f \in C
      <3>1. f[i] = NoMessage /\ Begins(f) /\ f \in [ids -> ms \cup {NoMessage}]
        BY <1>6, <1>7
      <3>2. Legal(f)
        BY <1>4, <1>11, <2>1, <3>1
      <3> QED  BY <1>6, <1>7, <3>1, <3>2
    <2>4. C = P(NoMessage)
      BY <2>2, <2>3
    <2> QED  BY <1>11, <2>4 DEF C, P, CompletionsSplit
  <1> QED  BY <1>9, <1>10, <1>11
-----------------------------------------------------------------------------
(* The search.                                                             *)

(* One call of collectMessagesHelper, with h for the calls it makes.       *)
HelperStep(h, deque, rank, table, active, ids, matched) ==
    IF DOMAIN matched = ids THEN {matched}
    ELSE LET i     == NextId(ids, matched)
             tried == Tried(deque, rank, table[i], matched)
         IN IF tried # {}
            THEN UNION {h[PushMatch(matched, i, deque[k])] : k \in tried}
            ELSE IF i \in active THEN {}
            ELSE h[PushMatch(matched, i, NoMessage)]

IsHelper(h, deque, rank, table, active, ids) ==
    h = [matched \in PartialMatchings({deque[k] : k \in DOMAIN deque}, ids) |->
            HelperStep(h, deque, rank, table, active, ids, matched)]

LEMMA SearchMeaning ==
    ASSUME NEW deque, NEW rank, NEW table, NEW active, NEW ids,
           \E h : IsHelper(h, deque, rank, table, active, ids)
    PROVE  \E h : /\ IsHelper(h, deque, rank, table, active, ids)
                  /\ CollectMessages(deque, rank, table, active, ids)
                       = h[[i \in {} |-> NoMessage]]
  <1> DEFINE h == CHOOSE h : h =
                [matched \in PartialMatchings({deque[k] : k \in DOMAIN deque}, ids) |->
                    IF DOMAIN matched = ids THEN {matched}
                    ELSE LET i     == NextId(ids, matched)
                             tried == Tried(deque, rank, table[i], matched)
                         IN IF tried # {}
                            THEN UNION {h[PushMatch(matched, i, deque[k])] : k \in tried}
                            ELSE IF i \in active THEN {}
                            ELSE h[PushMatch(matched, i, NoMessage)]]
  <1>1. IsHelper(h, deque, rank, table, active, ids)
    BY DEF IsHelper, HelperStep
  <1>2. CollectMessages(deque, rank, table, active, ids) = h[[i \in {} |-> NoMessage]]
    BY DEF CollectMessages
  <1> HIDE DEF h
  <1> QED  BY <1>1, <1>2

(* Pushing what the scan tries, or NULL, gives a partial matching.         *)
LEMMA PushedFacts ==
    ASSUME NEW ms \in SUBSET Message, IsFiniteSet(ms), NEW deque \in Deques(ms),
           NEW rank, NEW R, NEW ids \in SUBSET RequestIds,
           NEW matched \in PartialMatchings(ms, ids), DOMAIN matched # ids,
           NEW i, i = NextId(ids, matched)
    PROVE  /\ \A k \in Tried(deque, rank, R, matched) :
                 PushMatch(matched, i, deque[k]) \in PartialMatchings(ms, ids)
           /\ PushMatch(matched, i, NoMessage) \in PartialMatchings(ms, ids)
  <1>1. \A m \in ms \cup {NoMessage} : PushMatch(matched, i, m) \in PartialMatchings(ms, ids)
    BY NextFacts
  <1>2. \A k \in Tried(deque, rank, R, matched) : deque[k] \in ms
    BY DequeFacts DEF Tried
  <1> QED  BY <1>1, <1>2

(* The closed form satisfies the recursion.                                *)
LEMMA HelperExists ==
    ASSUME NEW ms \in SUBSET Message, IsFiniteSet(ms), NEW deque \in Deques(ms),
           NEW rank, NEW table, NEW active, NEW ids \in SUBSET RequestIds
    PROVE  \E h : IsHelper(h, deque, rank, table, active, ids)
  <1> DEFINE C(matched) == Completions(ms, rank, table, active, ids, matched)
             h == [matched \in PartialMatchings(ms, ids) |-> C(matched)]
  <1>1. {deque[k] : k \in DOMAIN deque} = ms
    BY DequeFacts
  <1>2. ASSUME NEW matched \in PartialMatchings(ms, ids)
        PROVE  C(matched) = HelperStep(h, deque, rank, table, active, ids, matched)
    <2>1. CASE DOMAIN matched = ids
      BY <2>1, NothingToComplete DEF HelperStep
    <2>2. CASE DOMAIN matched # ids
      <3> PICK i : i = NextId(ids, matched)
        OBVIOUS
      <3> PICK tried : tried = Tried(deque, rank, table[i], matched)
        OBVIOUS
      <3>1. C(matched) = IF tried # {}
                         THEN UNION {C(PushMatch(matched, i, deque[k])) : k \in tried}
                         ELSE IF i \in active THEN {}
                         ELSE C(PushMatch(matched, i, NoMessage))
        <4>1. CompletionsSplit(ms, deque, rank, table, active, ids, matched, i, tried)
          BY <2>2, CompletionsRecur
        <4> QED  BY <4>1 DEF CompletionsSplit
      <3>2. /\ \A k \in tried : PushMatch(matched, i, deque[k]) \in PartialMatchings(ms, ids)
            /\ PushMatch(matched, i, NoMessage) \in PartialMatchings(ms, ids)
        BY <2>2, PushedFacts
      <3>3. /\ \A k \in tried : h[PushMatch(matched, i, deque[k])]
                                    = C(PushMatch(matched, i, deque[k]))
            /\ h[PushMatch(matched, i, NoMessage)] = C(PushMatch(matched, i, NoMessage))
        BY <3>2
      <3>4. HelperStep(h, deque, rank, table, active, ids, matched)
              = IF tried # {}
                THEN UNION {h[PushMatch(matched, i, deque[k])] : k \in tried}
                ELSE IF i \in active THEN {}
                ELSE h[PushMatch(matched, i, NoMessage)]
        BY <2>2 DEF HelperStep
      <3> HIDE DEF C, h
      <3>5. UNION {h[PushMatch(matched, i, deque[k])] : k \in tried}
              = UNION {C(PushMatch(matched, i, deque[k])) : k \in tried}
        BY <3>3
      <3> QED
        <4>1. CASE tried # {}
          BY <3>1, <3>4, <3>5, <4>1
        <4>2. CASE tried = {}
          BY <3>1, <3>3, <3>4, <4>2
        <4> QED  BY <4>1, <4>2
    <2> QED  BY <2>1, <2>2
  <1>3. h = [matched \in PartialMatchings(ms, ids) |->
               HelperStep(h, deque, rank, table, active, ids, matched)]
    <2> PICK g : g = h
      OBVIOUS
    <2>1. g = [matched \in PartialMatchings(ms, ids) |-> C(matched)]
      OBVIOUS
    <2>2. \A matched \in PartialMatchings(ms, ids) :
             C(matched) = HelperStep(g, deque, rank, table, active, ids, matched)
      BY <1>2
    <2> HIDE DEF h, C
    <2>3. g = [matched \in PartialMatchings(ms, ids) |->
                  HelperStep(g, deque, rank, table, active, ids, matched)]
      BY <2>1, <2>2
    <2> QED  BY <2>3
  <1> HIDE DEF h
  <1>4. IsHelper(h, deque, rank, table, active, ids)
    BY <1>1, <1>3 DEF IsHelper
  <1> QED  BY <1>4
(* No other function satisfies it: a partial matching of the highest slot  *)
(* where another one differs would have a push where it differs too.       *)
LEMMA HelperIsUnique ==
    ASSUME NEW ms \in SUBSET Message, IsFiniteSet(ms), NEW deque \in Deques(ms),
           NEW rank, NEW table, NEW active, NEW ids \in SUBSET RequestIds,
           NEW h, IsHelper(h, deque, rank, table, active, ids),
           NEW matched \in PartialMatchings(ms, ids)
    PROVE  h[matched] = Completions(ms, rank, table, active, ids, matched)
  <1> DEFINE C(m) == Completions(ms, rank, table, active, ids, m)
             Filled(m, b) == \A j \in ids : j < MaxRequests - b => j \in DOMAIN m
             Bad == {b \in 0 .. MaxRequests :
                        \E m \in PartialMatchings(ms, ids) : Filled(m, b) /\ h[m] # C(m)}
  <1>1. MaxRequests \in Nat /\ \A j \in ids : j \in Nat /\ j < MaxRequests
    BY MaxRequestsAssumption DEF RequestIds
  <1>2. \A m \in PartialMatchings(ms, ids) :
           h[m] = HelperStep(h, deque, rank, table, active, ids, m)
    <2>1. {deque[k] : k \in DOMAIN deque} = ms
      BY DequeFacts
    <2> QED  BY <2>1 DEF IsHelper
  <1>3. Bad = {}
    <2> SUFFICES ASSUME Bad # {}  PROVE FALSE
      OBVIOUS
    <2>1. Bad \in SUBSET Nat
      BY <1>1
    <2>2. PICK b \in Bad : \A c \in Bad : b <= c
      BY <2>1, LeastSlot
    <2>3. PICK m \in PartialMatchings(ms, ids) : Filled(m, b) /\ h[m] # C(m)
      OBVIOUS
    <2>4. CASE DOMAIN m = ids
      <3>1. h[m] = {m}
        BY <1>2, <2>4 DEF HelperStep
      <3> QED  BY <2>3, <2>4, <3>1, NothingToComplete
    <2>5. CASE DOMAIN m # ids
      <3> PICK i : i = NextId(ids, m)
        OBVIOUS
      <3> PICK tried : tried = Tried(deque, rank, table[i], m)
        OBVIOUS
      <3>1. /\ i \in ids \ DOMAIN m
            /\ DOMAIN m = First(ids, i)
            /\ First(ids, i + 1) = First(ids, i) \cup {i}
            /\ i + 1 \in 0 .. MaxRequests
            /\ \A x \in ms \cup {NoMessage} :
                  /\ PushMatch(m, i, x) \in PartialMatchings(ms, ids)
                  /\ DOMAIN PushMatch(m, i, x) = First(ids, i + 1)
                  /\ PushMatch(m, i, x)[i] = x
                  /\ \A j \in First(ids, i) : PushMatch(m, i, x)[j] = m[j]
        BY <2>5, NextFacts
      <3>2. ~ i < MaxRequests - b
        BY <2>3, <3>1
      <3>3. b - 1 \in 0 .. MaxRequests /\ b - 1 \notin Bad
        BY <1>1, <2>2, <3>1, <3>2
      <3>4. \A j \in ids : j < MaxRequests - (b - 1) => j \in First(ids, i + 1)
        BY <1>1, <2>1, <3>1, <3>2 DEF First
      <3>5. ASSUME NEW p \in PartialMatchings(ms, ids), DOMAIN p = First(ids, i + 1)
            PROVE  h[p] = C(p)
        <4>1. Filled(p, b - 1)
          BY <3>4, <3>5
        <4> HIDE DEF Filled, C
        <4> QED  BY <3>3, <4>1
      <3>6. ASSUME NEW x \in ms \cup {NoMessage}
            PROVE  h[PushMatch(m, i, x)] = C(PushMatch(m, i, x))
        <4> PICK p : p = PushMatch(m, i, x)
          OBVIOUS
        <4>1. p \in PartialMatchings(ms, ids) /\ DOMAIN p = First(ids, i + 1)
          BY <3>1
        <4> HIDE DEF C
        <4> QED  BY <3>5, <4>1
      <3>7. \A k \in tried : deque[k] \in ms
        BY DequeFacts DEF Tried
      <3>8. h[m] = IF tried # {}
                   THEN UNION {h[PushMatch(m, i, deque[k])] : k \in tried}
                   ELSE IF i \in active THEN {}
                   ELSE h[PushMatch(m, i, NoMessage)]
        BY <1>2, <2>5 DEF HelperStep
      <3>9. CompletionsSplit(ms, deque, rank, table, active, ids, m, i, tried)
        BY <2>5, CompletionsRecur
      <3>10. C(m) = IF tried # {}
                    THEN UNION {C(PushMatch(m, i, deque[k])) : k \in tried}
                    ELSE IF i \in active THEN {}
                    ELSE C(PushMatch(m, i, NoMessage))
        BY <3>9 DEF CompletionsSplit
      <3> HIDE DEF C
      <3>11. UNION {h[PushMatch(m, i, deque[k])] : k \in tried}
               = UNION {C(PushMatch(m, i, deque[k])) : k \in tried}
        BY <3>6, <3>7
      <3>12. h[m] = C(m)
        <4>1. CASE tried # {}
          BY <3>8, <3>10, <3>11, <4>1
        <4>2. CASE tried = {}
          BY <3>6, <3>8, <3>10, <4>2
        <4> QED  BY <4>1, <4>2
      <3> QED  BY <2>3, <3>12
    <2> QED  BY <2>4, <2>5
  <1>4. Filled(matched, MaxRequests)
    BY <1>1
  <1>5. MaxRequests \in 0 .. MaxRequests
    BY <1>1
  <1> HIDE DEF Filled
  <1> QED  BY <1>3, <1>4, <1>5

-----------------------------------------------------------------------------
(* Whatever the deque and the table, the search returns each legal way to  *)
(* match the receives and no other (ProgramState::collectMessages).        *)
THEOREM SearchIsExact ==
    ASSUME NEW ms \in SUBSET Message, IsFiniteSet(ms), NEW deque \in Deques(ms),
           NEW rank, NEW table, NEW active, NEW ids \in SUBSET RequestIds
    PROVE  CollectMessages(deque, rank, table, active, ids)
             = Matchings(ms, rank, table, active, ids)
  <1> DEFINE none == [i \in {} |-> NoMessage]
  <1>1. \E h : IsHelper(h, deque, rank, table, active, ids)
    BY HelperExists
  <1>2. PICK h : /\ IsHelper(h, deque, rank, table, active, ids)
                 /\ CollectMessages(deque, rank, table, active, ids) = h[none]
    BY <1>1, SearchMeaning
  <1>3. none \in PartialMatchings(ms, ids) /\ DOMAIN none = {}
    <2>1. 0 \in 0 .. MaxRequests
      BY MaxRequestsAssumption
    <2>2. First(ids, 0) = {}
      <3>1. \A i \in ids : ~ i < 0
        BY MaxRequestsAssumption DEF RequestIds
      <3> QED  BY <3>1 DEF First
    <2>3. none \in [First(ids, 0) -> ms \cup {NoMessage}]
      BY <2>2
    <2> QED  BY <2>1, <2>3, PartialFacts
  <1> HIDE DEF none
  <1>4. h[none] = Completions(ms, rank, table, active, ids, none)
    BY <1>2, <1>3, HelperIsUnique
  <1>5. Completions(ms, rank, table, active, ids, none) = Matchings(ms, rank, table, active, ids)
    BY <1>3 DEF Completions, Matchings
  <1> QED  BY <1>2, <1>4, <1>5

(* The deque is finite: a step adds one message or takes some away.        *)
LEMMA DequeStaysFinite ==
    ASSUME IsFiniteSet(messages), [Next]_vars
    PROVE  IsFiniteSet(messages)'
  <1>1. CASE messages' = messages
    BY <1>1
  <1>2. CASE messages' \subseteq messages
    BY <1>2, FS_Subset
  <1>3. CASE \E m : messages' = messages \cup {m}
    BY <1>3, FS_AddElement
  <1>4. ASSUME NEW r \in Ranks, ClientStep(r)
        PROVE  messages' = messages \/ \E m : messages' = messages \cup {m}
    BY <1>4 DEF ClientStep, Isend, Irecv, Wait, Waitall, Test, Return, Pause
  <1>5. ASSUME NEW r \in Ranks, ExplorerStep(r)
        PROVE  messages' = messages \/ messages' \subseteq messages
    BY <1>5 DEF ExplorerStep, Boot, FastRunWait, TestNotReady, ForkWaitOrTest, RemoveMessages
  <1> QED  BY <1>1, <1>2, <1>3, <1>4, <1>5 DEF Next, vars

(* In every program state of every path the search of collectMessages      *)
(* finds exactly the matchings that MPIObjects states, whatever the order  *)
(* in the deque of messages from different senders.                        *)
THEOREM SearchIsExactInEveryState == Spec => []SearchFindsTheMatchings
  <1>1. Init => IsFiniteSet(messages)
    BY FS_EmptySet DEF Init
  <1>2. IsFiniteSet(messages) /\ [Next]_vars => IsFiniteSet(messages)'
    BY DequeStaysFinite
  <1>3. RuntimeTypeOK /\ IsFiniteSet(messages) => SearchFindsTheMatchings
    <2>1. ASSUME RuntimeTypeOK, IsFiniteSet(messages),
                 NEW deque \in Deques(messages), NEW r \in Ranks
          PROVE  CollectMessages(deque, r, procs[r].requests, procs[r].active,
                                 ReceiveIds(procs[r]))
                   = WaitMatchings(procs[r], r, messages)
      <3>1. messages \in SUBSET Message
        BY <2>1 DEF RuntimeTypeOK
      <3>2. ReceiveIds(procs[r]) \in SUBSET RequestIds
        BY DEF ReceiveIds
      <3> QED  BY <2>1, <3>1, <3>2, SearchIsExact DEF WaitMatchings
    <2> QED  BY <2>1 DEF SearchFindsTheMatchings
  <1>4. Spec => []RuntimeTypeOK
    BY TypeCorrect
  <1> QED  BY <1>1, <1>2, <1>3, <1>4, PTL DEF Spec
=============================================================================
