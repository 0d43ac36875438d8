------------------------ MODULE SharedObjects_proofs ------------------------
(***************************************************************************)
(* Theorems about shared messages and requests, for any number of states,  *)
(* slots, addresses and posts.                                             *)
(***************************************************************************)
EXTENDS SharedObjects, FiniteSetTheorems, TLAPS

(* The Refs of different owners are different.                             *)
LEMMA CellKinds ==
    /\ \A s \in States, k \in Places :
          DequeCell(s, k) \in DequeCells /\ DequeCell(s, k) \in CellsOf(s)
    /\ \A s \in States, i \in Slots :
          TableCell(s, i) \in TableCells /\ TableCell(s, i) \in CellsOf(s)
    /\ \A q \in RequestAddrs : MsgCell(q) \in MsgCells
    /\ \A s \in States, q \in RequestAddrs : MsgCell(q) \notin CellsOf(s)
    /\ \A s, t \in States : s # t => CellsOf(s) \cap CellsOf(t) = {}
    /\ \A s \in States : CellsOf(s) \subseteq Cells
    /\ DequeCells \subseteq Cells /\ TableCells \subseteq Cells /\ MsgCells \subseteq Cells
    BY DEF DequeCell, TableCell, MsgCell, DequeCells, TableCells, MsgCells, CellsOf, Cells

LEMMA CellOwners ==
    /\ \A c \in DequeCells : \E s \in States, k \in Places : c = DequeCell(s, k)
    /\ \A c \in TableCells : \E s \in States, i \in Slots : c = TableCell(s, i)
    /\ \A c \in MsgCells : \E q \in RequestAddrs : c = MsgCell(q)
    /\ \A p, q \in RequestAddrs : MsgCell(p) = MsgCell(q) => p = q
    /\ \A s, t \in States, i, j \in Slots :
          TableCell(s, i) = TableCell(t, j) => s = t /\ i = j
    /\ \A s, t \in States, i, j \in Places :
          DequeCell(s, i) = DequeCell(t, j) => s = t /\ i = j
    /\ MsgCells \cap (DequeCells \cup TableCells) = {}
    /\ DequeCells \cap TableCells = {}
    BY DEF DequeCell, TableCell, MsgCell, DequeCells, TableCells, MsgCells

(* An assignment fits its Ref.                                             *)
LEMMA AssignmentTypes ==
    /\ \A x \in Assignment : x[1] \in Cells /\ x[2] \in Addrs \cup {NULL} /\ x = <<x[1], x[2]>>
    /\ \A c \in DequeCells \cup MsgCells, p \in MessageAddrs \cup {NULL} : <<c, p>> \in Assignment
    /\ \A c \in TableCells, p \in RequestAddrs \cup {NULL} : <<c, p>> \in Assignment
    /\ \A c, p : <<c, p>> \in Assignment =>
          /\ c \in DequeCells \cup MsgCells => p \in MessageAddrs \cup {NULL}
          /\ c \in TableCells => p \in RequestAddrs \cup {NULL}
  <1>1. \A x \in Assignment : x[1] \in Cells /\ x[2] \in Addrs \cup {NULL} /\ x = <<x[1], x[2]>>
    BY DEF Assignment, Cells, Addrs
  <1>2. \A c, p : <<c, p>> \in Assignment =>
          /\ c \in DequeCells \cup MsgCells => p \in MessageAddrs \cup {NULL}
          /\ c \in TableCells => p \in RequestAddrs \cup {NULL}
    BY CellOwners DEF Assignment
  <1> QED
    BY <1>1, <1>2 DEF Assignment

(* RefsTo, of any contents of the Refs.                                    *)
RefsIn(f, a) == {x \in Cells : f[x] = a}

LEMMA RefsToIsRefsIn ==
    ASSUME NEW a
    PROVE  RefsTo(a) = RefsIn(refs, a) /\ RefsTo(a)' = RefsIn(refs', a)
    BY DEF RefsTo, RefsIn

LEMMA RefsInFinite ==
    ASSUME NEW f, NEW a
    PROVE  /\ IsFiniteSet(RefsIn(f, a))
           /\ Cardinality(RefsIn(f, a)) \in Nat
           /\ Cardinality(RefsIn(f, a)) = 0 <=> RefsIn(f, a) = {}
  <1>1. IsFiniteSet(RefsIn(f, a))
    BY CellsAssumption, FS_Subset DEF RefsIn
  <1> QED
    BY <1>1, FS_CardinalityType, FS_EmptySet

(* What one change of a Ref does to the number of Refs to an object.       *)
LEMMA CountAfterStore ==
    ASSUME NEW f \in [Cells -> Addrs \cup {NULL}], NEW c \in Cells,
           NEW p \in Addrs \cup {NULL}, NEW a \in Addrs
    PROVE  /\ f[c] # a /\ p = a =>
                Cardinality(RefsIn([f EXCEPT ![c] = p], a)) = Cardinality(RefsIn(f, a)) + 1
           /\ f[c] = a /\ p # a =>
                Cardinality(RefsIn([f EXCEPT ![c] = p], a)) = Cardinality(RefsIn(f, a)) - 1
           /\ (f[c] # a /\ p # a) \/ (f[c] = a /\ p = a) =>
                RefsIn([f EXCEPT ![c] = p], a) = RefsIn(f, a)
  <1> DEFINE g == [f EXCEPT ![c] = p]
  <1>1. f[c] # a /\ p = a => RefsIn(g, a) = RefsIn(f, a) \cup {c} /\ c \notin RefsIn(f, a)
    BY DEF RefsIn
  <1>2. f[c] = a /\ p # a => RefsIn(g, a) = RefsIn(f, a) \ {c} /\ c \in RefsIn(f, a)
    BY DEF RefsIn
  <1>3. (f[c] # a /\ p # a) \/ (f[c] = a /\ p = a) => RefsIn(g, a) = RefsIn(f, a)
    BY DEF RefsIn
  <1>4. IsFiniteSet(RefsIn(f, a))
    BY RefsInFinite
  <1> HIDE DEF g
  <1>5. f[c] # a /\ p = a => Cardinality(RefsIn(g, a)) = Cardinality(RefsIn(f, a)) + 1
    BY <1>1, <1>4, FS_AddElement
  <1>6. f[c] = a /\ p # a => Cardinality(RefsIn(g, a)) = Cardinality(RefsIn(f, a)) - 1
    BY <1>2, <1>4, FS_RemoveElement
  <1> QED
    BY <1>3, <1>5, <1>6 DEF g

LEMMA CountedRefs ==
    ASSUME NEW a
    PROVE  /\ Cardinality(RefsTo(a)) \in Nat
           /\ Cardinality(RefsTo(a)) = 0 <=> RefsTo(a) = {}
    BY RefsToIsRefsIn, RefsInFinite

-----------------------------------------------------------------------------
(* One assignment of a Ref.                                                *)

(* What Assign does, where nothing is let go of that is to be pointed to.  *)
LEMMA AssignEffect ==
    ASSUME ObjectsInv, NEW c, NEW p, <<c, p>> \in todo, Assign(c, p)
    PROVE  /\ c \in Cells /\ p \in Addrs \cup {NULL} /\ refs[c] \in Addrs \cup {NULL}
           /\ <<c, p>> \in Assignment
           /\ p # NULL => p # refs[c] /\ obj[p] # Free
           /\ refs[c] # NULL => obj[refs[c]] # Free /\ count[refs[c]] > 0
           /\ refs' = [refs EXCEPT ![c] = p]
           /\ count' \in [Addrs -> Nat]
           /\ \A x \in Addrs :
                 /\ x = p => count'[x] = count[x] + 1
                 /\ x = refs[c] /\ x # p => count'[x] = count[x] - 1
                 /\ x # refs[c] /\ x # p => count'[x] = count[x]
                 /\ x = refs[c] /\ count'[x] = 0 => obj'[x] = Free
                 /\ x # refs[c] \/ count'[x] # 0 => obj'[x] = obj[x]
           /\ NULL \notin Addrs
  <1> DEFINE old == refs[c]
             up == IF p = NULL THEN count ELSE [count EXCEPT ![p] = @ + 1]
             down == IF old = NULL THEN up ELSE [up EXCEPT ![old] = @ - 1]
             freed == old # NULL /\ down[old] = 0
  <1>1. TypeOK /\ CountsAreExact /\ TodoIsSound
    BY DEF ObjectsInv
  <1>2. /\ c \in Cells /\ p \in Addrs \cup {NULL} /\ refs[c] \in Addrs \cup {NULL}
        /\ <<c, p>> \in Assignment /\ <<c, p>>[1] = c /\ <<c, p>>[2] = p
    BY <1>1, AssignmentTypes DEF TypeOK
  <1>3. NULL \notin Addrs
    BY AddrAssumption DEF Addrs
  <1>4. p # NULL => obj[p] # Free
    BY <1>1, <1>2 DEF TodoIsSound
  <1>5. p # NULL => p # refs[c]
    <2>1. CASE \A a \in todo : a[2] = NULL
      BY <2>1, <1>2
    <2>2. CASE \A a \in todo : a[2] # NULL /\ refs[a[1]] = NULL
      BY <2>2, <1>2
    <2>3. CASE \E a \in todo : todo = {a} /\ a[2] # NULL /\ refs[a[1]] # a[2]
      BY <2>3, <1>2
    <2> QED
      BY <1>1, <2>1, <2>2, <2>3 DEF TodoIsSound
  <1>6. old # NULL => obj[old] # Free /\ count[old] > 0 /\ old \in Addrs
    <2> SUFFICES ASSUME old # NULL PROVE obj[old] # Free /\ count[old] > 0 /\ old \in Addrs
      OBVIOUS
    <2>1. old \in Addrs /\ c \in RefsTo(old)
      BY <1>2 DEF RefsTo
    <2>2. obj[old] # Free /\ count[old] = Cardinality(RefsTo(old)) + extra[old]
      BY <1>1, <2>1 DEF CountsAreExact
    <2>3. extra[old] \in Nat /\ count[old] \in Nat
      BY <1>1, <2>1 DEF TypeOK
    <2> QED
      BY <2>1, <2>2, <2>3, CountedRefs
  <1>7. /\ refs' = [refs EXCEPT ![c] = p] /\ count' = down
        /\ obj' = IF freed THEN [obj EXCEPT ![old] = Free] ELSE obj
    BY DEF Assign
  <1>8. count \in [Addrs -> Nat] /\ DOMAIN obj = Addrs
    BY <1>1 DEF TypeOK
  <1> HIDE DEF old
  <1>9. up \in [Addrs -> Nat] /\ \A x \in Addrs : up[x] = IF x = p THEN count[x] + 1 ELSE count[x]
    BY <1>2, <1>3, <1>8
  <1>10. p # NULL => p # old
    BY <1>5 DEF old
  <1>11. /\ down \in [Addrs -> Nat]
         /\ \A x \in Addrs : down[x] = IF x = old THEN up[x] - 1 ELSE up[x]
    BY <1>3, <1>6, <1>8, <1>9, <1>10
  <1>12. \A x \in Addrs : /\ x = old /\ down[x] = 0 => obj'[x] = Free
                          /\ x # old \/ down[x] # 0 => obj'[x] = obj[x]
    BY <1>3, <1>6, <1>7, <1>8
  <1>13. \A x \in Addrs :
            /\ x = p => count'[x] = count[x] + 1
            /\ x = old /\ x # p => count'[x] = count[x] - 1
            /\ x # old /\ x # p => count'[x] = count[x]
    BY <1>3, <1>7, <1>9, <1>10, <1>11
  <1>14. \A x \in Addrs :
            /\ x = old /\ count'[x] = 0 => obj'[x] = Free
            /\ x # old \/ count'[x] # 0 => obj'[x] = obj[x]
    BY <1>7, <1>12
  <1>15. count' \in [Addrs -> Nat]
    BY <1>7, <1>11
  <1> HIDE DEF up, down, freed
  <1> QED
    BY <1>2, <1>3, <1>4, <1>5, <1>6, <1>7, <1>13, <1>14, <1>15 DEF old

(* Every count changes as the number of Refs does.                         *)
LEMMA AssignKeepsCounts ==
    ASSUME ObjectsInv, NEW c, NEW p, <<c, p>> \in todo, Assign(c, p)
    PROVE  CountsAreExact'
  <1>1. TypeOK /\ CountsAreExact
    BY DEF ObjectsInv
  <1>2. extra' = extra
    BY DEF Assign
  <1> SUFFICES ASSUME NEW x \in Addrs
               PROVE  /\ obj'[x] # Free => count'[x] = Cardinality(RefsTo(x)') + extra[x]
                      /\ obj'[x] = Free => RefsTo(x)' = {}
                      /\ obj'[x] # Free /\ extra[x] > 0
                            => obj'[x].type = "REQUEST_RECV_COMPLETED"
    BY <1>2 DEF CountsAreExact
  <1>3. /\ refs \in [Cells -> Addrs \cup {NULL}] /\ c \in Cells /\ p \in Addrs \cup {NULL}
        /\ count[x] \in Nat /\ extra[x] \in Nat /\ count'[x] \in Nat
    BY <1>1, AssignEffect DEF TypeOK
  <1>4. /\ RefsTo(x) = RefsIn(refs, x)
        /\ RefsTo(x)' = RefsIn([refs EXCEPT ![c] = p], x)
    <2>1. refs' = [refs EXCEPT ![c] = p]
      BY DEF Assign
    <2> QED
      BY <2>1, RefsToIsRefsIn
  <1>5. /\ refs[c] # x /\ p = x => Cardinality(RefsTo(x)') = Cardinality(RefsTo(x)) + 1
        /\ refs[c] = x /\ p # x => Cardinality(RefsTo(x)') = Cardinality(RefsTo(x)) - 1
        /\ refs[c] # x /\ p # x => RefsTo(x)' = RefsTo(x)
    <2>1. /\ refs[c] # x /\ p = x => Cardinality(RefsIn([refs EXCEPT ![c] = p], x))
                                        = Cardinality(RefsIn(refs, x)) + 1
          /\ refs[c] = x /\ p # x => Cardinality(RefsIn([refs EXCEPT ![c] = p], x))
                                        = Cardinality(RefsIn(refs, x)) - 1
          /\ refs[c] # x /\ p # x => RefsIn([refs EXCEPT ![c] = p], x) = RefsIn(refs, x)
      BY <1>3, CountAfterStore
    <2> QED
      BY <1>4, <2>1
  <1>6. /\ Cardinality(RefsTo(x)) \in Nat /\ Cardinality(RefsTo(x)') \in Nat
        /\ Cardinality(RefsTo(x)') = 0 => RefsTo(x)' = {}
    BY <1>4, RefsInFinite
  <1>7. /\ obj[x] # Free => count[x] = Cardinality(RefsTo(x)) + extra[x]
        /\ obj[x] = Free => RefsTo(x) = {}
        /\ obj[x] # Free /\ extra[x] > 0 => obj[x].type = "REQUEST_RECV_COMPLETED"
    BY <1>1 DEF CountsAreExact
  <1>8. /\ p = x => refs[c] # x /\ obj[x] # Free /\ count'[x] = count[x] + 1
        /\ x = refs[c] => obj[x] # Free
        /\ x = refs[c] /\ x # p => count'[x] = count[x] - 1
        /\ x # refs[c] /\ x # p => count'[x] = count[x]
        /\ x = refs[c] /\ count'[x] = 0 => obj'[x] = Free
        /\ x # refs[c] \/ count'[x] # 0 => obj'[x] = obj[x]
    BY AssignEffect
  <1>9. CASE x = p
    BY <1>3, <1>5, <1>6, <1>7, <1>8, <1>9
  <1>10. CASE x # p /\ x = refs[c]
    <2>1. count'[x] = Cardinality(RefsTo(x)') + extra[x]
      BY <1>3, <1>5, <1>6, <1>7, <1>8, <1>10
    <2>2. CASE count'[x] = 0
      BY <1>3, <1>5, <1>6, <1>8, <1>10, <2>1, <2>2
    <2>3. CASE count'[x] # 0
      BY <1>7, <1>8, <1>10, <2>1, <2>3
    <2> QED
      BY <2>2, <2>3
  <1>11. CASE x # p /\ x # refs[c]
    BY <1>5, <1>7, <1>8, <1>11
  <1> QED
    BY <1>9, <1>10, <1>11

(* What is left to do, and what may be deleted, by the kind of operation.  *)
LEMMA AssignTodo ==
    ASSUME ObjectsInv, NEW c, NEW p, <<c, p>> \in todo, Assign(c, p)
    PROVE  /\ \A b \in todo' : \/ b \in todo /\ b # <<c, p>> /\ b[1] # c
                               \/ /\ refs[c] \in RequestAddrs
                                  /\ b = <<MsgCell(refs[c]), NULL>>
                                  /\ obj'[refs[c]] = Free
           /\ \A b \in todo' : b[1] # c
           /\ \A b \in todo : b # <<c, p>> => b \in todo'
           /\ \A q \in RequestAddrs : q = refs[c] /\ count'[q] = 0 =>
                 <<MsgCell(q), NULL>> \in todo'
           /\ (\E b \in todo' : b[2] # NULL) => p # NULL /\ refs[c] = NULL
  <1>1. TypeOK /\ CountsAreExact /\ TodoIsSound
    BY DEF ObjectsInv
  <1>2. /\ c \in Cells /\ refs[c] \in Addrs \cup {NULL} /\ NULL \notin Addrs
        /\ <<c, p>> \in Assignment
        /\ \A x \in Addrs : x = refs[c] /\ count'[x] = 0 => obj'[x] = Free
    BY AssignEffect
  <1>3. /\ \A b \in todo' : \/ b \in todo /\ b # <<c, p>>
                            \/ /\ refs[c] \in RequestAddrs /\ count'[refs[c]] = 0
                               /\ b = <<MsgCell(refs[c]), NULL>>
        /\ \A b \in todo : b # <<c, p>> => b \in todo'
        /\ \A q \in RequestAddrs : q = refs[c] /\ count'[q] = 0 => <<MsgCell(q), NULL>> \in todo'
    <2>1. refs[c] \in RequestAddrs => refs[c] # NULL
      BY <1>2 DEF Addrs
    <2> QED
      BY <2>1 DEF Assign
  <1>4. \A b \in todo : b # <<c, p>> => b[1] # c
    BY <1>1, <1>2 DEF TodoIsSound
  <1>5. refs[c] \in RequestAddrs => MsgCell(refs[c]) # c
    <2> SUFFICES ASSUME refs[c] \in RequestAddrs, MsgCell(refs[c]) = c PROVE FALSE
      OBVIOUS
    <2>1. c \in MsgCells
      BY CellKinds
    <2>2. <<c, refs[c]>> \in Assignment
      BY <1>1, <1>2 DEF TypeOK
    <2>3. refs[c] \in MessageAddrs \cup {NULL}
      BY <2>1, <2>2, AssignmentTypes
    <2> QED
      BY <2>3, AddrAssumption
  <1>6. \A b \in todo' : b[1] # c
    BY <1>3, <1>4, <1>5
  <1>7. refs[c] \in RequestAddrs /\ count'[refs[c]] = 0 => obj'[refs[c]] = Free
    BY <1>2 DEF Addrs
  <1>8. (\E b \in todo' : b[2] # NULL) => p # NULL /\ refs[c] = NULL
    <2> SUFFICES ASSUME NEW b \in todo', b[2] # NULL PROVE p # NULL /\ refs[c] = NULL
      OBVIOUS
    <2>1. b \in todo /\ b # <<c, p>>
      BY <1>3
    <2>2. <<c, p>>[1] = c /\ <<c, p>>[2] = p
      OBVIOUS
    <2>3. CASE \A a \in todo : a[2] = NULL
      BY <2>1, <2>3
    <2>4. CASE \A a \in todo : a[2] # NULL /\ refs[a[1]] = NULL
      BY <2>2, <2>4
    <2>5. CASE \E a \in todo : todo = {a} /\ a[2] # NULL /\ refs[a[1]] # a[2]
      BY <2>1, <2>5
    <2> QED
      BY <1>1, <2>3, <2>4, <2>5 DEF TodoIsSound
  <1> QED
    BY <1>3, <1>4, <1>6, <1>7, <1>8

LEMMA AssignKeepsType ==
    ASSUME ObjectsInv, NEW c, NEW p, <<c, p>> \in todo, Assign(c, p)
    PROVE  TypeOK'
  <1>1. TypeOK
    BY DEF ObjectsInv
  <1>2. UNCHANGED <<live, extra, fork, used>>
    BY DEF Assign
  <1>3. /\ c \in Cells /\ p \in Addrs \cup {NULL} /\ <<c, p>> \in Assignment
        /\ refs' = [refs EXCEPT ![c] = p] /\ count' \in [Addrs -> Nat]
    BY AssignEffect
  <1>4. refs' \in [Cells -> Addrs \cup {NULL}] /\ \A d \in Cells : <<d, refs'[d]>> \in Assignment
    BY <1>1, <1>3 DEF TypeOK
  <1>5. obj' \in [Addrs -> MessageObject \cup RequestObject \cup {Free}]
    BY <1>1 DEF TypeOK, Assign
  <1>6. \A a \in Addrs : obj'[a] # Free => (obj'[a].type = "MESSAGE" <=> a \in MessageAddrs)
    <2> SUFFICES ASSUME NEW a \in Addrs, obj'[a] # Free
                 PROVE  obj'[a].type = "MESSAGE" <=> a \in MessageAddrs
      OBVIOUS
    <2>1. obj'[a] = obj[a]
      BY AssignEffect
    <2> QED
      BY <1>1, <2>1 DEF TypeOK
  <1>7. todo' \subseteq Assignment
    <2> SUFFICES ASSUME NEW b \in todo' PROVE b \in Assignment
      OBVIOUS
    <2>1. CASE b \in todo
      BY <1>1, <2>1 DEF TypeOK
    <2>2. CASE refs[c] \in RequestAddrs /\ b = <<MsgCell(refs[c]), NULL>>
      BY <2>2, CellKinds, AssignmentTypes
    <2> QED
      BY <2>1, <2>2, AssignTodo
  <1> QED
    BY <1>1, <1>2, <1>3, <1>4, <1>5, <1>6, <1>7 DEF TypeOK

LEMMA AssignKeepsTodo ==
    ASSUME ObjectsInv, NEW c, NEW p, <<c, p>> \in todo, Assign(c, p)
    PROVE  TodoIsSound'
  <1>1. TypeOK /\ TodoIsSound
    BY DEF ObjectsInv
  <1>2. live' = live
    BY DEF Assign
  <1>3. ASSUME NEW a \in todo', NEW b \in todo', a[1] = b[1]
        PROVE  a = b
    <2>1. CASE a \in todo /\ b \in todo
      BY <1>1, <1>3, <2>1 DEF TodoIsSound
    <2>2. \A x \in todo : x = <<x[1], x[2]>>
      BY <1>1, AssignmentTypes DEF TypeOK
    <2>3. ASSUME NEW x \in todo, x[1] = MsgCell(refs[c]), refs[c] \in RequestAddrs,
                 obj'[refs[c]] = Free
          PROVE  x[2] = NULL
      <3>1. p # refs[c] /\ refs[c] # NULL /\ obj[refs[c]] # Free
        BY <2>3, AssignEffect DEF Addrs
      <3>2. CASE \A y \in todo : y[2] = NULL
        BY <3>2
      <3>3. CASE \A y \in todo : y[2] # NULL /\ refs[y[1]] = NULL
        <4>1. refs[<<c, p>>[1]] = NULL
          BY <3>3
        <4> QED
          BY <3>1, <4>1
      <3>4. CASE \E y \in todo : todo = {y} /\ y[2] # NULL /\ refs[y[1]] # y[2]
        <4>1. x[1] = c
          BY <3>4
        <4>2. MsgCell(refs[c]) = c
          BY <2>3, <4>1
        <4>3. c \in MsgCells /\ c \in Cells
          BY <2>3, <4>2, CellKinds
        <4>4. <<c, refs[c]>> \in Assignment
          BY <1>1, <4>3 DEF TypeOK
        <4>5. refs[c] \in MessageAddrs \cup {NULL}
          BY <4>3, <4>4, AssignmentTypes
        <4> QED
          BY <2>3, <4>5, AddrAssumption
      <3> QED
        BY <1>1, <3>2, <3>3, <3>4 DEF TodoIsSound
    <2>4. ASSUME NEW x \in todo, NEW y, y = <<MsgCell(refs[c]), NULL>>,
                 refs[c] \in RequestAddrs, obj'[refs[c]] = Free, x[1] = y[1]
          PROVE  x = y
      <3>1. x[1] = MsgCell(refs[c])
        BY <2>4
      <3>2. x[2] = NULL
        BY <2>3, <2>4, <3>1
      <3> QED
        BY <2>2, <2>4, <3>1, <3>2
    <2>5. \A d \in todo' : \/ d \in todo
                           \/ /\ refs[c] \in RequestAddrs /\ d = <<MsgCell(refs[c]), NULL>>
                              /\ obj'[refs[c]] = Free
      BY AssignTodo
    <2>6. CASE a \in todo /\ b \notin todo
      BY <1>3, <2>4, <2>5, <2>6
    <2>7. CASE a \notin todo /\ b \in todo
      BY <1>3, <2>4, <2>5, <2>7
    <2>8. CASE a \notin todo /\ b \notin todo
      BY <2>5, <2>8
    <2> QED
      BY <2>1, <2>6, <2>7, <2>8
  <1>4. ASSUME NEW a \in todo', a[2] # NULL
        PROVE  /\ obj'[a[2]] # Free
               /\ \A s \in States : a[1] \in CellsOf(s) => s \in live'
    <2>1. a \in todo
      BY <1>4, AssignTodo
    <2>2. refs[c] = NULL
      BY <1>4, AssignTodo
    <2>3. a[2] \in Addrs
      BY <1>1, <1>4, <2>1, AssignmentTypes DEF TypeOK
    <2>4. obj'[a[2]] = obj[a[2]]
      BY <2>2, <2>3, AssignEffect
    <2> QED
      BY <1>1, <1>2, <1>4, <2>1, <2>4 DEF TodoIsSound
  <1>5. \/ \A a \in todo' : a[2] = NULL
        \/ \A a \in todo' : a[2] # NULL /\ refs'[a[1]] = NULL
        \/ \E a \in todo' : todo' = {a} /\ a[2] # NULL /\ refs'[a[1]] # a[2]
    <2> SUFFICES ASSUME NEW b \in todo', b[2] # NULL
                 PROVE  \A a \in todo' : a[2] # NULL /\ refs'[a[1]] = NULL
      OBVIOUS
    <2>1. p # NULL /\ refs[c] = NULL
      BY AssignTodo
    <2>2. <<c, p>>[1] = c /\ <<c, p>>[2] = p
      OBVIOUS
    <2>3. \A a \in todo : a[2] # NULL /\ refs[a[1]] = NULL
      <3>1. b \in todo /\ b # <<c, p>>
        BY AssignTodo
      <3>2. CASE \A a \in todo : a[2] = NULL
        BY <3>1, <3>2
      <3>3. CASE \E a \in todo : todo = {a} /\ a[2] # NULL /\ refs[a[1]] # a[2]
        BY <3>1, <3>3
      <3> QED
        BY <1>1, <3>2, <3>3 DEF TodoIsSound
    <2>4. NULL \notin RequestAddrs
      BY AddrAssumption
    <2>5. \A a \in todo' : a \in todo /\ a[1] # c
      BY <2>1, <2>4, AssignTodo
    <2>6. \A a \in todo' : refs'[a[1]] = refs[a[1]]
      <3> SUFFICES ASSUME NEW a \in todo' PROVE refs'[a[1]] = refs[a[1]]
        OBVIOUS
      <3>1. a[1] \in Cells
        BY <1>1, <2>5, AssignmentTypes DEF TypeOK
      <3> QED
        BY <1>1, <2>5, <3>1, AssignEffect DEF TypeOK
    <2> QED
      BY <2>3, <2>5, <2>6
  <1> QED
    BY <1>3, <1>4, <1>5 DEF TodoIsSound

LEMMA AssignKeepsPending ==
    ASSUME ObjectsInv, NEW c, NEW p, <<c, p>> \in todo, Assign(c, p)
    PROVE  UncountedArePending'
  <1>1. TypeOK /\ UncountedArePending
    BY DEF ObjectsInv
  <1> SUFFICES ASSUME NEW a \in Addrs, obj'[a] # Free, count'[a] = 0
               PROVE  \E b \in todo' : b[2] = a
    BY DEF UncountedArePending
  <1>2. /\ a # refs[c] /\ obj'[a] = obj[a] /\ count[a] \in Nat
        /\ a = p => count'[a] = count[a] + 1
        /\ a # p => count'[a] = count[a]
    BY <1>1, AssignEffect DEF TypeOK
  <1>3. a # p /\ count[a] = 0
    BY <1>2
  <1>4. PICK b \in todo : b[2] = a
    BY <1>1, <1>2, <1>3 DEF UncountedArePending
  <1>5. b \in todo'
    BY <1>3, <1>4, AssignTodo
  <1> QED
    BY <1>4, <1>5

LEMMA AssignKeepsOwners ==
    ASSUME ObjectsInv, NEW c, NEW p, <<c, p>> \in todo, Assign(c, p)
    PROVE  OwnersAreThere'
  <1>1. TypeOK /\ OwnersAreThere /\ TodoIsSound
    BY DEF ObjectsInv
  <1>2. live' = live
    BY DEF Assign
  <1>3. \A d \in Cells : refs'[d] = IF d = c THEN p ELSE refs[d]
    BY <1>1, AssignEffect DEF TypeOK
  <1>4. <<c, p>>[1] = c /\ <<c, p>>[2] = p
    OBVIOUS
  <1>5. \A d \in Cells : d # c /\ (refs[d] = NULL \/ <<d, NULL>> \in todo)
            => refs'[d] = NULL \/ <<d, NULL>> \in todo'
    BY <1>3, AssignTodo
  <1>6. ASSUME NEW s \in States \ live, NEW d \in CellsOf(s)
        PROVE  refs'[d] = NULL \/ <<d, NULL>> \in todo'
    <2>1. d \in Cells
      BY CellKinds
    <2>2. CASE d # c
      BY <1>1, <1>5, <2>1, <2>2 DEF OwnersAreThere
    <2>3. CASE d = c
      <3>1. p = NULL
        BY <1>1, <1>4, <1>6, <2>3 DEF TodoIsSound
      <3> QED
        BY <1>3, <2>1, <2>3, <3>1
    <2> QED
      BY <2>2, <2>3
  <1>7. ASSUME NEW q \in RequestAddrs, obj'[q].type # "REQUEST_SSEND"
        PROVE  /\ refs'[MsgCell(q)] = NULL \/ <<MsgCell(q), NULL>> \in todo'
               /\ \A b \in todo' : b[1] = MsgCell(q) => b[2] = NULL
    <2>1. MsgCell(q) \in Cells /\ MsgCell(q) \in MsgCells /\ q \in Addrs
      BY CellKinds DEF Addrs
    <2>2. CASE q = refs[c] /\ count'[q] = 0
      <3>1. <<MsgCell(q), NULL>> \in todo'
        BY <2>2, AssignTodo
      <3>2. <<MsgCell(q), NULL>>[1] = MsgCell(q) /\ <<MsgCell(q), NULL>>[2] = NULL
        OBVIOUS
      <3>3. \A b \in todo' : b[1] = MsgCell(q) => b = <<MsgCell(q), NULL>>
        <4>1. TodoIsSound'
          BY AssignKeepsTodo
        <4> QED
          BY <3>1, <3>2, <4>1 DEF TodoIsSound
      <3> QED
        BY <3>1, <3>2, <3>3
    <2>3. CASE ~ (q = refs[c] /\ count'[q] = 0)
      <3>1. obj'[q] = obj[q]
        BY <2>1, <2>3, AssignEffect
      <3>2. /\ refs[MsgCell(q)] = NULL \/ <<MsgCell(q), NULL>> \in todo
            /\ \A b \in todo : b[1] = MsgCell(q) => b[2] = NULL
        BY <1>1, <1>7, <3>1 DEF OwnersAreThere
      <3>3. refs'[MsgCell(q)] = NULL \/ <<MsgCell(q), NULL>> \in todo'
        <4>1. CASE MsgCell(q) # c
          BY <1>5, <2>1, <3>2, <4>1
        <4>2. CASE MsgCell(q) = c
          BY <1>3, <1>4, <2>1, <3>2, <4>2
        <4> QED
          BY <4>1, <4>2
      <3>4. \A b \in todo' : b[1] = MsgCell(q) => b[2] = NULL
        <4> SUFFICES ASSUME NEW b \in todo', b[1] = MsgCell(q), b[2] # NULL PROVE FALSE
          OBVIOUS
        <4>1. b \in todo
          BY AssignTodo
        <4> QED
          BY <3>2, <4>1
      <3> QED
        BY <3>3, <3>4
    <2> QED
      BY <2>2, <2>3
  <1> QED
    BY <1>2, <1>6, <1>7 DEF OwnersAreThere

LEMMA AssignKeepsFork ==
    ASSUME ObjectsInv, NEW c, NEW p, <<c, p>> \in todo, Assign(c, p)
    PROVE  ForkIsSound'
  <1>1. TypeOK /\ ForkIsSound /\ CountsAreExact
    BY DEF ObjectsInv
  <1>2. UNCHANGED <<live, fork>>
    BY DEF Assign
  <1> SUFFICES ASSUME fork # NULL
               PROVE  /\ \A a \in todo' : a[1] \notin CellsOf(fork.from)
                      /\ \A i \in Slots : IsPendingRecv(fork.from, i)
                                            => IsPendingRecv(fork.from, i)'
                      /\ \A m \in MessageAddrs : CheckMessage(fork.from, m)
                                            => CheckMessage(fork.from, m)'
    <2>1. CASE fork = NULL
      BY <1>2, <2>1 DEF ForkIsSound
    <2>2. CASE fork # NULL
      <3>1. fork \in Forking
        BY <1>1, <2>2 DEF TypeOK
      <3>2. \A x \in fork.todo : x[1] \in Slots /\ x[2] \in MessageAddrs
        BY <3>1 DEF Forking
      <3>3. fork.taken # NULL => fork.taken[1] \in Slots /\ fork.taken[2] \in MessageAddrs
        BY <3>1 DEF Forking
      <3> QED
        BY <1>1, <1>2, <2>2, <3>2, <3>3 DEF ForkIsSound
    <2> QED
      BY <2>1, <2>2
  <1>3. fork.from \in States
    BY <1>1 DEF ForkIsSound, TypeOK
  <1>4. <<c, p>>[1] = c
    OBVIOUS
  <1>5. c \notin CellsOf(fork.from) /\ \A a \in todo : a[1] \notin CellsOf(fork.from)
    BY <1>1, <1>4 DEF ForkIsSound
  <1>6. \A a \in todo' : a[1] \notin CellsOf(fork.from)
    <2> SUFFICES ASSUME NEW a \in todo', a[1] \in CellsOf(fork.from) PROVE FALSE
      OBVIOUS
    <2>1. a \notin todo
      BY <1>5
    <2>2. refs[c] \in RequestAddrs /\ a[1] = MsgCell(refs[c])
      BY <2>1, AssignTodo
    <2> QED
      BY <1>3, <2>2, CellKinds
  <1>7. ASSUME NEW i \in Slots, IsPendingRecv(fork.from, i)
        PROVE  IsPendingRecv(fork.from, i)'
    <2>1. PICK d \in Cells : d = TableCell(fork.from, i) /\ d # c
      BY <1>3, <1>5, CellKinds
    <2>2. PICK q \in Addrs : q = refs[d] /\ refs'[d] = q /\ q # NULL
      BY <1>1, <1>7, <2>1, AssignEffect DEF TypeOK, IsPendingRecv, RequestAt
    <2>3. obj'[q] = obj[q]
      <3> SUFFICES ASSUME q = refs[c], count'[q] = 0 PROVE FALSE
        BY <2>2, AssignEffect
      <3>1. CountsAreExact'
        BY AssignKeepsCounts
      <3>2. obj'[q] = Free
        BY <2>2, AssignEffect
      <3>3. RefsTo(q)' = {}
        BY <2>2, <3>1, <3>2 DEF CountsAreExact
      <3> QED
        BY <2>1, <2>2, <3>3 DEF RefsTo
    <2>4. obj[q].type = "REQUEST_RECV"
      BY <1>7, <2>1, <2>2 DEF IsPendingRecv, RequestAt
    <2> QED
      BY <1>2, <2>1, <2>2, <2>3, <2>4 DEF IsPendingRecv, RequestAt
  <1>8. ASSUME NEW m \in MessageAddrs, CheckMessage(fork.from, m)
        PROVE  CheckMessage(fork.from, m)'
    <2>1. PICK k \in Places : refs[DequeCell(fork.from, k)] = m
      BY <1>8 DEF CheckMessage
    <2>2. PICK d \in Cells : d = DequeCell(fork.from, k) /\ d # c
      BY <1>3, <1>5, CellKinds
    <2>3. refs'[d] = refs[d]
      BY <1>1, <2>2, AssignEffect DEF TypeOK
    <2> QED
      BY <1>2, <2>1, <2>2, <2>3 DEF CheckMessage
  <1> QED
    BY <1>6, <1>7, <1>8

LEMMA AssignKeepsInv ==
    ASSUME ObjectsInv, NEW c, NEW p, <<c, p>> \in todo, Assign(c, p)
    PROVE  ObjectsInv'
    BY AssignKeepsType, AssignKeepsCounts, AssignKeepsTodo, AssignKeepsPending,
       AssignKeepsOwners, AssignKeepsFork DEF ObjectsInv

-----------------------------------------------------------------------------
(* Operations that only say which Refs to set.                             *)

(* A Ref that points somewhere belongs to a live state or a live send.     *)
LEMMA IdleOwners ==
    ASSUME ObjectsInv, todo = {}
    PROVE  /\ \A s \in States \ live : \A c \in CellsOf(s) : refs[c] = NULL
           /\ \A q \in RequestAddrs : obj[q].type # "REQUEST_SSEND" => refs[MsgCell(q)] = NULL
           /\ \A c \in Cells : refs[c] # NULL => refs[c] \in Addrs /\ obj[refs[c]] # Free
           /\ \A a \in Addrs : obj[a] # Free => count[a] # 0
  <1>1. \A c \in Cells : refs[c] # NULL => refs[c] \in Addrs /\ obj[refs[c]] # Free
    BY ZenonT(60) DEF ObjectsInv, TypeOK, CountsAreExact, RefsTo
  <1> QED
    BY <1>1 DEF ObjectsInv, OwnersAreThere, UncountedArePending

LEMMA OnlyTodo ==
    ASSUME ObjectsInv, todo = {}, UNCHANGED <<refs, obj, count, extra, used>>,
           live' \subseteq States, todo' \subseteq Assignment, fork' \in Forking \cup {NULL},
           TodoIsSound', ForkIsSound',
           \A s \in States \ live' : \A c \in CellsOf(s) :
              refs[c] = NULL \/ <<c, NULL>> \in todo',
           \A a \in todo' : a[1] \notin MsgCells
    PROVE  ObjectsInv'
  <1>1. TypeOK'
    BY DEF ObjectsInv, TypeOK
  <1>2. CountsAreExact'
    BY DEF ObjectsInv, CountsAreExact, RefsTo
  <1>3. UncountedArePending'
    BY IdleOwners DEF UncountedArePending
  <1>4. OwnersAreThere'
    <2>1. \A q \in RequestAddrs : MsgCell(q) \in MsgCells
      BY CellKinds
    <2> QED
      BY <2>1, IdleOwners DEF OwnersAreThere
  <1> QED
    BY <1>1, <1>2, <1>3, <1>4 DEF ObjectsInv

(* Letting go of Refs of states.                                           *)
LEMMA ClearIsSound ==
    ASSUME NEW D, D \subseteq DequeCells \cup TableCells,
           todo' = {<<c, NULL>> : c \in D}
    PROVE  /\ TodoIsSound'
           /\ todo' \subseteq Assignment
           /\ \A a \in todo' : a[1] \in D /\ a[1] \notin MsgCells
  <1>1. \A a \in todo' : \E c \in D : a = <<c, NULL>>
    OBVIOUS
  <1>2. \A a \in todo' : a[1] \in D /\ a[2] = NULL /\ a = <<a[1], a[2]>>
    BY <1>1
  <1>3. todo' \subseteq Assignment
    BY <1>1, AssignmentTypes
  <1>4. TodoIsSound'
    BY <1>2 DEF TodoIsSound
  <1> QED
    BY <1>2, <1>3, <1>4, CellOwners

LEMMA ClearSlotsCells ==
    ASSUME NEW s \in States, NEW ids \in SUBSET Slots
    PROVE  /\ ClearSlots(s, ids) = {<<c, NULL>> : c \in {TableCell(s, i) : i \in ids}}
           /\ {TableCell(s, i) : i \in ids} \subseteq DequeCells \cup TableCells
           /\ {TableCell(s, i) : i \in ids} \subseteq CellsOf(s)
    BY CellKinds DEF ClearSlots

LEMMA FastRunWaitKeepsInv ==
    ASSUME ObjectsInv, Idle, NEW s \in live, NEW active \in SUBSET Slots,
           FastRunWait(s, active)
    PROVE  ObjectsInv'
  <1>1. s \in States /\ live \subseteq States
    BY DEF ObjectsInv, TypeOK
  <1>2. todo' = {<<c, NULL>> : c \in {TableCell(s, i) : i \in active}}
    BY <1>1, ClearSlotsCells DEF FastRunWait
  <1>3. TodoIsSound' /\ todo' \subseteq Assignment /\ \A a \in todo' : a[1] \notin MsgCells
    BY <1>1, <1>2, ClearSlotsCells, ClearIsSound
  <1>4. todo = {} /\ fork = NULL /\ UNCHANGED <<refs, obj, count, extra, used, live, fork>>
    BY DEF Idle, FastRunWait
  <1>5. ForkIsSound' /\ fork' \in Forking \cup {NULL}
    BY <1>4 DEF ForkIsSound
  <1>6. \A t \in States \ live' : \A c \in CellsOf(t) : refs[c] = NULL \/ <<c, NULL>> \in todo'
    BY <1>4, IdleOwners
  <1> QED
    BY <1>1, <1>3, <1>4, <1>5, <1>6, OnlyTodo

LEMMA DeleteStateKeepsInv ==
    ASSUME ObjectsInv, Idle, NEW s \in live, DeleteState(s)
    PROVE  ObjectsInv'
  <1>1. s \in States /\ live \subseteq States
    BY DEF ObjectsInv, TypeOK
  <1> DEFINE D == {TableCell(s, i) : i \in UsedSlots(s)} \cup
                  {DequeCell(s, k) : k \in UsedPlaces(s)}
  <1>2. D \subseteq DequeCells \cup TableCells
    BY <1>1, CellKinds DEF UsedSlots, UsedPlaces
  <1>3. todo' = {<<c, NULL>> : c \in D}
    BY DEF DeleteState, ClearSlots
  <1>4. todo = {} /\ fork = NULL /\ UNCHANGED <<refs, obj, count, extra, used, fork>>
        /\ live' = live \ {s}
    BY DEF Idle, DeleteState
  <1>5. ForkIsSound' /\ fork' \in Forking \cup {NULL}
    BY <1>4 DEF ForkIsSound
  <1>6. \A t \in States \ live' : \A c \in CellsOf(t) : refs[c] = NULL \/ <<c, NULL>> \in todo'
    <2>1. ASSUME NEW c \in CellsOf(s), refs[c] # NULL PROVE c \in D
      BY <1>1, <2>1 DEF CellsOf, UsedSlots, UsedPlaces, TableCell, DequeCell, RequestAt
    <2>2. \A c \in CellsOf(s) : refs[c] = NULL \/ <<c, NULL>> \in todo'
      BY <1>3, <2>1
    <2> QED
      BY <1>4, <2>2, IdleOwners
  <1> HIDE DEF D
  <1>7. TodoIsSound' /\ todo' \subseteq Assignment /\ \A a \in todo' : a[1] \notin MsgCells
    BY <1>2, <1>3, ClearIsSound
  <1> QED
    BY <1>1, <1>4, <1>5, <1>6, <1>7, OnlyTodo

(* The Refs of a new copy are filled.                                      *)
LEMMA CopyRefsSound ==
    ASSUME ObjectsInv, todo = {}, NEW s \in live, NEW t \in States \ live,
           todo' = CopyRefs(s, t), live' = live \cup {t},
           UNCHANGED <<refs, obj>>
    PROVE  /\ TodoIsSound'
           /\ todo' \subseteq Assignment
           /\ \A a \in todo' : a[1] \notin MsgCells /\ a[1] \in CellsOf(t)
  <1>1. s \in States /\ TypeOK
    BY DEF ObjectsInv, TypeOK
  <1>2. ASSUME NEW a \in todo'
        PROVE  /\ \/ \E k \in Places : a = <<DequeCell(t, k), refs[DequeCell(s, k)]>>
                                        /\ refs[DequeCell(s, k)] # NULL
                  \/ \E i \in Slots : a = <<TableCell(t, i), refs[TableCell(s, i)]>>
                                       /\ refs[TableCell(s, i)] # NULL
    BY DEF CopyRefs, UsedPlaces, UsedSlots, RequestAt
  <1>3. ASSUME NEW a \in todo'
        PROVE  /\ a \in Assignment /\ a[1] \notin MsgCells /\ a[1] \in CellsOf(t)
               /\ a[2] # NULL /\ obj[a[2]] # Free /\ refs[a[1]] = NULL
    <2>1. CASE \E k \in Places : a = <<DequeCell(t, k), refs[DequeCell(s, k)]>>
                                  /\ refs[DequeCell(s, k)] # NULL
      <3>1. PICK k \in Places : a = <<DequeCell(t, k), refs[DequeCell(s, k)]>>
                                  /\ refs[DequeCell(s, k)] # NULL
        BY <2>1
      <3>2. DequeCell(s, k) \in DequeCells /\ DequeCell(s, k) \in Cells
            /\ DequeCell(t, k) \in DequeCells /\ DequeCell(t, k) \in CellsOf(t)
        BY <1>1, CellKinds
      <3>3. refs[DequeCell(s, k)] \in MessageAddrs
        <4>1. <<DequeCell(s, k), refs[DequeCell(s, k)]>> \in Assignment
          BY <1>1, <3>2 DEF TypeOK
        <4> QED
          BY <3>1, <3>2, <4>1, AssignmentTypes
      <3> QED
        BY <3>1, <3>2, <3>3, IdleOwners, AssignmentTypes, CellOwners
    <2>2. CASE \E i \in Slots : a = <<TableCell(t, i), refs[TableCell(s, i)]>>
                                 /\ refs[TableCell(s, i)] # NULL
      <3>1. PICK i \in Slots : a = <<TableCell(t, i), refs[TableCell(s, i)]>>
                                 /\ refs[TableCell(s, i)] # NULL
        BY <2>2
      <3>2. TableCell(s, i) \in TableCells /\ TableCell(s, i) \in Cells
            /\ TableCell(t, i) \in TableCells /\ TableCell(t, i) \in CellsOf(t)
        BY <1>1, CellKinds
      <3>3. refs[TableCell(s, i)] \in RequestAddrs
        <4>1. <<TableCell(s, i), refs[TableCell(s, i)]>> \in Assignment
          BY <1>1, <3>2 DEF TypeOK
        <4> QED
          BY <3>1, <3>2, <4>1, AssignmentTypes
      <3> QED
        BY <3>1, <3>2, <3>3, IdleOwners, AssignmentTypes, CellOwners
    <2> QED
      BY <1>2, <2>1, <2>2
  <1>4. ASSUME NEW a \in todo', NEW b \in todo', a[1] = b[1]
        PROVE  a = b
    <2>1. \A k \in Places, i \in Slots : DequeCell(t, k) # TableCell(t, i)
      BY <1>1, CellKinds, CellOwners
    <2>2. /\ \A i, j \in Slots : TableCell(t, i) = TableCell(t, j) => i = j
          /\ \A i, j \in Places : DequeCell(t, i) = DequeCell(t, j) => i = j
      BY CellOwners
    <2>3. CASE \E k \in Places : a = <<DequeCell(t, k), refs[DequeCell(s, k)]>>
      BY <1>2, <1>4, <2>1, <2>2, <2>3
    <2>4. CASE \E i \in Slots : a = <<TableCell(t, i), refs[TableCell(s, i)]>>
      BY <1>2, <1>4, <2>1, <2>2, <2>4
    <2> QED
      BY <1>2, <2>3, <2>4
  <1>5. ASSUME NEW a \in todo', NEW r \in States, a[1] \in CellsOf(r)
        PROVE  r \in live'
    BY <1>3, <1>5, CellKinds
  <1>6. TodoIsSound'
    BY <1>3, <1>4, <1>5 DEF TodoIsSound
  <1> QED
    BY <1>3, <1>6

LEMMA CopyStateKeepsInv ==
    ASSUME ObjectsInv, Idle, NEW s \in live, NEW t \in States \ live, CopyState(s, t)
    PROVE  ObjectsInv'
  <1>1. /\ todo = {} /\ fork = NULL /\ UNCHANGED <<refs, obj, count, extra, used, fork>>
        /\ live' = live \cup {t} /\ todo' = CopyRefs(s, t)
    BY DEF Idle, CopyState
  <1>2. TodoIsSound' /\ todo' \subseteq Assignment /\ \A a \in todo' : a[1] \notin MsgCells
    BY <1>1, CopyRefsSound
  <1>3. ForkIsSound' /\ fork' \in Forking \cup {NULL}
    BY <1>1 DEF ForkIsSound
  <1>4. live' \subseteq States
    BY <1>1 DEF ObjectsInv, TypeOK
  <1>5. \A r \in States \ live' : \A c \in CellsOf(r) : refs[c] = NULL \/ <<c, NULL>> \in todo'
    BY <1>1, IdleOwners
  <1> QED
    BY <1>1, <1>2, <1>3, <1>4, <1>5, OnlyTodo

LEMMA ForkStateKeepsInv ==
    ASSUME ObjectsInv, Idle, NEW s \in live, NEW t \in States \ live,
           NEW active \in SUBSET Slots, NEW f \in SUBSET (Slots \X MessageAddrs),
           ForkState(s, t, active, f)
    PROVE  ObjectsInv'
  <1>1. /\ todo = {} /\ UNCHANGED <<refs, obj, count, extra, used>>
        /\ live' = live \cup {t} /\ todo' = CopyRefs(s, t)
        /\ fork' = [from |-> s, to |-> t, active |-> active, todo |-> f, taken |-> NULL]
        /\ \A x \in f : IsPendingRecv(s, x[1]) /\ CheckMessage(s, x[2])
    BY DEF Idle, ForkState, IsMatching
  <1>2. TodoIsSound' /\ todo' \subseteq Assignment
        /\ \A a \in todo' : a[1] \notin MsgCells /\ a[1] \in CellsOf(t)
    BY <1>1, CopyRefsSound
  <1>3. live \subseteq States /\ live' \subseteq States /\ s \in States
    BY <1>1 DEF ObjectsInv, TypeOK
  <1>4. fork' \in Forking
    BY <1>1, <1>3 DEF Forking
  <1>5. ForkIsSound'
    <2>1. /\ fork'.from = s /\ fork'.to = t /\ fork'.todo = f /\ fork'.taken = NULL
      BY <1>1
    <2>2. \A x \in f : IsPendingRecv(s, x[1])' /\ CheckMessage(s, x[2])'
      BY <1>1 DEF IsPendingRecv, RequestAt, CheckMessage
    <2>3. \A a \in todo' : a[1] \notin CellsOf(s)
      BY <1>2, <1>3, CellKinds
    <2> QED
      BY <1>1, <2>1, <2>2, <2>3 DEF ForkIsSound
  <1>6. \A r \in States \ live' : \A c \in CellsOf(r) : refs[c] = NULL \/ <<c, NULL>> \in todo'
    BY <1>1, IdleOwners
  <1> QED
    BY <1>1, <1>2, <1>3, <1>4, <1>5, <1>6, OnlyTodo

LEMMA TakeMessageKeepsInv ==
    ASSUME ObjectsInv, InFork, NEW i \in Slots, NEW m \in MessageAddrs, NEW k \in Places,
           TakeMessage(i, m, k)
    PROVE  ObjectsInv'
  <1>1. /\ todo = {} /\ fork # NULL /\ UNCHANGED <<live, refs, obj, count, extra, used>>
        /\ <<i, m>> \in fork.todo
        /\ todo' = {<<DequeCell(fork.to, k), NULL>>}
        /\ fork' = [fork EXCEPT !.todo = @ \ {<<i, m>>}, !.taken = <<i, m>>]
    BY DEF InFork, TakeMessage
  <1>2. fork \in Forking /\ live \subseteq States /\ ForkIsSound
    BY <1>1 DEF ObjectsInv, TypeOK
  <1>3. fork' \in Forking
    BY <1>1, <1>2 DEF Forking
  <1>4. PICK t \in States : t = fork.to
    BY <1>2 DEF Forking
  <1>5. PICK s \in States : s = fork.from /\ s # t
    BY <1>1, <1>2, <1>4 DEF ForkIsSound, Forking
  <1>6. DequeCell(t, k) \in DequeCells /\ DequeCell(t, k) \notin CellsOf(s)
    BY <1>5, CellKinds
  <1>7. todo' = {<<c, NULL>> : c \in {DequeCell(t, k)}}
    BY <1>1, <1>4
  <1>8. /\ TodoIsSound' /\ todo' \subseteq Assignment
        /\ \A a \in todo' : a[1] \in {DequeCell(t, k)} /\ a[1] \notin MsgCells
    BY <1>6, <1>7, ClearIsSound
  <1>9. ForkIsSound'
    <2>1. /\ fork'.from = s /\ fork'.to = t /\ fork'.todo \subseteq fork.todo
          /\ fork'.taken = <<i, m>>
      BY <1>1, <1>2, <1>4, <1>5 DEF Forking
    <2>2. \A x \in fork.todo : IsPendingRecv(s, x[1])' /\ CheckMessage(s, x[2])'
      BY <1>1, <1>2, <1>5 DEF ForkIsSound, IsPendingRecv, RequestAt, CheckMessage
    <2>3. IsPendingRecv(s, i)' /\ CheckMessage(s, m)'
      BY <1>1, <2>2
    <2>4. \A a \in todo' : a[1] \notin CellsOf(s)
      BY <1>6, <1>8
    <2> QED
      BY <1>1, <1>2, <1>4, <1>5, <2>1, <2>2, <2>3, <2>4 DEF ForkIsSound
  <1>10. \A r \in States \ live' : \A c \in CellsOf(r) : refs[c] = NULL \/ <<c, NULL>> \in todo'
    BY <1>1, IdleOwners
  <1> QED
    BY <1>1, <1>2, <1>3, <1>8, <1>9, <1>10, OnlyTodo

LEMMA CopyDataKeepsInv ==
    ASSUME ObjectsInv, InFork, CopyData
    PROVE  ObjectsInv'
  <1>1. /\ todo = {} /\ fork # NULL /\ UNCHANGED <<live, refs, obj, count, extra, todo, used>>
        /\ fork' = [fork EXCEPT !.taken = NULL]
    BY DEF InFork, CopyData
  <1>2. fork \in Forking /\ live \subseteq States /\ ForkIsSound
    BY <1>1 DEF ObjectsInv, TypeOK
  <1>3. fork' \in Forking
    BY <1>1, <1>2 DEF Forking
  <1>4. ForkIsSound'
    <2>1. /\ fork'.from = fork.from /\ fork'.to = fork.to /\ fork'.todo = fork.todo
          /\ fork'.taken = NULL
      BY <1>1, <1>2 DEF Forking
    <2> QED
      BY <1>1, <1>2, <2>1 DEF ForkIsSound, IsPendingRecv, RequestAt, CheckMessage
  <1>5. TodoIsSound' /\ todo' \subseteq Assignment /\ \A a \in todo' : a[1] \notin MsgCells
    BY <1>1 DEF TodoIsSound
  <1>6. \A r \in States \ live' : \A c \in CellsOf(r) : refs[c] = NULL \/ <<c, NULL>> \in todo'
    BY <1>1, IdleOwners
  <1> QED
    BY <1>1, <1>2, <1>3, <1>4, <1>5, <1>6, OnlyTodo

LEMMA FinishForkKeepsInv ==
    ASSUME ObjectsInv, InFork, FinishFork
    PROVE  ObjectsInv'
  <1>1. /\ todo = {} /\ fork # NULL /\ UNCHANGED <<live, refs, obj, count, extra, used>>
        /\ fork' = NULL /\ todo' = ClearSlots(fork.to, fork.active)
    BY DEF InFork, FinishFork
  <1>2. fork \in Forking /\ live \subseteq States
    BY <1>1 DEF ObjectsInv, TypeOK
  <1>3. PICK t \in States : t = fork.to
    BY <1>2 DEF Forking
  <1>4. PICK active \in SUBSET Slots : active = fork.active
    BY <1>2 DEF Forking
  <1>5. todo' = {<<c, NULL>> : c \in {TableCell(t, i) : i \in active}}
    BY <1>1, <1>3, <1>4, ClearSlotsCells
  <1>6. TodoIsSound' /\ todo' \subseteq Assignment /\ \A a \in todo' : a[1] \notin MsgCells
    BY <1>5, ClearSlotsCells, ClearIsSound
  <1>7. ForkIsSound'
    BY <1>1 DEF ForkIsSound
  <1>8. \A r \in States \ live' : \A c \in CellsOf(r) : refs[c] = NULL \/ <<c, NULL>> \in todo'
    BY <1>1, IdleOwners
  <1> QED
    BY <1>1, <1>2, <1>6, <1>7, <1>8, OnlyTodo

-----------------------------------------------------------------------------
(* Operations that make objects.                                           *)

(* New objects have no Ref yet, and the operation is about to give them    *)
(* one.                                                                    *)
LEMMA OnlyNew ==
    ASSUME ObjectsInv, todo = {}, UNCHANGED <<live, refs>>,
           NEW N, N \subseteq Addrs,
           \A a \in N : /\ obj[a] = Free /\ obj'[a] # Free
                        /\ count'[a] = extra'[a]
                        /\ extra'[a] > 0 => obj'[a].type = "REQUEST_RECV_COMPLETED"
                        /\ \E b \in todo' : b[2] = a,
           \A a \in Addrs \ N : /\ obj'[a] = obj[a]
                                /\ count'[a] = count[a] /\ extra'[a] = extra[a],
           TypeOK', TodoIsSound', ForkIsSound',
           \A q \in RequestAddrs : \A b \in todo' :
              b[1] = MsgCell(q) => obj'[q].type = "REQUEST_SSEND"
    PROVE  ObjectsInv'
  <1>1. CountsAreExact'
    <2> SUFFICES ASSUME NEW a \in Addrs
                 PROVE  /\ obj'[a] # Free => count'[a] = Cardinality(RefsTo(a)') + extra'[a]
                        /\ obj'[a] = Free => RefsTo(a)' = {}
                        /\ obj'[a] # Free /\ extra'[a] > 0
                              => obj'[a].type = "REQUEST_RECV_COMPLETED"
      BY DEF CountsAreExact
    <2>1. RefsTo(a)' = RefsTo(a)
      BY DEF RefsTo
    <2>2. CASE a \in N
      <3>1. RefsTo(a) = {}
        BY <2>2 DEF ObjectsInv, CountsAreExact
      <3>2. Cardinality(RefsTo(a)) = 0
        BY <3>1, CountedRefs
      <3>3. extra'[a] \in Nat
        BY DEF TypeOK
      <3> QED
        BY <2>1, <2>2, <3>1, <3>2, <3>3
    <2>3. CASE a \notin N
      BY <2>1, <2>3 DEF ObjectsInv, CountsAreExact
    <2> QED
      BY <2>2, <2>3
  <1>2. UncountedArePending'
    BY IdleOwners DEF UncountedArePending
  <1>3. OwnersAreThere'
    <2>1. \A q \in RequestAddrs : obj'[q].type # "REQUEST_SSEND" =>
              obj[q].type # "REQUEST_SSEND"
      BY DEF Addrs, Free
    <2>2. \A q \in RequestAddrs : obj'[q].type # "REQUEST_SSEND" => refs[MsgCell(q)] = NULL
      BY <2>1, IdleOwners
    <2> QED
      BY <2>2, IdleOwners DEF OwnersAreThere
  <1> QED
    BY <1>1, <1>2, <1>3 DEF ObjectsInv

LEMMA IsendKeepsInv ==
    ASSUME ObjectsInv, Idle, NEW s \in live, NEW k \in Places, NEW i \in Slots,
           NEW m \in MessageAddrs, NEW q \in RequestAddrs, NEW n \in Names,
           Isend(s, k, i, m, q, n)
    PROVE  ObjectsInv'
  <1>1. /\ todo = {} /\ fork = NULL /\ UNCHANGED <<live, refs, fork>>
        /\ refs[DequeCell(s, k)] = NULL /\ refs[TableCell(s, i)] = NULL
        /\ obj[m] = Free /\ obj[q] = Free
        /\ obj' = [obj EXCEPT ![m] = [type |-> "MESSAGE", name |-> n],
                              ![q] = [type |-> "REQUEST_SSEND", name |-> n]]
        /\ count' = [count EXCEPT ![m] = 0, ![q] = 0]
        /\ extra' = [extra EXCEPT ![m] = 0, ![q] = 0]
        /\ todo' = {<<DequeCell(s, k), m>>, <<MsgCell(q), m>>, <<TableCell(s, i), q>>}
        /\ used' = used \cup {n}
    BY DEF Idle, Isend
  <1>2. TypeOK /\ s \in States
    BY DEF ObjectsInv, TypeOK
  <1>3. /\ m \in Addrs /\ q \in Addrs /\ m # q /\ m # NULL /\ q # NULL
        /\ m \notin RequestAddrs /\ q \notin MessageAddrs
    BY AddrAssumption DEF Addrs
  <1>4. /\ [type |-> "MESSAGE", name |-> n] \in MessageObject
        /\ [type |-> "REQUEST_SSEND", name |-> n] \in RequestObject
        /\ [type |-> "MESSAGE", name |-> n] # Free
        /\ [type |-> "REQUEST_SSEND", name |-> n] # Free
    BY DEF MessageObject, RequestObject, Free
  <1>5. /\ obj' \in [Addrs -> MessageObject \cup RequestObject \cup {Free}]
        /\ obj'[m] = [type |-> "MESSAGE", name |-> n]
        /\ obj'[q] = [type |-> "REQUEST_SSEND", name |-> n]
        /\ \A a \in Addrs \ {m, q} : obj'[a] = obj[a]
    BY <1>1, <1>2, <1>3, <1>4 DEF TypeOK
  <1>6. /\ count' \in [Addrs -> Nat] /\ extra' \in [Addrs -> Nat]
        /\ count'[m] = 0 /\ count'[q] = 0 /\ extra'[m] = 0 /\ extra'[q] = 0
        /\ \A a \in Addrs \ {m, q} : count'[a] = count[a] /\ extra'[a] = extra[a]
    BY <1>1, <1>2, <1>3 DEF TypeOK
  <1>7. /\ DequeCell(s, k) \in DequeCells /\ TableCell(s, i) \in TableCells
        /\ MsgCell(q) \in MsgCells /\ MsgCell(q) \in Cells
        /\ DequeCell(s, k) \in CellsOf(s) /\ TableCell(s, i) \in CellsOf(s)
        /\ DequeCell(s, k) # MsgCell(q) /\ DequeCell(s, k) # TableCell(s, i)
        /\ MsgCell(q) # TableCell(s, i)
    BY <1>2, CellKinds, CellOwners
  <1>8. todo' \subseteq Assignment
    BY <1>1, <1>7, AssignmentTypes
  <1>9. TypeOK'
    <2>1. \A a \in Addrs : obj'[a] # Free => (obj'[a].type = "MESSAGE" <=> a \in MessageAddrs)
      BY <1>2, <1>3, <1>5 DEF TypeOK
    <2> QED
      BY <1>1, <1>2, <1>5, <1>6, <1>8, <2>1 DEF TypeOK
  <1>10. TodoIsSound'
    <2>1. \A a \in todo' : /\ a[2] \in {m, q} /\ a[2] # NULL /\ obj'[a[2]] # Free
      BY <1>1, <1>3, <1>4, <1>5
    <2>2. refs[MsgCell(q)] = NULL
      BY <1>1, IdleOwners DEF Free
    <2>3. \A a \in todo' : refs[a[1]] = NULL
      BY <1>1, <2>2
    <2>4. \A a, b \in todo' : a[1] = b[1] => a = b
      BY <1>1, <1>7
    <2>5. \A a \in todo' : a[1] \in CellsOf(s) \/ a[1] = MsgCell(q)
      BY <1>1, <1>7
    <2>6. \A a \in todo', r \in States : a[1] \in CellsOf(r) => r \in live
      BY <1>2, <2>5, CellKinds
    <2> QED
      BY <1>1, <2>1, <2>3, <2>4, <2>6 DEF TodoIsSound
  <1>11. ForkIsSound'
    BY <1>1 DEF ForkIsSound
  <1>12. ASSUME NEW r \in RequestAddrs, NEW b \in todo', b[1] = MsgCell(r)
         PROVE  obj'[r].type = "REQUEST_SSEND"
    <2>1. MsgCell(r) \in MsgCells
      BY CellKinds
    <2>2. b[1] # DequeCell(s, k) /\ b[1] # TableCell(s, i)
      BY <1>7, <1>12, <2>1, CellOwners
    <2>3. b[1] = MsgCell(q)
      BY <1>1, <2>2
    <2>4. r = q
      BY <1>12, <2>3, CellOwners
    <2> QED
      BY <1>5, <2>4
  <1>13. \A a \in {m, q} : \E b \in todo' : b[2] = a
    BY <1>1
  <1>14. PICK N : N = {m, q}
    OBVIOUS
  <1>15. /\ N \subseteq Addrs
         /\ \A a \in N : /\ obj[a] = Free /\ obj'[a] # Free
                         /\ count'[a] = extra'[a]
                         /\ extra'[a] > 0 => obj'[a].type = "REQUEST_RECV_COMPLETED"
                         /\ \E b \in todo' : b[2] = a
         /\ \A a \in Addrs \ N : /\ obj'[a] = obj[a]
                                 /\ count'[a] = count[a] /\ extra'[a] = extra[a]
    BY <1>1, <1>3, <1>4, <1>5, <1>6, <1>13, <1>14
  <1>16. UNCHANGED <<live, refs>>
    BY <1>1
  <1>17. ObjectsInv /\ todo = {}
    BY <1>1
  <1> QED
    BY ONLY <1>9, <1>10, <1>11, <1>12, <1>15, <1>16, <1>17, OnlyNew, SMTT(60)

LEMMA IrecvKeepsInv ==
    ASSUME ObjectsInv, Idle, NEW s \in live, NEW i \in Slots,
           NEW q \in RequestAddrs, NEW n \in Names,
           Irecv(s, i, q, n)
    PROVE  ObjectsInv'
  <1>1. /\ todo = {} /\ fork = NULL /\ UNCHANGED <<live, refs, fork>>
        /\ refs[TableCell(s, i)] = NULL /\ obj[q] = Free
        /\ obj' = [obj EXCEPT ![q] = [type |-> "REQUEST_RECV", name |-> n]]
        /\ count' = [count EXCEPT ![q] = 0]
        /\ extra' = [extra EXCEPT ![q] = 0]
        /\ todo' = {<<TableCell(s, i), q>>}
        /\ used' = used \cup {n}
    BY DEF Idle, Irecv, New
  <1>2. TypeOK /\ s \in States
    BY DEF ObjectsInv, TypeOK
  <1>3. q \in Addrs /\ q # NULL /\ q \notin MessageAddrs
    BY AddrAssumption DEF Addrs
  <1>4. /\ [type |-> "REQUEST_RECV", name |-> n] \in RequestObject
        /\ [type |-> "REQUEST_RECV", name |-> n] # Free
    BY DEF RequestObject, Free
  <1>5. /\ obj' \in [Addrs -> MessageObject \cup RequestObject \cup {Free}]
        /\ obj'[q] = [type |-> "REQUEST_RECV", name |-> n]
        /\ \A a \in Addrs \ {q} : obj'[a] = obj[a]
    BY <1>1, <1>2, <1>3, <1>4 DEF TypeOK
  <1>6. /\ count' \in [Addrs -> Nat] /\ extra' \in [Addrs -> Nat]
        /\ count'[q] = 0 /\ extra'[q] = 0
        /\ \A a \in Addrs \ {q} : count'[a] = count[a] /\ extra'[a] = extra[a]
    BY <1>1, <1>2, <1>3 DEF TypeOK
  <1>7. TableCell(s, i) \in TableCells /\ TableCell(s, i) \in CellsOf(s)
    BY <1>2, CellKinds
  <1>8. todo' \subseteq Assignment
    BY <1>1, <1>7, AssignmentTypes
  <1>9. TypeOK'
    <2>1. \A a \in Addrs : obj'[a] # Free => (obj'[a].type = "MESSAGE" <=> a \in MessageAddrs)
      BY <1>2, <1>3, <1>5 DEF TypeOK
    <2> QED
      BY <1>1, <1>2, <1>5, <1>6, <1>8, <2>1 DEF TypeOK
  <1>10. TodoIsSound'
    <2>1. \A a \in todo' : a = <<TableCell(s, i), q>> /\ a[1] = TableCell(s, i) /\ a[2] = q
      BY <1>1
    <2>2. \A r \in States : TableCell(s, i) \in CellsOf(r) => r \in live
      BY <1>2, <1>7, CellKinds
    <2> QED
      BY <1>1, <1>3, <1>4, <1>5, <2>1, <2>2 DEF TodoIsSound
  <1>11. ForkIsSound'
    BY <1>1 DEF ForkIsSound
  <1>12. \A r \in RequestAddrs : \A b \in todo' : b[1] # MsgCell(r)
    <2>1. \A r \in RequestAddrs : MsgCell(r) # TableCell(s, i)
      BY <1>7, CellKinds, CellOwners
    <2> QED
      BY <1>1, <2>1
  <1>13. \E b \in todo' : b[2] = q
    BY <1>1
  <1>14. PICK N : N = {q}
    OBVIOUS
  <1>15. /\ N \subseteq Addrs
         /\ \A a \in N : /\ obj[a] = Free /\ obj'[a] # Free
                         /\ count'[a] = extra'[a]
                         /\ extra'[a] > 0 => obj'[a].type = "REQUEST_RECV_COMPLETED"
                         /\ \E b \in todo' : b[2] = a
         /\ \A a \in Addrs \ N : /\ obj'[a] = obj[a]
                                 /\ count'[a] = count[a] /\ extra'[a] = extra[a]
    BY <1>1, <1>3, <1>4, <1>5, <1>6, <1>13, <1>14
  <1>16. UNCHANGED <<live, refs>>
    BY <1>1
  <1> QED
    BY <1>1, <1>9, <1>10, <1>11, <1>12, <1>15, <1>16, OnlyNew

LEMMA CompleteRecvKeepsInv ==
    ASSUME ObjectsInv, InFork, NEW q \in RequestAddrs, NEW j \in Slots, CompleteRecv(q, j)
    PROVE  ObjectsInv'
  <1>1. fork # NULL /\ todo = {} /\ fork.taken # NULL
    BY DEF InFork, CompleteRecv
  <1>2. TypeOK /\ ForkIsSound /\ fork \in Forking
    BY <1>1 DEF ObjectsInv, TypeOK
  <1>3. PICK s \in States, t \in States, i \in Slots :
            /\ s = fork.from /\ t = fork.to /\ i = fork.taken[1]
            /\ s \in live /\ t \in live /\ s # t
    BY <1>1, <1>2 DEF ForkIsSound, Forking, TypeOK
  <1>4. IsPendingRecv(s, i)
    BY <1>1, <1>2, <1>3 DEF ForkIsSound
  <1>5. PICK R : R = refs[TableCell(s, i)]
    OBVIOUS
  <1>6. /\ obj[q] = Free
        /\ obj' = [obj EXCEPT ![q] = [obj[R] EXCEPT !.type = "REQUEST_RECV_COMPLETED"]]
        /\ count' = [count EXCEPT ![q] = count[R]]
        /\ extra' = [extra EXCEPT ![q] = count[R]]
        /\ refs[TableCell(t, j)] = R
        /\ todo' = {<<TableCell(t, j), q>>}
        /\ fork' = [fork EXCEPT !.taken = NULL]
        /\ UNCHANGED <<live, refs, used>>
    BY <1>3, <1>5 DEF CompleteRecv, New, RequestAt
  <1>7. TableCell(s, i) \in TableCells /\ TableCell(s, i) \in Cells
        /\ TableCell(t, j) \in TableCells /\ TableCell(t, j) \in CellsOf(t)
    BY CellKinds
  <1>8. R \in RequestAddrs /\ R \in Addrs /\ R # NULL /\ obj[R].type = "REQUEST_RECV"
    <2>1. <<TableCell(s, i), R>> \in Assignment
      BY <1>2, <1>5, <1>7 DEF TypeOK
    <2>2. R # NULL /\ obj[R].type = "REQUEST_RECV"
      BY <1>4, <1>5 DEF IsPendingRecv, RequestAt
    <2> QED
      BY <1>7, <2>1, <2>2, AssignmentTypes DEF Addrs
  <1>9. PICK o : o = [obj[R] EXCEPT !.type = "REQUEST_RECV_COMPLETED"]
    OBVIOUS
  <1>10. o \in RequestObject /\ o.type = "REQUEST_RECV_COMPLETED" /\ o # Free
    <2>1. obj[R] \in MessageObject \cup RequestObject
      BY <1>2, <1>8 DEF TypeOK, Free
    <2>2. obj[R] \in RequestObject
      BY <1>8, <2>1 DEF MessageObject
    <2> QED
      BY <1>9, <2>2 DEF RequestObject, Free
  <1>11. q \in Addrs /\ q # NULL /\ q \notin MessageAddrs /\ q # R
    BY <1>6, <1>8, AddrAssumption DEF Addrs, Free
  <1>12. /\ obj' \in [Addrs -> MessageObject \cup RequestObject \cup {Free}]
         /\ obj'[q] = o
         /\ \A a \in Addrs \ {q} : obj'[a] = obj[a]
    BY <1>2, <1>6, <1>9, <1>10, <1>11 DEF TypeOK
  <1>13. /\ count' \in [Addrs -> Nat] /\ extra' \in [Addrs -> Nat]
         /\ count'[q] = extra'[q]
         /\ \A a \in Addrs \ {q} : count'[a] = count[a] /\ extra'[a] = extra[a]
    BY <1>2, <1>6, <1>8, <1>11 DEF TypeOK
  <1>14. /\ fork' \in Forking /\ fork'.from = s /\ fork'.to = t
         /\ fork'.todo = fork.todo /\ fork'.taken = NULL
    BY <1>2, <1>3, <1>6 DEF Forking
  <1>15. \A a \in todo' : a = <<TableCell(t, j), q>> /\ a[1] = TableCell(t, j) /\ a[2] = q
    BY <1>6
  <1>16. TypeOK'
    <2>1. \A a \in Addrs : obj'[a] # Free => (obj'[a].type = "MESSAGE" <=> a \in MessageAddrs)
      BY <1>2, <1>10, <1>11, <1>12 DEF TypeOK
    <2>2. todo' \subseteq Assignment
      BY <1>7, <1>15, AssignmentTypes
    <2> QED
      BY <1>2, <1>6, <1>12, <1>13, <1>14, <2>1, <2>2 DEF TypeOK
  <1>17. TodoIsSound'
    <2>1. \A r \in States : TableCell(t, j) \in CellsOf(r) => r \in live
      BY <1>3, <1>7, CellKinds
    <2> QED
      BY <1>6, <1>10, <1>11, <1>12, <1>15, <2>1 DEF TodoIsSound
  <1>18. ForkIsSound'
    <2>1. \A a \in todo' : a[1] \notin CellsOf(s)
      BY <1>3, <1>7, <1>15, CellKinds
    <2>2. \A x \in fork.todo : x[1] \in Slots /\ CheckMessage(s, x[2])
      BY <1>1, <1>2, <1>3 DEF Forking, ForkIsSound
    <2>3. ASSUME NEW h \in Slots, IsPendingRecv(s, h) PROVE IsPendingRecv(s, h)'
      <3>1. TableCell(s, h) \in Cells
        BY CellKinds
      <3>2. refs[TableCell(s, h)] \in Addrs /\ refs[TableCell(s, h)] # q
        BY <1>2, <1>6, <2>3, <3>1 DEF TypeOK, IsPendingRecv, RequestAt, Free
      <3> QED
        BY <1>6, <1>12, <2>3, <3>2 DEF IsPendingRecv, RequestAt
    <2>4. \A x \in fork.todo : IsPendingRecv(s, x[1])' /\ CheckMessage(s, x[2])'
      BY <1>1, <1>2, <1>3, <1>6, <2>2, <2>3 DEF ForkIsSound, CheckMessage
    <2> QED
      BY <1>3, <1>6, <1>14, <2>1, <2>4 DEF ForkIsSound
  <1>19. \A r \in RequestAddrs : \A b \in todo' : b[1] # MsgCell(r)
    <2>1. \A r \in RequestAddrs : MsgCell(r) # TableCell(t, j)
      BY <1>7, CellKinds, CellOwners
    <2> QED
      BY <1>15, <2>1
  <1>20. \E b \in todo' : b[2] = q
    BY <1>6
  <1>21. PICK N : N = {q}
    OBVIOUS
  <1>22. /\ N \subseteq Addrs
         /\ \A a \in N : /\ obj[a] = Free /\ obj'[a] # Free
                         /\ count'[a] = extra'[a]
                         /\ extra'[a] > 0 => obj'[a].type = "REQUEST_RECV_COMPLETED"
                         /\ \E b \in todo' : b[2] = a
         /\ \A a \in Addrs \ N : /\ obj'[a] = obj[a]
                                 /\ count'[a] = count[a] /\ extra'[a] = extra[a]
    BY <1>6, <1>10, <1>11, <1>12, <1>13, <1>20, <1>21
  <1>23. UNCHANGED <<live, refs>>
    BY <1>6
  <1> QED
    BY <1>1, <1>16, <1>17, <1>18, <1>19, <1>22, <1>23, OnlyNew

-----------------------------------------------------------------------------
LEMMA InitInv == Init => ObjectsInv
  <1> SUFFICES ASSUME Init PROVE ObjectsInv
    OBVIOUS
  <1>1. /\ live \subseteq States /\ refs = [c \in Cells |-> NULL]
        /\ obj = [a \in Addrs |-> Free] /\ count = [a \in Addrs |-> 0]
        /\ extra = [a \in Addrs |-> 0] /\ todo = {} /\ fork = NULL /\ used = {}
    BY DEF Init
  <1>2. \A c \in Cells : <<c, refs[c]>> \in Assignment
    BY <1>1 DEF Assignment, Cells
  <1>3. TypeOK
    BY <1>1, <1>2 DEF TypeOK
  <1>4. CountsAreExact
    <2>1. NULL \notin Addrs
      BY AddrAssumption DEF Addrs
    <2>2. \A a \in Addrs : RefsTo(a) = {}
      BY <1>1, <2>1 DEF RefsTo
    <2> QED
      BY <1>1, <2>2 DEF CountsAreExact
  <1>5. TodoIsSound /\ UncountedArePending /\ ForkIsSound
    BY <1>1 DEF TodoIsSound, UncountedArePending, ForkIsSound
  <1>6. OwnersAreThere
    <2>1. \A q \in RequestAddrs : refs[MsgCell(q)] = NULL
      BY <1>1, CellKinds
    <2>2. \A s \in States : \A c \in CellsOf(s) : refs[c] = NULL
      BY <1>1, CellKinds
    <2> QED
      BY <1>1, <2>1, <2>2 DEF OwnersAreThere
  <1> QED
    BY <1>3, <1>4, <1>5, <1>6 DEF ObjectsInv

LEMMA NextInv == ObjectsInv /\ [Next]_vars => ObjectsInv'
  <1> SUFFICES ASSUME ObjectsInv, [Next]_vars PROVE ObjectsInv'
    OBVIOUS
  <1>1. CASE \E a \in todo : Assign(a[1], a[2])
    <2>1. PICK a \in todo : Assign(a[1], a[2])
      BY <1>1
    <2>2. a = <<a[1], a[2]>>
      BY AssignmentTypes DEF ObjectsInv, TypeOK
    <2> QED
      BY <2>1, <2>2, AssignKeepsInv
  <1>2. CASE Idle /\ \E s \in live : CallStep(s) \/ ExplorerStep(s)
    <2>1. PICK s \in live : CallStep(s) \/ ExplorerStep(s)
      BY <1>2
    <2>2. CASE CallStep(s)
      BY <1>2, <2>2, IsendKeepsInv, IrecvKeepsInv DEF CallStep
    <2>3. CASE ExplorerStep(s)
      BY <1>2, <2>3, FastRunWaitKeepsInv, CopyStateKeepsInv, ForkStateKeepsInv,
         DeleteStateKeepsInv DEF ExplorerStep
    <2> QED
      BY <2>1, <2>2, <2>3
  <1>3. CASE InFork /\ ForkStep
    BY <1>3, TakeMessageKeepsInv, CopyDataKeepsInv, CompleteRecvKeepsInv,
       FinishForkKeepsInv DEF ForkStep
  <1>4. CASE UNCHANGED vars
    <2>1. /\ live' = live /\ refs' = refs /\ obj' = obj /\ count' = count
          /\ extra' = extra /\ todo' = todo /\ fork' = fork /\ used' = used
      BY <1>4 DEF vars
    <2>2. TypeOK' /\ CountsAreExact'
      <3>1. ASSUME NEW a PROVE RefsTo(a)' = RefsTo(a)
        BY <2>1 DEF RefsTo
      <3>2. TypeOK'
        BY <2>1 DEF ObjectsInv, TypeOK
      <3> QED
        BY <2>1, <3>1, <3>2 DEF ObjectsInv, CountsAreExact
    <2>3. TodoIsSound' /\ UncountedArePending' /\ OwnersAreThere'
      BY <2>1 DEF ObjectsInv, TodoIsSound, UncountedArePending, OwnersAreThere
    <2>4. ForkIsSound'
      BY <2>1 DEF ObjectsInv, ForkIsSound, IsPendingRecv, RequestAt, CheckMessage
    <2> QED
      BY <2>2, <2>3, <2>4 DEF ObjectsInv
  <1> QED
    BY <1>1, <1>2, <1>3, <1>4 DEF Next

(* Whoever holds a Ref is there, what a Ref points to is there, and nobody *)
(* else is counted, in every state, for any number of objects.             *)
THEOREM ObjectsInvariant == Spec => []ObjectsInv
  <1> QED
    BY InitInv, NextInv, PTL DEF Spec

(* Counts are exact after every change of a Ref: no object of MPI_Isend or *)
(* MPI_Irecv is deleted early, twice, or used after its deletion.          *)
THEOREM CountsStayExact == Spec => []CountsAreExact
  <1>1. ObjectsInv => CountsAreExact
    BY DEF ObjectsInv
  <1> QED
    BY <1>1, ObjectsInvariant, PTL

(* Only completed receives leak.                                           *)
LEMMA NothingElseLeaks == ObjectsInv => OnlyCompletedRecvsLeak
  <1> SUFFICES ASSUME ObjectsInv, todo = {}, fork = NULL, NEW a \in Addrs,
                      obj[a] # Free, obj[a].type # "REQUEST_RECV_COMPLETED"
               PROVE  \E s \in live : SeenIn(s, a)
    BY DEF OnlyCompletedRecvsLeak
  <1>1. ASSUME NEW b \in Addrs, obj[b] # Free, obj[b].type # "REQUEST_RECV_COMPLETED"
        PROVE  \E c \in Cells : refs[c] = b
    <2>1. count[b] # 0 /\ count[b] = Cardinality(RefsTo(b)) + extra[b] /\ ~ extra[b] > 0
      BY <1>1, IdleOwners DEF ObjectsInv, CountsAreExact
    <2>2. extra[b] \in Nat
      BY DEF ObjectsInv, TypeOK
    <2>3. RefsTo(b) # {}
      BY <2>1, <2>2, CountedRefs
    <2> QED
      BY <2>3 DEF RefsTo
  <1>2. ASSUME NEW s \in States, NEW c \in CellsOf(s), refs[c] # NULL
        PROVE  s \in live
    BY <1>2, IdleOwners
  <1>3. ASSUME NEW b \in Addrs, NEW c \in TableCells \cup DequeCells, refs[c] = b
        PROVE  \E s \in live : \/ CheckMessage(s, b)
                               \/ \E i \in Slots : RequestAt(s, i) = b
    <2>1. b # NULL
      BY AddrAssumption DEF Addrs
    <2>2. CASE c \in TableCells
      <3>1. PICK s \in States, i \in Slots : c = TableCell(s, i)
        BY <2>2, CellOwners
      <3>2. s \in live
        BY <1>2, <1>3, <2>1, <3>1, CellKinds
      <3> QED
        BY <1>3, <3>1, <3>2 DEF RequestAt
    <2>3. CASE c \in DequeCells
      <3>1. PICK s \in States, k \in Places : c = DequeCell(s, k)
        BY <2>3, CellOwners
      <3>2. s \in live
        BY <1>2, <1>3, <2>1, <3>1, CellKinds
      <3> QED
        BY <1>3, <3>1, <3>2 DEF CheckMessage
    <2> QED
      BY <1>3, <2>2, <2>3
  <1>4. PICK c \in Cells : refs[c] = a
    BY <1>1
  <1>5. CASE c \in TableCells \cup DequeCells
    BY <1>3, <1>4, <1>5 DEF SeenIn
  <1>6. CASE c \in MsgCells
    <2>1. PICK q \in RequestAddrs : c = MsgCell(q)
      BY <1>6, CellOwners
    <2>2. a # NULL
      BY AddrAssumption DEF Addrs
    <2>3. q \in Addrs /\ q # NULL /\ obj[q].type = "REQUEST_SSEND"
      BY <1>4, <2>1, <2>2, IdleOwners, AddrAssumption DEF Addrs
    <2>4. PICK d \in Cells : refs[d] = q
      BY <1>1, <2>3 DEF Free
    <2>5. d \in TableCells
      <3>1. <<d, q>> \in Assignment
        BY <2>4 DEF ObjectsInv, TypeOK
      <3>2. d \notin DequeCells \cup MsgCells
        BY <2>3, <3>1, AssignmentTypes, AddrAssumption
      <3> QED
        BY <3>2 DEF Cells
    <2>6. PICK s \in States, i \in Slots : d = TableCell(s, i)
      BY <2>5, CellOwners
    <2>7. s \in live
      BY <1>2, <2>3, <2>4, <2>6, CellKinds
    <2> QED
      BY <1>4, <2>1, <2>3, <2>4, <2>6, <2>7 DEF SeenIn, RequestAt
  <1> QED
    BY <1>4, <1>5, <1>6 DEF Cells

(* Only completed receives leak, whatever the operations and their order.  *)
THEOREM NothingElseLeaksEver == Spec => []OnlyCompletedRecvsLeak
  <1> QED
    BY NothingElseLeaks, ObjectsInvariant, PTL

-----------------------------------------------------------------------------
(* States of shared objects behave as values.                              *)

(* What every Ref points to when the operation at work is over.            *)
Targets == [c \in Cells |-> Target(c)]

(* TargetIn, RequestIn and StateIn are Target, RequestValue and StateValue *)
(* of any Refs to set T, Refs r, objects o and targets t.                  *)
TargetIn(T, r, c) ==
    IF \E a \in T : a[1] = c THEN (CHOOSE a \in T : a[1] = c)[2] ELSE r[c]

RequestIn(o, t, q) ==
    IF q = NULL THEN NULL
    ELSE [type |-> o[q].type, name |-> o[q].name,
          msg |-> IF t[MsgCell(q)] = NULL THEN NULL ELSE o[t[MsgCell(q)]].name]

MessagesIn(t, s) == {t[DequeCell(s, k)] : k \in Places} \ {NULL}

StateIn(o, t, s) ==
    [messages |-> {o[m].name : m \in MessagesIn(t, s)},
     table |-> [i \in Slots |-> RequestIn(o, t, t[TableCell(s, i)])]]

LEMMA TargetOfCell ==
    ASSUME NEW T, NEW r, \A a, b \in T : a[1] = b[1] => a = b
    PROVE  /\ \A b \in T : TargetIn(T, r, b[1]) = b[2]
           /\ \A c : (\A b \in T : b[1] # c) => TargetIn(T, r, c) = r[c]
    BY DEF TargetIn

(* A Ref that is to be set points to that, the others stay.                *)
LEMMA TargetsOf ==
    ASSUME TodoIsSound
    PROVE  /\ DOMAIN Targets = Cells
           /\ \A c \in Cells : Targets[c] = Target(c)
           /\ \A b \in todo : b[1] \in Cells => Targets[b[1]] = b[2]
           /\ \A c \in Cells : (\A b \in todo : b[1] # c) => Targets[c] = refs[c]
  <1>1. \A c : Target(c) = TargetIn(todo, refs, c)
    BY DEF Target, TargetIn
  <1>2. \A a, b \in todo : a[1] = b[1] => a = b
    BY DEF TodoIsSound
  <1> QED
    BY <1>1, <1>2, TargetOfCell DEF Targets

(* State predicates of their own, for the prover to prime.                 *)
TargetsKnown ==
    /\ \A b \in todo : b[1] \in Cells => Targets[b[1]] = b[2]
    /\ \A c \in Cells : (\A b \in todo : b[1] # c) => Targets[c] = refs[c]

LEMMA TargetsAreKnown ==
    /\ TodoIsSound => TargetsKnown
    /\ TodoIsSound' => TargetsKnown'
  <1>1. TodoIsSound => TargetsKnown
    BY TargetsOf DEF TargetsKnown
  <1> QED
    BY <1>1, PTL

(* The contents of a state are those of its targets.                       *)
LEMMA StateValueIsStateIn ==
    ASSUME NEW s \in States, \A c \in Cells : Targets[c] = Target(c),
           \A c \in TableCells : Targets[c] \in RequestAddrs \cup {NULL}
    PROVE  StateValue(s) = StateIn(obj, Targets, s)
  <1>1. \A k \in Places : Target(DequeCell(s, k)) = Targets[DequeCell(s, k)]
    BY CellKinds
  <1>2. \A i \in Slots : /\ Target(TableCell(s, i)) = Targets[TableCell(s, i)]
                         /\ Targets[TableCell(s, i)] \in RequestAddrs \cup {NULL}
    BY CellKinds
  <1>3. \A q \in RequestAddrs \cup {NULL} : RequestValue(q) = RequestIn(obj, Targets, q)
    BY CellKinds DEF RequestValue, RequestIn
  <1>4. \A i \in Slots : RequestValue(Target(TableCell(s, i))) =
                            RequestIn(obj, Targets, Targets[TableCell(s, i)])
    BY <1>2, <1>3
  <1>5. {obj[m].name : m \in {Target(DequeCell(s, k)) : k \in Places} \ {NULL}} =
           {obj[m].name : m \in MessagesIn(Targets, s)}
    BY <1>1 DEF MessagesIn
  <1> QED
    BY <1>4, <1>5 DEF StateValue, StateIn

(* Objects o and targets t as they are found in the live states L, with    *)
(* the names U given out.                                                  *)
Sound(L, o, t, U) ==
    /\ t \in [Cells -> Addrs \cup {NULL}]
    /\ \A c \in DequeCells \cup MsgCells : t[c] \in MessageAddrs \cup {NULL}
    /\ \A c \in TableCells : t[c] \in RequestAddrs \cup {NULL}
    /\ \A c \in Cells : t[c] # NULL => o[t[c]] # Free
    /\ \A m \in MessageAddrs : o[m] # Free => o[m] \in MessageObject
    /\ \A q \in RequestAddrs : o[q] # Free => o[q] \in RequestObject
    /\ \A s \in States \ L : \A c \in CellsOf(s) : t[c] = NULL
    /\ \A q \in RequestAddrs : o[q].type # "REQUEST_SSEND" => t[MsgCell(q)] = NULL
    /\ \A a \in Addrs : o[a] # Free => o[a].name \in U
    /\ \A m, n \in MessageAddrs : o[m] # Free /\ o[n] # Free /\ o[m].name = o[n].name => m = n

LEMMA ObjectKinds ==
    TypeOK => /\ \A m \in MessageAddrs : obj[m] # Free => obj[m] \in MessageObject
              /\ \A q \in RequestAddrs : obj[q] # Free => obj[q] \in RequestObject
  <1> SUFFICES ASSUME TypeOK
               PROVE  /\ \A m \in MessageAddrs : obj[m] # Free => obj[m] \in MessageObject
                      /\ \A q \in RequestAddrs : obj[q] # Free => obj[q] \in RequestObject
    OBVIOUS
  <1>1. \A a \in Addrs : obj[a] # Free =>
           /\ obj[a] \in MessageObject \cup RequestObject
           /\ obj[a].type = "MESSAGE" <=> a \in MessageAddrs
    BY DEF TypeOK
  <1>2. \A o \in MessageObject : o.type = "MESSAGE"
    BY DEF MessageObject
  <1>3. \A o \in RequestObject : o.type # "MESSAGE"
    BY DEF RequestObject
  <1>4. MessageAddrs \subseteq Addrs /\ RequestAddrs \subseteq Addrs
        /\ MessageAddrs \cap RequestAddrs = {}
    BY AddrAssumption DEF Addrs
  <1> QED
    BY <1>1, <1>2, <1>3, <1>4

LEMMA StatesAreSound ==
    ASSUME ObjectsInv, NamesAreDistinct
    PROVE  Sound(live, obj, Targets, used)
  <1>1. TypeOK /\ TodoIsSound /\ CountsAreExact /\ OwnersAreThere
    BY DEF ObjectsInv
  <1>2. \A c \in Cells : <<c, refs[c]>> \in Assignment
    BY <1>1 DEF TypeOK
  <1>3. \A b \in todo : b \in Assignment /\ b = <<b[1], b[2]>> /\ b[1] \in Cells
    BY <1>1, AssignmentTypes DEF TypeOK
  <1>4. \A c \in Cells : (\E b \in todo : b[1] = c /\ Targets[c] = b[2]) \/ Targets[c] = refs[c]
    BY <1>1, <1>3, TargetsOf
  <1>5. \A c \in Cells : <<c, Targets[c]>> \in Assignment
    BY <1>2, <1>3, <1>4
  <1>6. /\ \A c \in DequeCells \cup MsgCells : Targets[c] \in MessageAddrs \cup {NULL}
        /\ \A c \in TableCells : Targets[c] \in RequestAddrs \cup {NULL}
    BY <1>5, AssignmentTypes, CellKinds
  <1>7. Targets \in [Cells -> Addrs \cup {NULL}]
    <2>1. Targets = [c \in Cells |-> Targets[c]]
      BY DEF Targets
    <2>2. \A c \in Cells : Targets[c] \in Addrs \cup {NULL}
      BY <1>6 DEF Cells, Addrs
    <2> QED
      BY <2>1, <2>2
  <1>8. \A c \in Cells : Targets[c] # NULL => obj[Targets[c]] # Free
    <2> SUFFICES ASSUME NEW c \in Cells, Targets[c] # NULL PROVE obj[Targets[c]] # Free
      OBVIOUS
    <2>1. CASE \E b \in todo : b[1] = c /\ Targets[c] = b[2]
      BY <1>1, <2>1 DEF TodoIsSound
    <2>2. CASE Targets[c] = refs[c]
      <3>1. PICK a \in Addrs : a = refs[c]
        BY <1>7, <2>2
      <3> QED
        BY <1>1, <2>2, <3>1 DEF CountsAreExact, RefsTo
    <2> QED
      BY <1>4, <2>1, <2>2
  <1>9. \A s \in States \ live : \A c \in CellsOf(s) : Targets[c] = NULL
    <2> SUFFICES ASSUME NEW s \in States \ live, NEW c \in CellsOf(s) PROVE Targets[c] = NULL
      OBVIOUS
    <2>1. c \in Cells
      BY CellKinds
    <2>2. ASSUME NEW b \in todo, b[1] = c PROVE b[2] = NULL
      BY <1>1, <2>2 DEF TodoIsSound
    <2>3. refs[c] = NULL \/ <<c, NULL>> \in todo
      BY <1>1 DEF OwnersAreThere
    <2>4. <<c, NULL>> \in todo => Targets[c] = NULL
      BY <1>1, <2>1, TargetsOf
    <2> QED
      BY <1>4, <2>1, <2>2, <2>3, <2>4
  <1>10. ASSUME NEW q \in RequestAddrs, obj[q].type # "REQUEST_SSEND"
         PROVE  Targets[MsgCell(q)] = NULL
    <2>1. MsgCell(q) \in Cells
      BY CellKinds
    <2>2. refs[MsgCell(q)] = NULL \/ <<MsgCell(q), NULL>> \in todo
      BY <1>1, <1>10 DEF OwnersAreThere
    <2>3. \A b \in todo : b[1] = MsgCell(q) => b[2] = NULL
      BY <1>1, <1>10 DEF OwnersAreThere
    <2>4. <<MsgCell(q), NULL>> \in todo => Targets[MsgCell(q)] = NULL
      BY <1>1, <2>1, TargetsOf
    <2> QED
      BY <1>4, <2>1, <2>2, <2>3, <2>4
  <1> QED
    BY <1>1, <1>6, <1>7, <1>8, <1>9, <1>10, ObjectKinds DEF Sound, NamesAreDistinct

(* What the explorer means by the program states.                          *)
Values == [s \in States |-> IF s \in live THEN StateValue(s) ELSE NULL]

ValuesIn(L, o, t) == [s \in States |-> IF s \in L THEN StateIn(o, t, s) ELSE NULL]

StatesSound == Sound(live, obj, Targets, used) /\ Values = ValuesIn(live, obj, Targets)

LEMMA StatesSoundNow == ObjectsInv /\ NamesAreDistinct => StatesSound
  <1> SUFFICES ASSUME ObjectsInv, NamesAreDistinct PROVE StatesSound
    OBVIOUS
  <1>1. Sound(live, obj, Targets, used)
    BY StatesAreSound
  <1>2. \A c \in Cells : Targets[c] = Target(c)
    BY DEF Targets
  <1>3. \A s \in States : StateValue(s) = StateIn(obj, Targets, s)
    BY <1>1, <1>2, StateValueIsStateIn DEF Sound
  <1> QED
    BY <1>1, <1>3 DEF StatesSound, Values, ValuesIn

LEMMA StatesSoundNext == ObjectsInv' /\ NamesAreDistinct' => StatesSound'
  BY StatesSoundNow, PTL

-----------------------------------------------------------------------------
(* The contents of states, by themselves.                                  *)

LEMMA StatesHaveContents ==
    ASSUME NEW L, NEW o, NEW t, NEW U, U \subseteq Names, Sound(L, o, t, U), NEW s \in States
    PROVE  /\ StateIn(o, t, s) \in Value!Contents
           /\ StateIn(o, t, s) # NULL
           /\ \A i \in Slots : t[TableCell(s, i)] # NULL <=> StateIn(o, t, s).table[i] # NULL
           /\ \A i \in Slots : StateIn(o, t, s).table[i] = RequestIn(o, t, t[TableCell(s, i)])
  <1>1. \A q \in RequestAddrs \cup {NULL} : t[MsgCell(q)] # NULL /\ q # NULL =>
           o[t[MsgCell(q)]].name \in Names
    <2> SUFFICES ASSUME NEW q \in RequestAddrs, t[MsgCell(q)] # NULL
                 PROVE  o[t[MsgCell(q)]].name \in Names
      OBVIOUS
    <2>1. MsgCell(q) \in MsgCells /\ MsgCell(q) \in Cells
      BY CellKinds
    <2>2. t[MsgCell(q)] \in MessageAddrs /\ o[t[MsgCell(q)]] # Free
      BY <2>1 DEF Sound
    <2> QED
      BY <2>2 DEF Sound, Addrs
  <1>2. ASSUME NEW q \in RequestAddrs, o[q] # Free
        PROVE  RequestIn(o, t, q) \in Value!Request /\ RequestIn(o, t, q) # NULL
    <2>1. q # NULL /\ o[q] \in RequestObject
      BY <1>2, AddrAssumption DEF Sound
    <2>2. PICK m \in Names \cup {NULL} :
             m = (IF t[MsgCell(q)] = NULL THEN NULL ELSE o[t[MsgCell(q)]].name)
      BY <1>1, <2>1
    <2>3. RequestIn(o, t, q) = [type |-> o[q].type, name |-> o[q].name, msg |-> m]
      BY <2>1, <2>2 DEF RequestIn
    <2>4. /\ o[q].type \in {"REQUEST_SSEND", "REQUEST_RECV", "REQUEST_RECV_COMPLETED"}
          /\ o[q].name \in Names
      BY <2>1 DEF RequestObject
    <2>5. RequestIn(o, t, q) \in Value!Request
      BY <2>3, <2>4 DEF Value!Request
    <2> QED
      BY <2>5, ValuesAssumption
  <1>3. ASSUME NEW i \in Slots
        PROVE  /\ RequestIn(o, t, t[TableCell(s, i)]) \in Value!Request \cup {NULL}
               /\ t[TableCell(s, i)] # NULL <=> RequestIn(o, t, t[TableCell(s, i)]) # NULL
    <2>1. PICK q \in RequestAddrs \cup {NULL} : q = t[TableCell(s, i)] /\ (q # NULL => o[q] # Free)
      BY CellKinds DEF Sound
    <2>2. CASE q = NULL
      BY <2>1, <2>2 DEF RequestIn
    <2>3. CASE q # NULL
      BY <1>2, <2>1, <2>3
    <2> QED
      BY <2>2, <2>3
  <1>4. \A m \in MessagesIn(t, s) : o[m].name \in Names
    <2> SUFFICES ASSUME NEW k \in Places, NEW m, m = t[DequeCell(s, k)], m # NULL
                 PROVE  o[m].name \in Names
      BY DEF MessagesIn
    <2>1. m \in MessageAddrs /\ o[m] # Free
      BY CellKinds DEF Sound
    <2> QED
      BY <2>1 DEF Sound, Addrs
  <1>5. StateIn(o, t, s) \in Value!Contents
    <2>1. {o[m].name : m \in MessagesIn(t, s)} \in SUBSET Names
      BY <1>4
    <2>2. [i \in Slots |-> RequestIn(o, t, t[TableCell(s, i)])] \in [Slots -> Value!Request \cup {NULL}]
      BY <1>3
    <2> QED
      BY <2>1, <2>2 DEF StateIn, Value!Contents
  <1>6. \A i \in Slots : StateIn(o, t, s).table[i] = RequestIn(o, t, t[TableCell(s, i)])
    BY DEF StateIn
  <1>7. StateIn(o, t, s) # NULL
    BY <1>5, ValuesAssumption
  <1> QED
    BY <1>3, <1>5, <1>6, <1>7

(* From objects o and targets t to p and u, only the objects of N change,  *)
(* and nothing was one of them.                                            *)
Unaffected(o, t, p, u, N) ==
    /\ \A a \in Addrs \ N : p[a] = o[a]
    /\ \A q \in RequestAddrs \ N : u[MsgCell(q)] = t[MsgCell(q)]
    /\ \A c \in Cells : t[c] \notin N

LEMMA RequestStays ==
    ASSUME NEW L, NEW o, NEW t, NEW p, NEW u, NEW U, NEW N, Sound(L, o, t, U),
           Unaffected(o, t, p, u, N), NEW q \in RequestAddrs \cup {NULL}, q \notin N
    PROVE  RequestIn(p, u, q) = RequestIn(o, t, q)
  <1>1. CASE q = NULL
    BY <1>1 DEF RequestIn
  <1>2. CASE q # NULL
    <2>1. q \in Addrs \ N /\ MsgCell(q) \in Cells
      BY <1>2, CellKinds DEF Addrs
    <2>2. PICK m : m = t[MsgCell(q)]
      OBVIOUS
    <2>3. m \in Addrs \cup {NULL} /\ m \notin N
      BY <2>1, <2>2 DEF Sound, Unaffected
    <2>4. u[MsgCell(q)] = m /\ p[q] = o[q]
      BY <1>2, <2>1, <2>2 DEF Unaffected
    <2>5. m # NULL => p[m] = o[m]
      BY <2>3 DEF Unaffected
    <2> QED
      BY <1>2, <2>2, <2>4, <2>5 DEF RequestIn
  <1> QED
    BY <1>1, <1>2

LEMMA MessagesStay ==
    ASSUME NEW L, NEW o, NEW t, NEW p, NEW u, NEW U, NEW N, Sound(L, o, t, U),
           Unaffected(o, t, p, u, N), NEW s \in States
    PROVE  \A m \in MessagesIn(t, s) : m \in MessageAddrs /\ m \notin N /\ p[m] = o[m] /\ o[m] # Free
  <1> SUFFICES ASSUME NEW k \in Places, NEW m, m = t[DequeCell(s, k)], m # NULL
               PROVE  m \in MessageAddrs /\ m \notin N /\ p[m] = o[m] /\ o[m] # Free
    BY DEF MessagesIn
  <1>1. m \in MessageAddrs /\ o[m] # Free
    BY CellKinds DEF Sound
  <1>2. m \notin N
    BY CellKinds DEF Unaffected
  <1> QED
    BY <1>1, <1>2 DEF Unaffected, Addrs

LEMMA StateStays ==
    ASSUME NEW L, NEW o, NEW t, NEW p, NEW u, NEW U, NEW N, Sound(L, o, t, U),
           Unaffected(o, t, p, u, N), NEW s \in States, \A c \in CellsOf(s) : u[c] = t[c]
    PROVE  StateIn(p, u, s) = StateIn(o, t, s)
  <1>1. MessagesIn(u, s) = MessagesIn(t, s)
    BY CellKinds DEF MessagesIn
  <1>2. {p[m].name : m \in MessagesIn(t, s)} = {o[m].name : m \in MessagesIn(t, s)}
    BY MessagesStay
  <1>3. ASSUME NEW i \in Slots
        PROVE  RequestIn(p, u, u[TableCell(s, i)]) = RequestIn(o, t, t[TableCell(s, i)])
    <2>1. PICK q \in RequestAddrs \cup {NULL} : q = t[TableCell(s, i)] /\ q \notin N
      BY CellKinds DEF Sound, Unaffected
    <2>2. u[TableCell(s, i)] = q
      BY <2>1, CellKinds
    <2> QED
      BY <2>1, <2>2, RequestStays
  <1> QED
    BY <1>1, <1>2, <1>3 DEF StateIn

(* The other states stay what they are.                                    *)
OthersStay(L, M, t, u, s) ==
    \A x \in States : x # s => /\ x \in M <=> x \in L
                               /\ \A c \in CellsOf(x) : u[c] = t[c]

LEMMA OneValueChanges ==
    ASSUME NEW L, NEW M, NEW o, NEW t, NEW p, NEW u, NEW U, NEW N, Sound(L, o, t, U),
           Unaffected(o, t, p, u, N), NEW s \in States, OthersStay(L, M, t, u, s), NEW z,
           z = IF s \in M THEN StateIn(p, u, s) ELSE NULL
    PROVE  ValuesIn(M, p, u) = [ValuesIn(L, o, t) EXCEPT ![s] = z]
  <1>1. \A x \in States : x # s =>
           (x \in M <=> x \in L) /\ StateIn(p, u, x) = StateIn(o, t, x)
    BY StateStays DEF OthersStay
  <1> QED
    BY <1>1 DEF ValuesIn

(* Operations on the table and the messages of one state.                  *)
WithContents(v, s, ms, T) == [v EXCEPT ![s] = [messages |-> ms, table |-> T]]
WithTable(v, s, T) == [v EXCEPT ![s].table = T]
WithMessages(v, s, ms) == [v EXCEPT ![s].messages = ms]
WithSlot(v, s, i, R) == [v EXCEPT ![s].table[i] = R]
WithSlotAndMessages(v, s, i, R, ms) == [v EXCEPT ![s].table[i] = R, ![s].messages = ms]

LEMMA TableChanges ==
    ASSUME NEW v \in [States -> Value!Contents \cup {NULL}], NEW s \in States, v[s] # NULL,
           NEW T
    PROVE  WithTable(v, s, T) = WithContents(v, s, v[s].messages, T)
  <1>1. PICK y \in Value!Contents : y = v[s]
    OBVIOUS
  <1>2. y = [messages |-> y.messages, table |-> y.table]
    BY DEF Value!Contents
  <1>3. ASSUME NEW A, NEW B
        PROVE  [[messages |-> A, table |-> B] EXCEPT !.table = T] = [messages |-> A, table |-> T]
    OBVIOUS
  <1>4. [y EXCEPT !.table = T] = [messages |-> y.messages, table |-> T]
    BY ONLY <1>2, <1>3
  <1>5. [v EXCEPT ![s].table = T] = [v EXCEPT ![s] = [y EXCEPT !.table = T]]
    BY <1>1
  <1> QED
    BY ONLY <1>1, <1>4, <1>5 DEF WithTable, WithContents

LEMMA MessagesChange ==
    ASSUME NEW v \in [States -> Value!Contents \cup {NULL}], NEW s \in States, v[s] # NULL,
           NEW ms
    PROVE  WithMessages(v, s, ms) = WithContents(v, s, ms, v[s].table)
  <1>1. PICK y \in Value!Contents : y = v[s]
    OBVIOUS
  <1>2. y = [messages |-> y.messages, table |-> y.table]
    BY DEF Value!Contents
  <1>3. ASSUME NEW A, NEW B
        PROVE  [[messages |-> A, table |-> B] EXCEPT !.messages = ms] = [messages |-> ms, table |-> B]
    OBVIOUS
  <1>4. [y EXCEPT !.messages = ms] = [messages |-> ms, table |-> y.table]
    BY ONLY <1>2, <1>3
  <1>5. [v EXCEPT ![s].messages = ms] = [v EXCEPT ![s] = [y EXCEPT !.messages = ms]]
    BY <1>1
  <1> QED
    BY ONLY <1>1, <1>4, <1>5 DEF WithMessages, WithContents

LEMMA SlotChanges ==
    ASSUME NEW v \in [States -> Value!Contents \cup {NULL}], NEW s \in States, v[s] # NULL,
           NEW i \in Slots, NEW R
    PROVE  WithSlot(v, s, i, R) = WithContents(v, s, v[s].messages, [v[s].table EXCEPT ![i] = R])
  <1>1. PICK T : T = [v[s].table EXCEPT ![i] = R]
    OBVIOUS
  <1>2. WithSlot(v, s, i, R) = WithTable(v, s, T)
    BY <1>1 DEF WithSlot, WithTable
  <1>3. WithTable(v, s, T) = WithContents(v, s, v[s].messages, T)
    BY TableChanges
  <1> QED
    BY ONLY <1>1, <1>2, <1>3

LEMMA SlotAndMessagesChange ==
    ASSUME NEW v \in [States -> Value!Contents \cup {NULL}], NEW s \in States, v[s] # NULL,
           NEW i \in Slots, NEW R, NEW ms
    PROVE  WithSlotAndMessages(v, s, i, R, ms) =
              WithContents(v, s, ms, [v[s].table EXCEPT ![i] = R])
  <1>1. PICK T, A : T = [v[s].table EXCEPT ![i] = R] /\ A = v[s].messages
    OBVIOUS
  <1>2. WithSlot(v, s, i, R) = WithContents(v, s, A, T)
    BY <1>1, SlotChanges
  <1>3. WithSlotAndMessages(v, s, i, R, ms) = WithMessages(WithSlot(v, s, i, R), s, ms)
    BY DEF WithSlotAndMessages, WithMessages, WithSlot
  <1>4. WithMessages(WithContents(v, s, A, T), s, ms) =
           [v EXCEPT ![s] = [[messages |-> A, table |-> T] EXCEPT !.messages = ms]]
    BY DEF WithMessages, WithContents
  <1>5. [[messages |-> A, table |-> T] EXCEPT !.messages = ms] = [messages |-> ms, table |-> T]
    OBVIOUS
  <1> QED
    BY ONLY <1>1, <1>2, <1>3, <1>4, <1>5 DEF WithContents

LEMMA ValuesHaveContents ==
    ASSUME NEW L, NEW o, NEW t, NEW U, U \subseteq Names, Sound(L, o, t, U)
    PROVE  /\ ValuesIn(L, o, t) \in [States -> Value!Contents \cup {NULL}]
           /\ \A s \in States : ValuesIn(L, o, t)[s] # NULL <=> s \in L
           /\ \A s \in States : s \in L => ValuesIn(L, o, t)[s] = StateIn(o, t, s)
  <1>1. \A s \in States : StateIn(o, t, s) \in Value!Contents /\ StateIn(o, t, s) # NULL
    BY StatesHaveContents
  <1> QED
    BY <1>1 DEF ValuesIn

(* A state that is copied.                                                 *)
LEMMA CopiedState ==
    ASSUME NEW o, NEW t, NEW u, NEW r \in States, NEW s \in States,
           \A k \in Places : u[DequeCell(s, k)] = t[DequeCell(r, k)],
           \A i \in Slots : u[TableCell(s, i)] = t[TableCell(r, i)],
           \A q \in RequestAddrs : u[MsgCell(q)] = t[MsgCell(q)],
           \A i \in Slots : t[TableCell(r, i)] \in RequestAddrs \cup {NULL}
    PROVE  StateIn(o, u, s) = StateIn(o, t, r)
  <1>1. MessagesIn(u, s) = MessagesIn(t, r)
    BY DEF MessagesIn
  <1>2. \A i \in Slots : RequestIn(o, u, u[TableCell(s, i)]) = RequestIn(o, t, t[TableCell(r, i)])
    BY DEF RequestIn
  <1> QED
    BY <1>1, <1>2 DEF StateIn

-----------------------------------------------------------------------------
(* The operations of StateValues, on values v that become w.               *)

Sends(v, w, s, i, n) ==
    LET R == [type |-> "REQUEST_SSEND", name |-> n, msg |-> n]
    IN  /\ v[s] # NULL /\ v[s].table[i] = NULL
        /\ w = [v EXCEPT ![s].table[i] = R, ![s].messages = v[s].messages \cup {n}]

Receives(v, w, s, i, n) ==
    LET R == [type |-> "REQUEST_RECV", name |-> n, msg |-> NULL]
    IN  /\ v[s] # NULL /\ v[s].table[i] = NULL
        /\ w = [v EXCEPT ![s].table[i] = R]

Copies(v, w, s, t) == v[s] # NULL /\ v[t] = NULL /\ w = [v EXCEPT ![t] = v[s]]

Takes(v, w, s, n) ==
    /\ v[s] # NULL /\ n \in v[s].messages
    /\ w = [v EXCEPT ![s].messages = v[s].messages \ {n}]

Completes(v, w, s, i) ==
    /\ v[s] # NULL /\ v[s].table[i] # NULL /\ v[s].table[i].type = "REQUEST_RECV"
    /\ w = [v EXCEPT ![s].table[i].type = "REQUEST_RECV_COMPLETED"]

Finishes(v, w, s, ids) ==
    /\ v[s] # NULL
    /\ \A i \in ids : /\ v[s].table[i] # NULL
                      /\ v[s].table[i].type = "REQUEST_SSEND" =>
                            v[s].table[i].msg \notin v[s].messages
    /\ w = [v EXCEPT ![s].table = [i \in Slots |-> IF i \in ids THEN NULL ELSE v[s].table[i]]]

Deletes(v, w, s) == v[s] # NULL /\ w = [v EXCEPT ![s] = NULL]

(* MPI_Isend: a message, and a request that holds it.                      *)
LEMMA ValuesAfterSend ==
    ASSUME NEW L, L \subseteq States, NEW o, NEW t, NEW p, NEW u, NEW U, U \subseteq Names,
           Sound(L, o, t, U), NEW s \in L, NEW k \in Places, NEW i \in Slots,
           NEW m \in MessageAddrs, NEW q \in RequestAddrs, NEW n \in Names,
           Unaffected(o, t, p, u, {m, q}), OthersStay(L, L, t, u, s),
           t[DequeCell(s, k)] = NULL, t[TableCell(s, i)] = NULL,
           p[m].name = n, p[q].type = "REQUEST_SSEND", p[q].name = n,
           u[DequeCell(s, k)] = m, u[TableCell(s, i)] = q, u[MsgCell(q)] = m,
           \A h \in Places \ {k} : u[DequeCell(s, h)] = t[DequeCell(s, h)],
           \A j \in Slots \ {i} : u[TableCell(s, j)] = t[TableCell(s, j)]
    PROVE  Sends(ValuesIn(L, o, t), ValuesIn(L, p, u), s, i, n)
  <1> DEFINE v == ValuesIn(L, o, t)
             ms == StateIn(o, t, s).messages \cup {n}
             R == [type |-> "REQUEST_SSEND", name |-> n, msg |-> n]
  <1>1. s \in States /\ m # NULL /\ q # NULL
    BY AddrAssumption
  <1>2. MessagesIn(u, s) = MessagesIn(t, s) \cup {m}
    BY <1>1 DEF MessagesIn
  <1>3. {p[x].name : x \in MessagesIn(u, s)} = ms
    <2>1. \A x \in MessagesIn(t, s) : p[x] = o[x]
      BY <1>1, MessagesStay
    <2> QED
      BY <1>2, <2>1 DEF StateIn
  <1>4. \A j \in Slots : RequestIn(p, u, u[TableCell(s, j)]) =
                            IF j = i THEN R ELSE StateIn(o, t, s).table[j]
    <2>1. RequestIn(p, u, q) = R
      BY <1>1 DEF RequestIn
    <2>2. ASSUME NEW j \in Slots \ {i}
          PROVE  RequestIn(p, u, u[TableCell(s, j)]) = StateIn(o, t, s).table[j]
      <3>1. PICK x \in RequestAddrs \cup {NULL} : x = t[TableCell(s, j)] /\ x \notin {m, q}
        BY <1>1, CellKinds DEF Sound, Unaffected
      <3>2. RequestIn(p, u, x) = RequestIn(o, t, x)
        BY <3>1, RequestStays
      <3> QED
        BY <3>1, <3>2 DEF StateIn
    <2> QED
      BY <2>1, <2>2
  <1>5. StateIn(p, u, s) = [messages |-> ms, table |-> [StateIn(o, t, s).table EXCEPT ![i] = R]]
    <2>1. StateIn(o, t, s).table = [j \in Slots |-> StateIn(o, t, s).table[j]]
      BY DEF StateIn
    <2>2. [j \in Slots |-> RequestIn(p, u, u[TableCell(s, j)])] =
             [StateIn(o, t, s).table EXCEPT ![i] = R]
      BY <1>4, <2>1
    <2> QED
      BY <1>3, <2>2 DEF StateIn
  <1>6. v \in [States -> Value!Contents \cup {NULL}] /\ v[s] # NULL /\ v[s] = StateIn(o, t, s)
    BY <1>1, ValuesHaveContents
  <1>7. v[s].table[i] = NULL
    BY <1>1, <1>6, StatesHaveContents
  <1>8. ValuesIn(L, p, u) = [v EXCEPT ![s] = StateIn(p, u, s)]
    BY <1>1, OneValueChanges
  <1> HIDE DEF v
  <1>9. ValuesIn(L, p, u) = [v EXCEPT ![s].table[i] = R, ![s].messages = v[s].messages \cup {n}]
    <2>1. StateIn(p, u, s) = [messages |-> ms, table |-> [v[s].table EXCEPT ![i] = R]]
      BY <1>5, <1>6
    <2>2. ms = v[s].messages \cup {n}
      BY <1>6
    <2>3. PICK MS, RR : MS = ms /\ RR = R
      OBVIOUS
    <2> HIDE DEF ms, R
    <2>4. WithSlotAndMessages(v, s, i, RR, MS) =
             WithContents(v, s, MS, [v[s].table EXCEPT ![i] = RR])
      BY <1>1, <1>6, SlotAndMessagesChange
    <2> QED
      BY ONLY <1>8, <2>1, <2>2, <2>3, <2>4 DEF WithSlotAndMessages, WithContents
  <1> QED
    BY <1>6, <1>7, <1>9 DEF v, Sends

(* MPI_Irecv: a request.                                                   *)
LEMMA ValuesAfterReceive ==
    ASSUME NEW L, L \subseteq States, NEW o, NEW t, NEW p, NEW u, NEW U, U \subseteq Names,
           Sound(L, o, t, U), NEW s \in L, NEW i \in Slots,
           NEW q \in RequestAddrs, NEW n \in Names,
           Unaffected(o, t, p, u, {q}), OthersStay(L, L, t, u, s),
           t[TableCell(s, i)] = NULL, p[q].type = "REQUEST_RECV", p[q].name = n,
           u[TableCell(s, i)] = q, u[MsgCell(q)] = NULL,
           \A h \in Places : u[DequeCell(s, h)] = t[DequeCell(s, h)],
           \A j \in Slots \ {i} : u[TableCell(s, j)] = t[TableCell(s, j)]
    PROVE  Receives(ValuesIn(L, o, t), ValuesIn(L, p, u), s, i, n)
  <1> DEFINE v == ValuesIn(L, o, t)
             R == [type |-> "REQUEST_RECV", name |-> n, msg |-> NULL]
  <1>1. s \in States /\ q # NULL
    BY AddrAssumption
  <1>2. {p[x].name : x \in MessagesIn(u, s)} = StateIn(o, t, s).messages
    <2>1. \A x \in MessagesIn(t, s) : p[x] = o[x]
      BY <1>1, MessagesStay
    <2>2. MessagesIn(u, s) = MessagesIn(t, s)
      BY DEF MessagesIn
    <2> QED
      BY <2>1, <2>2 DEF StateIn
  <1>3. \A j \in Slots : RequestIn(p, u, u[TableCell(s, j)]) =
                            IF j = i THEN R ELSE StateIn(o, t, s).table[j]
    <2>1. RequestIn(p, u, q) = R
      BY <1>1 DEF RequestIn
    <2>2. ASSUME NEW j \in Slots \ {i}
          PROVE  RequestIn(p, u, u[TableCell(s, j)]) = StateIn(o, t, s).table[j]
      <3>1. PICK x \in RequestAddrs \cup {NULL} : x = t[TableCell(s, j)] /\ x \notin {q}
        BY <1>1, CellKinds DEF Sound, Unaffected
      <3>2. RequestIn(p, u, x) = RequestIn(o, t, x)
        BY <3>1, RequestStays
      <3> QED
        BY <3>1, <3>2 DEF StateIn
    <2> QED
      BY <2>1, <2>2
  <1>4. StateIn(p, u, s) = [messages |-> StateIn(o, t, s).messages,
                            table |-> [StateIn(o, t, s).table EXCEPT ![i] = R]]
    <2>1. StateIn(o, t, s).table = [j \in Slots |-> StateIn(o, t, s).table[j]]
      BY DEF StateIn
    <2>2. [j \in Slots |-> RequestIn(p, u, u[TableCell(s, j)])] =
             [StateIn(o, t, s).table EXCEPT ![i] = R]
      BY <1>3, <2>1
    <2> QED
      BY <1>2, <2>2 DEF StateIn
  <1>5. v \in [States -> Value!Contents \cup {NULL}] /\ v[s] # NULL /\ v[s] = StateIn(o, t, s)
    BY <1>1, ValuesHaveContents
  <1>6. v[s].table[i] = NULL
    BY <1>1, <1>5, StatesHaveContents
  <1>7. ValuesIn(L, p, u) = [v EXCEPT ![s] = StateIn(p, u, s)]
    BY <1>1, OneValueChanges
  <1> HIDE DEF v
  <1>8. ValuesIn(L, p, u) = [v EXCEPT ![s].table[i] = R]
    <2>1. StateIn(p, u, s) = [messages |-> v[s].messages, table |-> [v[s].table EXCEPT ![i] = R]]
      BY <1>4, <1>5
    <2>2. PICK RR : RR = R
      OBVIOUS
    <2> HIDE DEF R
    <2>3. WithSlot(v, s, i, RR) =
             WithContents(v, s, v[s].messages, [v[s].table EXCEPT ![i] = RR])
      BY <1>1, <1>5, SlotChanges
    <2> QED
      BY ONLY <1>7, <2>1, <2>2, <2>3 DEF WithSlot, WithContents
  <1> QED
    BY <1>5, <1>6, <1>8 DEF v, Receives

(* A copy of a state.                                                      *)
LEMMA ValuesAfterCopy ==
    ASSUME NEW L, L \subseteq States, NEW o, NEW t, NEW u, NEW U, U \subseteq Names,
           Sound(L, o, t, U), NEW r \in L, NEW s \in States \ L,
           Unaffected(o, t, o, u, {}), OthersStay(L, L \cup {s}, t, u, s),
           \A k \in Places : u[DequeCell(s, k)] = t[DequeCell(r, k)],
           \A i \in Slots : u[TableCell(s, i)] = t[TableCell(r, i)]
    PROVE  Copies(ValuesIn(L, o, t), ValuesIn(L \cup {s}, o, u), r, s)
  <1>1. r \in States /\ s \in States /\ s \notin L
    OBVIOUS
  <1>2. StateIn(o, u, s) = StateIn(o, t, r)
    <2>1. \A q \in RequestAddrs : u[MsgCell(q)] = t[MsgCell(q)]
      BY DEF Unaffected
    <2>2. \A i \in Slots : t[TableCell(r, i)] \in RequestAddrs \cup {NULL}
      BY CellKinds DEF Sound
    <2> QED
      BY <1>1, <2>1, <2>2, CopiedState
  <1>3. PICK v \in [States -> Value!Contents \cup {NULL}] :
           /\ v = ValuesIn(L, o, t)
           /\ v[r] # NULL /\ v[r] = StateIn(o, t, r) /\ v[s] = NULL
    BY <1>1, ValuesHaveContents
  <1>4. ValuesIn(L \cup {s}, o, u) = [ValuesIn(L, o, t) EXCEPT ![s] = StateIn(o, u, s)]
    BY <1>1, OneValueChanges
  <1> QED
    BY <1>2, <1>3, <1>4 DEF Copies

(* ~ProgramState.                                                          *)
LEMMA ValuesAfterDelete ==
    ASSUME NEW L, L \subseteq States, NEW o, NEW t, NEW u, NEW U, U \subseteq Names,
           Sound(L, o, t, U), NEW s \in L,
           Unaffected(o, t, o, u, {}), OthersStay(L, L \ {s}, t, u, s)
    PROVE  Deletes(ValuesIn(L, o, t), ValuesIn(L \ {s}, o, u), s)
  <1>1. ValuesIn(L, o, t)[s] # NULL
    BY ValuesHaveContents
  <1>2. ValuesIn(L \ {s}, o, u) = [ValuesIn(L, o, t) EXCEPT ![s] = NULL]
    BY OneValueChanges
  <1> QED
    BY <1>1, <1>2 DEF Deletes

(* The names of the messages of a state are those of different messages.   *)
LEMMA NamesOfMessages ==
    ASSUME NEW L, NEW o, NEW t, NEW U, Sound(L, o, t, U), NEW s \in States,
           NEW m \in MessageAddrs, o[m] # Free
    PROVE  o[m].name \in StateIn(o, t, s).messages <=> m \in MessagesIn(t, s)
  <1>1. \A x \in MessagesIn(t, s) : x \in MessageAddrs /\ o[x] # Free
    BY CellKinds DEF MessagesIn, Sound
  <1>2. \A x \in MessagesIn(t, s) : o[x].name = o[m].name => x = m
    BY <1>1 DEF Sound
  <1> QED
    BY <1>2 DEF StateIn

(* removeMessage: the message is in the deque once.                        *)
LEMMA ValuesAfterTake ==
    ASSUME NEW L, L \subseteq States, NEW o, NEW t, NEW u, NEW U, U \subseteq Names,
           Sound(L, o, t, U), NEW s \in L, NEW k \in Places, NEW m \in MessageAddrs,
           Unaffected(o, t, o, u, {}), OthersStay(L, L, t, u, s),
           t[DequeCell(s, k)] = m, u[DequeCell(s, k)] = NULL,
           \A h \in Places \ {k} : t[DequeCell(s, h)] # m /\ u[DequeCell(s, h)] = t[DequeCell(s, h)],
           \A i \in Slots : u[TableCell(s, i)] = t[TableCell(s, i)]
    PROVE  Takes(ValuesIn(L, o, t), ValuesIn(L, o, u), s, o[m].name)
  <1>1. s \in States /\ m # NULL /\ o[m] # Free
    BY AddrAssumption, CellKinds DEF Sound
  <1>2. MessagesIn(u, s) = MessagesIn(t, s) \ {m} /\ m \in MessagesIn(t, s)
    BY <1>1 DEF MessagesIn
  <1>3. {o[x].name : x \in MessagesIn(u, s)} = StateIn(o, t, s).messages \ {o[m].name}
    <2>1. \A x \in MessagesIn(t, s) : x \in MessageAddrs /\ o[x] # Free
      BY <1>1, CellKinds DEF MessagesIn, Sound
    <2>2. \A x \in MessagesIn(t, s) : o[x].name = o[m].name => x = m
      BY <1>1, <2>1 DEF Sound
    <2> QED
      BY <1>2, <2>2 DEF StateIn
  <1>4. \A i \in Slots : RequestIn(o, u, u[TableCell(s, i)]) = RequestIn(o, t, t[TableCell(s, i)])
    <2> SUFFICES ASSUME NEW i \in Slots
                 PROVE  RequestIn(o, u, t[TableCell(s, i)]) = RequestIn(o, t, t[TableCell(s, i)])
      OBVIOUS
    <2>1. PICK q \in RequestAddrs \cup {NULL} : q = t[TableCell(s, i)]
      BY <1>1, CellKinds DEF Sound
    <2>2. RequestIn(o, u, q) = RequestIn(o, t, q)
      BY RequestStays
    <2> QED
      BY <2>1, <2>2
  <1>5. PICK v \in [States -> Value!Contents \cup {NULL}] :
           v = ValuesIn(L, o, t) /\ v[s] # NULL /\ v[s] = StateIn(o, t, s)
    BY <1>1, ValuesHaveContents
  <1>6. PICK ms : ms = v[s].messages \ {o[m].name}
    OBVIOUS
  <1>7. StateIn(o, u, s) = [messages |-> ms, table |-> v[s].table]
    <2>1. v[s].table = [i \in Slots |-> RequestIn(o, t, t[TableCell(s, i)])]
      BY <1>5 DEF StateIn
    <2>2. v[s].table = [i \in Slots |-> RequestIn(o, u, u[TableCell(s, i)])]
      BY <1>4, <2>1
    <2>3. {o[x].name : x \in MessagesIn(u, s)} = ms
      BY <1>3, <1>5, <1>6
    <2> QED
      BY ONLY <2>2, <2>3 DEF StateIn
  <1>8. ValuesIn(L, o, u) = [ValuesIn(L, o, t) EXCEPT ![s] = StateIn(o, u, s)]
    BY <1>1, OneValueChanges
  <1>9. WithMessages(v, s, ms) = WithContents(v, s, ms, v[s].table)
    BY <1>1, <1>5, MessagesChange
  <1>10. ValuesIn(L, o, u) = [v EXCEPT ![s].messages = ms]
    BY ONLY <1>5, <1>7, <1>8, <1>9 DEF WithMessages, WithContents
  <1>11. o[m].name \in v[s].messages
    BY <1>2, <1>5 DEF StateIn
  <1> QED
    BY <1>5, <1>6, <1>10, <1>11 DEF Takes

(* removeRequests: the requests that end are done.                         *)
LEMMA ValuesAfterFinish ==
    ASSUME NEW L, L \subseteq States, NEW o, NEW t, NEW u, NEW U, U \subseteq Names,
           Sound(L, o, t, U), NEW s \in L, NEW ids \in SUBSET Slots,
           Unaffected(o, t, o, u, {}), OthersStay(L, L, t, u, s),
           \A k \in Places : u[DequeCell(s, k)] = t[DequeCell(s, k)],
           \A i \in ids : u[TableCell(s, i)] = NULL,
           \A i \in Slots \ ids : u[TableCell(s, i)] = t[TableCell(s, i)],
           \A i \in ids : \E q \in RequestAddrs :
               /\ t[TableCell(s, i)] = q
               /\ o[q].type = "REQUEST_SSEND" =>
                     \A k \in Places : \/ t[DequeCell(s, k)] = NULL
                                       \/ t[DequeCell(s, k)] # t[MsgCell(q)]
    PROVE  Finishes(ValuesIn(L, o, t), ValuesIn(L, o, u), s, ids)
  <1>1. s \in States
    OBVIOUS
  <1>2. PICK v \in [States -> Value!Contents \cup {NULL}] :
           v = ValuesIn(L, o, t) /\ v[s] # NULL /\ v[s] = StateIn(o, t, s)
    BY <1>1, ValuesHaveContents
  <1>3. v[s].table = [i \in Slots |-> RequestIn(o, t, t[TableCell(s, i)])]
    BY <1>2 DEF StateIn
  <1>4. ASSUME NEW i \in ids
        PROVE  /\ v[s].table[i] # NULL
               /\ v[s].table[i].type = "REQUEST_SSEND" => v[s].table[i].msg \notin v[s].messages
    <2>1. PICK q \in RequestAddrs :
              /\ t[TableCell(s, i)] = q
              /\ o[q].type = "REQUEST_SSEND" =>
                    \A k \in Places : \/ t[DequeCell(s, k)] = NULL
                                      \/ t[DequeCell(s, k)] # t[MsgCell(q)]
      OBVIOUS
    <2>2. q # NULL /\ i \in Slots
      BY AddrAssumption
    <2>3. PICK R : R = v[s].table[i] /\ R = RequestIn(o, t, q)
      BY <1>3, <2>1, <2>2
    <2>4. R # NULL
      BY <1>1, <1>2, <2>1, <2>2, <2>3, StatesHaveContents
    <2>5. R.type = o[q].type
      BY <2>2, <2>3 DEF RequestIn
    <2>6. ASSUME o[q].type = "REQUEST_SSEND" PROVE R.msg \notin v[s].messages
      <3>1. PICK m \in MessageAddrs \cup {NULL} : m = t[MsgCell(q)] /\ (m # NULL => o[m] # Free)
        BY CellKinds DEF Sound
      <3>2. R.msg = IF m = NULL THEN NULL ELSE o[m].name
        BY <2>2, <2>3, <3>1 DEF RequestIn
      <3>3. v[s].messages \subseteq Names
        BY <1>2 DEF Value!Contents
      <3>4. CASE m = NULL
        BY <3>2, <3>3, <3>4, AddrAssumption
      <3>5. CASE m # NULL
        <4>1. m \notin MessagesIn(t, s)
          BY <2>1, <2>6, <3>1, <3>5 DEF MessagesIn
        <4> QED
          BY <1>1, <1>2, <3>1, <3>2, <3>5, <4>1, NamesOfMessages
      <3> QED
        BY <3>4, <3>5
    <2> QED
      BY <2>3, <2>4, <2>5, <2>6
  <1>5. PICK T : T = [i \in Slots |-> IF i \in ids THEN NULL ELSE v[s].table[i]]
    OBVIOUS
  <1>6. StateIn(o, u, s) = [messages |-> v[s].messages, table |-> T]
    <2>1. MessagesIn(u, s) = MessagesIn(t, s)
      BY DEF MessagesIn
    <2>2. ASSUME NEW i \in Slots
          PROVE  RequestIn(o, u, u[TableCell(s, i)]) = T[i]
      <3>1. PICK q \in RequestAddrs \cup {NULL} : q = t[TableCell(s, i)]
        BY <1>1, CellKinds DEF Sound
      <3>2. RequestIn(o, u, q) = RequestIn(o, t, q)
        BY RequestStays
      <3>3. RequestIn(o, u, NULL) = NULL
        BY DEF RequestIn
      <3> QED
        BY <1>3, <1>5, <3>1, <3>2, <3>3
    <2>3. T = [i \in Slots |-> RequestIn(o, u, u[TableCell(s, i)])]
      BY <1>5, <2>2
    <2>4. v[s].messages = {o[x].name : x \in MessagesIn(u, s)}
      BY <1>2, <2>1 DEF StateIn
    <2> QED
      BY ONLY <2>3, <2>4 DEF StateIn
  <1>7. ValuesIn(L, o, u) = [ValuesIn(L, o, t) EXCEPT ![s] = StateIn(o, u, s)]
    BY <1>1, OneValueChanges
  <1>8. WithTable(v, s, T) = WithContents(v, s, v[s].messages, T)
    BY <1>1, <1>2, TableChanges
  <1>9. ValuesIn(L, o, u) = [v EXCEPT ![s].table = T]
    BY ONLY <1>2, <1>6, <1>7, <1>8 DEF WithTable, WithContents
  <1> QED
    BY <1>2, <1>4, <1>5, <1>9 DEF Finishes

(* A pending receive is replaced by a completed one.                       *)
LEMMA ValuesAfterComplete ==
    ASSUME NEW L, L \subseteq States, NEW o, NEW t, NEW p, NEW u, NEW U, U \subseteq Names,
           Sound(L, o, t, U), NEW s \in L, NEW i \in Slots,
           NEW q \in RequestAddrs, NEW r \in RequestAddrs,
           Unaffected(o, t, p, u, {q}), OthersStay(L, L, t, u, s),
           t[TableCell(s, i)] = r, o[r].type = "REQUEST_RECV",
           p[q].type = "REQUEST_RECV_COMPLETED", p[q].name = o[r].name,
           u[TableCell(s, i)] = q, u[MsgCell(q)] = NULL,
           \A k \in Places : u[DequeCell(s, k)] = t[DequeCell(s, k)],
           \A j \in Slots \ {i} : u[TableCell(s, j)] = t[TableCell(s, j)]
    PROVE  Completes(ValuesIn(L, o, t), ValuesIn(L, p, u), s, i)
  <1>1. s \in States /\ q # NULL /\ r # NULL /\ t[MsgCell(r)] = NULL
    BY AddrAssumption DEF Sound
  <1>2. PICK v \in [States -> Value!Contents \cup {NULL}] :
           v = ValuesIn(L, o, t) /\ v[s] # NULL /\ v[s] = StateIn(o, t, s)
    BY <1>1, ValuesHaveContents
  <1>3. v[s].table = [j \in Slots |-> RequestIn(o, t, t[TableCell(s, j)])]
    BY <1>2 DEF StateIn
  <1>4. PICK n : n = o[r].name
    OBVIOUS
  <1>5. v[s].table[i] = [type |-> "REQUEST_RECV", name |-> n, msg |-> NULL]
    BY <1>1, <1>3, <1>4 DEF RequestIn
  <1>6. PICK R : R = [type |-> "REQUEST_RECV_COMPLETED", name |-> n, msg |-> NULL]
    OBVIOUS
  <1>7. RequestIn(p, u, q) = R
    BY <1>1, <1>4, <1>6 DEF RequestIn
  <1>8. PICK T : T = [v[s].table EXCEPT ![i] = R]
    OBVIOUS
  <1>9. StateIn(p, u, s) = [messages |-> v[s].messages, table |-> T]
    <2>1. MessagesIn(u, s) = MessagesIn(t, s)
      BY DEF MessagesIn
    <2>2. ASSUME NEW j \in Slots
          PROVE  RequestIn(p, u, u[TableCell(s, j)]) = T[j]
      <3>1. CASE j = i
        BY <1>3, <1>7, <1>8, <3>1
      <3>2. CASE j # i
        <4>1. PICK x \in RequestAddrs \cup {NULL} : x = t[TableCell(s, j)] /\ x \notin {q}
          BY <1>1, CellKinds DEF Sound, Unaffected
        <4>2. RequestIn(p, u, x) = RequestIn(o, t, x)
          BY <4>1, RequestStays
        <4> QED
          BY <1>3, <1>8, <3>2, <4>1, <4>2
      <3> QED
        BY <3>1, <3>2
    <2>3. T = [j \in Slots |-> RequestIn(p, u, u[TableCell(s, j)])]
      BY <1>3, <1>8, <2>2
    <2>4. v[s].messages = {p[x].name : x \in MessagesIn(u, s)}
      <3>1. \A x \in MessagesIn(t, s) : p[x] = o[x]
        BY <1>1, MessagesStay
      <3> QED
        BY <1>2, <2>1, <3>1 DEF StateIn
    <2> QED
      BY ONLY <2>3, <2>4 DEF StateIn
  <1>10. ValuesIn(L, p, u) = [ValuesIn(L, o, t) EXCEPT ![s] = StateIn(p, u, s)]
    BY <1>1, OneValueChanges
  <1>11. WithSlot(v, s, i, R) = WithContents(v, s, v[s].messages, [v[s].table EXCEPT ![i] = R])
    BY <1>1, <1>2, SlotChanges
  <1>12. ValuesIn(L, p, u) = [v EXCEPT ![s].table[i] = R]
    BY ONLY <1>2, <1>8, <1>9, <1>10, <1>11 DEF WithSlot, WithContents
  <1>13. PICK y : y = [v EXCEPT ![s].table[i].type = "REQUEST_RECV_COMPLETED"]
    OBVIOUS
  <1>14. y = [v EXCEPT ![s].table[i] = R]
    <2>1. R = [v[s].table[i] EXCEPT !.type = "REQUEST_RECV_COMPLETED"]
      BY ONLY <1>5, <1>6
    <2> QED
      BY ONLY <1>13, <2>1
  <1>15. v[s].table[i] # NULL
    BY <1>1, <1>2, StatesHaveContents
  <1>16. v[s].table[i].type = "REQUEST_RECV"
    BY ONLY <1>5
  <1> QED
    BY ONLY <1>2, <1>12, <1>13, <1>14, <1>15, <1>16 DEF Completes

-----------------------------------------------------------------------------
(* The invariant of values, and the operations.                            *)

PlacesIn(t) ==
    \A s \in States, k, l \in Places :
        t[DequeCell(s, k)] # NULL /\ t[DequeCell(s, k)] = t[DequeCell(s, l)] => k = l

ReadyIn(F, o, t) ==
    F # NULL =>
        \A i \in F.active :
            \E q \in RequestAddrs :
                /\ t[TableCell(F.to, i)] = q
                /\ o[q].type = "REQUEST_SSEND" =>
                      \A k \in Places : \/ t[DequeCell(F.to, k)] = NULL
                                        \/ t[DequeCell(F.to, k)] # t[MsgCell(q)]

ValuesParts == StatesSound /\ PlacesIn(Targets) /\ ReadyIn(fork, obj, Targets)

LEMMA ValuesInvParts ==
    ObjectsInv /\ NamesAreDistinct => (PlacesAreDistinct /\ ForkIsReady <=> PlacesIn(Targets) /\ ReadyIn(fork, obj, Targets))
  <1> SUFFICES ASSUME ObjectsInv, NamesAreDistinct
               PROVE  PlacesAreDistinct /\ ForkIsReady <=> PlacesIn(Targets) /\ ReadyIn(fork, obj, Targets)
    OBVIOUS
  <1>1. \A c \in Cells : Target(c) = Targets[c]
    BY DEF Targets
  <1>2. PlacesAreDistinct <=> PlacesIn(Targets)
    BY <1>1, CellKinds DEF PlacesAreDistinct, PlacesIn
  <1>3. fork # NULL => fork.to \in States /\ fork.active \subseteq Slots
    BY DEF ObjectsInv, TypeOK, Forking
  <1>4. ForkIsReady <=> ReadyIn(fork, obj, Targets)
    <2>1. fork # NULL => \A i \in fork.active : Target(TableCell(fork.to, i)) = Targets[TableCell(fork.to, i)]
      BY <1>1, <1>3, CellKinds
    <2>2. fork # NULL => \A k \in Places : Target(DequeCell(fork.to, k)) = Targets[DequeCell(fork.to, k)]
      BY <1>1, <1>3, CellKinds
    <2>3. \A q \in RequestAddrs : Target(MsgCell(q)) = Targets[MsgCell(q)]
      BY <1>1, CellKinds
    <2> QED
      BY <2>1, <2>2, <2>3 DEF ForkIsReady, ReadyIn
  <1> QED
    BY <1>2, <1>4

LEMMA ValuesInvMeans ==
    /\ ValuesInv => ObjectsInv /\ NamesAreDistinct /\ ValuesParts
    /\ ObjectsInv' /\ NamesAreDistinct' => StatesSound'
    /\ ObjectsInv' /\ NamesAreDistinct' /\ PlacesIn(Targets') /\ ReadyIn(fork', obj', Targets')
          => ValuesInv'
  <1>1. ValuesInv => ObjectsInv /\ NamesAreDistinct /\ ValuesParts
    BY ValuesInvParts, StatesSoundNow DEF ValuesInv, ValuesParts
  <1>2. ObjectsInv /\ NamesAreDistinct /\ ValuesParts => ValuesInv
    BY ValuesInvParts DEF ValuesInv, ValuesParts
  <1>3. ObjectsInv' /\ NamesAreDistinct' /\ ValuesParts' => ValuesInv'
    BY <1>2, PTL
  <1>4. PlacesIn(Targets') /\ ReadyIn(fork', obj', Targets') /\ StatesSound' => ValuesParts'
    BY DEF ValuesParts
  <1> QED
    BY <1>1, <1>3, <1>4, StatesSoundNext

(* What is deleted had a name, what is new gets one that is not used.      *)
LEMMA NamesStay ==
    ASSUME NamesAreDistinct, used \subseteq used', \A a \in Addrs : obj'[a] # Free => obj'[a] = obj[a]
    PROVE  NamesAreDistinct'
  <1>1. \A m \in MessageAddrs : m \in Addrs
    BY DEF Addrs
  <1> QED
    BY <1>1 DEF NamesAreDistinct

LEMMA AssignValues ==
    ASSUME ValuesInv, ObjectsInv', NEW c, NEW p, <<c, p>> \in todo, Assign(c, p)
    PROVE  ValuesInv' /\ Values' = Values
  <1>1. ObjectsInv /\ NamesAreDistinct /\ ValuesParts
    BY ValuesInvMeans
  <1>2. /\ live' = live /\ fork' = fork /\ used' = used
        /\ TargetsKnown /\ TargetsKnown'
    BY <1>1, TargetsAreKnown DEF Assign, ObjectsInv
  <1>3. \A a \in Addrs : obj'[a] # Free => obj'[a] = obj[a]
    BY <1>1, AssignEffect
  <1>4. NamesAreDistinct'
    BY <1>1, <1>2, <1>3, NamesStay
  <1>5. /\ Sound(live, obj, Targets, used) /\ Sound(live, obj', Targets', used)
        /\ Values = ValuesIn(live, obj, Targets) /\ Values' = ValuesIn(live, obj', Targets')
        /\ PlacesIn(Targets) /\ ReadyIn(fork, obj, Targets)
    BY <1>1, <1>2, <1>4, ValuesInvMeans DEF ValuesParts, StatesSound
  <1> DEFINE N == {a \in Addrs : obj'[a] # obj[a]}
  <1>6. /\ N \subseteq {refs[c]}
        /\ \A a \in N : obj'[a] = Free
    BY <1>1, AssignEffect
  <1>7. ASSUME NEW d \in Cells, \A q \in N \cap RequestAddrs : d # MsgCell(q)
        PROVE  Targets'[d] = Targets[d]
    <2>1. <<c, p>> \in todo /\ <<c, p>>[1] = c /\ <<c, p>>[2] = p /\ c \in Cells
      BY <1>1, AssignEffect
    <2>2. CASE \E b \in todo' : b[1] = d
      <3>1. PICK b \in todo' : b[1] = d
        BY <2>2
      <3>2. Targets'[d] = b[2]
        BY <1>2, <1>7, <3>1 DEF TargetsKnown
      <3>3. b \in todo
        <4> SUFFICES ASSUME refs[c] \in RequestAddrs, b = <<MsgCell(refs[c]), NULL>>,
                            obj'[refs[c]] = Free
                     PROVE  FALSE
          BY <1>1, AssignTodo
        <4>1. refs[c] \in Addrs /\ refs[c] # NULL
          BY AddrAssumption DEF Addrs
        <4>2. obj[refs[c]] # Free
          BY <1>1, <4>1, AssignEffect
        <4>3. refs[c] \in N \cap RequestAddrs
          BY <4>1, <4>2
        <4> QED
          BY <1>7, <3>1, <4>3
      <3>4. Targets[d] = b[2]
        BY <1>2, <1>7, <3>1, <3>3 DEF TargetsKnown
      <3> QED
        BY <3>2, <3>4
    <2>3. CASE ~ \E b \in todo' : b[1] = d
      <3>1. Targets'[d] = refs'[d]
        BY <1>2, <1>7, <2>3 DEF TargetsKnown
      <3>2. refs' = [refs EXCEPT ![c] = p] /\ DOMAIN refs = Cells
        BY <1>1, AssignEffect DEF ObjectsInv, TypeOK
      <3>3. CASE d = c
        <4>1. Targets[c] = p
          BY <1>2, <2>1 DEF TargetsKnown
        <4> QED
          BY <3>1, <3>2, <3>3, <4>1
      <3>4. CASE d # c
        <4>1. \A b \in todo : b[1] # d
          BY <1>1, <2>1, <2>3, <3>4, AssignTodo
        <4>2. Targets[d] = refs[d]
          BY <1>2, <1>7, <4>1 DEF TargetsKnown
        <4> QED
          BY <3>1, <3>2, <3>4, <4>2
      <3> QED
        BY <3>3, <3>4
    <2> QED
      BY <2>2, <2>3
  <1> HIDE DEF N
  <1>8. \A s \in States : \A d \in CellsOf(s) : Targets'[d] = Targets[d]
    BY <1>7, CellKinds
  <1>9. \A q \in RequestAddrs \ N : Targets'[MsgCell(q)] = Targets[MsgCell(q)]
    BY <1>7, CellKinds, CellOwners
  <1>10. \A d \in Cells : Targets[d] \notin N
    <2> SUFFICES ASSUME NEW d \in Cells, Targets[d] \in N PROVE FALSE
      OBVIOUS
    <2>1. CASE Targets'[d] = Targets[d]
      <3>1. obj'[Targets[d]] = Free /\ Targets[d] \in Addrs
        BY <1>6 DEF N
      <3>2. Targets[d] # NULL
        BY <3>1, AddrAssumption DEF Addrs
      <3> QED
        BY <1>5, <2>1, <3>1, <3>2 DEF Sound
    <2>2. CASE \E q \in N \cap RequestAddrs : d = MsgCell(q)
      <3>1. PICK q \in N \cap RequestAddrs : d = MsgCell(q)
        BY <2>2
      <3>2. Targets[d] = q
        BY <1>6, <3>1
      <3>3. Targets[d] \in MessageAddrs \cup {NULL}
        BY <1>5, <3>1, CellKinds DEF Sound
      <3> QED
        BY <3>1, <3>2, <3>3, AddrAssumption
    <2> QED
      BY <1>7, <2>1, <2>2
  <1>11. \A a \in Addrs \ N : obj'[a] = obj[a]
    BY DEF N
  <1>12. Unaffected(obj, Targets, obj', Targets', N)
    BY <1>9, <1>10, <1>11 DEF Unaffected
  <1>13. \A s \in States : StateIn(obj', Targets', s) = StateIn(obj, Targets, s)
    BY <1>5, <1>8, <1>12, StateStays
  <1>14. Values' = Values
    BY <1>5, <1>13 DEF ValuesIn
  <1>15. PlacesIn(Targets')
    BY <1>5, <1>8, CellKinds DEF PlacesIn
  <1>16. ReadyIn(fork, obj', Targets')
    <2> SUFFICES ASSUME fork # NULL, NEW i \in fork.active
                 PROVE  \E q \in RequestAddrs :
                            /\ Targets'[TableCell(fork.to, i)] = q
                            /\ obj'[q].type = "REQUEST_SSEND" =>
                                  \A k \in Places :
                                      \/ Targets'[DequeCell(fork.to, k)] = NULL
                                      \/ Targets'[DequeCell(fork.to, k)] # Targets'[MsgCell(q)]
      BY DEF ReadyIn
    <2>1. fork.to \in States /\ i \in Slots
      BY <1>1 DEF ObjectsInv, TypeOK, Forking
    <2>2. PICK q \in RequestAddrs :
              /\ Targets[TableCell(fork.to, i)] = q
              /\ obj[q].type = "REQUEST_SSEND" =>
                    \A k \in Places : \/ Targets[DequeCell(fork.to, k)] = NULL
                                      \/ Targets[DequeCell(fork.to, k)] # Targets[MsgCell(q)]
      BY <1>5 DEF ReadyIn
    <2>3. q \notin N /\ q \in Addrs
      BY <1>10, <2>1, <2>2, CellKinds DEF Addrs
    <2>4. /\ Targets'[TableCell(fork.to, i)] = q
          /\ obj'[q] = obj[q] /\ Targets'[MsgCell(q)] = Targets[MsgCell(q)]
          /\ \A k \in Places : Targets'[DequeCell(fork.to, k)] = Targets[DequeCell(fork.to, k)]
      BY <1>8, <1>9, <1>11, <2>1, <2>2, <2>3, CellKinds
    <2> QED
      BY <2>2, <2>4
  <1> QED
    BY <1>2, <1>4, <1>14, <1>15, <1>16, ValuesInvMeans

-----------------------------------------------------------------------------
(* Operations start when no Ref is left to set.                            *)

LEMMA Settled ==
    ASSUME ValuesInv, ObjectsInv', NamesAreDistinct', todo = {}
    PROVE  /\ Sound(live, obj, Targets, used) /\ Sound(live', obj', Targets', used')
           /\ Values = ValuesIn(live, obj, Targets) /\ Values' = ValuesIn(live', obj', Targets')
           /\ PlacesIn(Targets) /\ ReadyIn(fork, obj, Targets)
           /\ \A c \in Cells : Targets[c] = refs[c]
           /\ \A b \in todo' : b[1] \in Cells => Targets'[b[1]] = b[2]
           /\ \A c \in Cells : (\A b \in todo' : b[1] # c) => Targets'[c] = refs'[c]
           /\ live \subseteq States /\ live' \subseteq States
           /\ used \subseteq Names /\ used' \subseteq Names
  <1>1. ObjectsInv /\ NamesAreDistinct /\ ValuesParts /\ StatesSound'
    BY ValuesInvMeans
  <1>2. TargetsKnown /\ TargetsKnown'
    BY <1>1, TargetsAreKnown DEF ObjectsInv
  <1>3. \A c \in Cells : Targets[c] = refs[c]
    BY <1>2 DEF TargetsKnown
  <1>4. /\ \A b \in todo' : b[1] \in Cells => Targets'[b[1]] = b[2]
        /\ \A c \in Cells : (\A b \in todo' : b[1] # c) => Targets'[c] = refs'[c]
    BY <1>2 DEF TargetsKnown
  <1>5. live \subseteq States /\ live' \subseteq States /\ used \subseteq Names /\ used' \subseteq Names
    BY <1>1 DEF ObjectsInv, TypeOK
  <1> QED
    BY <1>1, <1>3, <1>4, <1>5 DEF ValuesParts, StatesSound

(* Requests are let go of.                                                 *)
LEMMA ClearingValues ==
    ASSUME ValuesInv, ObjectsInv', todo = {}, NEW s \in live, NEW ids \in SUBSET Slots,
           todo' = ClearSlots(s, ids), fork' = NULL, UNCHANGED <<live, refs, obj, used>>,
           \A i \in ids : \E q \in RequestAddrs :
               /\ refs[TableCell(s, i)] = q
               /\ obj[q].type = "REQUEST_SSEND" =>
                     \A k \in Places : \/ refs[DequeCell(s, k)] = NULL
                                       \/ refs[DequeCell(s, k)] # refs[MsgCell(q)]
    PROVE  ValuesInv' /\ Finishes(Values, Values', s, ids)
  <1>1. NamesAreDistinct'
    BY ValuesInvMeans, NamesStay
  <1>2. /\ Sound(live, obj, Targets, used)
        /\ Values = ValuesIn(live, obj, Targets) /\ Values' = ValuesIn(live, obj, Targets')
        /\ PlacesIn(Targets)
        /\ \A c \in Cells : Targets[c] = refs[c]
        /\ \A b \in todo' : b[1] \in Cells => Targets'[b[1]] = b[2]
        /\ \A c \in Cells : (\A b \in todo' : b[1] # c) => Targets'[c] = refs[c]
        /\ live \subseteq States /\ used \subseteq Names /\ s \in States
    BY <1>1, Settled
  <1>3. \A i \in ids : Targets'[TableCell(s, i)] = NULL
    <2> SUFFICES ASSUME NEW i \in ids PROVE Targets'[TableCell(s, i)] = NULL
      OBVIOUS
    <2>1. PICK b \in todo' : b = <<TableCell(s, i), NULL>>
      BY DEF ClearSlots
    <2>2. b[1] = TableCell(s, i) /\ b[2] = NULL /\ TableCell(s, i) \in Cells
      BY <1>2, <2>1, CellKinds
    <2> QED
      BY <1>2, <2>2
  <1>4. ASSUME NEW c \in Cells, \A i \in ids : c # TableCell(s, i)
        PROVE  Targets'[c] = Targets[c]
    <2>1. \A b \in todo' : b[1] # c
      BY <1>4 DEF ClearSlots
    <2> QED
      BY <1>2, <2>1
  <1>5. \A x \in States, k \in Places : Targets'[DequeCell(x, k)] = Targets[DequeCell(x, k)]
    BY <1>2, <1>4, CellKinds, CellOwners
  <1>6. \A i \in Slots \ ids : Targets'[TableCell(s, i)] = Targets[TableCell(s, i)]
    BY <1>2, <1>4, CellKinds, CellOwners
  <1>7. Unaffected(obj, Targets, obj, Targets', {})
    <2>1. \A q \in RequestAddrs : Targets'[MsgCell(q)] = Targets[MsgCell(q)]
      BY <1>2, <1>4, CellKinds, CellOwners
    <2> QED
      BY <2>1 DEF Unaffected
  <1>8. OthersStay(live, live, Targets, Targets', s)
    <2> SUFFICES ASSUME NEW x \in States, x # s, NEW c \in CellsOf(x)
                 PROVE  Targets'[c] = Targets[c]
      BY DEF OthersStay
    <2>1. c \in Cells /\ \A i \in ids : c # TableCell(s, i)
      BY <1>2, CellKinds
    <2> QED
      BY <1>4, <2>1
  <1>9. \A i \in ids : \E q \in RequestAddrs :
               /\ Targets[TableCell(s, i)] = q
               /\ obj[q].type = "REQUEST_SSEND" =>
                     \A k \in Places : \/ Targets[DequeCell(s, k)] = NULL
                                       \/ Targets[DequeCell(s, k)] # Targets[MsgCell(q)]
    <2>1. \A i \in ids : Targets[TableCell(s, i)] = refs[TableCell(s, i)]
      BY <1>2, CellKinds
    <2>2. \A k \in Places : Targets[DequeCell(s, k)] = refs[DequeCell(s, k)]
      BY <1>2, CellKinds
    <2>3. \A q \in RequestAddrs : Targets[MsgCell(q)] = refs[MsgCell(q)]
      BY <1>2, CellKinds
    <2> QED
      BY <2>1, <2>2, <2>3
  <1>10. Finishes(Values, Values', s, ids)
    BY <1>2, <1>3, <1>5, <1>6, <1>7, <1>8, <1>9, ValuesAfterFinish
  <1>11. PlacesIn(Targets') /\ ReadyIn(fork', obj', Targets')
    BY <1>2, <1>5 DEF PlacesIn, ReadyIn
  <1> QED
    BY <1>1, <1>10, <1>11, ValuesInvMeans

(* A request that a call waits for is there, and no send is in flight.     *)
LEMMA DoneIsReady ==
    ASSUME ValuesInv, NEW s \in States, NEW i \in Slots, IsDone(s, i) \/ IsPendingRecv(s, i)
    PROVE  \E q \in RequestAddrs :
               /\ refs[TableCell(s, i)] = q
               /\ obj[q].type = "REQUEST_SSEND" =>
                     \A k \in Places : \/ refs[DequeCell(s, k)] = NULL
                                       \/ refs[DequeCell(s, k)] # refs[MsgCell(q)]
  <1>1. TableCell(s, i) \in TableCells /\ TableCell(s, i) \in Cells
    BY CellKinds
  <1>2. <<TableCell(s, i), refs[TableCell(s, i)]>> \in Assignment
    BY <1>1 DEF ValuesInv, ObjectsInv, TypeOK
  <1>3. PICK q \in RequestAddrs : refs[TableCell(s, i)] = q
    BY <1>1, <1>2, AssignmentTypes DEF IsDone, IsPendingRecv, RequestAt
  <1> QED
    BY <1>3 DEF IsDone, IsPendingRecv, RequestAt, CheckMessage

LEMMA FastRunWaitValues ==
    ASSUME ValuesInv, ObjectsInv', Idle, NEW s \in live, NEW active \in SUBSET Slots,
           FastRunWait(s, active)
    PROVE  ValuesInv' /\ Finishes(Values, Values', s, active)
  <1>1. /\ todo = {} /\ fork' = NULL /\ UNCHANGED <<live, refs, obj, used>>
        /\ todo' = ClearSlots(s, active) /\ \A i \in active : IsDone(s, i)
    BY DEF Idle, FastRunWait
  <1>2. s \in States
    BY DEF ValuesInv, ObjectsInv, TypeOK
  <1>3. \A i \in active : \E q \in RequestAddrs :
               /\ refs[TableCell(s, i)] = q
               /\ obj[q].type = "REQUEST_SSEND" =>
                     \A k \in Places : \/ refs[DequeCell(s, k)] = NULL
                                       \/ refs[DequeCell(s, k)] # refs[MsgCell(q)]
    BY <1>1, <1>2, DoneIsReady
  <1> QED
    BY <1>1, <1>3, ClearingValues

LEMMA FinishForkValues ==
    ASSUME ValuesInv, ObjectsInv', InFork, FinishFork
    PROVE  /\ fork.to \in live /\ fork.active \subseteq Slots
           /\ ValuesInv' /\ Finishes(Values, Values', fork.to, fork.active)
  <1>1. /\ todo = {} /\ fork # NULL /\ fork' = NULL /\ UNCHANGED <<live, refs, obj, used>>
        /\ todo' = ClearSlots(fork.to, fork.active)
    BY DEF InFork, FinishFork
  <1>2. fork.to \in live /\ fork.to \in States /\ fork.active \in SUBSET Slots
    BY <1>1 DEF ValuesInv, ObjectsInv, TypeOK, ForkIsSound, Forking
  <1>3. NamesAreDistinct'
    BY <1>1, ValuesInvMeans, NamesStay
  <1>4. ReadyIn(fork, obj, Targets) /\ \A c \in Cells : Targets[c] = refs[c]
    BY <1>1, <1>3, Settled
  <1>5. /\ \A i \in Slots : Targets[TableCell(fork.to, i)] = refs[TableCell(fork.to, i)]
        /\ \A k \in Places : Targets[DequeCell(fork.to, k)] = refs[DequeCell(fork.to, k)]
        /\ \A q \in RequestAddrs : Targets[MsgCell(q)] = refs[MsgCell(q)]
    BY <1>2, <1>4, CellKinds
  <1>6. \A i \in fork.active : \E q \in RequestAddrs :
               /\ refs[TableCell(fork.to, i)] = q
               /\ obj[q].type = "REQUEST_SSEND" =>
                     \A k \in Places : \/ refs[DequeCell(fork.to, k)] = NULL
                                       \/ refs[DequeCell(fork.to, k)] # refs[MsgCell(q)]
    BY <1>1, <1>2, <1>4, <1>5 DEF ReadyIn
  <1>7. PICK t \in live, ids \in SUBSET Slots : t = fork.to /\ ids = fork.active
    BY <1>2
  <1>8. ValuesInv' /\ Finishes(Values, Values', t, ids)
    BY <1>1, <1>6, <1>7, ClearingValues
  <1> QED
    BY <1>2, <1>7, <1>8

LEMMA DeleteStateValues ==
    ASSUME ValuesInv, ObjectsInv', Idle, NEW s \in live, DeleteState(s)
    PROVE  ValuesInv' /\ Deletes(Values, Values', s)
  <1>1. /\ todo = {} /\ fork' = NULL /\ UNCHANGED <<refs, obj, used>> /\ live' = live \ {s}
        /\ todo' = ClearSlots(s, UsedSlots(s)) \cup
                   {<<DequeCell(s, k), NULL>> : k \in UsedPlaces(s)}
    BY DEF Idle, DeleteState
  <1>2. NamesAreDistinct'
    BY <1>1, ValuesInvMeans, NamesStay
  <1>3. /\ Sound(live, obj, Targets, used) /\ Sound(live \ {s}, obj, Targets', used)
        /\ Values = ValuesIn(live, obj, Targets) /\ Values' = ValuesIn(live \ {s}, obj, Targets')
        /\ PlacesIn(Targets)
        /\ \A c \in Cells : Targets[c] = refs[c]
        /\ \A c \in Cells : (\A b \in todo' : b[1] # c) => Targets'[c] = refs[c]
        /\ live \subseteq States /\ used \subseteq Names /\ s \in States
    BY <1>1, <1>2, Settled
  <1>4. ASSUME NEW c \in Cells, c \notin CellsOf(s)
        PROVE  Targets'[c] = Targets[c]
    <2>1. UsedSlots(s) \subseteq Slots /\ UsedPlaces(s) \subseteq Places
      BY DEF UsedSlots, UsedPlaces
    <2>2. \A b \in todo' : b[1] \in CellsOf(s)
      BY <1>1, <1>3, <2>1, CellKinds DEF ClearSlots
    <2> QED
      BY <1>3, <1>4, <2>2
  <1>5. OthersStay(live, live \ {s}, Targets, Targets', s)
    <2>1. \A x \in States : x # s => \A c \in CellsOf(x) : c \in Cells /\ c \notin CellsOf(s)
      BY <1>3, CellKinds
    <2> QED
      BY <1>4, <2>1 DEF OthersStay
  <1>6. Unaffected(obj, Targets, obj, Targets', {})
    <2>1. \A q \in RequestAddrs : Targets'[MsgCell(q)] = Targets[MsgCell(q)]
      BY <1>3, <1>4, CellKinds
    <2> QED
      BY <2>1 DEF Unaffected
  <1>7. Deletes(Values, Values', s)
    BY <1>3, <1>5, <1>6, ValuesAfterDelete
  <1>8. PlacesIn(Targets')
    <2>1. \A k \in Places : Targets'[DequeCell(s, k)] = NULL
      BY <1>3, CellKinds DEF Sound
    <2>2. \A x \in States, k \in Places : x # s => Targets'[DequeCell(x, k)] = Targets[DequeCell(x, k)]
      BY <1>5, CellKinds DEF OthersStay
    <2> QED
      BY <1>3, <2>1, <2>2 DEF PlacesIn
  <1>9. ReadyIn(fork', obj', Targets')
    BY <1>1 DEF ReadyIn
  <1> QED
    BY <1>2, <1>7, <1>8, <1>9, ValuesInvMeans

(* The copy of a state has its contents when all Refs are copied.          *)
LEMMA CopyRefsValues ==
    ASSUME ValuesInv, ObjectsInv', todo = {}, NEW s \in live, NEW t \in States \ live,
           todo' = CopyRefs(s, t), live' = live \cup {t}, UNCHANGED <<refs, obj, used>>
    PROVE  /\ NamesAreDistinct' /\ Copies(Values, Values', s, t) /\ PlacesIn(Targets')
           /\ \A k \in Places : Targets'[DequeCell(t, k)] = refs[DequeCell(s, k)]
           /\ \A i \in Slots : Targets'[TableCell(t, i)] = refs[TableCell(s, i)]
           /\ \A q \in RequestAddrs : Targets'[MsgCell(q)] = refs[MsgCell(q)]
  <1>1. NamesAreDistinct'
    BY ValuesInvMeans, NamesStay
  <1>2. /\ Sound(live, obj, Targets, used)
        /\ Values = ValuesIn(live, obj, Targets) /\ Values' = ValuesIn(live \cup {t}, obj, Targets')
        /\ PlacesIn(Targets)
        /\ \A c \in Cells : Targets[c] = refs[c]
        /\ \A b \in todo' : b[1] \in Cells => Targets'[b[1]] = b[2]
        /\ \A c \in Cells : (\A b \in todo' : b[1] # c) => Targets'[c] = refs[c]
        /\ live \subseteq States /\ used \subseteq Names /\ s \in States /\ t \in States /\ s # t
    BY <1>1, Settled
  <1>3. UsedSlots(s) \subseteq Slots /\ UsedPlaces(s) \subseteq Places
    BY DEF UsedSlots, UsedPlaces
  <1>4. ASSUME NEW b \in todo'
        PROVE  \/ \E k \in UsedPlaces(s) : b[1] = DequeCell(t, k) /\ b[2] = refs[DequeCell(s, k)]
               \/ \E i \in UsedSlots(s) : b[1] = TableCell(t, i) /\ b[2] = refs[TableCell(s, i)]
    BY DEF CopyRefs, RequestAt
  <1>5. ASSUME NEW k \in Places
        PROVE  Targets'[DequeCell(t, k)] = refs[DequeCell(s, k)]
    <2>1. DequeCell(t, k) \in Cells /\ DequeCell(t, k) \in CellsOf(t)
      BY CellKinds
    <2>2. CASE k \in UsedPlaces(s)
      <3>1. PICK b \in todo' : b = <<DequeCell(t, k), refs[DequeCell(s, k)]>>
        BY <2>2 DEF CopyRefs
      <3>2. b[1] = DequeCell(t, k) /\ b[2] = refs[DequeCell(s, k)]
        BY <3>1
      <3> QED
        BY <1>2, <2>1, <3>2
    <2>3. CASE k \notin UsedPlaces(s)
      <3>1. \A b \in todo' : b[1] # DequeCell(t, k)
        BY <1>2, <1>3, <1>4, <2>3, CellKinds, CellOwners
      <3>2. Targets'[DequeCell(t, k)] = refs[DequeCell(t, k)]
        BY <1>2, <2>1, <3>1
      <3>3. Targets[DequeCell(t, k)] = NULL
        BY <2>1, <1>2 DEF Sound
      <3>4. refs[DequeCell(s, k)] = NULL
        BY <2>3 DEF UsedPlaces
      <3> QED
        BY <1>2, <2>1, <3>2, <3>3, <3>4
    <2> QED
      BY <2>2, <2>3
  <1>6. ASSUME NEW i \in Slots
        PROVE  Targets'[TableCell(t, i)] = refs[TableCell(s, i)]
    <2>1. TableCell(t, i) \in Cells /\ TableCell(t, i) \in CellsOf(t)
      BY CellKinds
    <2>2. CASE i \in UsedSlots(s)
      <3>1. PICK b \in todo' : b = <<TableCell(t, i), refs[TableCell(s, i)]>>
        BY <2>2 DEF CopyRefs, RequestAt
      <3>2. b[1] = TableCell(t, i) /\ b[2] = refs[TableCell(s, i)]
        BY <3>1
      <3> QED
        BY <1>2, <2>1, <3>2
    <2>3. CASE i \notin UsedSlots(s)
      <3>1. \A b \in todo' : b[1] # TableCell(t, i)
        BY <1>2, <1>3, <1>4, <2>3, CellKinds, CellOwners
      <3>2. Targets'[TableCell(t, i)] = refs[TableCell(t, i)]
        BY <1>2, <2>1, <3>1
      <3>3. Targets[TableCell(t, i)] = NULL
        BY <2>1, <1>2 DEF Sound
      <3>4. refs[TableCell(s, i)] = NULL
        BY <2>3 DEF UsedSlots, RequestAt
      <3> QED
        BY <1>2, <2>1, <3>2, <3>3, <3>4
    <2> QED
      BY <2>2, <2>3
  <1>7. ASSUME NEW c \in Cells, c \notin CellsOf(t)
        PROVE  Targets'[c] = Targets[c]
    <2>1. \A b \in todo' : b[1] \in CellsOf(t)
      BY <1>2, <1>3, <1>4, CellKinds
    <2> QED
      BY <1>2, <1>7, <2>1
  <1>8. OthersStay(live, live \cup {t}, Targets, Targets', t)
    <2>1. \A x \in States : x # t => \A c \in CellsOf(x) : c \in Cells /\ c \notin CellsOf(t)
      BY <1>2, CellKinds
    <2> QED
      BY <1>7, <2>1 DEF OthersStay
  <1>9. \A q \in RequestAddrs : Targets'[MsgCell(q)] = Targets[MsgCell(q)]
    BY <1>2, <1>7, CellKinds
  <1>10. Unaffected(obj, Targets, obj, Targets', {})
    BY <1>9 DEF Unaffected
  <1>11. /\ \A k \in Places : Targets'[DequeCell(t, k)] = Targets[DequeCell(s, k)]
         /\ \A i \in Slots : Targets'[TableCell(t, i)] = Targets[TableCell(s, i)]
    BY <1>2, <1>5, <1>6, CellKinds
  <1>12. Copies(Values, Values', s, t)
    BY <1>2, <1>8, <1>10, <1>11, ValuesAfterCopy
  <1>13. PlacesIn(Targets')
    <2>1. \A x \in States, k \in Places : x # t => Targets'[DequeCell(x, k)] = Targets[DequeCell(x, k)]
      BY <1>8, CellKinds DEF OthersStay
    <2> QED
      BY <1>2, <1>11, <2>1 DEF PlacesIn
  <1>14. \A q \in RequestAddrs : Targets[MsgCell(q)] = refs[MsgCell(q)]
    BY <1>2, CellKinds
  <1> QED
    BY <1>1, <1>5, <1>6, <1>9, <1>12, <1>13, <1>14

LEMMA CopyStateValues ==
    ASSUME ValuesInv, ObjectsInv', Idle, NEW s \in live, NEW t \in States \ live, CopyState(s, t)
    PROVE  ValuesInv' /\ Copies(Values, Values', s, t)
  <1>1. /\ todo = {} /\ fork' = NULL /\ UNCHANGED <<refs, obj, used>>
        /\ live' = live \cup {t} /\ todo' = CopyRefs(s, t)
    BY DEF Idle, CopyState
  <1>2. NamesAreDistinct' /\ Copies(Values, Values', s, t) /\ PlacesIn(Targets')
    BY <1>1, CopyRefsValues
  <1>3. ReadyIn(fork', obj', Targets')
    BY <1>1 DEF ReadyIn
  <1> QED
    BY <1>2, <1>3, ValuesInvMeans

LEMMA ForkStateValues ==
    ASSUME ValuesInv, ObjectsInv', Idle, NEW s \in live, NEW t \in States \ live,
           NEW active \in SUBSET Slots, NEW f \in SUBSET (Slots \X MessageAddrs),
           ForkState(s, t, active, f)
    PROVE  ValuesInv' /\ Copies(Values, Values', s, t)
  <1>1. /\ todo = {} /\ UNCHANGED <<refs, obj, used>>
        /\ live' = live \cup {t} /\ todo' = CopyRefs(s, t)
        /\ \A i \in active : IsDone(s, i) \/ IsPendingRecv(s, i)
        /\ fork'.to = t /\ fork'.active = active
    BY DEF Idle, ForkState
  <1>2. /\ NamesAreDistinct' /\ Copies(Values, Values', s, t) /\ PlacesIn(Targets')
        /\ \A k \in Places : Targets'[DequeCell(t, k)] = refs[DequeCell(s, k)]
        /\ \A i \in Slots : Targets'[TableCell(t, i)] = refs[TableCell(s, i)]
        /\ \A q \in RequestAddrs : Targets'[MsgCell(q)] = refs[MsgCell(q)]
    BY <1>1, CopyRefsValues
  <1>3. s \in States
    BY DEF ValuesInv, ObjectsInv, TypeOK
  <1>4. \A i \in active : \E q \in RequestAddrs :
               /\ refs[TableCell(s, i)] = q
               /\ obj[q].type = "REQUEST_SSEND" =>
                     \A k \in Places : \/ refs[DequeCell(s, k)] = NULL
                                       \/ refs[DequeCell(s, k)] # refs[MsgCell(q)]
    BY <1>1, <1>3, DoneIsReady
  <1>5. ReadyIn(fork', obj', Targets')
    <2>1. \A i \in active : \E q \in RequestAddrs :
               /\ Targets'[TableCell(t, i)] = q
               /\ obj[q].type = "REQUEST_SSEND" =>
                     \A k \in Places : \/ Targets'[DequeCell(t, k)] = NULL
                                       \/ Targets'[DequeCell(t, k)] # Targets'[MsgCell(q)]
      BY <1>2, <1>4
    <2> QED
      BY <1>1, <2>1 DEF ReadyIn
  <1> QED
    BY <1>2, <1>5, ValuesInvMeans

(* The only Ref of the copy to the message is let go of.                   *)
LEMMA TakeMessageValues ==
    ASSUME ValuesInv, ObjectsInv', InFork, NEW i \in Slots, NEW m \in MessageAddrs,
           NEW k \in Places, TakeMessage(i, m, k)
    PROVE  /\ fork.to \in live /\ obj[m].name \in Names
           /\ ValuesInv' /\ Takes(Values, Values', fork.to, obj[m].name)
  <1>1. /\ todo = {} /\ fork # NULL /\ UNCHANGED <<live, refs, obj, used>>
        /\ refs[DequeCell(fork.to, k)] = m
        /\ todo' = {<<DequeCell(fork.to, k), NULL>>}
        /\ fork'.to = fork.to /\ fork'.active = fork.active
    BY DEF InFork, TakeMessage, ValuesInv, ObjectsInv, TypeOK, Forking
  <1>2. PICK t \in live : t = fork.to /\ t \in States
    BY <1>1 DEF ValuesInv, ObjectsInv, TypeOK, ForkIsSound, Forking
  <1>3. NamesAreDistinct'
    BY <1>1, ValuesInvMeans, NamesStay
  <1>4. /\ Sound(live, obj, Targets, used)
        /\ Values = ValuesIn(live, obj, Targets) /\ Values' = ValuesIn(live, obj, Targets')
        /\ PlacesIn(Targets) /\ ReadyIn(fork, obj, Targets)
        /\ \A c \in Cells : Targets[c] = refs[c]
        /\ \A b \in todo' : b[1] \in Cells => Targets'[b[1]] = b[2]
        /\ \A c \in Cells : (\A b \in todo' : b[1] # c) => Targets'[c] = refs[c]
        /\ live \subseteq States /\ used \subseteq Names
    BY <1>1, <1>3, Settled
  <1>5. Targets'[DequeCell(t, k)] = NULL
    <2>1. PICK b \in todo' : b = <<DequeCell(t, k), NULL>>
      BY <1>1, <1>2
    <2>2. b[1] = DequeCell(t, k) /\ b[2] = NULL /\ DequeCell(t, k) \in Cells
      BY <1>2, <2>1, CellKinds
    <2> QED
      BY <1>4, <2>2
  <1>6. ASSUME NEW c \in Cells, c # DequeCell(t, k)
        PROVE  Targets'[c] = Targets[c]
    <2>1. \A b \in todo' : b[1] # c
      BY <1>1, <1>2, <1>6
    <2> QED
      BY <1>4, <2>1
  <1>7. /\ \A h \in Places \ {k} : Targets'[DequeCell(t, h)] = Targets[DequeCell(t, h)]
        /\ \A j \in Slots : Targets'[TableCell(t, j)] = Targets[TableCell(t, j)]
        /\ \A q \in RequestAddrs : Targets'[MsgCell(q)] = Targets[MsgCell(q)]
        /\ \A x \in States \ {t}, h \in Places : Targets'[DequeCell(x, h)] = Targets[DequeCell(x, h)]
    BY <1>2, <1>6, CellKinds, CellOwners
  <1>8. Targets[DequeCell(t, k)] = m /\ m # NULL
    BY <1>1, <1>2, <1>4, CellKinds, AddrAssumption
  <1>9. \A h \in Places \ {k} : Targets[DequeCell(t, h)] # m
    BY <1>2, <1>4, <1>8 DEF PlacesIn
  <1>10. Unaffected(obj, Targets, obj, Targets', {})
    BY <1>7 DEF Unaffected
  <1>11. OthersStay(live, live, Targets, Targets', t)
    <2>1. \A x \in States : x # t => \A c \in CellsOf(x) : c \in Cells /\ c # DequeCell(t, k)
      BY <1>2, CellKinds
    <2> QED
      BY <1>6, <2>1 DEF OthersStay
  <1>12. Takes(Values, Values', t, obj[m].name)
    BY <1>4, <1>5, <1>7, <1>8, <1>9, <1>10, <1>11, ValuesAfterTake
  <1>13. PlacesIn(Targets')
    BY <1>2, <1>4, <1>5, <1>7 DEF PlacesIn
  <1>14. ReadyIn(fork', obj', Targets')
    <2> SUFFICES ASSUME NEW j \in fork.active
                 PROVE  \E q \in RequestAddrs :
                            /\ Targets'[TableCell(t, j)] = q
                            /\ obj[q].type = "REQUEST_SSEND" =>
                                  \A h \in Places : \/ Targets'[DequeCell(t, h)] = NULL
                                                    \/ Targets'[DequeCell(t, h)] # Targets'[MsgCell(q)]
      BY <1>1, <1>2 DEF ReadyIn
    <2>1. j \in Slots
      BY <1>1 DEF ValuesInv, ObjectsInv, TypeOK, Forking
    <2>2. PICK q \in RequestAddrs :
              /\ Targets[TableCell(t, j)] = q
              /\ obj[q].type = "REQUEST_SSEND" =>
                    \A h \in Places : \/ Targets[DequeCell(t, h)] = NULL
                                      \/ Targets[DequeCell(t, h)] # Targets[MsgCell(q)]
      BY <1>1, <1>2, <1>4 DEF ReadyIn
    <2> QED
      BY <1>5, <1>7, <2>1, <2>2
  <1>15. obj[m].name \in Names
    <2>1. obj[m] # Free
      BY <1>2, <1>4, <1>8, CellKinds DEF Sound
    <2> QED
      BY <1>4, <2>1 DEF Sound, Addrs
  <1> QED
    BY <1>2, <1>3, <1>12, <1>13, <1>14, <1>15, ValuesInvMeans

(* The explorer's own marks do not concern a state.                        *)
LEMMA SameValues ==
    ASSUME ValuesInv, ObjectsInv', UNCHANGED <<live, refs, obj, todo, used>>,
           fork' = fork \/ (fork # NULL /\ fork'.to = fork.to /\ fork'.active = fork.active)
    PROVE  ValuesInv' /\ Values' = Values
  <1>1. NamesAreDistinct'
    BY ValuesInvMeans, NamesStay
  <1>2. Targets' = Targets
    BY DEF Targets, Target
  <1>3. ValuesParts /\ StatesSound'
    BY <1>1, ValuesInvMeans
  <1>4. PlacesIn(Targets') /\ ReadyIn(fork', obj', Targets')
    BY <1>2, <1>3 DEF ValuesParts, ReadyIn
  <1>5. Values' = Values
    BY <1>2, <1>3 DEF ValuesParts, StatesSound
  <1> QED
    BY <1>1, <1>4, <1>5, ValuesInvMeans

LEMMA CopyDataValues ==
    ASSUME ValuesInv, ObjectsInv', InFork, CopyData
    PROVE  ValuesInv' /\ Values' = Values
  <1>1. fork # NULL /\ fork'.to = fork.to /\ fork'.active = fork.active
        /\ UNCHANGED <<live, refs, obj, todo, used>>
    BY DEF InFork, CopyData, ValuesInv, ObjectsInv, TypeOK, Forking
  <1> QED
    BY <1>1, SameValues

(* The completed receive is another object, in the table of the copy.      *)
LEMMA CompleteRecvValues ==
    ASSUME ValuesInv, ObjectsInv', InFork, NEW q \in RequestAddrs, NEW j \in Slots,
           CompleteRecv(q, j)
    PROVE  fork.to \in live /\ ValuesInv' /\ Completes(Values, Values', fork.to, j)
  <1>1. fork # NULL /\ todo = {} /\ fork.taken # NULL
    BY DEF InFork, CompleteRecv
  <1>2. TypeOK /\ ForkIsSound /\ fork \in Forking /\ NamesAreDistinct
    BY <1>1 DEF ValuesInv, ObjectsInv, TypeOK
  <1>3. PICK s \in live, t \in live, i \in Slots :
            s = fork.from /\ t = fork.to /\ i = fork.taken[1] /\ s \in States /\ t \in States
    BY <1>1, <1>2 DEF ForkIsSound, Forking, TypeOK
  <1>4. IsPendingRecv(s, i)
    BY <1>1, <1>2, <1>3 DEF ForkIsSound
  <1>5. PICK R : R = refs[TableCell(s, i)]
    OBVIOUS
  <1>6. /\ obj[q] = Free
        /\ obj' = [obj EXCEPT ![q] = [obj[R] EXCEPT !.type = "REQUEST_RECV_COMPLETED"]]
        /\ refs[TableCell(t, j)] = R
        /\ todo' = {<<TableCell(t, j), q>>}
        /\ fork'.to = t /\ fork'.active = fork.active
        /\ UNCHANGED <<live, refs, used>>
    BY <1>2, <1>3, <1>5 DEF CompleteRecv, New, RequestAt, Forking
  <1>7. /\ q \in Addrs /\ q # NULL /\ q \notin MessageAddrs
        /\ TableCell(t, j) \in TableCells /\ TableCell(t, j) \in Cells
    BY <1>3, AddrAssumption, CellKinds DEF Addrs
  <1>8. R \in RequestAddrs /\ R \in Addrs /\ R # NULL /\ obj[R].type = "REQUEST_RECV" /\ obj[R] # Free
    <2>1. <<TableCell(t, j), R>> \in Assignment
      BY <1>2, <1>6, <1>7 DEF TypeOK
    <2>2. R # NULL /\ obj[R].type = "REQUEST_RECV"
      BY <1>4, <1>5 DEF IsPendingRecv, RequestAt
    <2> QED
      BY <1>7, <2>1, <2>2, AssignmentTypes DEF Addrs, Free
  <1>9. obj[R] \in RequestObject
    BY <1>2, <1>8, ObjectKinds
  <1>10. PICK o : o = [obj[R] EXCEPT !.type = "REQUEST_RECV_COMPLETED"]
    OBVIOUS
  <1>11. o.type = "REQUEST_RECV_COMPLETED" /\ o.name = obj[R].name /\ o # Free
    BY <1>9, <1>10 DEF RequestObject, Free
  <1>12. obj'[q] = o /\ \A a \in Addrs \ {q} : obj'[a] = obj[a]
    BY <1>2, <1>6, <1>7, <1>10 DEF TypeOK
  <1>13. NamesAreDistinct'
    <2>1. \A a \in Addrs : obj'[a] # Free => obj'[a].name \in used
      BY <1>2, <1>8, <1>11, <1>12 DEF NamesAreDistinct
    <2>2. \A m \in MessageAddrs : obj'[m] = obj[m]
      BY <1>7, <1>12 DEF Addrs
    <2> QED
      BY <1>2, <1>6, <2>1, <2>2 DEF NamesAreDistinct
  <1>14. /\ Sound(live, obj, Targets, used) /\ Sound(live, obj', Targets', used)
         /\ Values = ValuesIn(live, obj, Targets) /\ Values' = ValuesIn(live, obj', Targets')
         /\ PlacesIn(Targets) /\ ReadyIn(fork, obj, Targets)
         /\ \A c \in Cells : Targets[c] = refs[c]
         /\ \A b \in todo' : b[1] \in Cells => Targets'[b[1]] = b[2]
         /\ \A c \in Cells : (\A b \in todo' : b[1] # c) => Targets'[c] = refs[c]
         /\ live \subseteq States /\ used \subseteq Names
    BY <1>1, <1>6, <1>13, Settled
  <1>15. Targets'[TableCell(t, j)] = q
    <2>1. PICK b \in todo' : b = <<TableCell(t, j), q>>
      BY <1>6
    <2>2. b[1] = TableCell(t, j) /\ b[2] = q
      BY <2>1
    <2> QED
      BY <1>7, <1>14, <2>2
  <1>16. ASSUME NEW c \in Cells, c # TableCell(t, j)
         PROVE  Targets'[c] = Targets[c]
    <2>1. \A b \in todo' : b[1] # c
      BY <1>6, <1>16
    <2> QED
      BY <1>14, <2>1
  <1>17. /\ \A x \in States, h \in Places : Targets'[DequeCell(x, h)] = Targets[DequeCell(x, h)]
         /\ \A h \in Slots \ {j} : Targets'[TableCell(t, h)] = Targets[TableCell(t, h)]
         /\ \A x \in RequestAddrs : Targets'[MsgCell(x)] = Targets[MsgCell(x)]
    BY <1>3, <1>16, CellKinds, CellOwners
  <1>18. \A c \in Cells : Targets[c] # q
    BY <1>6, <1>7, <1>14 DEF Sound
  <1>19. Targets'[MsgCell(q)] = NULL
    BY <1>6, <1>14, <1>17 DEF Sound, Free
  <1>20. Unaffected(obj, Targets, obj', Targets', {q})
    BY <1>12, <1>17, <1>18 DEF Unaffected
  <1>21. OthersStay(live, live, Targets, Targets', t)
    <2>1. \A x \in States : x # t => \A c \in CellsOf(x) : c \in Cells /\ c # TableCell(t, j)
      BY <1>3, CellKinds
    <2> QED
      BY <1>16, <2>1 DEF OthersStay
  <1>22. Targets[TableCell(t, j)] = R
    BY <1>6, <1>7, <1>14
  <1>23. Completes(Values, Values', t, j)
    BY <1>3, <1>8, <1>11, <1>12, <1>14, <1>15, <1>17, <1>19, <1>20, <1>21, <1>22, ValuesAfterComplete
  <1>24. PlacesIn(Targets')
    BY <1>14, <1>17 DEF PlacesIn
  <1>25. ReadyIn(fork', obj', Targets')
    <2> SUFFICES ASSUME NEW h \in fork.active
                 PROVE  \E x \in RequestAddrs :
                            /\ Targets'[TableCell(t, h)] = x
                            /\ obj'[x].type = "REQUEST_SSEND" =>
                                  \A k \in Places : \/ Targets'[DequeCell(t, k)] = NULL
                                                    \/ Targets'[DequeCell(t, k)] # Targets'[MsgCell(x)]
      BY <1>6 DEF ReadyIn
    <2>1. h \in Slots
      BY <1>2 DEF Forking
    <2>2. CASE h = j
      BY <1>11, <1>12, <1>15, <2>2
    <2>3. CASE h # j
      <3>1. PICK x \in RequestAddrs :
                /\ Targets[TableCell(t, h)] = x
                /\ obj[x].type = "REQUEST_SSEND" =>
                      \A k \in Places : \/ Targets[DequeCell(t, k)] = NULL
                                        \/ Targets[DequeCell(t, k)] # Targets[MsgCell(x)]
        BY <1>1, <1>3, <1>14 DEF ReadyIn
      <3>2. x # q /\ x \in Addrs
        BY <1>3, <1>18, <2>1, <3>1, CellKinds DEF Addrs
      <3>3. obj'[x] = obj[x]
        BY <1>12, <3>2
      <3> QED
        BY <1>3, <1>17, <2>1, <2>3, <3>1, <3>3
    <2> QED
      BY <2>2, <2>3
  <1> QED
    BY <1>3, <1>13, <1>23, <1>24, <1>25, ValuesInvMeans

LEMMA IsendValues ==
    ASSUME ValuesInv, ObjectsInv', Idle, NEW s \in live, NEW k \in Places, NEW i \in Slots,
           NEW m \in MessageAddrs, NEW q \in RequestAddrs, NEW n \in Names,
           Isend(s, k, i, m, q, n)
    PROVE  ValuesInv' /\ Sends(Values, Values', s, i, n)
  <1>1. /\ todo = {} /\ fork' = NULL /\ UNCHANGED <<live, refs>>
        /\ refs[DequeCell(s, k)] = NULL /\ refs[TableCell(s, i)] = NULL
        /\ obj[m] = Free /\ obj[q] = Free /\ n \notin used
        /\ obj' = [obj EXCEPT ![m] = [type |-> "MESSAGE", name |-> n],
                              ![q] = [type |-> "REQUEST_SSEND", name |-> n]]
        /\ todo' = {<<DequeCell(s, k), m>>, <<MsgCell(q), m>>, <<TableCell(s, i), q>>}
        /\ used' = used \cup {n}
    BY DEF Idle, Isend
  <1>2. TypeOK /\ s \in States /\ NamesAreDistinct
    BY DEF ValuesInv, ObjectsInv, TypeOK
  <1>3. /\ m \in Addrs /\ q \in Addrs /\ m # q /\ m # NULL /\ q # NULL
        /\ m \notin RequestAddrs /\ q \notin MessageAddrs
    BY AddrAssumption DEF Addrs
  <1>4. /\ obj'[m].name = n /\ obj'[q].type = "REQUEST_SSEND" /\ obj'[q].name = n
        /\ \A a \in Addrs \ {m, q} : obj'[a] = obj[a]
    BY <1>1, <1>2, <1>3 DEF TypeOK
  <1>5. NamesAreDistinct'
    <2>1. \A a \in Addrs : obj'[a] # Free => obj'[a].name \in used \cup {n}
      BY <1>2, <1>4 DEF NamesAreDistinct
    <2>2. \A x \in MessageAddrs : x # m => obj'[x] = obj[x] /\ x \in Addrs
      BY <1>3, <1>4 DEF Addrs
    <2>3. \A x \in MessageAddrs : x # m /\ obj'[x] # Free => obj'[x].name # n
      BY <1>1, <1>2, <2>2, ZenonT(60) DEF NamesAreDistinct
    <2>4. ASSUME NEW x \in MessageAddrs, NEW y \in MessageAddrs, obj'[x] # Free, obj'[y] # Free,
                 obj'[x].name = obj'[y].name
          PROVE  x = y
      <3>1. CASE x = m \/ y = m
        BY <1>4, <2>3, <2>4, <3>1
      <3>2. CASE x # m /\ y # m
        BY <1>2, <2>2, <2>4, <3>2 DEF NamesAreDistinct
      <3> QED
        BY <3>1, <3>2
    <2> QED
      BY <1>1, <2>1, <2>4 DEF NamesAreDistinct
  <1>6. /\ Sound(live, obj, Targets, used)
        /\ Values = ValuesIn(live, obj, Targets) /\ Values' = ValuesIn(live, obj', Targets')
        /\ PlacesIn(Targets)
        /\ \A c \in Cells : Targets[c] = refs[c]
        /\ \A b \in todo' : b[1] \in Cells => Targets'[b[1]] = b[2]
        /\ \A c \in Cells : (\A b \in todo' : b[1] # c) => Targets'[c] = refs[c]
        /\ live \subseteq States /\ used \subseteq Names
    BY <1>1, <1>5, Settled
  <1>7. /\ DequeCell(s, k) \in Cells /\ TableCell(s, i) \in Cells /\ MsgCell(q) \in Cells
        /\ DequeCell(s, k) \in CellsOf(s) /\ TableCell(s, i) \in CellsOf(s)
        /\ \A x \in States : MsgCell(q) \notin CellsOf(x)
    BY <1>2, CellKinds
  <1>8. ASSUME NEW c \in Cells, NEW a, <<c, a>> \in todo'
        PROVE  Targets'[c] = a
    <2>1. PICK b \in todo' : b = <<c, a>>
      BY <1>8
    <2>2. b[1] = c /\ b[2] = a
      BY <2>1
    <2> QED
      BY <1>6, <2>2
  <1>9. Targets'[DequeCell(s, k)] = m /\ Targets'[MsgCell(q)] = m /\ Targets'[TableCell(s, i)] = q
    BY <1>1, <1>7, <1>8
  <1>10. ASSUME NEW c \in Cells, c # DequeCell(s, k), c # TableCell(s, i), c # MsgCell(q)
         PROVE  Targets'[c] = Targets[c]
    <2>1. \A b \in todo' : b[1] # c
      BY <1>1, <1>10
    <2> QED
      BY <1>6, <2>1
  <1>11. /\ \A h \in Places \ {k} : Targets'[DequeCell(s, h)] = Targets[DequeCell(s, h)]
         /\ \A h \in Slots \ {i} : Targets'[TableCell(s, h)] = Targets[TableCell(s, h)]
         /\ \A x \in RequestAddrs \ {q} : Targets'[MsgCell(x)] = Targets[MsgCell(x)]
         /\ \A x \in States \ {s}, h \in Places : Targets'[DequeCell(x, h)] = Targets[DequeCell(x, h)]
    BY <1>2, <1>10, CellKinds, CellOwners
  <1>12. \A c \in Cells : Targets[c] \notin {m, q}
    BY <1>1, <1>3, <1>6 DEF Sound
  <1>13. Unaffected(obj, Targets, obj', Targets', {m, q})
    <2>1. \A x \in RequestAddrs \ {m, q} : Targets'[MsgCell(x)] = Targets[MsgCell(x)]
      BY <1>11
    <2> QED
      BY <1>4, <1>12, <2>1 DEF Unaffected
  <1>14. OthersStay(live, live, Targets, Targets', s)
    <2>1. \A x \in States : x # s => \A c \in CellsOf(x) :
             c \in Cells /\ c # DequeCell(s, k) /\ c # TableCell(s, i) /\ c # MsgCell(q)
      BY <1>2, <1>7, CellKinds
    <2> QED
      BY <1>10, <2>1 DEF OthersStay
  <1>15. Targets[DequeCell(s, k)] = NULL /\ Targets[TableCell(s, i)] = NULL
    BY <1>1, <1>6, <1>7
  <1>16. Sends(Values, Values', s, i, n)
    <2>1. PICK L, o, t, v, u, U : /\ L = live /\ o = obj /\ t = Targets /\ U = used
                                  /\ v = obj' /\ u = Targets'
      OBVIOUS
    <2>2. L \subseteq States /\ U \subseteq Names /\ Sound(L, o, t, U) /\ s \in L
      BY <1>6, <2>1
    <2>3. Unaffected(o, t, v, u, {m, q}) /\ OthersStay(L, L, t, u, s)
      BY <1>13, <1>14, <2>1
    <2>4. /\ t[DequeCell(s, k)] = NULL /\ t[TableCell(s, i)] = NULL
          /\ v[m].name = n /\ v[q].type = "REQUEST_SSEND" /\ v[q].name = n
          /\ u[DequeCell(s, k)] = m /\ u[TableCell(s, i)] = q /\ u[MsgCell(q)] = m
      BY <1>4, <1>9, <1>15, <2>1
    <2>5. /\ \A h \in Places \ {k} : u[DequeCell(s, h)] = t[DequeCell(s, h)]
          /\ \A j \in Slots \ {i} : u[TableCell(s, j)] = t[TableCell(s, j)]
      BY <1>11, <2>1
    <2>6. k \in Places /\ i \in Slots /\ m \in MessageAddrs /\ q \in RequestAddrs /\ n \in Names
      OBVIOUS
    <2>7. Sends(ValuesIn(L, o, t), ValuesIn(L, v, u), s, i, n)
      BY ONLY <2>2, <2>3, <2>4, <2>5, <2>6, ValuesAfterSend
    <2> QED
      BY <1>6, <2>1, <2>7
  <1>17. PlacesIn(Targets')
    <2>1. \A x \in States, h \in Places : Targets[DequeCell(x, h)] # m
      BY <1>12, CellKinds
    <2>2. \A x \in States, h \in Places : x # s \/ h # k =>
             Targets'[DequeCell(x, h)] = Targets[DequeCell(x, h)]
      BY <1>11
    <2> QED
      BY <1>6, <1>9, <2>1, <2>2 DEF PlacesIn
  <1>18. ReadyIn(fork', obj', Targets')
    BY <1>1 DEF ReadyIn
  <1> QED
    BY <1>5, <1>16, <1>17, <1>18, ValuesInvMeans

LEMMA IrecvValues ==
    ASSUME ValuesInv, ObjectsInv', Idle, NEW s \in live, NEW i \in Slots,
           NEW q \in RequestAddrs, NEW n \in Names, Irecv(s, i, q, n)
    PROVE  ValuesInv' /\ n \notin used /\ used' = used \cup {n}
           /\ Receives(Values, Values', s, i, n)
  <1>1. /\ todo = {} /\ fork' = NULL /\ UNCHANGED <<live, refs>>
        /\ refs[TableCell(s, i)] = NULL
        /\ obj[q] = Free /\ n \notin used
        /\ obj' = [obj EXCEPT ![q] = [type |-> "REQUEST_RECV", name |-> n]]
        /\ todo' = {<<TableCell(s, i), q>>}
        /\ used' = used \cup {n}
    BY DEF Idle, Irecv, New
  <1>2. TypeOK /\ s \in States /\ NamesAreDistinct
    BY DEF ValuesInv, ObjectsInv, TypeOK
  <1>3. q \in Addrs /\ q # NULL /\ q \notin MessageAddrs
    BY AddrAssumption DEF Addrs
  <1>4. /\ obj'[q].type = "REQUEST_RECV" /\ obj'[q].name = n
        /\ \A a \in Addrs \ {q} : obj'[a] = obj[a]
    BY <1>1, <1>2, <1>3 DEF TypeOK
  <1>5. NamesAreDistinct'
    <2>1. \A a \in Addrs : obj'[a] # Free => obj'[a].name \in used \cup {n}
      BY <1>2, <1>4 DEF NamesAreDistinct
    <2>2. \A x \in MessageAddrs : obj'[x] = obj[x]
      BY <1>3, <1>4 DEF Addrs
    <2> QED
      BY <1>1, <1>2, <2>1, <2>2 DEF NamesAreDistinct
  <1>6. /\ Sound(live, obj, Targets, used)
        /\ Values = ValuesIn(live, obj, Targets) /\ Values' = ValuesIn(live, obj', Targets')
        /\ PlacesIn(Targets)
        /\ \A c \in Cells : Targets[c] = refs[c]
        /\ \A b \in todo' : b[1] \in Cells => Targets'[b[1]] = b[2]
        /\ \A c \in Cells : (\A b \in todo' : b[1] # c) => Targets'[c] = refs[c]
        /\ live \subseteq States /\ used \subseteq Names
    BY <1>1, <1>5, Settled
  <1>7. TableCell(s, i) \in Cells /\ TableCell(s, i) \in CellsOf(s)
    BY <1>2, CellKinds
  <1>8. Targets'[TableCell(s, i)] = q
    <2>1. PICK b \in todo' : b = <<TableCell(s, i), q>>
      BY <1>1
    <2>2. b[1] = TableCell(s, i) /\ b[2] = q
      BY <2>1
    <2> QED
      BY <1>6, <1>7, <2>2
  <1>9. ASSUME NEW c \in Cells, c # TableCell(s, i)
        PROVE  Targets'[c] = Targets[c]
    <2>1. \A b \in todo' : b[1] # c
      BY <1>1, <1>9
    <2> QED
      BY <1>6, <2>1
  <1>10. /\ \A x \in States, h \in Places : Targets'[DequeCell(x, h)] = Targets[DequeCell(x, h)]
         /\ \A h \in Slots \ {i} : Targets'[TableCell(s, h)] = Targets[TableCell(s, h)]
         /\ \A x \in RequestAddrs : Targets'[MsgCell(x)] = Targets[MsgCell(x)]
    BY <1>2, <1>9, CellKinds, CellOwners
  <1>11. \A c \in Cells : Targets[c] # q
    BY <1>1, <1>3, <1>6 DEF Sound
  <1>12. Targets'[MsgCell(q)] = NULL
    BY <1>1, <1>6, <1>10 DEF Sound, Free
  <1>13. Unaffected(obj, Targets, obj', Targets', {q})
    BY <1>4, <1>10, <1>11 DEF Unaffected
  <1>14. OthersStay(live, live, Targets, Targets', s)
    <2>1. \A x \in States : x # s => \A c \in CellsOf(x) : c \in Cells /\ c # TableCell(s, i)
      BY <1>2, <1>7, CellKinds
    <2> QED
      BY <1>9, <2>1 DEF OthersStay
  <1>15. Targets[TableCell(s, i)] = NULL
    BY <1>1, <1>6, <1>7
  <1>16. Receives(Values, Values', s, i, n)
    BY <1>2, <1>4, <1>6, <1>8, <1>10, <1>12, <1>13, <1>14, <1>15, ValuesAfterReceive
  <1>17. PlacesIn(Targets') /\ ReadyIn(fork', obj', Targets')
    BY <1>1, <1>6, <1>10 DEF PlacesIn, ReadyIn
  <1> QED
    BY <1>1, <1>5, <1>16, <1>17, ValuesInvMeans

-----------------------------------------------------------------------------
(* Every step is one of StateValues, or changes no value.                  *)

LEMMA ValuesInit ==
    ASSUME Init
    PROVE  ValuesInv /\ Value!Init
  <1>1. /\ todo = {} /\ fork = NULL /\ used = {} /\ live \subseteq States
        /\ obj = [a \in Addrs |-> Free] /\ refs = [c \in Cells |-> NULL]
    BY DEF Init
  <1>2. ObjectsInv
    BY InitInv
  <1>3. NamesAreDistinct
    BY <1>1 DEF NamesAreDistinct, Addrs
  <1>4. \A c \in Cells : Target(c) = NULL
    BY <1>1 DEF Target
  <1>5. PlacesAreDistinct /\ ForkIsReady
    BY <1>1, <1>4, CellKinds DEF PlacesAreDistinct, ForkIsReady
  <1>6. ASSUME NEW s \in States PROVE StateValue(s) = Value!Empty
    <2>1. {Target(DequeCell(s, k)) : k \in Places} \ {NULL} = {}
      BY <1>4, CellKinds
    <2>2. \A i \in Slots : RequestValue(Target(TableCell(s, i))) = NULL
      BY <1>4, CellKinds DEF RequestValue
    <2> QED
      BY <2>1, <2>2 DEF StateValue, Value!Empty
  <1>7. PICK s \in States : live = {s}
    BY DEF Init
  <1>8. Value!Init
    BY <1>1, <1>6, <1>7 DEF Value!Init
  <1> QED
    BY <1>2, <1>3, <1>5, <1>8 DEF ValuesInv

LEMMA CallsAreOfValues ==
    ASSUME ValuesInv, ObjectsInv', Idle, NEW s \in live, CallStep(s)
    PROVE  ValuesInv' /\ Value!Next
  <1>1. s \in States
    BY DEF ValuesInv, ObjectsInv, TypeOK
  <1>2. CASE \E k \in Places, i \in Slots, m \in MessageAddrs, q \in RequestAddrs, n \in Names :
                Isend(s, k, i, m, q, n)
    <2>1. PICK k \in Places, i \in Slots, m \in MessageAddrs, q \in RequestAddrs, n \in Names :
              Isend(s, k, i, m, q, n)
      BY <1>2
    <2>2. ValuesInv' /\ Sends(Values, Values', s, i, n)
      BY <2>1, IsendValues
    <2>3. n \notin used /\ used' = used \cup {n}
      BY <2>1 DEF Isend
    <2>4. Value!Send(s, i, n)
      BY <2>2, <2>3 DEF Value!Send, Value!Post, Value!Exists, Sends, Values
    <2> QED
      BY <1>1, <2>2, <2>4 DEF Value!Next
  <1>3. CASE \E i \in Slots, q \in RequestAddrs, n \in Names : Irecv(s, i, q, n)
    <2>1. PICK i \in Slots, q \in RequestAddrs, n \in Names : Irecv(s, i, q, n)
      BY <1>3
    <2>2. ValuesInv' /\ n \notin used /\ used' = used \cup {n} /\ Receives(Values, Values', s, i, n)
      BY <2>1, IrecvValues
    <2>3. Value!Receive(s, i, n)
      BY <2>2 DEF Value!Receive, Value!Post, Value!Exists, Receives, Values
    <2> QED
      BY <1>1, <2>2, <2>3 DEF Value!Next
  <1> QED
    BY <1>2, <1>3 DEF CallStep

LEMMA ExplorerIsOfValues ==
    ASSUME ValuesInv, ObjectsInv', Idle, NEW s \in live, ExplorerStep(s)
    PROVE  ValuesInv' /\ Value!Next
  <1>1. s \in States
    BY DEF ValuesInv, ObjectsInv, TypeOK
  <1>2. ASSUME NEW t \in States, Copies(Values, Values', s, t), used' = used
        PROVE  Value!Next
    <2>1. Value!Copy(s, t)
      BY <1>2 DEF Value!Copy, Value!Exists, Copies, Values
    <2> QED
      BY <1>1, <2>1 DEF Value!Next
  <1>3. CASE \E active \in SUBSET Slots : FastRunWait(s, active)
    <2>1. PICK active \in SUBSET Slots : FastRunWait(s, active)
      BY <1>3
    <2>2. ValuesInv' /\ Finishes(Values, Values', s, active) /\ used' = used
      BY <2>1, FastRunWaitValues DEF FastRunWait
    <2>3. Value!Finish(s, active)
      BY <2>2 DEF Value!Finish, Value!Exists, Finishes, Values
    <2> QED
      BY <1>1, <2>2, <2>3 DEF Value!Next
  <1>4. CASE \E t \in States \ live : CopyState(s, t)
    <2>1. PICK t \in States \ live : CopyState(s, t)
      BY <1>4
    <2>2. ValuesInv' /\ Copies(Values, Values', s, t) /\ used' = used
      BY <2>1, CopyStateValues DEF CopyState
    <2> QED
      BY <1>2, <2>2
  <1>5. CASE \E t \in States \ live, active \in SUBSET Slots, f \in SUBSET (Slots \X MessageAddrs) :
                ForkState(s, t, active, f)
    <2>1. PICK t \in States \ live, active \in SUBSET Slots, f \in SUBSET (Slots \X MessageAddrs) :
              ForkState(s, t, active, f)
      BY <1>5
    <2>2. ValuesInv' /\ Copies(Values, Values', s, t) /\ used' = used
      BY <2>1, ForkStateValues DEF ForkState
    <2> QED
      BY <1>2, <2>2
  <1>6. CASE DeleteState(s)
    <2>1. ValuesInv' /\ Deletes(Values, Values', s) /\ used' = used
      BY <1>6, DeleteStateValues DEF DeleteState
    <2>2. Value!Delete(s)
      BY <2>1 DEF Value!Delete, Value!Exists, Deletes, Values
    <2> QED
      BY <1>1, <2>1, <2>2 DEF Value!Next
  <1> QED
    BY <1>3, <1>4, <1>5, <1>6 DEF ExplorerStep

LEMMA ForkIsOfValues ==
    ASSUME ValuesInv, ObjectsInv', InFork, ForkStep
    PROVE  ValuesInv' /\ (Value!Next \/ (Values' = Values /\ used' = used))
  <1>1. live \subseteq States
    BY DEF ValuesInv, ObjectsInv, TypeOK
  <1>2. CASE \E i \in Slots, m \in MessageAddrs, k \in Places : TakeMessage(i, m, k)
    <2>1. PICK i \in Slots, m \in MessageAddrs, k \in Places : TakeMessage(i, m, k)
      BY <1>2
    <2>2. PICK s \in live, n \in Names : s = fork.to /\ n = obj[m].name
      BY <2>1, TakeMessageValues
    <2>3. ValuesInv' /\ Takes(Values, Values', s, n) /\ used' = used
      BY <2>1, <2>2, TakeMessageValues DEF TakeMessage
    <2>4. Value!Take(s, n)
      BY <2>3 DEF Value!Take, Value!Exists, Takes, Values
    <2> QED
      BY <1>1, <2>3, <2>4 DEF Value!Next
  <1>3. CASE CopyData
    BY <1>3, CopyDataValues DEF CopyData
  <1>4. CASE \E q \in RequestAddrs, j \in Slots : CompleteRecv(q, j)
    <2>1. PICK q \in RequestAddrs, j \in Slots : CompleteRecv(q, j)
      BY <1>4
    <2>2. PICK s \in live : s = fork.to
      BY <2>1, CompleteRecvValues
    <2>3. ValuesInv' /\ Completes(Values, Values', s, j) /\ used' = used
      BY <2>1, <2>2, CompleteRecvValues DEF CompleteRecv
    <2>4. Value!Complete(s, j)
      BY <2>3 DEF Value!Complete, Value!Exists, Completes, Values
    <2> QED
      BY <1>1, <2>3, <2>4 DEF Value!Next
  <1>5. CASE FinishFork
    <2>1. PICK s \in live, ids \in SUBSET Slots : s = fork.to /\ ids = fork.active
      BY <1>5, FinishForkValues
    <2>2. ValuesInv' /\ Finishes(Values, Values', s, ids) /\ used' = used
      BY <1>5, <2>1, FinishForkValues DEF FinishFork
    <2>3. Value!Finish(s, ids)
      BY <2>2 DEF Value!Finish, Value!Exists, Finishes, Values
    <2> QED
      BY <1>1, <2>2, <2>3 DEF Value!Next
  <1> QED
    BY <1>2, <1>3, <1>4, <1>5 DEF ForkStep

LEMMA StepsAreOfValues ==
    ValuesInv /\ ObjectsInv' /\ [Next]_vars => ValuesInv' /\ [Value!Next]_(Value!vars)
  <1> SUFFICES ASSUME ValuesInv, ObjectsInv', [Next]_vars
               PROVE  ValuesInv' /\ (Value!Next \/ (Values' = Values /\ used' = used))
    BY DEF Value!vars, Values
  <1>1. CASE \E a \in todo : Assign(a[1], a[2])
    <2>1. PICK a \in todo : Assign(a[1], a[2])
      BY <1>1
    <2>2. a = <<a[1], a[2]>>
      BY AssignmentTypes DEF ValuesInv, ObjectsInv, TypeOK
    <2>3. ValuesInv' /\ Values' = Values
      BY <2>1, <2>2, AssignValues
    <2> QED
      BY <2>1, <2>3 DEF Assign
  <1>2. CASE Idle /\ \E s \in live : CallStep(s) \/ ExplorerStep(s)
    BY <1>2, CallsAreOfValues, ExplorerIsOfValues
  <1>3. CASE InFork /\ ForkStep
    BY <1>3, ForkIsOfValues
  <1>4. CASE UNCHANGED vars
    <2>1. UNCHANGED <<live, refs, obj, todo, used, fork>>
      BY <1>4 DEF vars
    <2> QED
      BY <2>1, SameValues
  <1> QED
    BY <1>1, <1>2, <1>3, <1>4 DEF Next

(* An address stands for one name, wherever it is looked up, in every      *)
(* reachable state.                                                        *)
THEOREM AddressesMeanNames == Spec => []ValuesInv
  <1>1. Init => ValuesInv
    BY ValuesInit
  <1>2. ValuesInv /\ ObjectsInv' /\ [Next]_vars => ValuesInv'
    BY StepsAreOfValues
  <1> QED
    BY <1>1, <1>2, ObjectsInvariant, PTL DEF Spec

(* Program states made of shared, counted and reused objects behave as     *)
(* values, for any number of states, slots, addresses and posts.           *)
THEOREM StatesAreValues == Spec => ImplementsValues
  <1>1. Init => Value!Init
    BY ValuesInit
  <1>2. Spec => [][Value!Next]_(Value!vars)
    BY StepsAreOfValues, AddressesMeanNames, ObjectsInvariant, PTL DEF Spec
  <1> QED
    BY <1>1, <1>2, PTL DEF Spec, ImplementsValues, Value!Spec
=============================================================================
