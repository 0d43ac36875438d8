------------------------- MODULE PagedMemory_proofs -------------------------
(***************************************************************************)
(* Theorems about the paged memory, for any number of states, ranks, pages *)
(* and words.                                                              *)
(***************************************************************************)
EXTENDS PagedMemory, FiniteSetTheorems, TLAPS

Mappings == [States -> [Ranks -> Seq(Pages)] \cup {NULL}]

(* Uses of page p in any mappings m.                                       *)
Uses(m, p) ==
    {u \in States \X Ranks \X Indices :
        m[u[1]] # NULL /\ u[3] \in DOMAIN m[u[1]][u[2]] /\ m[u[1]][u[2]][u[3]] = p}

LEMMA UsersAreUses ==
    ASSUME NEW p
    PROVE  Users(p) = Uses(maps, p) /\ Users(p)' = Uses(maps', p)
    BY DEF Users, Uses, LiveStates

LEMMA UsesAreTriples ==
    ASSUME NEW m, NEW p
    PROVE  /\ \A u \in Uses(m, p) : u = <<u[1], u[2], u[3]>>
           /\ \A s, r, i : <<s, r, i>> \in Uses(m, p) <=>
                 /\ s \in States /\ r \in Ranks /\ i \in Indices
                 /\ m[s] # NULL /\ i \in DOMAIN m[s][r] /\ m[s][r][i] = p
    BY DEF Uses

LEMMA SameTriples ==
    ASSUME NEW S, NEW T,
           S \subseteq States \X Ranks \X Indices, T \subseteq States \X Ranks \X Indices,
           \A s \in States, r \in Ranks, i \in Indices : <<s, r, i>> \in S <=> <<s, r, i>> \in T
    PROVE  S = T
  <1>1. \A u \in States \X Ranks \X Indices : u \in S <=> u \in T
    OBVIOUS
  <1> QED
    BY <1>1

LEMMA UsesAreFinite ==
    ASSUME NEW m, NEW p
    PROVE  /\ IsFiniteSet(Uses(m, p))
           /\ Cardinality(Uses(m, p)) \in Nat
           /\ Cardinality(Uses(m, p)) = 0 <=> Uses(m, p) = {}
           /\ Cardinality(Uses(m, p)) = 1 => \A u, v \in Uses(m, p) : u = v
  <1>1. IsFiniteSet(Indices)
    BY MaxIndexAssumption, FS_Interval DEF Indices
  <1>2. IsFiniteSet(Ranks \X Indices)
    BY <1>1, FiniteAssumption, FS_Product
  <1>3. IsFiniteSet(States \X Ranks \X Indices)
    <2>1. IsFiniteSet({<<x[1], x[2][1], x[2][2]>> : x \in States \X (Ranks \X Indices)})
      <3>1. IsFiniteSet(States \X (Ranks \X Indices))
        BY <1>2, FiniteAssumption, FS_Product
      <3>2. ASSUME NEW S, IsFiniteSet(S)
            PROVE  IsFiniteSet({<<x[1], x[2][1], x[2][2]>> : x \in S})
        <4> DEFINE f == [x \in S |-> <<x[1], x[2][1], x[2][2]>>]
                   T == {<<x[1], x[2][1], x[2][2]>> : x \in S}
        <4>1. f \in Surjection(S, T)
          BY DEF Surjection
        <4> QED
          BY <4>1, <3>2, FS_Surjection
      <3> QED
        BY <3>1, <3>2
    <2>2. States \X Ranks \X Indices
             \subseteq {<<x[1], x[2][1], x[2][2]>> : x \in States \X (Ranks \X Indices)}
      <3> SUFFICES ASSUME NEW s \in States, NEW r \in Ranks, NEW i \in Indices
                   PROVE  <<s, r, i>> \in {<<x[1], x[2][1], x[2][2]>> : x \in States \X (Ranks \X Indices)}
        OBVIOUS
      <3> DEFINE x == <<s, <<r, i>>>>
      <3>1. x \in States \X (Ranks \X Indices) /\ <<s, r, i>> = <<x[1], x[2][1], x[2][2]>>
        OBVIOUS
      <3> QED
        BY <3>1
    <2> QED
      BY <2>1, <2>2, FS_Subset
  <1>4. IsFiniteSet(Uses(m, p))
    BY <1>3, FS_Subset DEF Uses
  <1> QED
    BY <1>4, FS_CardinalityType, FS_EmptySet, FS_Singleton

-----------------------------------------------------------------------------
(* What the operations on mappings do to the uses of a page.               *)

(* Mappings k are mappings m with page n listed at one more or one other   *)
(* place.                                                                  *)
SetAt(m, k, s, r, i, n) ==
    /\ k \in Mappings
    /\ \A t \in States : k[t] # NULL <=> m[t] # NULL
    /\ i \in DOMAIN k[s][r] /\ k[s][r][i] = n
    /\ \A t \in States, q \in Ranks, j \in Indices :
          <<t, q, j>> # <<s, r, i>> /\ m[t] # NULL =>
              /\ j \in DOMAIN k[t][q] <=> j \in DOMAIN m[t][q]
              /\ j \in DOMAIN m[t][q] => k[t][q][j] = m[t][q][j]

LEMMA AppendSets ==
    ASSUME NEW m \in Mappings, NEW s \in States, NEW r \in Ranks, m[s] # NULL,
           NEW n \in Pages, Len(m[s][r]) + 1 <= MaxIndex
    PROVE  /\ SetAt(m, [m EXCEPT ![s][r] = Append(@, n)], s, r, Len(m[s][r]) + 1, n)
           /\ Len(m[s][r]) + 1 \in Indices
           /\ Len(m[s][r]) + 1 \notin DOMAIN m[s][r]
  <1> DEFINE k == [m EXCEPT ![s][r] = Append(@, n)]
             i == Len(m[s][r]) + 1
  <1>1. m[s] \in [Ranks -> Seq(Pages)] /\ i \in Indices
    BY MaxIndexAssumption DEF Mappings, Indices
  <1>2. /\ k \in Mappings
        /\ \A t \in States : k[t] # NULL <=> m[t] # NULL
    <2>1. [m[s] EXCEPT ![r] = Append(@, n)] \in [Ranks -> Seq(Pages)]
      BY <1>1
    <2>2. k = [m EXCEPT ![s] = [m[s] EXCEPT ![r] = Append(@, n)]]
      BY DEF Mappings
    <2> QED
      BY <2>1, <2>2, NullAssumption DEF Mappings
  <1>3. /\ i \in DOMAIN k[s][r] /\ k[s][r][i] = n
        /\ \A t \in States, q \in Ranks, j \in Indices :
              <<t, q, j>> # <<s, r, i>> /\ m[t] # NULL =>
                 /\ j \in DOMAIN k[t][q] <=> j \in DOMAIN m[t][q]
                 /\ j \in DOMAIN m[t][q] => k[t][q][j] = m[t][q][j]
    BY <1>1 DEF Mappings, Indices
  <1>4. i \notin DOMAIN m[s][r]
    BY <1>1
  <1> HIDE DEF k, i
  <1>5. SetAt(m, k, s, r, i, n)
    BY <1>2, <1>3 DEF SetAt
  <1> QED
    BY <1>1, <1>4, <1>5 DEF k, i

LEMMA ReplaceSets ==
    ASSUME NEW m \in Mappings, NEW s \in States, NEW r \in Ranks, m[s] # NULL,
           NEW i \in Indices, i \in DOMAIN m[s][r], NEW n \in Pages
    PROVE  SetAt(m, [m EXCEPT ![s][r][i] = n], s, r, i, n)
  <1> DEFINE k == [m EXCEPT ![s][r][i] = n]
  <1>1. m[s] \in [Ranks -> Seq(Pages)]
    BY DEF Mappings
  <1>2. /\ k \in Mappings
        /\ \A t \in States : k[t] # NULL <=> m[t] # NULL
    <2>1. [m[s][r] EXCEPT ![i] = n] \in Seq(Pages)
      BY <1>1
    <2>2. [m[s] EXCEPT ![r] = [m[s][r] EXCEPT ![i] = n]] \in [Ranks -> Seq(Pages)]
      BY <1>1, <2>1
    <2>3. k = [m EXCEPT ![s] = [m[s] EXCEPT ![r] = [m[s][r] EXCEPT ![i] = n]]]
      BY DEF Mappings
    <2> QED
      BY <2>2, <2>3, NullAssumption DEF Mappings
  <1>3. /\ i \in DOMAIN k[s][r] /\ k[s][r][i] = n
        /\ \A t \in States, q \in Ranks, j \in Indices :
              <<t, q, j>> # <<s, r, i>> /\ m[t] # NULL =>
                 /\ j \in DOMAIN k[t][q] <=> j \in DOMAIN m[t][q]
                 /\ j \in DOMAIN m[t][q] => k[t][q][j] = m[t][q][j]
    BY <1>1 DEF Mappings, Indices
  <1> HIDE DEF k
  <1>4. SetAt(m, k, s, r, i, n)
    BY <1>2, <1>3 DEF SetAt
  <1> QED
    BY <1>4 DEF k

LEMMA UsesAfterSet ==
    ASSUME NEW m \in Mappings, NEW s \in States, NEW r \in Ranks, m[s] # NULL,
           NEW i \in Indices, NEW n \in Pages, Uses(m, n) = {},
           NEW k, SetAt(m, k, s, r, i, n)
    PROVE  /\ Uses(k, n) = {<<s, r, i>>}
           /\ \A p \in Pages : p # n => Uses(k, p) = Uses(m, p) \ {<<s, r, i>>}
  <1>1. <<s, r, i>> \in Uses(k, n) /\ \A p : <<s, r, i>> \in Uses(k, p) => p = n
    BY UsesAreTriples DEF SetAt
  <1>2. \A t \in States, q \in Ranks, j \in Indices, p \in Pages :
           <<t, q, j>> # <<s, r, i>> => (<<t, q, j>> \in Uses(k, p) <=> <<t, q, j>> \in Uses(m, p))
    BY UsesAreTriples DEF SetAt
  <1>3. \A p \in Pages : /\ Uses(k, p) \subseteq States \X Ranks \X Indices
                          /\ Uses(m, p) \subseteq States \X Ranks \X Indices
    BY DEF Uses
  <1>4. Uses(k, n) = {<<s, r, i>>}
    <2>1. \A t \in States, q \in Ranks, j \in Indices :
             <<t, q, j>> \in Uses(k, n) <=> <<t, q, j>> \in {<<s, r, i>>}
      BY <1>1, <1>2
    <2>2. {<<s, r, i>>} \subseteq States \X Ranks \X Indices
      OBVIOUS
    <2> QED
      BY <1>3, <2>1, <2>2, SameTriples
  <1>5. ASSUME NEW p \in Pages, p # n
        PROVE  Uses(k, p) = Uses(m, p) \ {<<s, r, i>>}
    <2>1. \A t \in States, q \in Ranks, j \in Indices :
             <<t, q, j>> \in Uses(k, p) <=> <<t, q, j>> \in Uses(m, p) \ {<<s, r, i>>}
      BY <1>1, <1>2, <1>5
    <2>2. Uses(m, p) \ {<<s, r, i>>} \subseteq States \X Ranks \X Indices
      BY <1>3
    <2> QED
      BY <1>3, <2>1, <2>2, SameTriples
  <1> QED
    BY <1>4, <1>5

-----------------------------------------------------------------------------
(* RefCountsAreExact, of any mappings m and any counts f.                  *)
Counted(m, f) ==
    \A p \in Pages : /\ f[p] = Cardinality(Uses(m, p))
                     /\ \A u, v \in Uses(m, p) : u[2] = v[2] /\ u[3] = v[3]

LEMMA CountsAfterSet ==
    ASSUME NEW m \in Mappings, NEW s \in States, NEW r \in Ranks, m[s] # NULL,
           NEW i \in Indices, NEW n \in Pages, NEW k, SetAt(m, k, s, r, i, n),
           NEW f, NEW g, Counted(m, f), f[n] = 0, g[n] = 1,
           \A p \in Pages : p # n => g[p] = IF <<s, r, i>> \in Uses(m, p) THEN f[p] - 1 ELSE f[p]
    PROVE  Counted(k, g)
  <1>1. Uses(m, n) = {}
    BY UsesAreFinite DEF Counted
  <1>2. /\ Uses(k, n) = {<<s, r, i>>}
        /\ \A p \in Pages : p # n => Uses(k, p) = Uses(m, p) \ {<<s, r, i>>}
    BY <1>1, UsesAfterSet
  <1> SUFFICES ASSUME NEW p \in Pages
               PROVE  /\ g[p] = Cardinality(Uses(k, p))
                      /\ \A u, v \in Uses(k, p) : u[2] = v[2] /\ u[3] = v[3]
    BY DEF Counted
  <1>3. CASE p = n
    <2>1. Cardinality({<<s, r, i>>}) = 1
      BY FS_Singleton
    <2> QED
      BY <1>2, <1>3, <2>1
  <1>4. CASE p # n
    <2>1. Uses(k, p) = Uses(m, p) \ {<<s, r, i>>}
      BY <1>2, <1>4
    <2>2. Cardinality(Uses(m, p) \ {<<s, r, i>>}) =
             IF <<s, r, i>> \in Uses(m, p) THEN Cardinality(Uses(m, p)) - 1
             ELSE Cardinality(Uses(m, p))
      BY UsesAreFinite, FS_RemoveElement
    <2>3. f[p] = Cardinality(Uses(m, p)) /\ \A u, v \in Uses(m, p) : u[2] = v[2] /\ u[3] = v[3]
      BY DEF Counted
    <2> QED
      BY <1>4, <2>1, <2>2, <2>3
  <1> QED
    BY <1>3, <1>4

(* Mappings k are mappings m with a copy of state s at t.                  *)
Copied(m, k, s, t) == k \in Mappings /\ \A u \in States : k[u] = IF u = t THEN m[s] ELSE m[u]

(* Mappings k are mappings m without state s.                              *)
Deleted(m, k, s) == k \in Mappings /\ \A u \in States : k[u] = IF u = s THEN NULL ELSE m[u]

(* Page p is listed by state s.                                            *)
Lists(m, s, p) == \E r \in Ranks, i \in Indices : <<s, r, i>> \in Uses(m, p)

LEMMA CountsAfterCopy ==
    ASSUME NEW m \in Mappings, NEW s \in States, NEW t \in States, m[s] # NULL, m[t] = NULL,
           NEW k, Copied(m, k, s, t), NEW f, NEW g, Counted(m, f),
           \A p \in Pages : g[p] = IF Lists(m, s, p) THEN f[p] + 1 ELSE f[p]
    PROVE  Counted(k, g)
  <1>1. \A p \in Pages, q \in Ranks, j \in Indices :
           /\ <<t, q, j>> \in Uses(k, p) <=> <<s, q, j>> \in Uses(m, p)
           /\ <<t, q, j>> \notin Uses(m, p)
           /\ \A u \in States \ {t} :
                 <<u, q, j>> \in Uses(k, p) <=> <<u, q, j>> \in Uses(m, p)
    BY UsesAreTriples DEF Copied
  <1>2. \A p \in Pages : Uses(k, p) \subseteq States \X Ranks \X Indices
                          /\ Uses(m, p) \subseteq States \X Ranks \X Indices
    BY DEF Uses
  <1>3. ASSUME NEW p \in Pages, Lists(m, s, p)
        PROVE  /\ Cardinality(Uses(k, p)) = Cardinality(Uses(m, p)) + 1
               /\ \A u, v \in Uses(k, p) : u[2] = v[2] /\ u[3] = v[3]
    <2>1. PICK r \in Ranks, i \in Indices : <<s, r, i>> \in Uses(m, p)
      BY <1>3 DEF Lists
    <2>2. \A q \in Ranks, j \in Indices : <<s, q, j>> \in Uses(m, p) <=> <<q, j>> = <<r, i>>
      <3> TAKE q \in Ranks, j \in Indices
      <3>1. <<s, q, j>> \in Uses(m, p) => <<s, q, j>>[2] = <<s, r, i>>[2] /\ <<s, q, j>>[3] = <<s, r, i>>[3]
        BY <2>1 DEF Counted
      <3> QED
        BY <2>1, <3>1
    <2>3. \A u \in States, q \in Ranks, j \in Indices :
             <<u, q, j>> \in Uses(k, p) <=> <<u, q, j>> \in Uses(m, p) \cup {<<t, r, i>>}
      BY <1>1, <2>2
    <2>4. Uses(k, p) = Uses(m, p) \cup {<<t, r, i>>}
      <3>1. Uses(m, p) \cup {<<t, r, i>>} \subseteq States \X Ranks \X Indices
        BY <1>2
      <3> QED
        BY <1>2, <2>3, <3>1, SameTriples
    <2>5. <<t, r, i>> \notin Uses(m, p)
      BY <1>1
    <2>6. \A u \in Uses(k, p) : u[2] = r /\ u[3] = i
      <3>1. \A u \in Uses(m, p) : u[2] = <<s, r, i>>[2] /\ u[3] = <<s, r, i>>[3]
        BY <2>1 DEF Counted
      <3> QED
        BY <2>4, <3>1
    <2> QED
      BY <2>4, <2>5, <2>6, FS_AddElement, UsesAreFinite, ZenonT(60)
  <1>4. ASSUME NEW p \in Pages, ~ Lists(m, s, p)
        PROVE  Uses(k, p) = Uses(m, p)
    <2>1. \A u \in States, q \in Ranks, j \in Indices :
             <<u, q, j>> \in Uses(k, p) <=> <<u, q, j>> \in Uses(m, p)
      BY <1>1, <1>4 DEF Lists
    <2> QED
      BY <1>2, <2>1, SameTriples
  <1> QED
    BY <1>3, <1>4 DEF Counted

LEMMA CountsAfterDelete ==
    ASSUME NEW m \in Mappings, NEW s \in States, m[s] # NULL,
           NEW k, Deleted(m, k, s), NEW f, NEW g, Counted(m, f),
           \A p \in Pages : g[p] = IF Lists(m, s, p) THEN f[p] - 1 ELSE f[p]
    PROVE  Counted(k, g)
  <1>1. \A p \in Pages, q \in Ranks, j \in Indices, u \in States :
           <<u, q, j>> \in Uses(k, p) <=> <<u, q, j>> \in Uses(m, p) /\ u # s
    BY UsesAreTriples DEF Deleted
  <1>2. \A p \in Pages : Uses(k, p) \subseteq States \X Ranks \X Indices
                          /\ Uses(m, p) \subseteq States \X Ranks \X Indices
    BY DEF Uses
  <1>3. ASSUME NEW p \in Pages, Lists(m, s, p)
        PROVE  /\ Cardinality(Uses(k, p)) = Cardinality(Uses(m, p)) - 1
               /\ \A u, v \in Uses(k, p) : u[2] = v[2] /\ u[3] = v[3]
    <2>1. PICK r \in Ranks, i \in Indices : <<s, r, i>> \in Uses(m, p)
      BY <1>3 DEF Lists
    <2>2. \A q \in Ranks, j \in Indices : <<s, q, j>> \in Uses(m, p) => <<q, j>> = <<r, i>>
      <3> TAKE q \in Ranks, j \in Indices
      <3>1. <<s, q, j>> \in Uses(m, p) => <<s, q, j>>[2] = <<s, r, i>>[2] /\ <<s, q, j>>[3] = <<s, r, i>>[3]
        BY <2>1 DEF Counted
      <3> QED
        BY <3>1
    <2>3. \A u \in States, q \in Ranks, j \in Indices :
             <<u, q, j>> \in Uses(k, p) <=> <<u, q, j>> \in Uses(m, p) \ {<<s, r, i>>}
      BY <1>1, <2>2
    <2>4. Uses(k, p) = Uses(m, p) \ {<<s, r, i>>}
      <3>1. Uses(m, p) \ {<<s, r, i>>} \subseteq States \X Ranks \X Indices
        BY <1>2
      <3> QED
        BY <1>2, <2>3, <3>1, SameTriples
    <2>5. \A u, v \in Uses(k, p) : u[2] = v[2] /\ u[3] = v[3]
      BY <2>4 DEF Counted
    <2>6. Cardinality(Uses(m, p) \ {<<s, r, i>>}) = Cardinality(Uses(m, p)) - 1
      BY <2>1, FS_RemoveElement, UsesAreFinite
    <2> QED
      BY <2>4, <2>5, <2>6
  <1>4. ASSUME NEW p \in Pages, ~ Lists(m, s, p)
        PROVE  Uses(k, p) = Uses(m, p)
    <2>1. \A u \in States, q \in Ranks, j \in Indices :
             <<u, q, j>> \in Uses(k, p) <=> <<u, q, j>> \in Uses(m, p)
      BY <1>1, <1>4 DEF Lists
    <2> QED
      BY <1>2, <2>1, SameTriples
  <1> QED
    BY <1>3, <1>4 DEF Counted

-----------------------------------------------------------------------------
(* What the invariant says of the slots.                                   *)

LEMMA InvByCounts ==
    /\ RefCountsAreExact <=> Counted(maps, [p \in Pages |-> pages[p].refs])
    /\ RefCountsAreExact' <=> Counted(maps', [p \in Pages |-> pages'[p].refs])
    BY UsersAreUses DEF RefCountsAreExact, Counted

(* The page that the current mapping lists at an index is in use there,    *)
(* and active nowhere else.                                                *)
LEMMA CurrentPage ==
    ASSUME PagedInv
    PROVE  /\ current = <<current[1], current[2]>>
           /\ current[1] \in States /\ current[2] \in Ranks /\ maps[current[1]] # NULL
           /\ maps[current[1]] \in [Ranks -> Seq(Pages)]
           /\ maps \in Mappings
           /\ \A i \in DOMAIN Mapping :
                 /\ i \in Indices /\ Mapping[i] \in Pages
                 /\ <<current[1], current[2], i>> \in Uses(maps, Mapping[i])
                 /\ pages[Mapping[i]].refs > 0
                 /\ \A j \in Indices : slot[j] = Mapping[i] => j = i
  <1>1. /\ current = <<current[1], current[2]>>
        /\ current[1] \in States /\ current[2] \in Ranks /\ maps[current[1]] # NULL
        /\ maps \in Mappings
        /\ maps[current[1]] \in [Ranks -> Seq(Pages)]
    BY DEF PagedInv, TypeOK, ProtectionIsSound, LiveStates, Mappings
  <1>2. Mapping \in Seq(Pages) /\ Len(Mapping) <= MaxIndex
    BY <1>1 DEF Mapping, PagedInv, ProtectionIsSound, LiveStates
  <1>3. ASSUME NEW i \in DOMAIN Mapping
        PROVE  /\ i \in Indices /\ Mapping[i] \in Pages
               /\ <<current[1], current[2], i>> \in Uses(maps, Mapping[i])
    <2>1. i \in Indices /\ Mapping[i] \in Pages
      BY <1>2, MaxIndexAssumption DEF Indices
    <2> QED
      BY <1>1, <2>1, UsesAreTriples DEF Mapping
  <1>4. ASSUME NEW i \in DOMAIN Mapping
        PROVE  pages[Mapping[i]].refs > 0
    <2>1. PICK p \in Pages : p = Mapping[i]
      BY <1>3
    <2>2. pages[p].refs = Cardinality(Uses(maps, p)) /\ Uses(maps, p) # {}
      BY <1>3, <2>1, UsersAreUses DEF PagedInv, RefCountsAreExact
    <2> QED
      BY <2>1, <2>2, UsesAreFinite
  <1>5. ASSUME NEW i \in DOMAIN Mapping, NEW j \in Indices, slot[j] = Mapping[i]
        PROVE  j = i
    <2>1. PICK u \in Users(Mapping[i]) : u[3] = j
      <3>1. slot[j] # NULL
        BY <1>3, <1>5, NullAssumption
      <3>2. \E u \in Users(slot[j]) : u[3] = j
        BY <3>1 DEF PagedInv, ProtectionIsSound
      <3> QED
        BY <3>2, <1>5
    <2>2. u[3] = <<current[1], current[2], i>>[3]
      BY <1>3, <2>1, UsersAreUses DEF PagedInv, RefCountsAreExact
    <2> QED
      BY <2>1, <2>2
  <1> QED
    BY <1>1, <1>3, <1>4, <1>5

(* No two slots have one page, and a page in a slot is in use there.       *)
LEMMA SlotsDiffer ==
    ASSUME PagedInv, NEW i \in Indices, slot[i] # NULL
    PROVE  /\ slot[i] \in Pages /\ pages[slot[i]].refs > 0 /\ pages[slot[i]].active
           /\ \A j \in Indices : slot[j] = slot[i] => j = i
  <1>1. slot[i] \in Pages
    BY DEF PagedInv, TypeOK
  <1>2. \A j \in Indices : slot[j] = slot[i] => \E u \in Uses(maps, slot[i]) : u[3] = j
    BY UsersAreUses DEF PagedInv, ProtectionIsSound
  <1>3. \A u, v \in Uses(maps, slot[i]) : u[3] = v[3]
    BY <1>1, UsersAreUses DEF PagedInv, RefCountsAreExact
  <1>4. pages[slot[i]].refs = Cardinality(Uses(maps, slot[i]))
    BY <1>1, UsersAreUses DEF PagedInv, RefCountsAreExact
  <1>5. pages[slot[i]].refs > 0
    BY <1>2, <1>4, UsesAreFinite
  <1>6. pages[slot[i]].active
    BY <1>1 DEF PagedInv, ProtectionIsSound
  <1> QED
    BY <1>1, <1>2, <1>3, <1>5, <1>6

LEMMA SwapsOut ==
    ASSUME TypeOK, NEW i \in Indices
    PROVE  /\ SwapOut(i) \in [Pages -> Page]
           /\ \A q \in Pages : /\ SwapOut(i)[q].refs = pages[q].refs
                               /\ SwapOut(i)[q].active = pages[q].active
                               /\ SwapOut(i)[q].data = IF q = slot[i] THEN phys[i] ELSE pages[q].data
  <1>1. slot[i] \in Pages \cup {NULL} /\ phys[i] \in Words /\ pages \in [Pages -> Page]
    BY DEF TypeOK
  <1>2. CASE slot[i] = NULL
    BY <1>1, <1>2, NullAssumption DEF SwapOut
  <1>3. CASE slot[i] \in Pages
    <2>1. SwapOut(i) = [pages EXCEPT ![slot[i]] = [pages[slot[i]] EXCEPT !.data = phys[i]]]
      BY <1>3, NullAssumption DEF SwapOut
    <2>2. [pages[slot[i]] EXCEPT !.data = phys[i]] \in Page
      BY <1>1, <1>3 DEF Page
    <2> QED
      BY <1>1, <1>3, <2>1, <2>2 DEF Page
  <1> QED
    BY <1>1, <1>2, <1>3

(* setPageAsActive keeps slots and pages in step.                          *)
LEMMA Activates ==
    ASSUME PagedInv, NEW ps \in [Pages -> Page], NEW i \in Indices, NEW p \in Pages,
           \A q \in Pages : ps[q].active = pages[q].active,
           \A j \in Indices : slot[j] = p => j = i
    PROVE  /\ Activate(ps, i, p) \in [Pages -> Page]
           /\ [slot EXCEPT ![i] = p] \in [Indices -> Pages \cup {NULL}]
           /\ \A q \in Pages :
                 /\ Activate(ps, i, p)[q].refs = ps[q].refs
                 /\ Activate(ps, i, p)[q].active <=>
                       \E j \in Indices : [slot EXCEPT ![i] = p][j] = q
                 /\ q # p => Activate(ps, i, p)[q].data = ps[q].data
  <1> DEFINE a == Activate(ps, i, p)
             sl == [slot EXCEPT ![i] = p]
  <1>1. slot \in [Indices -> Pages \cup {NULL}]
    BY DEF PagedInv, TypeOK
  <1>2. sl \in [Indices -> Pages \cup {NULL}] /\ \A j \in Indices : sl[j] = IF j = i THEN p ELSE slot[j]
    BY <1>1
  <1>3. \A q \in Pages :
           a[q] = IF q = p THEN [ps[q] EXCEPT !.active = TRUE, !.data = NULL]
                  ELSE IF q = slot[i] THEN [ps[q] EXCEPT !.active = FALSE]
                  ELSE ps[q]
    BY DEF Activate
  <1>4. a \in [Pages -> Page]
    <2>1. \A q \in Pages : a[q] \in Page
      BY <1>3, ZenonT(60) DEF Page
    <2>2. a = [q \in Pages |-> a[q]]
      BY DEF Activate
    <2> HIDE DEF a
    <2> QED
      BY <2>1, <2>2
  <1> HIDE DEF a, sl
  <1>5. ASSUME NEW q \in Pages
        PROVE  /\ a[q].refs = ps[q].refs
               /\ q # p => a[q].data = ps[q].data
               /\ a[q].active = IF q = p THEN TRUE ELSE IF q = slot[i] THEN FALSE ELSE ps[q].active
    BY <1>3, ZenonT(60) DEF Page
  <1>6. ASSUME NEW q \in Pages
        PROVE  a[q].active <=> \E j \in Indices : sl[j] = q
    <2>1. pages[q].active <=> \E j \in Indices : slot[j] = q
      BY DEF PagedInv, ProtectionIsSound
    <2>2. CASE q = p
      BY <2>2, <1>2, <1>5
    <2>3. CASE q # p /\ q = slot[i]
      <3>1. \A j \in Indices : slot[j] = q => j = i
        BY <2>3, SlotsDiffer, NullAssumption
      <3> QED
        BY <2>3, <3>1, <1>2, <1>5
    <2>4. CASE q # p /\ q # slot[i]
      BY <2>1, <2>4, <1>2, <1>5
    <2> QED
      BY <2>2, <2>3, <2>4
  <1> QED
    BY <1>2, <1>4, <1>5, <1>6 DEF a, sl

-----------------------------------------------------------------------------
(* The invariant is inductive.                                             *)

LEMMA InitialInv == Init => PagedInv
  <1> SUFFICES ASSUME Init PROVE PagedInv
    OBVIOUS
  <1>1. PICK s \in States, r \in Ranks :
           /\ maps = [t \in States |-> IF t = s THEN [q \in Ranks |-> << >>] ELSE NULL]
           /\ current = <<s, r>>
    BY DEF Init
  <1>2. /\ [q \in Ranks |-> << >>] \in [Ranks -> Seq(Pages)]
        /\ [q \in Ranks |-> << >>] # NULL
    <2>1. << >> \in Seq(Pages)
      OBVIOUS
    <2>2. [q \in Ranks |-> << >>] \in [Ranks -> Seq(Pages)]
      BY <2>1
    <2> QED
      BY <2>2, NullAssumption
  <1>3. TypeOK
    <2>1. NoPage \in Page
      BY DEF NoPage, Page
    <2>2. maps \in [States -> [Ranks -> Seq(Pages)] \cup {NULL}]
      BY <1>1, <1>2
    <2> QED
      BY <2>1, <2>2, <1>1, ZeroAssumption DEF Init, TypeOK, NoProtection, Protections
  <1>4. \A p \in Pages : Uses(maps, p) = {}
    BY <1>1 DEF Uses
  <1>5. RefCountsAreExact
    BY <1>4, UsersAreUses, FS_EmptySet DEF RefCountsAreExact, Init, NoPage
  <1>6. ProtectionIsSound
    <2>1. current[1] \in LiveStates /\ \A t \in LiveStates, q \in Ranks : Len(maps[t][q]) <= MaxIndex
      BY <1>1, <1>2, MaxIndexAssumption DEF LiveStates
    <2> QED
      BY <2>1, NullAssumption DEF ProtectionIsSound, Init, NoPage, NoProtection
  <1> QED
    BY <1>3, <1>5, <1>6 DEF PagedInv

(* Counts and protection do not depend on the contents of the memory.      *)
LEMMA SameProtection ==
    ASSUME PagedInv, UNCHANGED <<pages, maps, slot, prot, current>>
    PROVE  RefCountsAreExact' /\ ProtectionIsSound'
  <1>1. \A p : Users(p)' = Users(p)
    BY DEF Users, LiveStates
  <1>2. RefCountsAreExact'
    BY <1>1 DEF PagedInv, RefCountsAreExact
  <1>3. Mapping' = Mapping /\ LiveStates' = LiveStates
    BY DEF Mapping, LiveStates
  <1>4. ProtectionIsSound'
    BY <1>1, <1>3 DEF PagedInv, ProtectionIsSound, IsPrivate
  <1> QED
    BY <1>2, <1>4

LEMMA SameMemory ==
    ASSUME PagedInv, UNCHANGED <<pages, maps, slot, prot, phys, current>>,
           exited' \in Failures \cup {NULL}
    PROVE  PagedInv'
  <1>1. TypeOK'
    BY DEF PagedInv, TypeOK
  <1> QED
    BY <1>1, SameProtection DEF PagedInv

LEMMA WriteKeepsInv == \A i \in Indices : PagedInv /\ Write(i) => PagedInv'
  <1> SUFFICES ASSUME NEW i \in Indices, PagedInv, Write(i) PROVE PagedInv'
    OBVIOUS
  <1>1. TypeOK'
    BY DEF Write, PagedInv, TypeOK
  <1>2. RefCountsAreExact' /\ ProtectionIsSound'
    BY SameProtection DEF Write
  <1> QED
    BY <1>1, <1>2 DEF PagedInv

LEMMA SwitchKeepsInv ==
    \A s \in States, r \in Ranks : PagedInv /\ SwitchTo(s, r) => PagedInv'
  <1> SUFFICES ASSUME NEW s \in States, NEW r \in Ranks, PagedInv, SwitchTo(s, r)
               PROVE  PagedInv'
    OBVIOUS
  <1>1. TypeOK'
    BY DEF SwitchTo, PagedInv, TypeOK, NoProtection, Protections
  <1>2. RefCountsAreExact'
    BY DEF SwitchTo, PagedInv, RefCountsAreExact, Users, LiveStates
  <1>3. ProtectionIsSound'
    BY DEF SwitchTo, PagedInv, ProtectionIsSound, Users, LiveStates, NoProtection, IsPrivate
  <1> QED
    BY <1>1, <1>2, <1>3 DEF PagedInv

(* Page p becomes the active one at index i, where it is listed by the     *)
(* current mapping; whatever else happened to counts and mappings left     *)
(* the other indices alone.                                                *)
(* What the handlers assign when page p comes in.                          *)
BroughtIn(ps, i, p, x) ==
    /\ pages' = Activate(ps, i, p)
    /\ slot' = [slot EXCEPT ![i] = p]
    /\ prot' = [prot EXCEPT ![i] = x]
    /\ phys' \in [Indices -> Words]
    /\ UNCHANGED <<current, exited>>

OtherIndicesStay(ps, i, p) ==
    /\ maps' \in Mappings
    /\ \A t \in States : maps'[t] # NULL <=> maps[t] # NULL
    /\ \A t \in States, q \in Ranks : maps[t] # NULL => Len(maps'[t][q]) <= MaxIndex
    /\ Counted(maps', [q \in Pages |-> ps[q].refs])
    /\ <<current[1], current[2], i>> \in Uses(maps', p)
    /\ \A q \in Pages : \A u \in Uses(maps, q) : u[3] # i => u \in Uses(maps', q)
    /\ \A q \in Pages : q \notin {p, slot[i]} => ps[q].refs = pages[q].refs
    /\ \A q \in Pages : ps[q].active = pages[q].active
    /\ \A j \in Indices : slot[j] = p => j = i
    /\ \A q \in Pages : q # p /\ ps[q].refs > 0 /\ (pages[q].active => q = slot[i])
                           => ps[q].data # NULL

LEMMA PageComesIn ==
    ASSUME PagedInv, NEW ps \in [Pages -> Page], NEW i \in Indices, NEW p \in Pages,
           NEW x \in Protections,
           BroughtIn(ps, i, p, x), OtherIndicesStay(ps, i, p),
           x = "WRITE" => ps[p].refs = 1
    PROVE  PagedInv'
  <1> USE DEF BroughtIn, OtherIndicesStay
  <1>1. /\ pages' \in [Pages -> Page]
        /\ slot' \in [Indices -> Pages \cup {NULL}]
        /\ \A q \in Pages :
              /\ pages'[q].refs = ps[q].refs
              /\ pages'[q].active <=> \E j \in Indices : slot'[j] = q
              /\ q # p => pages'[q].data = ps[q].data
    BY Activates
  <1>2. TypeOK'
    BY <1>1 DEF PagedInv, TypeOK, Mappings
  <1>3. /\ \A j \in Indices : slot'[j] = IF j = i THEN p ELSE slot[j]
        /\ \A j \in Indices : prot'[j] = IF j = i THEN x ELSE prot[j]
    BY DEF PagedInv, TypeOK
  <1>4. RefCountsAreExact'
    <2>1. [q \in Pages |-> pages'[q].refs] = [q \in Pages |-> ps[q].refs]
      BY <1>1
    <2> QED
      BY <2>1, InvByCounts
  <1>5. current[1] \in LiveStates'
    BY CurrentPage DEF LiveStates
  <1>6. ASSUME NEW j \in Indices, prot'[j] # "NONE"
        PROVE  j \in DOMAIN Mapping' /\ slot'[j] = Mapping'[j]
    <2>1. <<current[1], current[2], j>> \in Uses(maps', slot'[j])
      <3>1. CASE j = i
        BY <3>1, <1>3
      <3>2. CASE j # i
        <4>1. j \in DOMAIN Mapping /\ slot[j] = Mapping[j]
          BY <1>3, <1>6, <3>2 DEF PagedInv, ProtectionIsSound
        <4>2. PICK q \in Pages : q = slot[j] /\ <<current[1], current[2], j>> \in Uses(maps, q)
          BY <4>1, CurrentPage
        <4>3. <<current[1], current[2], j>> \in Uses(maps', q)
          BY <4>2, <3>2
        <4> QED
          BY <4>2, <4>3, <1>3, <3>2
      <3> QED
        BY <3>1, <3>2
    <2> QED
      BY <2>1, UsesAreTriples DEF Mapping
  <1>7. ASSUME NEW j \in Indices, prot'[j] = "WRITE"
        PROVE  pages'[slot'[j]].refs = 1
    <2>1. CASE j = i
      BY <1>1, <1>3, <1>7, <2>1
    <2>2. CASE j # i
      <3>1. prot[j] = "WRITE" /\ slot'[j] = slot[j]
        BY <1>3, <1>7, <2>2
      <3>2. j \in DOMAIN Mapping /\ slot[j] = Mapping[j] /\ pages[slot[j]].refs = 1
        BY <3>1 DEF PagedInv, ProtectionIsSound, IsPrivate
      <3>3. slot[j] \in Pages /\ slot[j] # slot[i] /\ slot[j] # p
        BY <3>2, <2>2, CurrentPage
      <3> QED
        BY <1>1, <3>1, <3>2, <3>3
    <2> QED
      BY <2>1, <2>2
  <1>8. ASSUME NEW j \in Indices, slot'[j] # NULL
        PROVE  \E u \in Uses(maps', slot'[j]) : u[3] = j
    <2>1. CASE j = i
      BY <1>3, <2>1
    <2>2. CASE j # i
      <3>1. PICK q \in Pages : q = slot[j]
        BY <1>3, <1>8, <2>2 DEF PagedInv, TypeOK
      <3>2. PICK u \in Uses(maps, q) : u[3] = j
        BY <1>3, <1>8, <2>2, <3>1, UsersAreUses DEF PagedInv, ProtectionIsSound
      <3> QED
        BY <1>3, <2>2, <3>1, <3>2
    <2> QED
      BY <2>1, <2>2
  <1>9. ASSUME NEW q \in Pages, pages'[q].refs > 0, ~ pages'[q].active
        PROVE  pages'[q].data # NULL
    <2>1. q # p
      BY <1>1, <1>3, <1>9
    <2>2. pages[q].active => q = slot[i]
      <3>1. pages[q].active => \E j \in Indices : slot[j] = q
        BY DEF PagedInv, ProtectionIsSound
      <3> QED
        BY <1>1, <1>3, <1>9, <3>1
    <2> QED
      BY <1>1, <1>9, <2>1, <2>2
  <1>10. \A t \in LiveStates', q \in Ranks : Len(maps'[t][q]) <= MaxIndex
    BY DEF LiveStates
  <1>11. ProtectionIsSound'
    <2>1. \A j \in Indices : slot'[j] # NULL => \E u \in Users(slot[j])' : u[3] = j
      BY <1>8, UsersAreUses
    <2> QED
      BY <1>1, <1>5, <1>6, <1>7, <1>9, <1>10, <2>1 DEF ProtectionIsSound, IsPrivate
  <1> QED
    BY <1>2, <1>4, <1>11 DEF PagedInv

(* A page that nobody uses is in no slot.                                  *)
LEMMA UnusedPage ==
    ASSUME PagedInv, NEW n \in Pages, pages[n].refs = 0
    PROVE  /\ Uses(maps, n) = {} /\ ~ pages[n].active
           /\ \A j \in Indices : slot[j] # n
  <1>1. Uses(maps, n) = {}
    BY UsersAreUses, UsesAreFinite DEF PagedInv, RefCountsAreExact
  <1>2. \A j \in Indices : slot[j] # n
    BY SlotsDiffer, NullAssumption
  <1> QED
    BY <1>1, <1>2 DEF PagedInv, ProtectionIsSound

(* Only what was at index i before loses a use when page n comes in.       *)
OtherPagesStay(ps, i, n) ==
    /\ \A q \in Pages : ps[q].active = pages[q].active
    /\ \A q \in Pages : q # n =>
          /\ ps[q].data = SwapOut(i)[q].data
          /\ ps[q].refs = IF <<current[1], current[2], i>> \in Uses(maps, q)
                          THEN pages[q].refs - 1 ELSE pages[q].refs
    /\ \A q \in Pages : <<current[1], current[2], i>> \in Uses(maps, q) => q = slot[i]

(* New page n takes the place of what the current mapping listed at index  *)
(* i, if anything.                                                         *)
TakesNewPage(ps, i, n) ==
    /\ pages[n].refs = 0 /\ ps[n].refs = 1
    /\ OtherPagesStay(ps, i, n)
    /\ SetAt(maps, maps', current[1], current[2], i, n)
    /\ \A t \in States, q \in Ranks : maps[t] # NULL => Len(maps'[t][q]) <= MaxIndex
    /\ \A t \in States, q \in Ranks :
          maps[t] # NULL /\ <<t, q>> # <<current[1], current[2]>> => maps'[t][q] = maps[t][q]
    /\ BroughtIn(ps, i, n, "WRITE")
    /\ phys' = phys

LEMMA NewPageComesIn ==
    ASSUME PagedInv, NEW i \in Indices, NEW n \in Pages, NEW ps \in [Pages -> Page],
           TakesNewPage(ps, i, n)
    PROVE  PagedInv'
  <1> USE DEF OtherPagesStay, TakesNewPage
  <1> DEFINE s == current[1]
             r == current[2]
             f == [q \in Pages |-> pages[q].refs]
             g == [q \in Pages |-> ps[q].refs]
  <1>1. /\ s \in States /\ r \in Ranks /\ maps[s] # NULL /\ maps \in Mappings
        /\ s = current[1] /\ r = current[2]
    BY CurrentPage
  <1>2. f[n] = 0 /\ g[n] = 1 /\ Counted(maps, f)
    BY InvByCounts DEF PagedInv
  <1>3. \A q \in Pages : q # n => g[q] = IF <<s, r, i>> \in Uses(maps, q) THEN f[q] - 1 ELSE f[q]
    OBVIOUS
  <1>4. Uses(maps, n) = {}
    BY UnusedPage
  <1>5. Counted(maps', g)
    <2> HIDE DEF f, g, s, r
    <2> QED
      BY <1>1, <1>2, <1>3, CountsAfterSet
  <1>6. /\ Uses(maps', n) = {<<s, r, i>>}
        /\ \A q \in Pages : q # n => Uses(maps', q) = Uses(maps, q) \ {<<s, r, i>>}
    <2> HIDE DEF s, r
    <2> QED
      BY <1>1, <1>4, UsesAfterSet
  <1>7. maps' \in Mappings /\ \A t \in States : maps'[t] # NULL <=> maps[t] # NULL
    BY DEF SetAt
  <1>8. \A q \in Pages : \A u \in Uses(maps, q) : u[3] # i => u \in Uses(maps', q)
    <2> SUFFICES ASSUME NEW q \in Pages, NEW u \in Uses(maps, q), u[3] # i
                 PROVE  u \in Uses(maps', q)
      OBVIOUS
    <2>1. u # <<s, r, i>>
      OBVIOUS
    <2> QED
      BY <1>4, <1>6, <2>1
  <1>9. ASSUME NEW q \in Pages, q # n, ps[q].refs > 0, pages[q].active => q = slot[i]
        PROVE  ps[q].data # NULL
    <2>1. ps[q].data = IF q = slot[i] THEN phys[i] ELSE pages[q].data
      BY <1>9, SwapsOut DEF PagedInv
    <2>2. phys[i] # NULL
      BY NullAssumption DEF PagedInv, TypeOK
    <2>3. pages[q].refs > 0
      <3>1. pages[q].refs \in Nat
        BY DEF PagedInv, TypeOK, Page
      <3> QED
        BY <1>9, <3>1
    <2> QED
      BY <1>9, <2>1, <2>2, <2>3 DEF PagedInv, ProtectionIsSound
  <1>10. \A j \in Indices : slot[j] = n => j = i
    BY UnusedPage
  <1>11. "WRITE" \in Protections /\ UNCHANGED current
    BY DEF Protections, BroughtIn
  <1>12. <<current[1], current[2], i>> \in Uses(maps', n)
    BY <1>6
  <1>13. \A q \in Pages : q \notin {n, slot[i]} => ps[q].refs = pages[q].refs
    OBVIOUS
  <1>14. OtherIndicesStay(ps, i, n)
    BY <1>5, <1>7, <1>8, <1>9, <1>10, <1>12, <1>13 DEF OtherIndicesStay
  <1>15. BroughtIn(ps, i, n, "WRITE") /\ ps[n].refs = 1
    OBVIOUS
  <1> HIDE DEF s, r, f, g, OtherPagesStay, TakesNewPage
  <1> QED
    BY <1>11, <1>14, <1>15, PageComesIn

Stays ==
    /\ UNCHANGED <<pages, maps, slot, prot, phys, current>>
    /\ exited' \in Failures

LEMMA Allocates ==
    ASSUME PagedInv, AllocPage
    PROVE  \/ Stays
           \/ LET i == Len(Mapping) + 1
              IN  /\ i \in Indices
                  /\ Len(maps'[current[1]][current[2]]) = i
                  /\ \E n \in Pages, ps \in [Pages -> Page] : TakesNewPage(ps, i, n)
  <1> DEFINE s == current[1]
             r == current[2]
             i == Len(Mapping) + 1
  <1>1. /\ s \in States /\ r \in Ranks /\ maps[s] # NULL /\ maps \in Mappings
        /\ maps[s] \in [Ranks -> Seq(Pages)] /\ Mapping = maps[s][r]
    BY CurrentPage DEF Mapping
  <1>2. CASE i > MaxIndex
    BY <1>2 DEF AllocPage, Exit, Failures, Stays
  <1>3. CASE ~ (i > MaxIndex)
    <2>1. PICK p \in Pages :
             /\ IsNewPage(p)
             /\ maps' = [maps EXCEPT ![s][r] = Append(@, p)]
             /\ pages' = Activate([SwapOut(i) EXCEPT ![p] = [NoPage EXCEPT !.refs = 1]], i, p)
             /\ slot' = [slot EXCEPT ![i] = p]
             /\ prot' = [prot EXCEPT ![i] = "WRITE"]
             /\ UNCHANGED <<phys, current, exited>>
      BY <1>3 DEF AllocPage
    <2>2. Len(maps[s][r]) + 1 <= MaxIndex
      BY <1>1, <1>3, MaxIndexAssumption
    <2>3. SetAt(maps, maps', s, r, i, p) /\ i \in Indices /\ i \notin DOMAIN maps[s][r]
      <3> HIDE DEF s, r
      <3> QED
        BY <1>1, <2>1, <2>2, AppendSets
    <2>4. ASSUME NEW t \in States, NEW q \in Ranks, maps[t] # NULL
          PROVE  /\ Len(maps'[t][q]) <= MaxIndex
                 /\ maps'[t][q] = IF t = s /\ q = r THEN Append(maps[s][r], p) ELSE maps[t][q]
      <3>1. Len(maps[t][q]) <= MaxIndex
        BY <2>4 DEF PagedInv, ProtectionIsSound, LiveStates
      <3>2. maps'[t][q] = IF t = s /\ q = r THEN Append(maps[s][r], p) ELSE maps[t][q]
        <4>1. maps[t] \in [Ranks -> Seq(Pages)]
          BY <2>4 DEF PagedInv, TypeOK
        <4>2. maps' = [maps EXCEPT ![s] = [maps[s] EXCEPT ![r] = Append(maps[s][r], p)]]
          BY <1>1, <2>1 DEF Mappings
        <4> QED
          BY <1>1, <4>1, <4>2 DEF Mappings
      <3>3. Len(Append(maps[s][r], p)) = Len(maps[s][r]) + 1
        BY <1>1
      <3> QED
        BY <2>2, <3>1, <3>2, <3>3
    <2>5. PICK ps : ps = [SwapOut(i) EXCEPT ![p] = [NoPage EXCEPT !.refs = 1]]
      OBVIOUS
    <2> HIDE DEF i, s, r
    <2>6. /\ ps \in [Pages -> Page] /\ ps[p].refs = 1 /\ ps[p].active = FALSE
          /\ \A q \in Pages : q # p => ps[q] = SwapOut(i)[q]
      <3> DEFINE new == [NoPage EXCEPT !.refs = 1]
      <3>1. SwapOut(i) \in [Pages -> Page]
        BY <2>3, SwapsOut DEF PagedInv
      <3>2. new \in Page /\ new.refs = 1 /\ new.active = FALSE
        BY DEF NoPage, Page
      <3>3. ps = [SwapOut(i) EXCEPT ![p] = new]
        BY <2>5
      <3> HIDE DEF new
      <3> QED
        BY <3>1, <3>2, <3>3
    <2>7. pages[p].refs = 0
      BY <2>1 DEF IsNewPage
    <2>8. \A q \in Pages : <<s, r, i>> \notin Uses(maps, q)
      BY <2>3, UsesAreTriples
    <2>9. \A q \in Pages : ps[q].active = pages[q].active
      <3>1. pages[p].active = FALSE
        BY <2>7, UnusedPage DEF PagedInv, TypeOK, Page
      <3>2. \A q \in Pages : q # p => ps[q].active = pages[q].active
        BY <2>3, <2>6, SwapsOut DEF PagedInv
      <3> QED
        BY <2>6, <3>1, <3>2
    <2>10. \A q \in Pages : q # p => ps[q].refs = pages[q].refs /\ ps[q].data = SwapOut(i)[q].data
      BY <2>3, <2>6, SwapsOut DEF PagedInv
    <2>11. pages' = Activate(ps, i, p)
      BY <2>1, <2>5
    <2>12. s = current[1] /\ r = current[2]
      BY DEF s, r
    <2>13. OtherPagesStay(ps, i, p)
      BY <2>8, <2>9, <2>10, <2>12 DEF OtherPagesStay
    <2>14. BroughtIn(ps, i, p, "WRITE")
      BY <2>1, <2>11 DEF BroughtIn, PagedInv, TypeOK
    <2>15. TakesNewPage(ps, i, p)
      BY <2>1, <2>3, <2>4, <2>6, <2>7, <2>12, <2>13, <2>14 DEF TakesNewPage
    <2>16. Len(maps'[s][r]) = i
      <3>1. maps'[s][r] = Append(maps[s][r], p)
        BY <1>1, <2>4
      <3> QED
        BY <1>1, <3>1 DEF i
    <2> QED
      BY <2>3, <2>6, <2>12, <2>15, <2>16 DEF i
  <1> QED
    BY <1>2, <1>3

LEMMA AllocKeepsInv == PagedInv /\ AllocPage => PagedInv'
  <1> SUFFICES ASSUME PagedInv, AllocPage PROVE PagedInv'
    OBVIOUS
  <1>1. CASE Stays
    BY <1>1, SameMemory DEF Stays
  <1>2. CASE ~ Stays
    <2>1. PICK i \in Indices, n \in Pages, ps \in [Pages -> Page] : TakesNewPage(ps, i, n)
      BY <1>2, Allocates
    <2> QED
      BY <2>1, NewPageComesIn
  <1> QED
    BY <1>1, <1>2

LEMMA ProtectedKeepsInv == \A i \in Indices : PagedInv /\ FaultOnProtected(i) => PagedInv'
  <1> SUFFICES ASSUME NEW i \in Indices, PagedInv, FaultOnProtected(i) PROVE PagedInv'
    OBVIOUS
  <1>1. CASE PageAt(Mapping, i) = NULL
    BY <1>1, SameMemory DEF FaultOnProtected, Exit, Failures
  <1>2. CASE PageAt(Mapping, i) # NULL
    <2>1. /\ i \in DOMAIN Mapping /\ PageAt(Mapping, i) = Mapping[i]
      BY <1>2 DEF PageAt
    <2>2. PICK p \in Pages :
             /\ p = Mapping[i] /\ PageAt(Mapping, i) = p
             /\ <<current[1], current[2], i>> \in Uses(maps, p)
             /\ pages[p].refs > 0
             /\ \A j \in Indices : slot[j] = p => j = i
      BY <2>1, CurrentPage
    <2>3. PICK x \in Protections :
             x = (IF IsPrivate(p) THEN "WRITE" ELSE "READ")
      BY DEF Protections
    <2>4. /\ prot' = [prot EXCEPT ![i] = x]
          /\ IF p = slot[i] THEN UNCHANGED <<pages, slot, phys>>
             ELSE /\ pages' = Activate(SwapOut(i), i, p)
                  /\ phys' = [phys EXCEPT ![i] = pages[p].data]
                  /\ slot' = [slot EXCEPT ![i] = p]
          /\ UNCHANGED <<maps, current, exited>>
      BY <1>2, <2>2, <2>3 DEF FaultOnProtected
    <2>5. x = "WRITE" => pages[p].refs = 1
      BY <2>3 DEF IsPrivate
    <2>6. prot' \in [Indices -> Protections] /\ \A j \in Indices : prot'[j] = IF j = i THEN x ELSE prot[j]
      BY <2>4 DEF PagedInv, TypeOK
    <2>7. CASE p = slot[i]
      <3>1. UNCHANGED <<pages, maps, slot, phys, current, exited>>
        BY <2>4, <2>7
      <3>2. TypeOK'
        BY <2>6, <3>1 DEF PagedInv, TypeOK
      <3>3. \A q : Users(q)' = Users(q)
        BY <3>1 DEF Users, LiveStates
      <3>4. RefCountsAreExact'
        BY <3>1, <3>3 DEF PagedInv, RefCountsAreExact
      <3>5. Mapping' = Mapping /\ LiveStates' = LiveStates
        BY <3>1 DEF Mapping, LiveStates
      <3>6. \A j \in Indices : prot'[j] # "NONE" => j \in DOMAIN Mapping /\ slot[j] = Mapping[j]
        BY <2>1, <2>2, <2>6, <2>7 DEF PagedInv, ProtectionIsSound
      <3>7. \A j \in Indices : prot'[j] = "WRITE" => pages[slot[j]].refs = 1
        BY <2>5, <2>6, <2>7 DEF PagedInv, ProtectionIsSound, IsPrivate
      <3>8. ProtectionIsSound'
        BY <3>1, <3>3, <3>5, <3>6, <3>7 DEF PagedInv, ProtectionIsSound, IsPrivate
      <3> QED
        BY <3>2, <3>4, <3>8 DEF PagedInv
    <2>8. CASE p # slot[i]
      <3>1. PICK ps \in [Pages -> Page] :
               /\ ps = SwapOut(i)
               /\ \A q \in Pages :
                     /\ ps[q].refs = pages[q].refs
                     /\ ps[q].active = pages[q].active
                     /\ ps[q].data = IF q = slot[i] THEN phys[i] ELSE pages[q].data
        BY SwapsOut DEF PagedInv
      <3>2. pages[p].data # NULL
        BY <2>2, <2>8 DEF PagedInv, ProtectionIsSound
      <3>3. phys' \in [Indices -> Words]
        <4>1. pages[p].data \in Words
          BY <3>2 DEF PagedInv, TypeOK, Page
        <4> QED
          BY <2>4, <2>8, <4>1 DEF PagedInv, TypeOK
      <3>4. BroughtIn(ps, i, p, x)
        BY <2>4, <2>8, <3>1, <3>3 DEF BroughtIn
      <3>5. [q \in Pages |-> ps[q].refs] = [q \in Pages |-> pages[q].refs]
        BY <3>1
      <3>6. ASSUME NEW q \in Pages, ps[q].refs > 0, pages[q].active => q = slot[i]
            PROVE  ps[q].data # NULL
        <4>1. phys[i] # NULL
          BY NullAssumption DEF PagedInv, TypeOK
        <4> QED
          BY <3>1, <3>6, <4>1 DEF PagedInv, ProtectionIsSound
      <3>7. OtherIndicesStay(ps, i, p)
        <4>1. maps \in Mappings /\ \A t \in States, q \in Ranks : maps[t] # NULL => Len(maps[t][q]) <= MaxIndex
          BY CurrentPage DEF PagedInv, ProtectionIsSound, LiveStates
        <4>2. Counted(maps, [q \in Pages |-> ps[q].refs])
          BY <3>5, InvByCounts DEF PagedInv
        <4> QED
          BY <2>2, <2>4, <3>1, <3>6, <4>1, <4>2 DEF OtherIndicesStay
      <3> QED
        BY <2>5, <3>1, <3>4, <3>7, PageComesIn
    <2> QED
      BY <2>7, <2>8
  <1> QED
    BY <1>1, <1>2

LEMMA CopiesOnWrite ==
    ASSUME NEW i \in Indices, PagedInv, FaultOnReadOnly(i)
    PROVE  \/ Stays
           \/ /\ i \in DOMAIN Mapping /\ slot[i] = Mapping[i]
              /\ Len(maps'[current[1]][current[2]]) = Len(Mapping)
              /\ \E n \in Pages, ps \in [Pages -> Page] : TakesNewPage(ps, i, n)
  <1> DEFINE s == current[1]
             r == current[2]
  <1>1. /\ s \in States /\ r \in Ranks /\ maps[s] # NULL /\ maps \in Mappings
        /\ maps[s] \in [Ranks -> Seq(Pages)] /\ Mapping = maps[s][r]
        /\ s = current[1] /\ r = current[2]
    BY CurrentPage DEF Mapping
  <1>2. prot[i] = "READ" /\ i \in DOMAIN Mapping /\ slot[i] = Mapping[i]
    BY DEF FaultOnReadOnly, PagedInv, ProtectionIsSound
  <1>3. PICK p \in Pages :
           /\ p = Mapping[i] /\ p = slot[i]
           /\ <<current[1], current[2], i>> \in Uses(maps, p)
           /\ pages[p].refs > 0
    BY <1>2, CurrentPage
  <1>4. pages[p].active
    BY <1>3 DEF PagedInv, ProtectionIsSound
  <1>5. CASE IsPrivate(p)
    BY <1>3, <1>4, <1>5 DEF FaultOnReadOnly, Exit, Failures, Stays
  <1>6. CASE ~ IsPrivate(p)
    <2>1. PICK n \in Pages :
             /\ IsNewPage(n)
             /\ maps' = [maps EXCEPT ![s][r][i] = n]
             /\ pages' = Activate([SwapOut(i) EXCEPT ![p].refs = @ - 1,
                                                     ![n] = [NoPage EXCEPT !.refs = 1]], i, n)
             /\ slot' = [slot EXCEPT ![i] = n]
             /\ prot' = [prot EXCEPT ![i] = "WRITE"]
             /\ UNCHANGED <<phys, current, exited>>
      BY <1>3, <1>6 DEF FaultOnReadOnly
    <2>2. SetAt(maps, maps', s, r, i, n)
      <3> HIDE DEF s, r
      <3> QED
        BY <1>1, <1>2, <2>1, ReplaceSets
    <2>3. ASSUME NEW t \in States, NEW q \in Ranks, maps[t] # NULL
          PROVE  /\ Len(maps'[t][q]) <= MaxIndex
                 /\ maps'[t][q] = IF t = s /\ q = r THEN [maps[s][r] EXCEPT ![i] = n] ELSE maps[t][q]
      <3>1. Len(maps[t][q]) <= MaxIndex
        BY <2>3 DEF PagedInv, ProtectionIsSound, LiveStates
      <3>2. maps'[t][q] = IF t = s /\ q = r THEN [maps[s][r] EXCEPT ![i] = n] ELSE maps[t][q]
        <4>1. maps[t] \in [Ranks -> Seq(Pages)]
          BY <2>3 DEF PagedInv, TypeOK
        <4>2. maps' = [maps EXCEPT ![s] = [maps[s] EXCEPT ![r] = [maps[s][r] EXCEPT ![i] = n]]]
          BY <1>1, <2>1 DEF Mappings
        <4> QED
          BY <1>1, <4>1, <4>2 DEF Mappings
      <3>3. Len([maps[s][r] EXCEPT ![i] = n]) = Len(maps[s][r])
        BY <1>1
      <3> QED
        BY <3>1, <3>2, <3>3
    <2>4. pages[n].refs = 0 /\ n # p
      BY <1>3, <2>1 DEF IsNewPage
    <2>5. PICK sw \in [Pages -> Page] :
             /\ sw = SwapOut(i)
             /\ \A q \in Pages : sw[q].refs = pages[q].refs /\ sw[q].active = pages[q].active
      BY SwapsOut DEF PagedInv
    <2>6. PICK ps : ps = [sw EXCEPT ![p].refs = @ - 1, ![n] = [NoPage EXCEPT !.refs = 1]]
      OBVIOUS
    <2>7. /\ ps \in [Pages -> Page] /\ ps[n].refs = 1 /\ ps[n].active = FALSE
          /\ ps[p].refs = pages[p].refs - 1 /\ ps[p].data = sw[p].data /\ ps[p].active = sw[p].active
          /\ \A q \in Pages : q # n /\ q # p => ps[q] = sw[q]
      <3> DEFINE new == [NoPage EXCEPT !.refs = 1]
                 less == [sw[p] EXCEPT !.refs = @ - 1]
      <3>1. new \in Page /\ new.refs = 1 /\ new.active = FALSE
        BY DEF NoPage, Page
      <3>2. less \in Page /\ less.refs = pages[p].refs - 1 /\ less.data = sw[p].data
            /\ less.active = sw[p].active
        <4>1. sw[p] \in Page /\ sw[p].refs \in Nat /\ sw[p].refs > 0 /\ sw[p].refs = pages[p].refs
          BY <1>3, <2>5 DEF Page
        <4>2. sw[p].refs - 1 \in Nat
          BY <4>1
        <4> QED
          BY <4>1, <4>2 DEF Page
      <3>3. ps = [sw EXCEPT ![p] = less, ![n] = new]
        BY <2>6
      <3> HIDE DEF new, less
      <3> QED
        BY <2>4, <3>1, <3>2, <3>3
    <2>8. \A q \in Pages : <<s, r, i>> \in Uses(maps, q) => q = p
      BY <1>1, <1>3, UsesAreTriples
    <2>9. \A q \in Pages : ps[q].active = pages[q].active
      <3>1. pages[n].active = FALSE
        BY <2>4, UnusedPage DEF PagedInv, TypeOK, Page
      <3>2. \A q \in Pages : q # n => ps[q].active = pages[q].active
        BY <2>5, <2>7
      <3> QED
        BY <2>7, <3>1, <3>2
    <2>10. OtherPagesStay(ps, i, n)
      <3>1. ASSUME NEW q \in Pages, q # n
            PROVE  /\ ps[q].data = SwapOut(i)[q].data
                   /\ ps[q].refs = IF <<current[1], current[2], i>> \in Uses(maps, q)
                                   THEN pages[q].refs - 1 ELSE pages[q].refs
        BY <1>3, <2>5, <2>7, <2>8, <3>1
      <3> QED
        BY <1>3, <2>8, <2>9, <3>1 DEF OtherPagesStay
    <2>11. BroughtIn(ps, i, n, "WRITE")
      <3>1. pages' = Activate(ps, i, n)
        BY <2>1, <2>5, <2>6
      <3> QED
        BY <2>1, <3>1 DEF BroughtIn, PagedInv, TypeOK
    <2> HIDE DEF s, r
    <2>12. TakesNewPage(ps, i, n)
      BY <1>1, <2>1, <2>2, <2>3, <2>4, <2>7, <2>10, <2>11 DEF TakesNewPage
    <2>13. Len(maps'[s][r]) = Len(Mapping)
      <3>1. maps'[s][r] = [maps[s][r] EXCEPT ![i] = n]
        BY <1>1, <2>3
      <3> QED
        BY <1>1, <3>1
    <2> QED
      BY <1>1, <1>2, <2>7, <2>12, <2>13
  <1> QED
    BY <1>5, <1>6

LEMMA ReadOnlyKeepsInv ==
    \A i \in Indices : PagedInv /\ FaultOnReadOnly(i) => PagedInv'
  <1> SUFFICES ASSUME NEW i \in Indices, PagedInv, FaultOnReadOnly(i) PROVE PagedInv'
    OBVIOUS
  <1>1. CASE Stays
    BY <1>1, SameMemory DEF Stays
  <1>2. CASE ~ Stays
    <2>1. PICK n \in Pages, ps \in [Pages -> Page] : TakesNewPage(ps, i, n)
      BY <1>2, CopiesOnWrite
    <2> QED
      BY <2>1, NewPageComesIn
  <1> QED
    BY <1>1, <1>2

LEMMA ListedPages ==
    ASSUME PagedInv, NEW s \in LiveStates, NEW p \in Pages
    PROVE  /\ p \in PagesOf(s) <=> Lists(maps, s, p)
           /\ Lists(maps, s, p) => pages[p].refs > 0
  <1>1. s \in States /\ maps[s] # NULL /\ maps[s] \in [Ranks -> Seq(Pages)]
    BY DEF LiveStates, PagedInv, TypeOK
  <1>2. ASSUME NEW r \in Ranks, NEW i \in DOMAIN maps[s][r]
        PROVE  i \in Indices
    <2>1. maps[s][r] \in Seq(Pages) /\ Len(maps[s][r]) <= MaxIndex
      BY <1>1 DEF PagedInv, ProtectionIsSound
    <2> QED
      BY <2>1, MaxIndexAssumption DEF Indices
  <1>3. p \in PagesOf(s) <=> Lists(maps, s, p)
    <2>1. p \in PagesOf(s) <=> \E r \in Ranks : \E i \in DOMAIN maps[s][r] : maps[s][r][i] = p
      BY DEF PagesOf
    <2>2. Lists(maps, s, p) <=> \E r \in Ranks, i \in Indices : i \in DOMAIN maps[s][r] /\ maps[s][r][i] = p
      <3>1. \A r \in Ranks, i \in Indices :
               <<s, r, i>> \in Uses(maps, p) <=> i \in DOMAIN maps[s][r] /\ maps[s][r][i] = p
        BY <1>1, UsesAreTriples
      <3> QED
        BY <3>1 DEF Lists
    <2>3. ASSUME p \in PagesOf(s) PROVE Lists(maps, s, p)
      <3>1. PICK r \in Ranks : \E i \in DOMAIN maps[s][r] : maps[s][r][i] = p
        BY <2>1, <2>3
      <3>2. PICK i \in DOMAIN maps[s][r] : maps[s][r][i] = p
        BY <3>1
      <3>3. i \in Indices
        BY <1>2
      <3> QED
        BY <2>2, <3>2, <3>3
    <2> QED
      BY <2>1, <2>2, <2>3
  <1>4. Lists(maps, s, p) => Uses(maps, p) # {}
    BY DEF Lists
  <1>5. pages[p].refs = Cardinality(Uses(maps, p))
    BY UsersAreUses DEF PagedInv, RefCountsAreExact
  <1> QED
    BY <1>3, <1>4, <1>5, UsesAreFinite

LEMMA ForkKeepsInv ==
    \A s, t \in States, r \in Ranks : PagedInv /\ Fork(s, t, r) => PagedInv'
  <1> SUFFICES ASSUME NEW s \in States, NEW t \in States, NEW r \in Ranks,
                      PagedInv, Fork(s, t, r)
               PROVE  PagedInv'
    OBVIOUS
  <1>1. /\ s \in LiveStates /\ maps[s] # NULL /\ maps[t] = NULL /\ maps \in Mappings
        /\ maps[s] \in [Ranks -> Seq(Pages)]
    BY CurrentPage DEF Fork, LiveStates, PagedInv, TypeOK
  <1>2. Copied(maps, maps', s, t)
    <2>1. maps' = [maps EXCEPT ![t] = maps[s]]
      BY DEF Fork
    <2> QED
      BY <1>1, <2>1 DEF Copied, Mappings
  <1>3. \A p \in Pages :
           /\ pages'[p].refs = IF Lists(maps, s, p) THEN pages[p].refs + 1 ELSE pages[p].refs
           /\ pages'[p].data = pages[p].data /\ pages'[p].active = pages[p].active
           /\ pages'[p] \in Page
    <2> SUFFICES ASSUME NEW p \in Pages
                 PROVE  /\ pages'[p].refs = IF Lists(maps, s, p) THEN pages[p].refs + 1
                                            ELSE pages[p].refs
                        /\ pages'[p].data = pages[p].data /\ pages'[p].active = pages[p].active
                        /\ pages'[p] \in Page
      OBVIOUS
    <2>1. pages[p] \in Page
      BY DEF PagedInv, TypeOK
    <2>2. pages'[p] = IF Lists(maps, s, p) THEN [pages[p] EXCEPT !.refs = @ + 1] ELSE pages[p]
      BY <1>1, ListedPages DEF Fork
    <2> QED
      BY <2>1, <2>2 DEF Page
  <1>4. TypeOK'
    <2>1. pages' = [p \in Pages |-> pages'[p]]
      BY DEF Fork
    <2>2. pages' \in [Pages -> Page]
      BY <1>3, <2>1
    <2>3. current' \in States \X Ranks /\ prot' \in [Indices -> Protections]
      BY DEF Fork, NoProtection, Protections
    <2>4. maps' \in Mappings
      BY <1>2 DEF Copied
    <2>5. UNCHANGED <<slot, phys, exited>>
      BY DEF Fork
    <2> QED
      BY <2>2, <2>3, <2>4, <2>5 DEF PagedInv, TypeOK, Mappings
  <1>5. RefCountsAreExact'
    <2> DEFINE f == [p \in Pages |-> pages[p].refs]
               g == [p \in Pages |-> pages'[p].refs]
    <2>1. Counted(maps, f)
      BY InvByCounts DEF PagedInv
    <2>2. \A p \in Pages : g[p] = IF Lists(maps, s, p) THEN f[p] + 1 ELSE f[p]
      BY <1>3
    <2>3. Counted(maps', g)
      <3> HIDE DEF f, g
      <3> QED
        BY <1>1, <1>2, <2>1, <2>2, CountsAfterCopy
    <2> QED
      BY <2>3, InvByCounts
  <1>6. \A p : \A u \in Uses(maps, p) : u \in Uses(maps', p)
    BY <1>1, <1>2 DEF Uses, Copied
  <1>7. ProtectionIsSound'
    <2>1. current'[1] \in LiveStates'
      BY <1>1, <1>2 DEF Fork, LiveStates, Copied
    <2>2. \A j \in Indices : prot'[j] = "NONE"
      BY DEF Fork, NoProtection
    <2>3. \A p \in Pages : pages'[p].active <=> \E j \in Indices : slot'[j] = p
      BY <1>3 DEF PagedInv, ProtectionIsSound, Fork
    <2>4. \A j \in Indices : slot'[j] # NULL => \E u \in Users(slot[j])' : u[3] = j
      <3>1. \A j \in Indices : slot[j] # NULL => \E u \in Uses(maps, slot[j]) : u[3] = j
        BY UsersAreUses DEF PagedInv, ProtectionIsSound
      <3>2. \A j \in Indices : slot[j] # NULL => \E u \in Uses(maps', slot[j]) : u[3] = j
        BY <1>6, <3>1
      <3>3. slot' = slot
        BY DEF Fork
      <3> QED
        BY <3>2, <3>3, UsersAreUses
    <2>5. ASSUME NEW p \in Pages, pages'[p].refs > 0, ~ pages'[p].active
          PROVE  pages'[p].data # NULL
      BY <1>1, <1>3, <2>5, ListedPages DEF PagedInv, ProtectionIsSound
    <2>6. \A v \in LiveStates', q \in Ranks : Len(maps'[v][q]) <= MaxIndex
      BY <1>1, <1>2 DEF LiveStates, Copied, PagedInv, ProtectionIsSound
    <2>7. slot' = slot
      BY DEF Fork
    <2> QED
      BY <2>1, <2>2, <2>3, <2>4, <2>5, <2>6, <2>7 DEF ProtectionIsSound
  <1> QED
    BY <1>4, <1>5, <1>7 DEF PagedInv

LEMMA DeleteKeepsInv == \A s \in States : PagedInv /\ Delete(s) => PagedInv'
  <1> SUFFICES ASSUME NEW s \in States, PagedInv, Delete(s) PROVE PagedInv'
    OBVIOUS
  <1> DEFINE gone == {p \in PagesOf(s) : IsPrivate(p)}
  <1>1. /\ s \in LiveStates /\ maps[s] # NULL /\ maps \in Mappings /\ s # current[1]
        /\ UNCHANGED <<phys, current, exited>>
    BY CurrentPage DEF Delete, LiveStates
  <1>2. Deleted(maps, maps', s)
    <2>1. maps' = [maps EXCEPT ![s] = NULL]
      BY DEF Delete
    <2> QED
      BY <1>1, <2>1 DEF Deleted, Mappings
  <1>3. \A p \in Pages : p \in gone <=> Lists(maps, s, p) /\ pages[p].refs = 1
    BY <1>1, ListedPages DEF IsPrivate
  <1>4. /\ \A j \in Indices : slot'[j] = IF slot[j] \in gone THEN NULL ELSE slot[j]
        /\ \A j \in Indices : prot'[j] = IF slot[j] \in gone THEN "NONE" ELSE prot[j]
        /\ slot' \in [Indices -> Pages \cup {NULL}]
        /\ prot' \in [Indices -> Protections]
    BY DEF Delete, PagedInv, TypeOK, Protections
  <1>5. ASSUME NEW p \in Pages
        PROVE  /\ pages'[p].refs = IF Lists(maps, s, p) THEN pages[p].refs - 1 ELSE pages[p].refs
               /\ p \in gone => pages'[p].refs = 0 /\ pages'[p].active = FALSE
               /\ p \notin gone => /\ pages'[p].data = pages[p].data
                                  /\ pages'[p].active = pages[p].active
               /\ pages'[p] \in Page
    <2>1. pages[p] \in Page
      BY DEF PagedInv, TypeOK
    <2>2. pages'[p] = IF p \in gone THEN NoPage
                      ELSE IF Lists(maps, s, p) THEN [pages[p] EXCEPT !.refs = @ - 1] ELSE pages[p]
      BY <1>1, ListedPages DEF Delete
    <2>3. CASE p \in gone
      <3>1. Lists(maps, s, p) /\ pages[p].refs = 1
        BY <1>3, <2>3
      <3>2. pages'[p] = NoPage
        BY <2>2, <2>3
      <3>3. NoPage \in Page /\ NoPage.refs = 0 /\ NoPage.active = FALSE
        BY DEF NoPage, Page
      <3> HIDE DEF gone
      <3> QED
        BY <2>3, <3>1, <3>2, <3>3
    <2>4. CASE p \notin gone /\ Lists(maps, s, p)
      <3>1. pages[p].refs \in Nat /\ pages[p].refs > 0
        BY <1>1, <2>1, <2>4, ListedPages DEF Page
      <3>2. pages[p].refs - 1 \in Nat
        BY <3>1
      <3> HIDE DEF gone
      <3> QED
        BY <2>1, <2>2, <2>4, <3>2 DEF Page
    <2>5. CASE p \notin gone /\ ~ Lists(maps, s, p)
      <3> HIDE DEF gone
      <3> QED
        BY <2>1, <2>2, <2>5 DEF Page
    <2> QED
      BY <2>3, <2>4, <2>5
  <1> HIDE DEF gone
  <1>6. TypeOK'
    <2>1. pages' = [p \in Pages |-> pages'[p]]
      BY DEF Delete
    <2>2. pages' \in [Pages -> Page]
      BY <1>5, <2>1
    <2>3. maps' \in Mappings
      BY <1>2 DEF Deleted
    <2> QED
      BY <1>1, <1>4, <2>2, <2>3 DEF PagedInv, TypeOK, Mappings
  <1>7. RefCountsAreExact'
    <2> DEFINE f == [p \in Pages |-> pages[p].refs]
               g == [p \in Pages |-> pages'[p].refs]
    <2>1. Counted(maps, f)
      BY InvByCounts DEF PagedInv
    <2>2. \A p \in Pages : g[p] = IF Lists(maps, s, p) THEN f[p] - 1 ELSE f[p]
      BY <1>5
    <2>3. Counted(maps', g)
      <3> HIDE DEF f, g
      <3> QED
        BY <1>1, <1>2, <2>1, <2>2, CountsAfterDelete
    <2> QED
      BY <2>3, InvByCounts
  <1>8. ASSUME NEW p \in Pages, Lists(maps, s, p), pages[p].refs = 1
        PROVE  \A t \in States, q \in Ranks, j \in Indices : <<t, q, j>> \in Uses(maps, p) => t = s
    <2>1. PICK r \in Ranks, i \in Indices : <<s, r, i>> \in Uses(maps, p)
      BY <1>8 DEF Lists
    <2>2. Cardinality(Uses(maps, p)) = 1
      BY <1>8, UsersAreUses DEF PagedInv, RefCountsAreExact
    <2>3. \A u \in Uses(maps, p) : u = <<s, r, i>>
      BY <2>1, <2>2, UsesAreFinite
    <2> QED
      BY <2>3
  <1>9. ASSUME NEW j \in Indices, prot'[j] # "NONE"
        PROVE  /\ prot'[j] = prot[j] /\ slot'[j] = slot[j]
               /\ j \in DOMAIN Mapping /\ slot[j] = Mapping[j] /\ Mapping' = Mapping
               /\ slot[j] \in Pages /\ <<current[1], current[2], j>> \in Uses(maps, slot[j])
    <2>1. slot[j] \notin gone /\ prot'[j] = prot[j] /\ slot'[j] = slot[j]
      BY <1>4, <1>9
    <2>2. j \in DOMAIN Mapping /\ slot[j] = Mapping[j]
      BY <1>9, <2>1 DEF PagedInv, ProtectionIsSound
    <2>3. maps'[current[1]] = maps[current[1]]
      BY <1>1, <1>2, CurrentPage DEF Deleted
    <2>4. Mapping' = Mapping
      BY <1>1, <2>3 DEF Mapping
    <2> QED
      BY <2>1, <2>2, <2>4, CurrentPage
  <1>10. ProtectionIsSound'
    <2>1. current'[1] \in LiveStates'
      BY <1>1, <1>2, CurrentPage DEF Deleted, LiveStates
    <2>2. \A j \in Indices : prot'[j] # "NONE" => j \in DOMAIN Mapping' /\ slot'[j] = Mapping'[j]
      BY <1>9
    <2>3. ASSUME NEW j \in Indices, prot'[j] = "WRITE"
          PROVE  pages'[slot'[j]].refs = 1
      <3>1. PICK p \in Pages : /\ p = slot[j] /\ slot'[j] = p /\ prot[j] = "WRITE"
                               /\ <<current[1], current[2], j>> \in Uses(maps, p)
        BY <1>9, <2>3
      <3>2. pages[p].refs = 1
        BY <3>1 DEF PagedInv, ProtectionIsSound, IsPrivate
      <3>3. ~ Lists(maps, s, p)
        BY <1>1, <1>8, <3>1, <3>2, CurrentPage
      <3> QED
        BY <1>5, <3>1, <3>2, <3>3
    <2>4. ASSUME NEW p \in Pages
          PROVE  pages'[p].active <=> \E j \in Indices : slot'[j] = p
      <3>1. pages[p].active <=> \E j \in Indices : slot[j] = p
        BY DEF PagedInv, ProtectionIsSound
      <3>2. \A j \in Indices : slot'[j] = p <=> slot[j] = p /\ p \notin gone
        BY <1>4, NullAssumption
      <3> QED
        BY <1>5, <3>1, <3>2
    <2>5. ASSUME NEW j \in Indices, slot'[j] # NULL
          PROVE  \E u \in Uses(maps', slot'[j]) : u[3] = j
      <3>1. PICK p \in Pages : p = slot[j] /\ slot'[j] = p /\ p \notin gone
        BY <1>4, <2>5 DEF PagedInv, TypeOK
      <3>2. \A u \in Uses(maps, p) : u[3] = j
        <4>1. slot[j] # NULL
          BY <3>1, NullAssumption
        <4>2. \E u \in Uses(maps, p) : u[3] = j
          BY <3>1, <4>1, UsersAreUses DEF PagedInv, ProtectionIsSound
        <4>3. \A u, v \in Uses(maps, p) : u[3] = v[3]
          BY UsersAreUses DEF PagedInv, RefCountsAreExact
        <4> QED
          BY <4>2, <4>3
      <3>3. pages[p].refs > 0 /\ pages[p].refs \in Nat
        BY <3>1, SlotsDiffer, NullAssumption DEF PagedInv, TypeOK, Page
      <3>4. pages'[p].refs > 0
        <4>1. Lists(maps, s, p) => pages[p].refs # 1
          BY <1>3, <3>1
        <4>2. pages'[p].refs = IF Lists(maps, s, p) THEN pages[p].refs - 1 ELSE pages[p].refs
          BY <1>5
        <4> QED
          BY <3>3, <4>1, <4>2
      <3>5. pages'[p].refs = Cardinality(Uses(maps', p))
        BY <1>7, UsersAreUses DEF RefCountsAreExact
      <3>6. Uses(maps', p) # {}
        BY <3>4, <3>5, UsesAreFinite
      <3>7. Uses(maps', p) \subseteq Uses(maps, p)
        BY <1>2 DEF Deleted, Uses
      <3> QED
        BY <3>1, <3>2, <3>6, <3>7
    <2>6. ASSUME NEW p \in Pages, pages'[p].refs > 0, ~ pages'[p].active
          PROVE  pages'[p].data # NULL
      <3>1. p \notin gone
        <4>1. p \in gone => pages'[p].refs = 0
          BY <1>5
        <4> QED
          BY <2>6, <4>1
      <3>2. ~ pages[p].active /\ pages'[p].data = pages[p].data
        <4>1. pages'[p].data = pages[p].data /\ pages'[p].active = pages[p].active
          BY <1>5, <3>1
        <4>2. pages[p].active \in BOOLEAN
          BY DEF PagedInv, TypeOK, Page
        <4> QED
          BY <2>6, <4>1, <4>2
      <3>3. pages[p].refs > 0
        BY <1>1, <1>5, <2>6, ListedPages
      <3> QED
        BY <3>2, <3>3 DEF PagedInv, ProtectionIsSound
    <2>7. \A v \in LiveStates', q \in Ranks : Len(maps'[v][q]) <= MaxIndex
      BY <1>2 DEF LiveStates, Deleted, PagedInv, ProtectionIsSound
    <2>8. \A j \in Indices : slot'[j] # NULL => \E u \in Users(slot[j])' : u[3] = j
      BY <1>4, <2>5, UsersAreUses
    <2> QED
      BY <2>1, <2>2, <2>3, <2>4, <2>6, <2>7, <2>8 DEF ProtectionIsSound, IsPrivate
  <1> QED
    BY <1>6, <1>7, <1>10 DEF PagedInv

-----------------------------------------------------------------------------
(* Theorems.                                                               *)

LEMMA StepKeepsInv == PagedInv /\ [Next]_vars => PagedInv'
  <1> SUFFICES ASSUME PagedInv, [Next]_vars PROVE PagedInv'
    OBVIOUS
  <1>1. CASE UNCHANGED vars
    BY <1>1, SameMemory DEF vars, PagedInv, TypeOK
  <1>2. CASE AllocPage
    BY <1>2, AllocKeepsInv
  <1>3. ASSUME NEW i \in Indices, Write(i) PROVE PagedInv'
    BY <1>3, WriteKeepsInv
  <1>4. ASSUME NEW i \in Indices, PageFault(i) PROVE PagedInv'
    BY <1>4, ProtectedKeepsInv, ReadOnlyKeepsInv DEF PageFault
  <1>5. ASSUME NEW i \in Indices, NEW q \in Ranks, NEW first \in Indices, HashPage(q, first, i) PROVE PagedInv'
    BY <1>5, ProtectedKeepsInv DEF HashPage
  <1>6. ASSUME NEW s \in States, NEW r \in Ranks, SwitchTo(s, r) PROVE PagedInv'
    BY <1>6, SwitchKeepsInv
  <1>7. ASSUME NEW s \in States, NEW r \in Ranks, NEW t \in States, Fork(s, t, r) PROVE PagedInv'
    BY <1>7, ForkKeepsInv
  <1>8. ASSUME NEW s \in States, Delete(s) PROVE PagedInv'
    BY <1>8, DeleteKeepsInv
  <1> QED
    BY <1>1, <1>2, <1>3, <1>4, <1>5, <1>6, <1>7, <1>8 DEF Next

(* In every history of copies, writes, faults, switches and deletes, for   *)
(* any number of states, ranks and pages: counts, protection and contents  *)
(* are in step (MemoryManager.cpp, MemoryMapping.cpp).                     *)
THEOREM PagedInvariant == Spec => []PagedInv
  <1> QED
    BY InitialInv, StepKeepsInv, PTL DEF Spec

(* Every variable of the paged memory has its type, always.                *)
THEOREM TypeCorrect == Spec => []TypeOK
  <1>1. PagedInv => TypeOK
    BY DEF PagedInv
  <1> QED
    BY <1>1, PagedInvariant, PTL

(* The reference count of a page is the number of mappings that list it,   *)
(* so no page is deleted in use and none is kept for nobody                *)
(* (MemoryPage::incRefCount, decRefCount).                                 *)
THEOREM CountsAreRight == Spec => []RefCountsAreExact
  <1>1. PagedInv => RefCountsAreExact
    BY DEF PagedInv
  <1> QED
    BY <1>1, PagedInvariant, PTL

(* No access that the protection allows reaches a page of another process  *)
(* and no store that it allows reaches a page that somebody else lists     *)
(* (MemoryManager::pageFaultOfAddress).                                    *)
THEOREM ProtectionHolds == Spec => []ProtectionIsSound
  <1>1. PagedInv => ProtectionIsSound
    BY DEF PagedInv
  <1> QED
    BY <1>1, PagedInvariant, PTL

-----------------------------------------------------------------------------
(* The paged memory implements PrivateMemory.                              *)

Memories == [States -> [Ranks -> Seq(Words)] \cup {NULL}]

LEMMA MemoriesEqual ==
    ASSUME NEW A \in Memories, NEW B \in Memories,
           \A t \in States : A[t] = NULL <=> B[t] = NULL,
           \A t \in States, r \in Ranks : A[t] # NULL =>
              /\ Len(A[t][r]) = Len(B[t][r])
              /\ \A j \in 1 .. Len(A[t][r]) : A[t][r][j] = B[t][r][j]
    PROVE  A = B
  <1>1. ASSUME NEW t \in States, A[t] # NULL
        PROVE  A[t] = B[t]
    <2>1. A[t] \in [Ranks -> Seq(Words)] /\ B[t] \in [Ranks -> Seq(Words)]
      BY <1>1 DEF Memories
    <2>2. ASSUME NEW r \in Ranks PROVE A[t][r] = B[t][r]
      <3>1. A[t][r] \in Seq(Words) /\ B[t][r] \in Seq(Words)
        BY <2>1
      <3>2. Len(A[t][r]) = Len(B[t][r]) /\ \A j \in 1 .. Len(A[t][r]) : A[t][r][j] = B[t][r][j]
        BY <1>1
      <3> QED
        BY <3>1, <3>2
    <2> QED
      BY <2>1, <2>2
  <1>2. \A t \in States : A[t] = B[t]
    BY <1>1
  <1> QED
    BY <1>2 DEF Memories

(* The memory that mappings m give the processes when page p has contents  *)
(* c[<<p, j>>] at index j.                                                 *)
Mem(m, c) ==
    [t \in States |->
        IF m[t] = NULL THEN NULL
        ELSE [r \in Ranks |-> [j \in DOMAIN m[t][r] |-> c[<<m[t][r][j], j>>]]]]

Filled(m, c) ==
    /\ m \in Mappings
    /\ \A t \in States, r \in Ranks : m[t] # NULL =>
          \A j \in DOMAIN m[t][r] : c[<<m[t][r][j], j>>] \in Words

LEMMA MemHolds ==
    ASSUME NEW m, NEW c, Filled(m, c)
    PROVE  /\ Mem(m, c) \in Memories
           /\ \A t \in States :
                 /\ Mem(m, c)[t] = NULL <=> m[t] = NULL
                 /\ m[t] # NULL => \A r \in Ranks :
                       /\ m[t][r] \in Seq(Pages)
                       /\ Len(Mem(m, c)[t][r]) = Len(m[t][r])
                       /\ \A j \in 1 .. Len(m[t][r]) : Mem(m, c)[t][r][j] = c[<<m[t][r][j], j>>]
  <1> DEFINE P(t, r) == [j \in DOMAIN m[t][r] |-> c[<<m[t][r][j], j>>]]
             A == Mem(m, c)
  <1>1. ASSUME NEW t \in States, m[t] # NULL, NEW r \in Ranks
        PROVE  /\ m[t][r] \in Seq(Pages)
               /\ P(t, r) \in Seq(Words) /\ Len(P(t, r)) = Len(m[t][r])
               /\ \A j \in 1 .. Len(m[t][r]) : P(t, r)[j] = c[<<m[t][r][j], j>>]
    <2>1. m[t][r] \in Seq(Pages)
      BY <1>1 DEF Filled, Mappings
    <2>2. \A j \in DOMAIN m[t][r] : c[<<m[t][r][j], j>>] \in Words
      BY <1>1 DEF Filled
    <2>3. DOMAIN m[t][r] = 1 .. Len(m[t][r]) /\ Len(m[t][r]) \in Nat
      BY <2>1
    <2>4. P(t, r) \in [1 .. Len(m[t][r]) -> Words]
      BY <2>2, <2>3
    <2>5. P(t, r) \in Seq(Words) /\ Len(P(t, r)) = Len(m[t][r])
      <3> HIDE DEF P
      <3> QED
        BY <2>3, <2>4
    <2> QED
      BY <2>1, <2>3, <2>5
  <1>2. ASSUME NEW t \in States
        PROVE  A[t] = IF m[t] = NULL THEN NULL ELSE [r \in Ranks |-> P(t, r)]
    BY DEF Mem
  <1> HIDE DEF P, A
  <1>3. ASSUME NEW t \in States, m[t] # NULL
        PROVE  A[t] \in [Ranks -> Seq(Words)] /\ A[t] # NULL /\ \A r \in Ranks : A[t][r] = P(t, r)
    <2>1. A[t] = [r \in Ranks |-> P(t, r)]
      BY <1>2, <1>3
    <2>2. A[t] \in [Ranks -> Seq(Words)]
      BY <1>1, <1>3, <2>1
    <2> QED
      BY <2>1, <2>2, NullAssumption
  <1>4. A \in Memories
    <2>1. A = [t \in States |-> A[t]]
      BY DEF A, Mem
    <2>2. \A t \in States : A[t] \in [Ranks -> Seq(Words)] \cup {NULL}
      BY <1>2, <1>3
    <2> QED
      BY <2>1, <2>2 DEF Memories
  <1>5. \A t \in States : A[t] = NULL <=> m[t] = NULL
    BY <1>2, <1>3
  <1>6. ASSUME NEW t \in States, m[t] # NULL, NEW r \in Ranks
        PROVE  /\ m[t][r] \in Seq(Pages)
               /\ Len(A[t][r]) = Len(m[t][r])
               /\ \A j \in 1 .. Len(m[t][r]) : A[t][r][j] = c[<<m[t][r][j], j>>]
    BY <1>1, <1>3, <1>6
  <1> QED
    BY <1>4, <1>5, <1>6 DEF A

(* Mappings k with contents d hold what mappings m hold with contents c,   *)
(* but for what is said of index i of process <<s, r>>.                    *)
HoldSame(m, c, k, d, s, r, i) ==
    /\ \A t \in States : k[t] = NULL <=> m[t] = NULL
    /\ \A t \in States, q \in Ranks : m[t] # NULL /\ <<t, q>> # <<s, r>> => Len(k[t][q]) = Len(m[t][q])
    /\ \A t \in States, q \in Ranks : m[t] # NULL =>
          \A j \in 1 .. Len(m[t][q]) :
             <<t, q, j>> # <<s, r, i>> => d[<<k[t][q][j], j>>] = c[<<m[t][q][j], j>>]

LEMMA MemStays ==
    ASSUME NEW m, NEW c, NEW k, NEW d, Filled(m, c), Filled(k, d),
           NEW s, NEW r, NEW i, HoldSame(m, c, k, d, s, r, i),
           s \in States /\ r \in Ranks /\ m[s] # NULL =>
              /\ Len(k[s][r]) = Len(m[s][r])
              /\ i \in 1 .. Len(m[s][r]) => d[<<k[s][r][i], i>>] = c[<<m[s][r][i], i>>]
    PROVE  Mem(k, d) = Mem(m, c)
  <1> DEFINE A == Mem(m, c)
             B == Mem(k, d)
  <1>1. A \in Memories /\ B \in Memories
    BY MemHolds
  <1>2. \A t \in States : B[t] = NULL <=> A[t] = NULL
    BY MemHolds DEF HoldSame
  <1>3. ASSUME NEW t \in States, NEW q \in Ranks, B[t] # NULL
        PROVE  /\ Len(B[t][q]) = Len(A[t][q])
               /\ \A j \in 1 .. Len(B[t][q]) : B[t][q][j] = A[t][q][j]
    <2>1. m[t] # NULL /\ k[t] # NULL
      BY <1>3, MemHolds DEF HoldSame
    <2>2. /\ Len(A[t][q]) = Len(m[t][q]) /\ Len(B[t][q]) = Len(k[t][q])
          /\ \A j \in 1 .. Len(m[t][q]) : A[t][q][j] = c[<<m[t][q][j], j>>]
          /\ \A j \in 1 .. Len(k[t][q]) : B[t][q][j] = d[<<k[t][q][j], j>>]
      BY <2>1, MemHolds
    <2>3. Len(k[t][q]) = Len(m[t][q])
      BY <2>1 DEF HoldSame
    <2>4. \A j \in 1 .. Len(m[t][q]) : d[<<k[t][q][j], j>>] = c[<<m[t][q][j], j>>]
      BY <2>1 DEF HoldSame
    <2> QED
      BY <2>2, <2>3, <2>4
  <1> HIDE DEF A, B
  <1>4. B = A
    BY <1>1, <1>2, <1>3, MemoriesEqual
  <1> QED
    BY <1>4 DEF A, B

(* The steps of PrivateMemory, from memory A to memory B.                  *)
Grows(A, B, s, r) == A[s] # NULL /\ \E w \in Words : B = [A EXCEPT ![s][r] = Append(@, w)]

Stores(A, B, s, r) ==
    A[s] # NULL /\ \E i \in DOMAIN A[s][r], w \in Words : B = [A EXCEPT ![s][r][i] = w]

Copies(A, B, s, t) == A[s] # NULL /\ A[t] = NULL /\ B = [A EXCEPT ![t] = A[s]]

Frees(A, B, s) == A[s] # NULL /\ B = [A EXCEPT ![s] = NULL]

LEMMA MemGrows ==
    ASSUME NEW m, NEW c, NEW k, NEW d, Filled(m, c), Filled(k, d),
           NEW s \in States, NEW r \in Ranks, m[s] # NULL,
           HoldSame(m, c, k, d, s, r, Len(m[s][r]) + 1),
           Len(k[s][r]) = Len(m[s][r]) + 1
    PROVE  Grows(Mem(m, c), Mem(k, d), s, r)
  <1> DEFINE A == Mem(m, c)
             B == Mem(k, d)
             n == Len(m[s][r]) + 1
             w == d[<<k[s][r][n], n>>]
             C == [A EXCEPT ![s][r] = Append(@, w)]
  <1>1. A \in Memories /\ B \in Memories
    BY MemHolds
  <1>2. \A t \in States : (B[t] = NULL <=> A[t] = NULL) /\ (A[t] = NULL <=> m[t] = NULL)
                           /\ (k[t] = NULL <=> m[t] = NULL)
    BY MemHolds DEF HoldSame
  <1>3. ASSUME NEW t \in States, NEW q \in Ranks, m[t] # NULL
        PROVE  /\ m[t][q] \in Seq(Pages) /\ k[t][q] \in Seq(Pages)
               /\ Len(A[t][q]) = Len(m[t][q]) /\ Len(B[t][q]) = Len(k[t][q])
               /\ \A j \in 1 .. Len(m[t][q]) : A[t][q][j] = c[<<m[t][q][j], j>>]
               /\ \A j \in 1 .. Len(k[t][q]) : B[t][q][j] = d[<<k[t][q][j], j>>]
    BY <1>2, <1>3, MemHolds
  <1>4. w \in Words
    <2>1. n \in DOMAIN k[s][r]
      BY <1>3
    <2> QED
      BY <1>2, <2>1 DEF Filled
  <1>5. A[s] \in [Ranks -> Seq(Words)] /\ A[s] # NULL
    BY <1>1, <1>2 DEF Memories
  <1>6. /\ C \in Memories
        /\ \A t \in States : C[t] = NULL <=> A[t] = NULL
        /\ \A t \in States, q \in Ranks : A[t] # NULL =>
              C[t][q] = IF t = s /\ q = r THEN Append(A[s][r], w) ELSE A[t][q]
    <2> DEFINE row == [A[s] EXCEPT ![r] = Append(A[s][r], w)]
    <2>1. row \in [Ranks -> Seq(Words)] /\ row # NULL
      <3>1. Append(A[s][r], w) \in Seq(Words)
        BY <1>4, <1>5
      <3>2. row \in [Ranks -> Seq(Words)]
        BY <1>5, <3>1
      <3> QED
        BY <3>2, NullAssumption
    <2>2. C = [A EXCEPT ![s] = row]
      BY <1>1 DEF Memories
    <2>3. \A q \in Ranks : row[q] = IF q = r THEN Append(A[s][r], w) ELSE A[s][q]
      BY <1>5
    <2> HIDE DEF row, C, A
    <2> QED
      BY <1>1, <1>5, <2>1, <2>2, <2>3 DEF Memories
  <1>7. ASSUME NEW t \in States, NEW q \in Ranks, B[t] # NULL
        PROVE  /\ Len(B[t][q]) = Len(C[t][q])
               /\ \A j \in 1 .. Len(B[t][q]) : B[t][q][j] = C[t][q][j]
    <2>1. m[t] # NULL /\ A[t] # NULL
      BY <1>2, <1>7
    <2>2. A[t][q] \in Seq(Words)
      BY <1>1, <2>1 DEF Memories
    <2>3. CASE t = s /\ q = r
      <3>1. C[t][q] = Append(A[s][r], w) /\ Len(C[t][q]) = n
        <4> HIDE DEF C, A, B, w
        <4>1. C[t][q] = Append(A[s][r], w) /\ Len(A[s][r]) = Len(m[s][r])
          BY <1>3, <1>6, <2>1, <2>3
        <4>2. Len(Append(A[s][r], w)) = Len(A[s][r]) + 1
          BY <2>2, <2>3
        <4> QED
          BY <4>1, <4>2
      <3>2. \A j \in 1 .. Len(m[s][r]) : d[<<k[s][r][j], j>>] = c[<<m[s][r][j], j>>]
        BY <1>3 DEF HoldSame
      <3> HIDE DEF A, B, C, w
      <3>3. /\ Len(B[s][r]) = n /\ Len(A[s][r]) = Len(m[s][r]) /\ Len(m[s][r]) \in Nat
            /\ Len(k[s][r]) = n
            /\ \A j \in 1 .. Len(m[s][r]) : A[s][r][j] = c[<<m[s][r][j], j>>]
            /\ \A j \in 1 .. Len(k[s][r]) : B[s][r][j] = d[<<k[s][r][j], j>>]
        BY <1>3
      <3>4. B[s][r][n] = w
        <4>1. n \in 1 .. Len(k[s][r])
          BY <3>3
        <4> HIDE DEF n
        <4> QED
          BY <3>3, <4>1 DEF w
      <3>5. \A j \in 1 .. n : j = n \/ j \in 1 .. Len(m[s][r])
        BY <3>3
      <3>6. ASSUME NEW j \in 1 .. n PROVE B[s][r][j] = C[t][q][j]
        <4>1. CASE j = n
          <5>1. C[t][q][n] = w
            BY <2>2, <2>3, <3>1, <3>3
          <5> QED
            BY <3>4, <4>1, <5>1
        <4>2. CASE j \in 1 .. Len(m[s][r])
          <5>1. C[t][q][j] = A[s][r][j]
            BY <2>2, <2>3, <3>1, <3>3, <4>2
          <5>2. B[s][r][j] = A[s][r][j]
            BY <3>2, <3>3, <4>2
          <5> QED
            BY <5>1, <5>2
        <4> QED
          BY <3>5, <4>1, <4>2
      <3> QED
        BY <2>3, <3>1, <3>3, <3>6
    <2>4. CASE ~ (t = s /\ q = r)
      <3>1. C[t][q] = A[t][q]
        <4> HIDE DEF C, A, B, w
        <4> QED
          BY <1>6, <2>1, <2>4
      <3>2. Len(k[t][q]) = Len(m[t][q])
            /\ \A j \in 1 .. Len(m[t][q]) : d[<<k[t][q][j], j>>] = c[<<m[t][q][j], j>>]
        BY <2>1, <2>4 DEF HoldSame
      <3> HIDE DEF A, B, C
      <3>3. /\ Len(A[t][q]) = Len(m[t][q]) /\ Len(B[t][q]) = Len(k[t][q])
            /\ \A j \in 1 .. Len(m[t][q]) : A[t][q][j] = c[<<m[t][q][j], j>>]
            /\ \A j \in 1 .. Len(k[t][q]) : B[t][q][j] = d[<<k[t][q][j], j>>]
        BY <1>3, <2>1
      <3> QED
        BY <3>1, <3>2, <3>3
    <2> QED
      BY <2>3, <2>4
  <1>8. B = C
    <2> HIDE DEF A, B, C
    <2> QED
      BY <1>1, <1>2, <1>6, <1>7, MemoriesEqual
  <1> QED
    BY <1>4, <1>5, <1>8 DEF Grows

LEMMA MemStored ==
    ASSUME NEW m, NEW c, NEW d, NEW w \in Words, Filled(m, c), Filled(m, d),
           NEW s \in States, NEW r \in Ranks, m[s] # NULL, NEW i \in DOMAIN m[s][r],
           HoldSame(m, c, m, d, s, r, i), d[<<m[s][r][i], i>>] = w
    PROVE  Stores(Mem(m, c), Mem(m, d), s, r)
  <1> DEFINE A == Mem(m, c)
             B == Mem(m, d)
             C == [A EXCEPT ![s][r][i] = w]
  <1>1. A \in Memories /\ B \in Memories
    BY MemHolds
  <1>2. \A t \in States : (B[t] = NULL <=> A[t] = NULL) /\ (A[t] = NULL <=> m[t] = NULL)
    BY MemHolds
  <1>3. ASSUME NEW t \in States, NEW q \in Ranks, m[t] # NULL
        PROVE  /\ m[t][q] \in Seq(Pages)
               /\ Len(A[t][q]) = Len(m[t][q]) /\ Len(B[t][q]) = Len(m[t][q])
               /\ \A j \in 1 .. Len(m[t][q]) : A[t][q][j] = c[<<m[t][q][j], j>>]
               /\ \A j \in 1 .. Len(m[t][q]) : B[t][q][j] = d[<<m[t][q][j], j>>]
    BY <1>3, MemHolds
  <1>4. A[s] \in [Ranks -> Seq(Words)] /\ A[s] # NULL
    BY <1>1, <1>2 DEF Memories
  <1>5. i \in 1 .. Len(m[s][r]) /\ i \in 1 .. Len(A[s][r]) /\ i \in DOMAIN A[s][r]
    <2> HIDE DEF A, B, C
    <2> QED
      BY <1>3, <1>4
  <1>6. /\ C \in Memories
        /\ \A t \in States : C[t] = NULL <=> A[t] = NULL
        /\ \A t \in States, q \in Ranks : A[t] # NULL =>
              C[t][q] = IF t = s /\ q = r THEN [A[s][r] EXCEPT ![i] = w] ELSE A[t][q]
    <2> DEFINE row == [A[s] EXCEPT ![r] = [A[s][r] EXCEPT ![i] = w]]
    <2>1. row \in [Ranks -> Seq(Words)] /\ row # NULL
      <3> HIDE DEF A
      <3>1. [A[s][r] EXCEPT ![i] = w] \in Seq(Words)
        BY <1>4, <1>5
      <3>2. row \in [Ranks -> Seq(Words)]
        BY <1>4, <3>1
      <3> QED
        BY <3>2, NullAssumption
    <2>2. C = [A EXCEPT ![s] = row]
      BY <1>1 DEF Memories
    <2>3. \A q \in Ranks : row[q] = IF q = r THEN [A[s][r] EXCEPT ![i] = w] ELSE A[s][q]
      BY <1>4
    <2> HIDE DEF row, C, A
    <2> QED
      BY <1>1, <1>4, <2>1, <2>2, <2>3 DEF Memories
  <1>7. ASSUME NEW t \in States, NEW q \in Ranks, B[t] # NULL
        PROVE  /\ Len(B[t][q]) = Len(C[t][q])
               /\ \A j \in 1 .. Len(B[t][q]) : B[t][q][j] = C[t][q][j]
    <2>1. m[t] # NULL /\ A[t] # NULL
      BY <1>2, <1>7
    <2>2. A[t][q] \in Seq(Words)
      BY <1>1, <2>1 DEF Memories
    <2>3. \A j \in 1 .. Len(m[t][q]) :
             <<t, q, j>> # <<s, r, i>> => d[<<m[t][q][j], j>>] = c[<<m[t][q][j], j>>]
      BY <2>1 DEF HoldSame
    <2> HIDE DEF A, B, C
    <2>4. CASE t = s /\ q = r
      <3>1. C[t][q] = [A[s][r] EXCEPT ![i] = w]
        BY <1>6, <2>1, <2>4
      <3>2. /\ Len(C[t][q]) = Len(A[s][r])
            /\ \A j \in 1 .. Len(A[s][r]) : C[t][q][j] = IF j = i THEN w ELSE A[s][r][j]
        BY <2>2, <2>4, <3>1
      <3>3. \A j \in 1 .. Len(m[s][r]) : j # i => d[<<m[s][r][j], j>>] = c[<<m[s][r][j], j>>]
        BY <2>3, <2>4
      <3>4. /\ Len(A[s][r]) = Len(m[s][r]) /\ Len(B[s][r]) = Len(m[s][r])
            /\ \A j \in 1 .. Len(m[s][r]) : A[s][r][j] = c[<<m[s][r][j], j>>]
            /\ \A j \in 1 .. Len(m[s][r]) : B[s][r][j] = d[<<m[s][r][j], j>>]
        BY <1>3
      <3>5. ASSUME NEW j \in 1 .. Len(m[s][r]) PROVE B[s][r][j] = C[s][r][j]
        <4>1. CASE j = i
          BY <2>4, <3>2, <3>4, <4>1
        <4>2. CASE j # i
          BY <2>4, <3>2, <3>3, <3>4, <4>2
        <4> QED
          BY <4>1, <4>2
      <3> QED
        BY <2>4, <3>2, <3>4, <3>5
    <2>5. CASE ~ (t = s /\ q = r)
      <3>1. C[t][q] = A[t][q]
        BY <1>6, <2>1, <2>5
      <3>2. \A j \in 1 .. Len(m[t][q]) : d[<<m[t][q][j], j>>] = c[<<m[t][q][j], j>>]
        BY <2>3, <2>5
      <3>3. /\ Len(A[t][q]) = Len(m[t][q]) /\ Len(B[t][q]) = Len(m[t][q])
            /\ \A j \in 1 .. Len(m[t][q]) : A[t][q][j] = c[<<m[t][q][j], j>>]
            /\ \A j \in 1 .. Len(m[t][q]) : B[t][q][j] = d[<<m[t][q][j], j>>]
        BY <1>3, <2>1
      <3> QED
        BY <3>1, <3>2, <3>3
    <2> QED
      BY <2>4, <2>5
  <1>8. B = C
    <2> HIDE DEF A, B, C
    <2> QED
      BY <1>1, <1>2, <1>6, <1>7, MemoriesEqual
  <1> QED
    BY <1>4, <1>5, <1>8 DEF Stores

LEMMA MemKept ==
    ASSUME NEW m, NEW c, NEW d,
           \A t \in States, r \in Ranks : m[t] # NULL =>
              \A j \in DOMAIN m[t][r] : d[<<m[t][r][j], j>>] = c[<<m[t][r][j], j>>]
    PROVE  Mem(m, d) = Mem(m, c)
  <1>1. ASSUME NEW t \in States, m[t] # NULL
        PROVE  [r \in Ranks |-> [j \in DOMAIN m[t][r] |-> d[<<m[t][r][j], j>>]]]
             = [r \in Ranks |-> [j \in DOMAIN m[t][r] |-> c[<<m[t][r][j], j>>]]]
    <2>1. \A r \in Ranks : [j \in DOMAIN m[t][r] |-> d[<<m[t][r][j], j>>]]
                         = [j \in DOMAIN m[t][r] |-> c[<<m[t][r][j], j>>]]
      BY <1>1
    <2> QED
      BY <2>1
  <1> QED
    BY <1>1 DEF Mem

LEMMA MemCopied ==
    ASSUME NEW m \in Mappings, NEW c, NEW k, NEW s \in States, NEW t \in States,
           m[s] # NULL, m[t] = NULL, Filled(m, c), Copied(m, k, s, t)
    PROVE  Copies(Mem(m, c), Mem(k, c), s, t)
  <1> DEFINE M(x) == IF x = NULL THEN NULL
                     ELSE [r \in Ranks |-> [j \in DOMAIN x[r] |-> c[<<x[r][j], j>>]]]
  <1>1. Mem(k, c) = [u \in States |-> M(k[u])] /\ Mem(m, c) = [u \in States |-> M(m[u])]
    BY DEF Mem
  <1>2. \A u \in States : k[u] = IF u = t THEN m[s] ELSE m[u]
    BY DEF Copied
  <1>3. Mem(m, c)[s] # NULL /\ Mem(m, c)[t] = NULL
    BY MemHolds
  <1>4. Mem(k, c) = [Mem(m, c) EXCEPT ![t] = Mem(m, c)[s]]
    <2> HIDE DEF M
    <2> QED
      BY <1>1, <1>2
  <1> QED
    BY <1>3, <1>4 DEF Copies

LEMMA MemFreed ==
    ASSUME NEW m \in Mappings, NEW c, NEW k, NEW d, NEW s \in States, Deleted(m, k, s),
           m[s] # NULL, Filled(m, c),
           \A t \in States, r \in Ranks : t # s /\ m[t] # NULL =>
              \A j \in DOMAIN m[t][r] : d[<<m[t][r][j], j>>] = c[<<m[t][r][j], j>>]
    PROVE  Frees(Mem(m, c), Mem(k, d), s)
  <1> DEFINE M(x, e) == IF x = NULL THEN NULL
                        ELSE [r \in Ranks |-> [j \in DOMAIN x[r] |-> e[<<x[r][j], j>>]]]
  <1>1. Mem(k, d) = [u \in States |-> M(k[u], d)] /\ Mem(m, c) = [u \in States |-> M(m[u], c)]
    BY DEF Mem
  <1>2. \A u \in States : k[u] = IF u = s THEN NULL ELSE m[u]
    BY DEF Deleted
  <1>3. M(NULL, d) = NULL
    OBVIOUS
  <1>4. ASSUME NEW u \in States, u # s PROVE M(m[u], d) = M(m[u], c)
    <2>1. CASE m[u] = NULL
      BY <2>1
    <2>2. CASE m[u] # NULL
      <3>1. \A r \in Ranks : [j \in DOMAIN m[u][r] |-> d[<<m[u][r][j], j>>]]
                           = [j \in DOMAIN m[u][r] |-> c[<<m[u][r][j], j>>]]
        BY <1>4, <2>2
      <3> QED
        BY <2>2, <3>1
    <2> QED
      BY <2>1, <2>2
  <1>5. Mem(m, c)[s] # NULL
    BY MemHolds
  <1>6. Mem(k, d) = [Mem(m, c) EXCEPT ![s] = NULL]
    <2> HIDE DEF M
    <2> QED
      BY <1>1, <1>2, <1>3, <1>4
  <1> QED
    BY <1>5, <1>6 DEF Frees

(* The contents of every page, at every index.                             *)
Cont == [x \in Pages \X Indices |-> Contents(x[1], x[2])]

(* mem of the refinement.                                                  *)
PagedMem ==
    [s \in States |->
        IF maps[s] = NULL THEN NULL
        ELSE [r \in Ranks |-> [i \in DOMAIN maps[s][r] |-> Contents(maps[s][r][i], i)]]]

LEMMA ContAt ==
    ASSUME NEW p \in Pages, NEW j \in Indices
    PROVE  /\ Cont[<<p, j>>] = IF pages[p].active THEN phys[j] ELSE pages[p].data
           /\ Cont'[<<p, j>>] = IF pages'[p].active THEN phys'[j] ELSE pages'[p].data
    BY DEF Cont, Contents

LEMMA ListedIsUsed ==
    ASSUME PagedInv, NEW t \in States, maps[t] # NULL, NEW r \in Ranks,
           NEW j \in DOMAIN maps[t][r]
    PROVE  /\ j \in Indices /\ maps[t][r][j] \in Pages
           /\ <<t, r, j>> \in Uses(maps, maps[t][r][j])
           /\ pages[maps[t][r][j]].refs > 0
  <1>1. maps[t][r] \in Seq(Pages) /\ Len(maps[t][r]) <= MaxIndex
    BY DEF PagedInv, TypeOK, ProtectionIsSound, LiveStates
  <1>2. j \in Indices
    BY <1>1, MaxIndexAssumption DEF Indices
  <1>3. PICK p \in Pages : p = maps[t][r][j]
    BY <1>1
  <1>4. <<t, r, j>> \in Uses(maps, p)
    BY <1>2, <1>3, UsesAreTriples
  <1>5. pages[p].refs = Cardinality(Uses(maps, p))
    BY UsersAreUses DEF PagedInv, RefCountsAreExact
  <1>6. pages[p].refs > 0
    BY <1>4, <1>5, UsesAreFinite
  <1> QED
    BY <1>2, <1>3, <1>4, <1>6

(* Mem of the mappings is the memory, and its contents are words.          *)
Shown == PagedMem = Mem(maps, Cont) /\ Filled(maps, Cont)

LEMMA PagedMemIsMem == PagedInv => Shown
  <1> SUFFICES ASSUME PagedInv PROVE Shown
    OBVIOUS
  <1>1. maps \in Mappings
    BY CurrentPage
  <1>2. ASSUME NEW t \in States, maps[t] # NULL, NEW r \in Ranks, NEW j \in DOMAIN maps[t][r]
        PROVE  /\ Cont[<<maps[t][r][j], j>>] = Contents(maps[t][r][j], j)
               /\ Cont[<<maps[t][r][j], j>>] \in Words
    <2>1. PICK p \in Pages : p = maps[t][r][j] /\ j \in Indices /\ pages[p].refs > 0
      BY <1>2, ListedIsUsed
    <2>2. Cont[<<p, j>>] = Contents(p, j)
      BY <2>1 DEF Cont
    <2>3. Contents(p, j) \in Words
      <3>1. pages[p] \in Page /\ phys[j] \in Words
        BY <2>1 DEF PagedInv, TypeOK
      <3>2. ~ pages[p].active => pages[p].data # NULL
        BY <2>1 DEF PagedInv, ProtectionIsSound
      <3> QED
        BY <3>1, <3>2 DEF Contents, Page
    <2> QED
      BY <2>1, <2>2, <2>3
  <1>3. Filled(maps, Cont)
    BY <1>1, <1>2 DEF Filled
  <1>4. PagedMem = Mem(maps, Cont)
    <2>1. ASSUME NEW t \in States, maps[t] # NULL
          PROVE  [r \in Ranks |-> [i \in DOMAIN maps[t][r] |-> Contents(maps[t][r][i], i)]]
               = [r \in Ranks |-> [i \in DOMAIN maps[t][r] |-> Cont[<<maps[t][r][i], i>>]]]
      <3>1. \A r \in Ranks : [i \in DOMAIN maps[t][r] |-> Contents(maps[t][r][i], i)]
                           = [i \in DOMAIN maps[t][r] |-> Cont[<<maps[t][r][i], i>>]]
        BY <1>2, <2>1
      <3> QED
        BY <3>1
    <2> QED
      BY <2>1 DEF PagedMem, Mem
  <1> QED
    BY <1>3, <1>4 DEF Shown

LEMMA PagedMemIsMemNext == PagedInv' => Shown'
    BY PagedMemIsMem, PTL

(* Page p comes in at index i: every other page keeps its contents.        *)
LEMMA OthersKeepContents ==
    ASSUME PagedInv, NEW ps \in [Pages -> Page], NEW i \in Indices, NEW p \in Pages, NEW x,
           BroughtIn(ps, i, p, x),
           \A q \in Pages : ps[q].active = pages[q].active,
           \A q \in Pages : q # p => ps[q].data = SwapOut(i)[q].data,
           \A j \in Indices : slot[j] = p => j = i,
           \A j \in Indices : j # i => phys'[j] = phys[j]
    PROVE  /\ \A q \in Pages : q # p =>
                 \A u \in Uses(maps, q) : Cont'[<<q, u[3]>>] = Cont[<<q, u[3]>>]
           /\ Cont'[<<p, i>>] = phys'[i]
  <1>1. /\ pages' \in [Pages -> Page]
        /\ \A q \in Pages : /\ pages'[q].active <=> \E j \in Indices : slot'[j] = q
                            /\ q # p => pages'[q].data = ps[q].data
    BY Activates DEF BroughtIn
  <1>2. \A j \in Indices : slot'[j] = IF j = i THEN p ELSE slot[j]
    BY DEF BroughtIn, PagedInv, TypeOK
  <1>3. Cont'[<<p, i>>] = phys'[i]
    <2>1. pages'[p].active
      BY <1>1, <1>2
    <2> QED
      BY <2>1, ContAt
  <1>4. ASSUME NEW q \in Pages, q # p, NEW u \in Uses(maps, q)
        PROVE  Cont'[<<q, u[3]>>] = Cont[<<q, u[3]>>]
    <2>1. PICK j \in Indices : j = u[3]
      BY DEF Uses
    <2>2. \A v \in Uses(maps, q) : v[3] = j
      BY <2>1, UsersAreUses DEF PagedInv, RefCountsAreExact
    <2>3. \A l \in Indices : slot[l] = q => l = j
      <3> SUFFICES ASSUME NEW l \in Indices, slot[l] = q PROVE l = j
        OBVIOUS
      <3>1. slot[l] # NULL
        BY NullAssumption
      <3>2. \E v \in Uses(maps, q) : v[3] = l
        BY <3>1, UsersAreUses DEF PagedInv, ProtectionIsSound
      <3> QED
        BY <2>2, <3>2
    <2>4. pages[q].active <=> slot[j] = q
      BY <2>3 DEF PagedInv, ProtectionIsSound
    <2>5. pages'[q].data = IF q = slot[i] THEN phys[i] ELSE pages[q].data
      BY <1>1, <1>4, SwapsOut DEF PagedInv
    <2>6. Cont[<<q, j>>] = (IF slot[j] = q THEN phys[j] ELSE pages[q].data)
      BY <2>4, ContAt
    <2>7. CASE j = i
      <3>1. ~ pages'[q].active
        BY <1>1, <1>2, <1>4, <2>3, <2>7
      <3>2. Cont'[<<q, j>>] = pages'[q].data
        BY <3>1, ContAt
      <3> QED
        BY <2>1, <2>5, <2>6, <2>7, <3>2
    <2>8. CASE j # i
      <3>1. q # slot[i]
        BY <2>3, <2>8
      <3>2. pages'[q].active <=> slot[j] = q
        BY <1>1, <1>2, <1>4, <2>3, <2>8
      <3>3. Cont'[<<q, j>>] = (IF slot[j] = q THEN phys'[j] ELSE pages'[q].data)
        BY <3>2, ContAt
      <3> QED
        BY <2>1, <2>5, <2>6, <2>8, <3>1, <3>3
    <2> QED
      BY <2>7, <2>8
  <1> QED
    BY <1>3, <1>4

LEMMA SamePagedMem ==
    ASSUME UNCHANGED <<pages, maps, phys>>
    PROVE  PagedMem' = PagedMem
    BY DEF PagedMem, Contents

LEMMA NewPageMem ==
    ASSUME PagedInv, NEW i \in Indices, NEW n \in Pages, NEW ps \in [Pages -> Page],
           TakesNewPage(ps, i, n)
    PROVE  /\ HoldSame(maps, Cont, maps', Cont', current[1], current[2], i)
           /\ Cont'[<<maps'[current[1]][current[2]][i], i>>] = phys[i]
  <1> DEFINE s == current[1]
             r == current[2]
  <1>1. Uses(maps, n) = {} /\ \A j \in Indices : slot[j] = n => j = i
    BY UnusedPage DEF TakesNewPage
  <1>2. /\ \A q \in Pages : q # n =>
              \A u \in Uses(maps, q) : Cont'[<<q, u[3]>>] = Cont[<<q, u[3]>>]
        /\ Cont'[<<n, i>>] = phys'[i]
    <2>1. /\ BroughtIn(ps, i, n, "WRITE")
          /\ \A q \in Pages : ps[q].active = pages[q].active
          /\ \A q \in Pages : q # n => ps[q].data = SwapOut(i)[q].data
          /\ \A j \in Indices : j # i => phys'[j] = phys[j]
      BY DEF TakesNewPage, OtherPagesStay
    <2> QED
      BY <1>1, <2>1, OthersKeepContents
  <1>3. SetAt(maps, maps', s, r, i, n) /\ phys' = phys
    BY DEF TakesNewPage
  <1>4. \A t \in States : maps'[t] = NULL <=> maps[t] = NULL
    BY <1>3 DEF SetAt
  <1>5. \A t \in States, q \in Ranks :
           maps[t] # NULL /\ <<t, q>> # <<s, r>> => Len(maps'[t][q]) = Len(maps[t][q])
    BY DEF TakesNewPage
  <1>6. ASSUME NEW t \in States, NEW q \in Ranks, maps[t] # NULL,
               NEW j \in 1 .. Len(maps[t][q]), <<t, q, j>> # <<s, r, i>>
        PROVE  Cont'[<<maps'[t][q][j], j>>] = Cont[<<maps[t][q][j], j>>]
    <2>1. maps[t][q] \in Seq(Pages)
      BY <1>6 DEF PagedInv, TypeOK
    <2>2. PICK z \in Pages : z = maps[t][q][j] /\ j \in DOMAIN maps[t][q] /\ j \in Indices
                            /\ <<t, q, j>> \in Uses(maps, z)
      BY <1>6, <2>1, ListedIsUsed
    <2>3. maps'[t][q][j] = z
      BY <1>3, <1>6, <2>2 DEF SetAt
    <2>4. z # n
      BY <1>1, <2>2
    <2>5. Cont'[<<z, <<t, q, j>>[3]>>] = Cont[<<z, <<t, q, j>>[3]>>]
      BY <1>2, <2>2, <2>4
    <2> QED
      BY <2>2, <2>3, <2>5
  <1>7. HoldSame(maps, Cont, maps', Cont', s, r, i)
    <2> HIDE DEF s, r
    <2> QED
      BY <1>4, <1>5, <1>6 DEF HoldSame
  <1> QED
    BY <1>2, <1>3, <1>7 DEF SetAt

LEMMA AllocMem ==
    ASSUME PagedInv, Shown, Shown', AllocPage
    PROVE  PagedMem' = PagedMem \/ \E s \in States, r \in Ranks : Grows(PagedMem, PagedMem', s, r)
  <1>1. CASE Stays
    BY <1>1, SamePagedMem DEF Stays
  <1>2. CASE ~ Stays
    <2>1. PICK s \in States, r \in Ranks :
             s = current[1] /\ r = current[2] /\ maps[s] # NULL /\ Mapping = maps[s][r]
      BY CurrentPage DEF Mapping
    <2>2. PICK i \in Indices, n \in Pages, ps \in [Pages -> Page] :
             /\ i = Len(maps[s][r]) + 1 /\ Len(maps'[s][r]) = i
             /\ TakesNewPage(ps, i, n)
      BY <1>2, <2>1, Allocates
    <2>3. HoldSame(maps, Cont, maps', Cont', s, r, Len(maps[s][r]) + 1)
      BY <2>1, <2>2, NewPageMem
    <2>4. Grows(Mem(maps, Cont), Mem(maps', Cont'), s, r)
      <3>1. Filled(maps, Cont) /\ Filled(maps', Cont')
        BY DEF Shown
      <3> QED
        BY <2>1, <2>2, <2>3, <3>1, MemGrows
    <2> QED
      BY <2>4 DEF Shown
  <1> QED
    BY <1>1, <1>2

LEMMA ReadOnlyMem ==
    ASSUME PagedInv, Shown, Shown', NEW i \in Indices, FaultOnReadOnly(i)
    PROVE  PagedMem' = PagedMem
  <1>1. CASE Stays
    BY <1>1, SamePagedMem DEF Stays
  <1>2. CASE ~ Stays
    <2>1. PICK s \in States, r \in Ranks :
             s = current[1] /\ r = current[2] /\ maps[s] # NULL /\ Mapping = maps[s][r]
      BY CurrentPage DEF Mapping
    <2>2. PICK n \in Pages, ps \in [Pages -> Page] :
             /\ i \in DOMAIN maps[s][r] /\ slot[i] = maps[s][r][i]
             /\ Len(maps'[s][r]) = Len(maps[s][r])
             /\ TakesNewPage(ps, i, n)
      BY <1>2, <2>1, CopiesOnWrite
    <2>3. HoldSame(maps, Cont, maps', Cont', s, r, i) /\ Cont'[<<maps'[s][r][i], i>>] = phys[i]
      BY <2>1, <2>2, NewPageMem
    <2>4. PICK p \in Pages : p = slot[i] /\ p = maps[s][r][i]
      BY <2>1, <2>2, ListedIsUsed
    <2>5. Cont[<<p, i>>] = phys[i]
      <3>1. pages[p].active
        BY <2>4 DEF PagedInv, ProtectionIsSound
      <3> QED
        BY <3>1, ContAt
    <2>6. Mem(maps', Cont') = Mem(maps, Cont)
      BY <2>2, <2>3, <2>4, <2>5, MemStays DEF Shown
    <2> QED
      BY <2>6 DEF Shown
  <1> QED
    BY <1>1, <1>2

(* The mappings stay and the pages that they list keep their contents.     *)
LEMMA UsesKeepMem ==
    ASSUME PagedInv, Shown, Shown', maps' = maps,
           \A q \in Pages : \A u \in Uses(maps, q) : Cont'[<<q, u[3]>>] = Cont[<<q, u[3]>>]
    PROVE  PagedMem' = PagedMem
  <1>1. ASSUME NEW t \in States, NEW q \in Ranks, maps[t] # NULL, NEW j \in 1 .. Len(maps[t][q])
        PROVE  Cont'[<<maps[t][q][j], j>>] = Cont[<<maps[t][q][j], j>>]
    <2>1. maps[t][q] \in Seq(Pages)
      BY <1>1 DEF PagedInv, TypeOK
    <2>2. PICK z \in Pages : z = maps[t][q][j] /\ <<t, q, j>> \in Uses(maps, z)
      BY <1>1, <2>1, ListedIsUsed
    <2>3. Cont'[<<z, <<t, q, j>>[3]>>] = Cont[<<z, <<t, q, j>>[3]>>]
      BY <2>2
    <2> QED
      BY <2>2, <2>3
  <1>2. \A t \in States, q \in Ranks : maps[t] # NULL =>
           \A j \in DOMAIN maps[t][q] : Cont'[<<maps[t][q][j], j>>] = Cont[<<maps[t][q][j], j>>]
    BY <1>1 DEF PagedInv, TypeOK
  <1>3. Mem(maps, Cont') = Mem(maps, Cont)
    BY <1>2, MemKept
  <1> QED
    BY <1>3 DEF Shown

LEMMA ProtectedMem ==
    ASSUME PagedInv, Shown, Shown', NEW i \in Indices, FaultOnProtected(i)
    PROVE  PagedMem' = PagedMem
  <1> DEFINE p == PageAt(Mapping, i)
  <1>1. CASE p = NULL \/ p = slot[i]
    BY <1>1, SamePagedMem DEF FaultOnProtected, Exit
  <1>2. CASE p # NULL /\ p # slot[i]
    <2>1. i \in DOMAIN Mapping /\ p = Mapping[i]
      BY <1>2 DEF PageAt
    <2>2. /\ p \in Pages
          /\ <<current[1], current[2], i>> \in Uses(maps, p)
          /\ pages[p].refs > 0
          /\ \A j \in Indices : slot[j] = p => j = i
      BY <2>1, CurrentPage
    <2>3. PICK x \in Protections :
             x = (IF IsPrivate(p) THEN "WRITE" ELSE "READ")
      BY DEF Protections
    <2>4. /\ prot' = [prot EXCEPT ![i] = x]
          /\ pages' = Activate(SwapOut(i), i, p)
          /\ phys' = [phys EXCEPT ![i] = pages[p].data]
          /\ slot' = [slot EXCEPT ![i] = p]
          /\ UNCHANGED <<maps, current, exited>>
      BY <1>2, <2>3 DEF FaultOnProtected
    <2> HIDE DEF p
    <2>5. ~ pages[p].active /\ pages[p].data \in Words
      <3>1. ~ pages[p].active
        BY <1>2, <2>2 DEF PagedInv, ProtectionIsSound
      <3>2. pages[p].data # NULL /\ pages[p] \in Page
        BY <2>2, <3>1 DEF PagedInv, ProtectionIsSound, TypeOK
      <3> QED
        BY <3>1, <3>2 DEF Page
    <2>6. phys' \in [Indices -> Words] /\ phys'[i] = pages[p].data
          /\ \A j \in Indices : j # i => phys'[j] = phys[j]
      BY <2>4, <2>5 DEF PagedInv, TypeOK
    <2>7. PICK ps \in [Pages -> Page] :
             /\ ps = SwapOut(i)
             /\ \A q \in Pages : ps[q].active = pages[q].active
      BY SwapsOut DEF PagedInv
    <2>8. BroughtIn(ps, i, p, x)
      BY <2>4, <2>6, <2>7 DEF BroughtIn
    <2>9. /\ \A q \in Pages : q # p =>
                \A u \in Uses(maps, q) : Cont'[<<q, u[3]>>] = Cont[<<q, u[3]>>]
          /\ Cont'[<<p, i>>] = phys'[i]
      BY <2>2, <2>6, <2>7, <2>8, OthersKeepContents
    <2>10. Cont'[<<p, i>>] = Cont[<<p, i>>]
      BY <2>2, <2>5, <2>6, <2>9, ContAt
    <2>11. \A u \in Uses(maps, p) : u[3] = i
      <3>1. \A u \in Uses(maps, p) : u[3] = <<current[1], current[2], i>>[3]
        BY <2>2, UsersAreUses DEF PagedInv, RefCountsAreExact
      <3> QED
        BY <3>1
    <2>12. \A q \in Pages : \A u \in Uses(maps, q) : Cont'[<<q, u[3]>>] = Cont[<<q, u[3]>>]
      BY <2>9, <2>10, <2>11
    <2> QED
      BY <2>4, <2>12, UsesKeepMem
  <1> QED
    BY <1>1, <1>2

LEMMA WriteMem ==
    ASSUME PagedInv, Shown, Shown', NEW i \in Indices, Write(i)
    PROVE  \E s \in States, r \in Ranks : Stores(PagedMem, PagedMem', s, r)
  <1>1. PICK w \in Words : phys' = [phys EXCEPT ![i] = w]
    BY DEF Write
  <1>2. PICK s \in States, r \in Ranks :
           s = current[1] /\ r = current[2] /\ maps[s] # NULL /\ Mapping = maps[s][r]
    BY CurrentPage DEF Mapping
  <1>3. i \in DOMAIN maps[s][r] /\ slot[i] = maps[s][r][i] /\ pages[slot[i]].refs = 1
    BY <1>2 DEF Write, PagedInv, ProtectionIsSound, IsPrivate
  <1>4. PICK p \in Pages : p = slot[i] /\ <<s, r, i>> \in Uses(maps, p)
    BY <1>2, <1>3, ListedIsUsed
  <1>5. \A u \in Uses(maps, p) : u = <<s, r, i>>
    <2>1. Cardinality(Uses(maps, p)) = 1
      BY <1>3, <1>4, UsersAreUses DEF PagedInv, RefCountsAreExact
    <2> QED
      BY <1>4, <2>1, UsesAreFinite
  <1>6. maps' = maps /\ pages' = pages /\ \A j \in Indices : phys'[j] = IF j = i THEN w ELSE phys[j]
    BY <1>1 DEF Write, PagedInv, TypeOK
  <1>7. Cont'[<<p, i>>] = w
    <2>1. pages[p].active
      BY <1>4 DEF PagedInv, ProtectionIsSound
    <2> QED
      BY <1>6, <2>1, ContAt
  <1>8. ASSUME NEW t \in States, NEW q \in Ranks, maps[t] # NULL,
               NEW j \in 1 .. Len(maps[t][q]), <<t, q, j>> # <<s, r, i>>
        PROVE  Cont'[<<maps[t][q][j], j>>] = Cont[<<maps[t][q][j], j>>]
    <2>1. maps[t][q] \in Seq(Pages)
      BY <1>8 DEF PagedInv, TypeOK
    <2>2. PICK z \in Pages : z = maps[t][q][j] /\ j \in Indices /\ <<t, q, j>> \in Uses(maps, z)
      BY <1>8, <2>1, ListedIsUsed
    <2>3. z # p
      BY <1>5, <1>8, <2>2
    <2>4. pages[z].active => slot[j] = z
      <3>1. \A l \in Indices : slot[l] = z => l = j
        <4> SUFFICES ASSUME NEW l \in Indices, slot[l] = z PROVE l = j
          OBVIOUS
        <4>1. slot[l] # NULL
          BY NullAssumption
        <4>2. PICK v \in Uses(maps, z) : v[3] = l
          BY <4>1, UsersAreUses DEF PagedInv, ProtectionIsSound
        <4>3. v[3] = <<t, q, j>>[3]
          BY <2>2, UsersAreUses DEF PagedInv, RefCountsAreExact
        <4> QED
          BY <4>2, <4>3
      <3> QED
        BY <3>1 DEF PagedInv, ProtectionIsSound
    <2>5. pages[z].active => j # i
      BY <1>4, <2>3, <2>4
    <2>6. Cont'[<<z, j>>] = Cont[<<z, j>>]
      BY <1>6, <2>2, <2>5, ContAt
    <2> QED
      BY <2>2, <2>6
  <1>9. HoldSame(maps, Cont, maps, Cont', s, r, i)
    BY <1>8 DEF HoldSame
  <1>10. Stores(Mem(maps, Cont), Mem(maps, Cont'), s, r)
    <2>1. Filled(maps, Cont) /\ Filled(maps, Cont')
      BY <1>6 DEF Shown
    <2>2. Cont'[<<maps[s][r][i], i>>] = w
      BY <1>3, <1>4, <1>7
    <2> QED
      BY <1>2, <1>3, <1>9, <2>1, <2>2, MemStored
  <1> QED
    BY <1>6, <1>10 DEF Shown

LEMMA ForkMem ==
    ASSUME PagedInv, Shown, Shown', NEW s \in States, NEW t \in States, NEW r \in Ranks,
           Fork(s, t, r)
    PROVE  Copies(PagedMem, PagedMem', s, t)
  <1>1. maps[s] # NULL /\ maps[t] = NULL /\ maps \in Mappings
    BY CurrentPage DEF Fork, LiveStates
  <1>2. Copied(maps, maps', s, t)
    <2>1. maps' = [maps EXCEPT ![t] = maps[s]]
      BY DEF Fork
    <2>2. maps[s] \in [Ranks -> Seq(Pages)]
      BY <1>1 DEF Mappings
    <2> QED
      BY <1>1, <2>1, <2>2 DEF Copied, Mappings
  <1>3. Cont' = Cont
    <2>1. \A p \in Pages : pages'[p].data = pages[p].data /\ pages'[p].active = pages[p].active
      BY DEF Fork, PagedInv, TypeOK, Page
    <2>2. phys' = phys
      BY DEF Fork
    <2> QED
      BY <2>1, <2>2 DEF Cont, Contents
  <1>4. Filled(maps, Cont)
    BY DEF Shown
  <1>5. Copies(Mem(maps, Cont), Mem(maps', Cont), s, t)
    BY <1>1, <1>2, <1>4, MemCopied
  <1> QED
    BY <1>3, <1>5 DEF Shown

LEMMA DeleteMem ==
    ASSUME PagedInv, Shown, Shown', NEW s \in States, Delete(s)
    PROVE  Frees(PagedMem, PagedMem', s)
  <1>1. s \in LiveStates /\ maps[s] # NULL /\ maps \in Mappings /\ phys' = phys
    BY CurrentPage DEF Delete, LiveStates
  <1>2. Deleted(maps, maps', s)
    <2>1. maps' = [maps EXCEPT ![s] = NULL]
      BY DEF Delete
    <2> QED
      BY <1>1, <2>1 DEF Deleted, Mappings
  <1>3. ASSUME NEW t \in States, NEW r \in Ranks, t # s, maps[t] # NULL, NEW j \in DOMAIN maps[t][r]
        PROVE  Cont'[<<maps[t][r][j], j>>] = Cont[<<maps[t][r][j], j>>]
    <2>1. PICK z \in Pages : z = maps[t][r][j] /\ j \in Indices /\ <<t, r, j>> \in Uses(maps, z)
      BY <1>3, ListedIsUsed
    <2>2. ~ (z \in PagesOf(s) /\ IsPrivate(z))
      <3> SUFFICES ASSUME z \in PagesOf(s), IsPrivate(z) PROVE FALSE
        OBVIOUS
      <3>1. PICK q \in Ranks, l \in Indices : <<s, q, l>> \in Uses(maps, z)
        BY <1>1, ListedPages DEF Lists
      <3>2. Cardinality(Uses(maps, z)) = 1
        BY UsersAreUses DEF IsPrivate, PagedInv, RefCountsAreExact
      <3>3. <<s, q, l>> = <<t, r, j>>
        BY <2>1, <3>1, <3>2, UsesAreFinite
      <3> QED
        BY <1>3, <3>3
    <2>3. pages'[z].data = pages[z].data /\ pages'[z].active = pages[z].active
      BY <2>2 DEF Delete, PagedInv, TypeOK, Page
    <2> QED
      BY <1>1, <2>1, <2>3, ContAt
  <1>4. Filled(maps, Cont)
    BY DEF Shown
  <1>5. Frees(Mem(maps, Cont), Mem(maps', Cont'), s)
    BY <1>1, <1>2, <1>3, <1>4, MemFreed
  <1> QED
    BY <1>5 DEF Shown

LEMMA StepsArePrivate ==
    ASSUME PagedInv, PagedInv', [Next]_vars
    PROVE  \/ PagedMem' = PagedMem
           \/ \E s \in States : \/ \E r \in Ranks : \/ Grows(PagedMem, PagedMem', s, r)
                                                    \/ Stores(PagedMem, PagedMem', s, r)
                                \/ \E t \in States : Copies(PagedMem, PagedMem', s, t)
                                \/ Frees(PagedMem, PagedMem', s)
  <1>1. Shown /\ Shown'
    BY PagedMemIsMem, PagedMemIsMemNext
  <1>2. CASE UNCHANGED vars
    BY <1>2, SamePagedMem DEF vars
  <1>3. CASE AllocPage
    BY <1>1, <1>3, AllocMem
  <1>4. CASE \E i \in Indices : Write(i)
    BY <1>1, <1>4, WriteMem
  <1>5. CASE \E i \in Indices : \/ PageFault(i)
                                \/ \E q \in Ranks, first \in Indices : HashPage(q, first, i)
    BY <1>1, <1>5, ProtectedMem, ReadOnlyMem DEF PageFault, HashPage
  <1>6. CASE \E s \in States, r \in Ranks : SwitchTo(s, r)
    BY <1>6, SamePagedMem DEF SwitchTo
  <1>7. CASE \E s \in States, r \in Ranks, t \in States : Fork(s, t, r)
    BY <1>1, <1>7, ForkMem
  <1>8. CASE \E s \in States : Delete(s)
    BY <1>1, <1>8, DeleteMem
  <1> QED
    BY <1>2, <1>3, <1>4, <1>5, <1>6, <1>7, <1>8 DEF Next

LEMMA PrivateInit == Init => Private!MemoryInit
  <1> SUFFICES ASSUME Init PROVE Private!MemoryInit
    OBVIOUS
  <1>1. PICK s \in States : maps = [t \in States |-> IF t = s THEN [q \in Ranks |-> << >>] ELSE NULL]
    BY DEF Init
  <1>2. [q \in Ranks |-> << >>] # NULL
    <2>1. [q \in Ranks |-> << >>] \in [Ranks -> Seq(Pages)]
      OBVIOUS
    <2> QED
      BY <2>1, NullAssumption
  <1>3. [i \in DOMAIN << >> |-> Contents(<< >>[i], i)] = << >>
    OBVIOUS
  <1>4. PagedMem = [t \in States |-> IF t = s THEN [q \in Ranks |-> << >>] ELSE NULL]
    BY <1>1, <1>2, <1>3 DEF PagedMem
  <1> QED
    BY <1>4 DEF Private!MemoryInit, PagedMem

LEMMA PrivateStep == PagedInv /\ PagedInv' /\ [Next]_vars => [Private!MemoryNext]_PagedMem
  <1> SUFFICES ASSUME PagedInv, PagedInv', [Next]_vars
               PROVE  PagedMem' = PagedMem \/ Private!MemoryNext
    OBVIOUS
  <1>1. ASSUME NEW s \in States, NEW r \in Ranks, Grows(PagedMem, PagedMem', s, r)
        PROVE  Private!Grow(s, r)
    BY <1>1 DEF Private!Grow, Private!Live, PagedMem, Grows
  <1>2. ASSUME NEW s \in States, NEW r \in Ranks, Stores(PagedMem, PagedMem', s, r)
        PROVE  Private!Store(s, r)
    BY <1>2 DEF Private!Store, Private!Live, PagedMem, Stores
  <1>3. ASSUME NEW s \in States, NEW t \in States, Copies(PagedMem, PagedMem', s, t)
        PROVE  Private!Copy(s, t)
    BY <1>3 DEF Private!Copy, Private!Live, PagedMem, Copies
  <1>4. ASSUME NEW s \in States, Frees(PagedMem, PagedMem', s)
        PROVE  Private!Free(s)
    BY <1>4 DEF Private!Free, Private!Live, PagedMem, Frees
  <1> QED
    BY <1>1, <1>2, <1>3, <1>4, StepsArePrivate DEF Private!MemoryNext

(* The paged memory implements private memory: sharing, swapping and the   *)
(* page faults are never seen by a process, whatever the number of states, *)
(* ranks, pages and words (MemoryManager.cpp, MemoryMapping.cpp).          *)
THEOREM PagedMemoryIsPrivate == Spec => ImplementsPrivateMemory
  <1>1. Spec => Private!MemoryInit /\ [][Private!MemoryNext]_PagedMem
    BY PrivateInit, PrivateStep, PagedInvariant, PTL DEF Spec
  <1> QED
    BY <1>1, PTL DEF ImplementsPrivateMemory, Private!MemorySpec, PagedMem
=============================================================================
