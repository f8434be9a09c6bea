-------------------------- MODULE EntityStoreProofs --------------------------
(***************************************************************************)
(* For any entities, components, relations and operations: up to the first *)
(* fault, the node of every entity refers to its own row, every row        *)
(* belongs to a living entity, the relations and their index agree, the    *)
(* value index of the link components finds exactly the links, the child   *)
(* lists and the parents agree and form a forest, and the whole store is a *)
(* plain map of entities.                                                  *)
(***************************************************************************)
EXTENDS EntityStore, FiniteSetTheorems, SequenceTheorems, WellFoundedInduction, TLAPS

-----------------------------------------------------------------------------
(* Rows                                                                    *)

\* The node of an entity refers to its row.
OwnRow(T, x) ==
  /\ T.compIndex[x] \in 1..Len(T.rows[T.archetype[x]])
  /\ T.rows[T.archetype[x]][T.compIndex[x]].id = x

\* A row is referred to by the node of its entity.
OwnNode(T, a, i) ==
  /\ T.rows[a][i].id \in T.created
  /\ T.archetype[T.rows[a][i].id] = a
  /\ T.compIndex[T.rows[a][i].id] = i

\* Entity e has no row, and all others are exact.
ExactBut(T, e) ==
  /\ \A x \in Ids \ {e} : x \in T.created => OwnRow(T, x)
  /\ \A a \in Archs : \A i \in 1..Len(T.rows[a]) : T.rows[a][i].id # e /\ OwnNode(T, a, i)

\* Row i of archetype a is the one of e, whatever its node says, and all others are exact.
ExactAside(T, e, a, i) ==
  /\ \A x \in Ids \ {e} : x \in T.created => OwnRow(T, x)
  /\ i \in 1..Len(T.rows[a]) /\ T.rows[a][i].id = e
  /\ \A b \in Archs : \A j \in 1..Len(T.rows[b]) :
       b # a \/ j # i => T.rows[b][j].id # e /\ OwnNode(T, b, j)

LEMMA ExactUnfold ==
  ASSUME NEW T
  PROVE  RowsExactOf(T) <=>
           /\ \A x \in Ids : x \in T.created => OwnRow(T, x)
           /\ \A a \in Archs : \A i \in 1..Len(T.rows[a]) : OwnNode(T, a, i)
BY DEF RowsExactOf, Created, RowOf, OwnRow, OwnNode

\* The fields of a storage.
LEMMA StorageFields ==
  ASSUME NEW T
  PROVE  T \in Storage <=>
           /\ T = [created |-> T.created, archetype |-> T.archetype,
                   compIndex |-> T.compIndex, rows |-> T.rows]
           /\ T.created \in SUBSET Ids /\ T.archetype \in [Ids -> Archs]
           /\ T.compIndex \in [Ids -> Nat] /\ T.rows \in [Archs -> Seq(Row)]
BY DEF Storage

\* MoveLastComponentsTo() returns a storage, at any position.
LEMMA MoveLastStorage ==
  ASSUME NEW T \in Storage, NEW a \in Archs, NEW i \in Nat
  PROVE  LET U == MoveLastComponentsTo(T, a, i)
             last == Len(T.rows[a])
         IN /\ U \in Storage
            /\ U.created = T.created /\ U.archetype = T.archetype
            /\ U.compIndex = IF last # i THEN [T.compIndex EXCEPT ![T.rows[a][last].id] = i]
                             ELSE T.compIndex
            /\ \A b \in Archs : b # a => U.rows[b] = T.rows[b]
            /\ \A j \in 1..last - 1 : U.rows[a][j] = T.rows[a][IF j = i THEN last ELSE j]
            /\ last > 0 => Len(U.rows[a]) = last - 1
            /\ last = 0 => U.rows[a] = <<>>
<1> DEFINE last == Len(T.rows[a])
           rest == [j \in 1..last - 1 |-> T.rows[a][IF j = i THEN last ELSE j]]
           index == IF last # i THEN [T.compIndex EXCEPT ![T.rows[a][last].id] = i] ELSE T.compIndex
           U == MoveLastComponentsTo(T, a, i)
<1>1. T.rows[a] \in Seq(Row) /\ last \in Nat
  BY StorageFields
<1>2. \A j \in 1..last - 1 : rest[j] \in Row
  <2> TAKE j \in 1..last - 1
  <2>1. last \in 1..last /\ j \in 1..last
    BY <1>1
  <2> QED BY <1>1, <2>1
<1>3. rest \in Seq(Row) /\ (last > 0 => Len(rest) = last - 1) /\ (last = 0 => rest = <<>>)
  <2>1. CASE last = 0
    <3>1. 1..last - 1 = 1..0
      BY <2>1
    <3>2. rest \in [1..0 -> Row]
      BY <1>2, <3>1
    <3> HIDE DEF rest
    <3>3. rest \in Seq(Row) /\ Len(rest) = 0
      BY <3>2
    <3> QED BY <2>1, <3>3, EmptySeq
  <2>2. CASE last > 0
    <3>1. last - 1 \in Nat
      BY <2>2, <1>1
    <3>2. rest \in [1..last - 1 -> Row]
      BY <1>2
    <3> HIDE DEF rest
    <3> QED BY <2>2, <3>1, <3>2
  <2> QED BY <1>1, <2>1, <2>2
<1>4. index \in [Ids -> Nat]
  BY StorageFields
<1>5. U = [created |-> T.created, archetype |-> T.archetype, compIndex |-> index,
           rows |-> [T.rows EXCEPT ![a] = rest]]
  <2>1. U = [T EXCEPT !.compIndex = index, !.rows[a] = rest]
    BY DEF MoveLastComponentsTo
  <2>2. T = [created |-> T.created, archetype |-> T.archetype,
             compIndex |-> T.compIndex, rows |-> T.rows]
    BY StorageFields
  <2> HIDE DEF rest, index, U
  <2> QED BY <2>1, <2>2
<1> HIDE DEF rest, index, U
<1>6. U \in Storage
  BY <1>3, <1>4, <1>5, StorageFields DEF Storage
<1>7. U.rows[a] = rest /\ \A b \in Archs : b # a => U.rows[b] = T.rows[b]
  BY <1>5, StorageFields
<1>8. U.created = T.created /\ U.archetype = T.archetype /\ U.compIndex = index
  BY <1>5
<1> QED BY <1>3, <1>6, <1>7, <1>8 DEF rest, index, U

LEMMA MoveLastTyped ==
  ASSUME NEW T \in Storage, NEW a \in Archs, NEW i \in Nat
  PROVE  /\ MoveLastComponentsTo(T, a, i) \in Storage
         /\ MoveLastComponentsTo(T, a, i).created = T.created
<1> DEFINE last == Len(T.rows[a])
           U == MoveLastComponentsTo(T, a, i)
           lastId == T.rows[a][last].id
<1>1. U \in Storage
  BY MoveLastStorage
<1>2. /\ U.created = T.created /\ U.archetype = T.archetype
      /\ U.compIndex = IF last # i THEN [T.compIndex EXCEPT ![lastId] = i] ELSE T.compIndex
      /\ \A b \in Archs : b # a => U.rows[b] = T.rows[b]
      /\ \A j \in 1..last - 1 : U.rows[a][j] = T.rows[a][IF j = i THEN last ELSE j]
      /\ last > 0 => Len(U.rows[a]) = last - 1
  BY MoveLastStorage
<1> QED BY <1>1, <1>2

\* Filling row i with the last one leaves all entities but e exact.
LEMMA MoveLastExact ==
  ASSUME NEW T \in Storage, NEW e \in Ids, NEW a \in Archs, NEW i \in Nat, ExactAside(T, e, a, i)
  PROVE  ExactBut(MoveLastComponentsTo(T, a, i), e)
<1> DEFINE last == Len(T.rows[a])
           U == MoveLastComponentsTo(T, a, i)
           lastId == T.rows[a][last].id
<1>1. /\ U.created = T.created /\ U.archetype = T.archetype
      /\ U.compIndex = IF last # i THEN [T.compIndex EXCEPT ![lastId] = i] ELSE T.compIndex
      /\ \A b \in Archs : b # a => U.rows[b] = T.rows[b]
      /\ \A j \in 1..last - 1 : U.rows[a][j] = T.rows[a][IF j = i THEN last ELSE j]
      /\ last > 0 => Len(U.rows[a]) = last - 1
  BY MoveLastStorage
<1>2. /\ T.created \in SUBSET Ids /\ T.archetype \in [Ids -> Archs]
      /\ T.compIndex \in [Ids -> Nat] /\ \A b \in Archs : Len(T.rows[b]) \in Nat
  BY StorageFields
<1>3. /\ last \in Nat /\ i \in 1..last /\ T.rows[a][i].id = e
      /\ \A x \in Ids \ {e} : x \in T.created => OwnRow(T, x)
      /\ \A b \in Archs : \A j \in 1..Len(T.rows[b]) :
           b # a \/ j # i => T.rows[b][j].id # e /\ OwnNode(T, b, j)
  BY <1>2 DEF ExactAside
<1>4. Len(U.rows[a]) = last - 1
  BY <1>1, <1>3
<1>5. last # i => lastId # e /\ OwnNode(T, a, last) /\ lastId \in Ids
  <2>1. last \in 1..Len(T.rows[a])
    BY <1>3
  <2>2. last # i => T.rows[a][last].id # e /\ OwnNode(T, a, last)
    BY <1>3, <2>1
  <2> QED BY <1>2, <2>2 DEF OwnNode
<1> HIDE DEF U, last, lastId
<1>6. ASSUME NEW x \in Ids \ {e}, x \in U.created PROVE OwnRow(U, x)
  <2>1. OwnRow(T, x) /\ T.archetype[x] \in Archs
    BY <1>1, <1>2, <1>3, <1>6
  <2>2. CASE T.archetype[x] # a
    <3>1. U.compIndex[x] = T.compIndex[x]
      BY <1>1, <1>2, <1>5, <2>2 DEF OwnNode, lastId
    <3> QED BY <1>1, <2>1, <2>2, <3>1 DEF OwnRow
  <2>3. CASE T.archetype[x] = a
    <3>1. T.compIndex[x] \in 1..last /\ T.rows[a][T.compIndex[x]].id = x /\ T.compIndex[x] # i
      BY <1>3, <2>1, <2>3 DEF OwnRow, last
    <3>2. CASE last # i /\ x = lastId
      <4>1. U.compIndex[x] = i /\ i \in 1..last - 1
        BY <1>1, <1>2, <1>3, <3>2
      <4>2. U.rows[a][i].id = x
        BY <1>1, <3>2, <4>1 DEF lastId
      <4> QED BY <1>1, <1>4, <2>3, <4>1, <4>2 DEF OwnRow
    <3>3. CASE last = i \/ x # lastId
      <4>1. U.compIndex[x] = T.compIndex[x] /\ T.compIndex[x] \in 1..last - 1
        BY <1>1, <1>2, <1>3, <3>1, <3>3 DEF lastId
      <4>2. U.rows[a][T.compIndex[x]].id = x
        BY <1>1, <3>1, <4>1
      <4> QED BY <1>1, <1>4, <2>3, <4>1, <4>2 DEF OwnRow
    <3> QED BY <3>2, <3>3
  <2> QED BY <2>2, <2>3
<1>7. ASSUME NEW b \in Archs, NEW j \in 1..Len(U.rows[b])
      PROVE  U.rows[b][j].id # e /\ OwnNode(U, b, j)
  <2>1. CASE b # a
    <3>1. j \in 1..Len(T.rows[b]) /\ U.rows[b][j] = T.rows[b][j]
      BY <1>1, <2>1
    <3>2. T.rows[b][j].id # e /\ OwnNode(T, b, j)
      BY <1>3, <2>1, <3>1
    <3>3. last # i => T.rows[b][j].id # lastId
      BY <1>5, <2>1, <3>2 DEF OwnNode, lastId
    <3> QED BY <1>1, <1>2, <3>1, <3>2, <3>3 DEF OwnNode
  <2>2. CASE b = a /\ j = i
    <3>1. last # i /\ U.rows[a][i] = T.rows[a][last] /\ i \in 1..last - 1
      BY <1>1, <1>3, <1>4, <2>2
    <3>2. U.rows[a][i].id = lastId /\ U.compIndex[lastId] = i
      BY <1>1, <1>2, <1>5, <3>1 DEF lastId
    <3> QED BY <1>1, <1>5, <2>2, <3>1, <3>2 DEF OwnNode, lastId
  <2>3. CASE b = a /\ j # i
    <3>1. j \in 1..last - 1 /\ U.rows[a][j] = T.rows[a][j]
      BY <1>1, <1>4, <2>3
    <3>2. j \in 1..Len(T.rows[a]) /\ j # last
      BY <1>3, <3>1 DEF last
    <3>3. T.rows[a][j].id # e /\ OwnNode(T, a, j)
      BY <1>3, <2>3, <3>2
    <3>4. last # i => T.rows[a][j].id # lastId
      BY <1>5, <3>2, <3>3 DEF OwnNode, lastId
    <3> QED BY <1>1, <1>2, <2>3, <3>1, <3>3, <3>4 DEF OwnNode
  <2> QED BY <2>1, <2>2, <2>3
<1> QED BY <1>6, <1>7 DEF ExactBut, U

\* AddEntity() makes the entity exact that it adds.
LEMMA AddEntityExact ==
  ASSUME NEW T \in Storage, NEW a \in Archs, NEW row \in Row, ExactBut(T, row.id)
  PROVE  LET U == AddEntity(T, a, row)
         IN /\ U \in Storage /\ RowsExactOf(U)
            /\ U.created = T.created \cup {row.id}
            /\ U.archetype[row.id] = a
<1> DEFINE e == row.id
           n == Len(T.rows[a]) + 1
           U == AddEntity(T, a, row)
<1>1. /\ T = [created |-> T.created, archetype |-> T.archetype,
              compIndex |-> T.compIndex, rows |-> T.rows]
      /\ T.created \in SUBSET Ids /\ T.archetype \in [Ids -> Archs]
      /\ T.compIndex \in [Ids -> Nat] /\ T.rows \in [Archs -> Seq(Row)]
      /\ e \in Ids /\ n \in Nat
  <2>1. e \in Ids
    BY DEF Row
  <2>2. /\ T = [created |-> T.created, archetype |-> T.archetype,
                compIndex |-> T.compIndex, rows |-> T.rows]
        /\ T.created \in SUBSET Ids /\ T.archetype \in [Ids -> Archs]
        /\ T.compIndex \in [Ids -> Nat] /\ T.rows \in [Archs -> Seq(Row)]
    BY StorageFields
  <2>3. T.rows[a] \in Seq(Row)
    BY <2>2
  <2> QED BY <2>1, <2>2, <2>3
<1>2. U = [created |-> T.created \cup {e}, archetype |-> [T.archetype EXCEPT ![e] = a],
           compIndex |-> [T.compIndex EXCEPT ![e] = n],
           rows |-> [T.rows EXCEPT ![a] = Append(T.rows[a], row)]]
  <2>1. U = [T EXCEPT !.created = T.created \cup {e}, !.archetype[e] = a,
                      !.compIndex[e] = n, !.rows[a] = Append(T.rows[a], row)]
    BY DEF AddEntity
  <2> HIDE DEF U, e, n
  <2> QED BY <1>1, <2>1
<1> HIDE DEF U
<1>3. /\ Append(T.rows[a], row) \in Seq(Row) /\ Len(Append(T.rows[a], row)) = n
      /\ \A i \in 1..Len(T.rows[a]) : Append(T.rows[a], row)[i] = T.rows[a][i]
      /\ Append(T.rows[a], row)[n] = row
  BY <1>1, AppendProperties
<1>4. U \in Storage
  BY <1>1, <1>2, <1>3 DEF Storage
<1>5. /\ U.created = T.created \cup {e}
      /\ U.archetype = [T.archetype EXCEPT ![e] = a] /\ U.compIndex = [T.compIndex EXCEPT ![e] = n]
      /\ \A b \in Archs : b # a => U.rows[b] = T.rows[b]
      /\ Len(U.rows[a]) = n /\ U.rows[a][n] = row
      /\ \A i \in 1..Len(T.rows[a]) : U.rows[a][i] = T.rows[a][i]
  BY <1>1, <1>2, <1>3
<1> HIDE DEF e
<1>6. ASSUME NEW x \in Ids, x \in U.created PROVE OwnRow(U, x)
  <2>1. CASE x = e
    BY <1>1, <1>5, <2>1 DEF OwnRow, e
  <2>2. CASE x # e
    <3>1. OwnRow(T, x) /\ U.archetype[x] = T.archetype[x] /\ U.compIndex[x] = T.compIndex[x]
      BY <1>1, <1>5, <1>6, <2>2 DEF ExactBut, e
    <3>2. T.archetype[x] \in Archs
      BY <1>1
    <3> QED BY <1>1, <1>5, <3>1, <3>2 DEF OwnRow
  <2> QED BY <2>1, <2>2
<1>7. ASSUME NEW b \in Archs, NEW i \in 1..Len(U.rows[b]) PROVE OwnNode(U, b, i)
  <2>1. CASE b = a /\ i = n
    BY <1>1, <1>5, <2>1 DEF OwnNode, e
  <2>2. CASE ~(b = a /\ i = n)
    <3>1. i \in 1..Len(T.rows[b]) /\ U.rows[b][i] = T.rows[b][i]
      BY <1>1, <1>5, <2>2
    <3>2. T.rows[b][i].id # e /\ OwnNode(T, b, i)
      BY <3>1 DEF ExactBut, e
    <3> QED BY <1>1, <1>5, <3>1, <3>2 DEF OwnNode
  <2> QED BY <2>1, <2>2
<1> QED BY <1>1, <1>4, <1>5, <1>6, <1>7, ExactUnfold DEF U, e

\* What Entity.GetComponent() reads of an exact storage is the row of the entity.
LEMMA RowOfEntity ==
  ASSUME NEW T \in Storage, RowsExactOf(T), NEW e \in T.created
  PROVE  /\ e \in Ids /\ T.archetype[e] \in Archs
         /\ T.compIndex[e] \in 1..Len(T.rows[T.archetype[e]])
         /\ RowOf(T, e) \in Row /\ RowOf(T, e).id = e
<1>1. e \in Ids /\ T.archetype[e] \in Archs /\ T.rows \in [Archs -> Seq(Row)]
  BY StorageFields
<1>2. OwnRow(T, e)
  BY <1>1, ExactUnfold
<1>3. T.rows[T.archetype[e]] \in Seq(Row)
  BY <1>1
<1> QED BY <1>1, <1>2, <1>3 DEF OwnRow, RowOf

\* The link, and the children, of an entity or of one that does not exist.
LEMMA ComponentValues ==
  ASSUME NEW T \in Storage, RowsExactOf(T), NEW e \in Ids
  PROVE  LinkOf(T, e) \in Ids \cup {NoId} /\ ChildIds(T, e) \in Seq(Ids)
<1>1. CASE e \in T.created
  <2>1. RowOf(T, e) \in Row
    BY <1>1, RowOfEntity
  <2>2. RowOf(T, e).link \in Ids \cup {NoId} /\ RowOf(T, e).childIds \in Seq(Ids)
    BY <2>1 DEF Row
  <2>3. <<>> \in Seq(Ids)
    OBVIOUS
  <2> QED BY <2>2, <2>3 DEF LinkOf, ChildIds
<1>2. CASE e \notin T.created
  BY <1>2 DEF LinkOf, ChildIds, HasComponent, Created
<1> QED BY <1>1, <1>2

\* MoveEntityTo() keeps the storage exact and its entities.
LEMMA MoveEntityToExact ==
  ASSUME NEW T \in Storage, RowsExactOf(T), NEW e \in T.created, NEW a \in Archs
  PROVE  LET U == MoveEntityTo(T, e, a)
         IN U \in Storage /\ RowsExactOf(U) /\ U.created = T.created /\ U.archetype[e] = a
<1> DEFINE source == T.archetype[e]
           M == MoveLastComponentsTo(T, source, T.compIndex[e])
           row == CopyComponents(RowOf(T, e), source, a)
<1>1. /\ e \in Ids /\ source \in Archs /\ T.compIndex[e] \in 1..Len(T.rows[source])
      /\ RowOf(T, e) \in Row /\ RowOf(T, e).id = e
  BY RowOfEntity
<1>2. CASE source = a
  BY <1>2 DEF MoveEntityTo
<1>3. CASE source # a
  <2>1. ExactAside(T, e, source, T.compIndex[e])
    <3>1. /\ \A x \in Ids : x \in T.created => OwnRow(T, x)
          /\ \A b \in Archs : \A j \in 1..Len(T.rows[b]) : OwnNode(T, b, j)
      BY ExactUnfold
    <3>2. T.rows[source][T.compIndex[e]].id = e
      BY <1>1, <3>1 DEF OwnRow
    <3>3. ASSUME NEW b \in Archs, NEW j \in 1..Len(T.rows[b]), T.rows[b][j].id = e
          PROVE  b = source /\ j = T.compIndex[e]
      BY <3>1, <3>3 DEF OwnNode
    <3> HIDE DEF source
    <3> QED BY <1>1, <3>1, <3>2, <3>3 DEF ExactAside
  <2>2. T.compIndex[e] \in Nat
    BY <1>1, StorageFields
  <2>3. M \in Storage /\ M.created = T.created
    <3> HIDE DEF source
    <3> QED BY <1>1, <2>2, MoveLastTyped
  <2>4. ExactBut(M, e)
    BY <1>1, <2>1, <2>2, MoveLastExact
  <2>5. row \in Row /\ row.id = e
    <3>1. <<>> \in Seq(Ids)
      OBVIOUS
    <3> QED BY <1>1, <3>1 DEF CopyComponents, Row
  <2> HIDE DEF M, row
  <2>6. LET U == AddEntity(M, a, row)
        IN U \in Storage /\ RowsExactOf(U) /\ U.created = M.created \cup {e} /\ U.archetype[e] = a
    BY <2>3, <2>4, <2>5, AddEntityExact
  <2>7. MoveEntityTo(T, e, a) = AddEntity(M, a, row)
    BY <1>3 DEF MoveEntityTo, M, row
  <2> QED BY <2>3, <2>6, <2>7
<1> QED BY <1>2, <1>3

\* CreateEntityNode() adds the entity, if it is not there.
LEMMA CreateEntityNodeExact ==
  ASSUME NEW T \in Storage, RowsExactOf(T), NEW e \in Ids
  PROVE  LET U == CreateEntityNode(T, e)
         IN U \in Storage /\ RowsExactOf(U) /\ U.created = T.created \cup {e}
<1> DEFINE row == [id |-> e, link |-> NoId, childIds |-> <<>>]
<1>1. CASE e \in T.created
  BY <1>1 DEF CreateEntityNode, Created
<1>2. CASE e \notin T.created
  <2>1. row \in Row /\ row.id = e /\ DefaultArchetype \in Archs
    BY DEF Row, DefaultArchetype, Archs
  <2>2. ExactBut(T, e)
    BY <1>2, ExactUnfold DEF ExactBut, OwnNode
  <2> HIDE DEF row
  <2>3. CreateEntityNode(T, e) = AddEntity(T, DefaultArchetype, row)
    BY <1>2 DEF CreateEntityNode, Created, row
  <2> QED BY <2>1, <2>2, <2>3, AddEntityExact
<1> QED BY <1>1, <1>2

\* A component value does not matter for the rows.
LEMMA RowsKept ==
  ASSUME NEW T \in Storage, RowsExactOf(T), NEW U,
         U.created = T.created, U.archetype = T.archetype, U.compIndex = T.compIndex,
         \A a \in Archs : /\ Len(U.rows[a]) = Len(T.rows[a])
                          /\ \A i \in 1..Len(T.rows[a]) : U.rows[a][i].id = T.rows[a][i].id
  PROVE  RowsExactOf(U)
<1>1. /\ \A x \in Ids : x \in T.created => OwnRow(T, x) /\ T.archetype[x] \in Archs
      /\ \A a \in Archs : \A i \in 1..Len(T.rows[a]) : OwnNode(T, a, i)
  BY ExactUnfold, StorageFields
<1>2. ASSUME NEW x \in Ids, x \in U.created PROVE OwnRow(U, x)
  <2> DEFINE a == T.archetype[x]
             i == T.compIndex[x]
  <2>1. a \in Archs /\ i \in 1..Len(T.rows[a]) /\ T.rows[a][i].id = x
    BY <1>1, <1>2 DEF OwnRow
  <2>2. U.archetype[x] = a /\ U.compIndex[x] = i
    OBVIOUS
  <2> HIDE DEF a, i
  <2>3. Len(U.rows[a]) = Len(T.rows[a]) /\ U.rows[a][i].id = x
    BY <2>1
  <2> QED BY <2>1, <2>2, <2>3 DEF OwnRow
<1>3. ASSUME NEW a \in Archs, NEW i \in 1..Len(U.rows[a]) PROVE OwnNode(U, a, i)
  <2>1. i \in 1..Len(T.rows[a]) /\ U.rows[a][i].id = T.rows[a][i].id
    OBVIOUS
  <2>2. OwnNode(T, a, i)
    BY <1>1, <2>1
  <2> QED BY <2>1, <2>2 DEF OwnNode
<1> QED BY <1>2, <1>3, ExactUnfold

\* One row of a storage is replaced by one of the same entity.
LEMMA RowReplaced ==
  ASSUME NEW T \in Storage, RowsExactOf(T), NEW a \in Archs, NEW i \in Nat, NEW row,
         i \in 1..Len(T.rows[a]) => row \in Row /\ row.id = T.rows[a][i].id,
         NEW U, U = [created |-> T.created, archetype |-> T.archetype, compIndex |-> T.compIndex,
                     rows |-> [T.rows EXCEPT ![a] = [T.rows[a] EXCEPT ![i] = row]]]
  PROVE  /\ U \in Storage /\ RowsExactOf(U)
         /\ U.created = T.created /\ U.archetype = T.archetype /\ U.compIndex = T.compIndex
<1> DEFINE s == [T.rows[a] EXCEPT ![i] = row]
<1>1. /\ T.created \in SUBSET Ids /\ T.archetype \in [Ids -> Archs]
      /\ T.compIndex \in [Ids -> Nat] /\ T.rows \in [Archs -> Seq(Row)]
  BY StorageFields
<1>2. /\ s \in Seq(Row) /\ Len(s) = Len(T.rows[a])
      /\ \A j \in 1..Len(T.rows[a]) : s[j].id = T.rows[a][j].id
  <2>1. T.rows[a] \in Seq(Row)
    BY <1>1
  <2>2. CASE i \in 1..Len(T.rows[a])
    <3>1. /\ s \in Seq(Row) /\ Len(s) = Len(T.rows[a])
          /\ \A j \in 1..Len(T.rows[a]) : s[j] = IF j = i THEN row ELSE T.rows[a][j]
      BY <2>1, <2>2, ExceptSeq
    <3> HIDE DEF s
    <3> QED BY <2>2, <3>1
  <2>3. CASE i \notin 1..Len(T.rows[a])
    <3>1. DOMAIN T.rows[a] = 1..Len(T.rows[a]) /\ T.rows[a] = [j \in 1..Len(T.rows[a]) |-> T.rows[a][j]]
      BY <2>1
    <3>2. s = T.rows[a]
      BY <2>3, <3>1
    <3> QED BY <2>1, <3>2
  <2> QED BY <2>2, <2>3
<1> HIDE DEF s
<1>3. U.rows[a] = s /\ \A b \in Archs : b # a => U.rows[b] = T.rows[b]
  BY <1>1 DEF s
<1>4. U \in Storage
  BY <1>1, <1>2 DEF Storage, s
<1>5. \A b \in Archs : /\ Len(U.rows[b]) = Len(T.rows[b])
                       /\ \A j \in 1..Len(T.rows[b]) : U.rows[b][j].id = T.rows[b][j].id
  BY <1>2, <1>3
<1> QED BY <1>4, <1>5, RowsKept

\* Assigning the link, or the children, of an entity.
LEMMA ValuesAssigned ==
  ASSUME NEW T \in Storage, RowsExactOf(T), NEW e \in Ids,
         NEW t \in Ids \cup {NoId}, NEW ids \in Seq(Ids)
  PROVE  /\ LET U == SetLinkOf(T, e, t)
            IN U \in Storage /\ RowsExactOf(U) /\ U.created = T.created
         /\ LET U == SetChildIds(T, e, ids)
            IN /\ U \in Storage /\ RowsExactOf(U) /\ U.created = T.created
               /\ U.archetype = T.archetype /\ U.compIndex = T.compIndex
<1> DEFINE a == T.archetype[e]
           i == T.compIndex[e]
           linked == [T.rows[a][i] EXCEPT !.link = t]
           parent == [T.rows[a][i] EXCEPT !.childIds = ids]
<1>1. /\ T = [created |-> T.created, archetype |-> T.archetype,
              compIndex |-> T.compIndex, rows |-> T.rows]
      /\ a \in Archs /\ i \in Nat /\ T.rows[a] \in Seq(Row)
  <2>1. /\ T.archetype \in [Ids -> Archs] /\ T.compIndex \in [Ids -> Nat]
        /\ T.rows \in [Archs -> Seq(Row)]
    BY StorageFields
  <2> QED BY <2>1, StorageFields
<1>2. ASSUME i \in 1..Len(T.rows[a])
      PROVE  /\ linked \in Row /\ linked.id = T.rows[a][i].id
             /\ parent \in Row /\ parent.id = T.rows[a][i].id
  <2>1. T.rows[a][i] \in Row
    BY <1>1, <1>2
  <2> QED BY <2>1 DEF Row
<1>3. /\ SetLinkOf(T, e, t) = [T EXCEPT !.rows[a] = [T.rows[a] EXCEPT ![i] = linked]]
      /\ SetChildIds(T, e, ids) = [T EXCEPT !.rows[a] = [T.rows[a] EXCEPT ![i] = parent]]
  BY <1>1 DEF SetLinkOf, SetChildIds
<1> HIDE DEF a, i, linked, parent
<1>4. /\ SetLinkOf(T, e, t) =
           [created |-> T.created, archetype |-> T.archetype, compIndex |-> T.compIndex,
            rows |-> [T.rows EXCEPT ![a] = [T.rows[a] EXCEPT ![i] = linked]]]
      /\ SetChildIds(T, e, ids) =
           [created |-> T.created, archetype |-> T.archetype, compIndex |-> T.compIndex,
            rows |-> [T.rows EXCEPT ![a] = [T.rows[a] EXCEPT ![i] = parent]]]
  BY <1>1, <1>3
<1> DEFINE U == SetLinkOf(T, e, t)
           V == SetChildIds(T, e, ids)
<1>5. U \in Storage /\ RowsExactOf(U) /\ U.created = T.created
  <2>1. U = [created |-> T.created, archetype |-> T.archetype, compIndex |-> T.compIndex,
             rows |-> [T.rows EXCEPT ![a] = [T.rows[a] EXCEPT ![i] = linked]]]
    BY <1>4
  <2> HIDE DEF U
  <2> QED BY <1>1, <1>2, <2>1, RowReplaced
<1>6. /\ V \in Storage /\ RowsExactOf(V) /\ V.created = T.created
      /\ V.archetype = T.archetype /\ V.compIndex = T.compIndex
  <2>1. V = [created |-> T.created, archetype |-> T.archetype, compIndex |-> T.compIndex,
             rows |-> [T.rows EXCEPT ![a] = [T.rows[a] EXCEPT ![i] = parent]]]
    BY <1>4
  <2> HIDE DEF V
  <2> QED BY <1>1, <1>2, <2>1, RowReplaced
<1> QED BY <1>5, <1>6

-----------------------------------------------------------------------------
(* The tree                                                                *)

\* The child ids without one of them.
LEMMA WithoutTyped ==
  ASSUME NEW ids \in Seq(Ids), NEW c
  PROVE  Without(ids, c) \in Seq(Ids) /\ Len(Without(ids, c)) >= Len(ids) - 1
<1>1. CASE c \in Range(ids)
  <2> DEFINE i == CHOOSE j \in DOMAIN ids : ids[j] = c
  <2>1. i \in 1..Len(ids)
    BY <1>1 DEF Range
  <2>2. Without(ids, c) = SubSeq(ids, 1, i - 1) \o SubSeq(ids, i + 1, Len(ids))
    BY <1>1 DEF Without, RemoveAt
  <2> HIDE DEF i
  <2>3. SubSeq(ids, 1, i - 1) \in Seq(Ids) /\ Len(SubSeq(ids, 1, i - 1)) = i - 1
    BY <2>1, SubSeqProperties
  <2>4. /\ SubSeq(ids, i + 1, Len(ids)) \in Seq(Ids)
        /\ Len(SubSeq(ids, i + 1, Len(ids))) = Len(ids) - i
    BY <2>1, SubSeqProperties
  <2> DEFINE front == SubSeq(ids, 1, i - 1)
             back == SubSeq(ids, i + 1, Len(ids))
  <2> HIDE DEF front, back
  <2>5. front \o back \in Seq(Ids) /\ Len(front \o back) = Len(front) + Len(back)
    BY <2>3, <2>4, ConcatProperties DEF front, back
  <2>6. Len(front) = i - 1 /\ Len(back) = Len(ids) - i
    BY <2>3, <2>4 DEF front, back
  <2>7. Len(front \o back) = Len(ids) - 1
    BY <2>1, <2>5, <2>6
  <2>8. Without(ids, c) = front \o back
    BY <2>2 DEF front, back
  <2> QED BY <2>1, <2>5, <2>7, <2>8
<1>2. CASE c \notin Range(ids)
  BY <1>2 DEF Without
<1> QED BY <1>1, <1>2

\* The child ids with one more, at a position there is.
LEMMA InsertTyped ==
  ASSUME NEW ids \in Seq(Ids), NEW i \in 1..Len(ids) + 1, NEW c \in Ids
  PROVE  InsertAt(ids, i, c) \in Seq(Ids)
<1>1. SubSeq(ids, 1, i - 1) \in Seq(Ids)
  BY SubSeqProperties
<1>2. SubSeq(ids, i, Len(ids)) \in Seq(Ids)
  BY SubSeqProperties
<1>3. <<c>> \in Seq(Ids)
  OBVIOUS
<1> QED BY <1>1, <1>2, <1>3, ConcatProperties DEF InsertAt

\* An entity leaves the list of its parent.
LEMMA LeaveParentExact ==
  ASSUME TypeOK, NEW T \in Storage, RowsExactOf(T), NEW c \in Ids
  PROVE  LET U == LeaveParent(T, c)
         IN /\ U \in Storage /\ RowsExactOf(U) /\ U.created = T.created
            /\ U.archetype = T.archetype /\ U.compIndex = T.compIndex
<1>1. CASE Parent(c) = NoId
  BY <1>1 DEF LeaveParent
<1>2. CASE Parent(c) # NoId
  <2> DEFINE p == Parent(c)
             ids == Without(ChildIds(T, p), c)
  <2>1. p \in Ids
    BY <1>2 DEF Parent, TypeOK
  <2> HIDE DEF p
  <2>2. ids \in Seq(Ids)
    BY <2>1, ComponentValues, WithoutTyped
  <2>3. LeaveParent(T, c) = SetChildIds(T, p, ids)
    BY <1>2 DEF LeaveParent, RemoveChildNode, p
  <2> HIDE DEF ids
  <2>4. NoId \in Ids \cup {NoId}
    OBVIOUS
  <2> QED BY <2>1, <2>2, <2>3, <2>4, ValuesAssigned
<1> QED BY <1>1, <1>2

\* An entity gets a TreeNode.
LEMMA GetTreeNodeExact ==
  ASSUME NEW T \in Storage, RowsExactOf(T), NEW e \in T.created
  PROVE  LET U == GetTreeNode(T, e)
         IN U \in Storage /\ RowsExactOf(U) /\ U.created = T.created
<1>1. T.archetype[e] \cup {"TreeNode"} \in Archs
  BY RowOfEntity DEF Archs, ComponentTypes
<1> QED BY <1>1, MoveEntityToExact DEF GetTreeNode

\* A node is cleared and its row is left aside.
LEMMA NodeCleared ==
  ASSUME NEW T \in Storage, NEW e \in Ids
  PROVE  LET U == [T EXCEPT !.created = @ \ {e}, !.archetype[e] = DefaultArchetype,
                            !.compIndex[e] = 0]
         IN /\ U \in Storage /\ U.created = T.created \ {e}
            /\ RowsExactOf(T) /\ e \in T.created => ExactAside(U, e, T.archetype[e], T.compIndex[e])
<1> DEFINE U == [T EXCEPT !.created = @ \ {e}, !.archetype[e] = DefaultArchetype,
                          !.compIndex[e] = 0]
<1>1. /\ T = [created |-> T.created, archetype |-> T.archetype,
              compIndex |-> T.compIndex, rows |-> T.rows]
      /\ T.created \in SUBSET Ids /\ T.archetype \in [Ids -> Archs]
      /\ T.compIndex \in [Ids -> Nat] /\ T.rows \in [Archs -> Seq(Row)]
  BY StorageFields
<1>2. U = [created |-> T.created \ {e}, archetype |-> [T.archetype EXCEPT ![e] = DefaultArchetype],
           compIndex |-> [T.compIndex EXCEPT ![e] = 0], rows |-> T.rows]
  <2> DEFINE default == DefaultArchetype
  <2>1. U = [T EXCEPT !.created = T.created \ {e},
                      !.archetype = [T.archetype EXCEPT ![e] = default],
                      !.compIndex = [T.compIndex EXCEPT ![e] = 0]]
    OBVIOUS
  <2> HIDE DEF U, default
  <2>2. U = [created |-> T.created \ {e}, archetype |-> [T.archetype EXCEPT ![e] = default],
             compIndex |-> [T.compIndex EXCEPT ![e] = 0], rows |-> T.rows]
    BY <1>1, <2>1
  <2> QED BY <2>2 DEF default
<1> HIDE DEF U
<1>3. DefaultArchetype \in Archs
  BY DEF DefaultArchetype, Archs
<1>4. U \in Storage
  BY <1>1, <1>2, <1>3 DEF Storage
<1>5. /\ U.created = T.created \ {e} /\ U.rows = T.rows
      /\ \A x \in Ids \ {e} : U.archetype[x] = T.archetype[x] /\ U.compIndex[x] = T.compIndex[x]
  BY <1>1, <1>2
<1>6. ASSUME RowsExactOf(T), e \in T.created
      PROVE  ExactAside(U, e, T.archetype[e], T.compIndex[e])
  <2> DEFINE a == T.archetype[e]
             i == T.compIndex[e]
  <2>1. /\ \A x \in Ids : x \in T.created => OwnRow(T, x)
        /\ \A b \in Archs : \A j \in 1..Len(T.rows[b]) : OwnNode(T, b, j)
    BY <1>6, ExactUnfold
  <2>2. i \in 1..Len(T.rows[a]) /\ T.rows[a][i].id = e
    BY <1>6, <2>1 DEF OwnRow
  <2> HIDE DEF a, i
  <2>3. ASSUME NEW x \in Ids \ {e}, x \in U.created PROVE OwnRow(U, x)
    BY <1>5, <2>1, <2>3 DEF OwnRow
  <2>4. ASSUME NEW b \in Archs, NEW j \in 1..Len(U.rows[b]), b # a \/ j # i
        PROVE  U.rows[b][j].id # e /\ OwnNode(U, b, j)
    <3>1. OwnNode(T, b, j) /\ U.rows[b][j] = T.rows[b][j]
      BY <1>5, <2>1, <2>4
    <3>2. T.rows[b][j].id # e
      BY <2>4, <3>1 DEF OwnNode, a, i
    <3>3. T.rows[b][j].id \in Ids \ {e}
      BY <1>1, <3>1, <3>2 DEF OwnNode
    <3> QED BY <1>5, <3>1, <3>2, <3>3 DEF OwnNode
  <2>5. ExactAside(U, e, a, i)
    BY <1>5, <2>2, <2>3, <2>4 DEF ExactAside
  <2> QED BY <2>5 DEF a, i
<1> QED BY <1>4, <1>5, <1>6 DEF U

-----------------------------------------------------------------------------
(* Links and relations                                                     *)

IndexType == [map : [Ids -> SUBSET Ids], owner : [Ids -> SUBSET LinkTypes],
              linked : [Ids -> SUBSET LinkTypes]]

LEMMA IndexTyped ==
  ASSUME NEW I \in IndexType, NEW e \in Ids
  PROVE  /\ \A t : RemoveComponentValue(I, e, t) \in IndexType
         /\ \A t \in Ids : AddComponentValue(I, e, t) \in IndexType
<1>1. ASSUME NEW t PROVE RemoveComponentValue(I, e, t) \in IndexType
  <2>1. CASE e \notin I.map[t]
    BY <2>1 DEF RemoveComponentValue
  <2>2. CASE e \in I.map[t]
    <3> DEFINE map == [I.map EXCEPT ![t] = @ \ {e}]
               owner == [I.owner EXCEPT ![e] = @ \ {"link"}]
               linked == [I.linked EXCEPT ![t] = IF I.map[t] = {e} THEN @ \ {"link"} ELSE @]
    <3>1. map \in [Ids -> SUBSET Ids] /\ owner \in [Ids -> SUBSET LinkTypes]
      BY DEF IndexType
    <3>2. linked \in [Ids -> SUBSET LinkTypes]
      BY DEF IndexType
    <3>3. RemoveComponentValue(I, e, t) = [I EXCEPT !.map = map, !.owner = owner, !.linked = linked]
      BY <2>2 DEF RemoveComponentValue
    <3> HIDE DEF map, owner, linked
    <3> QED BY <3>1, <3>2, <3>3 DEF IndexType
  <2> QED BY <2>1, <2>2
<1>2. ASSUME NEW t \in Ids PROVE AddComponentValue(I, e, t) \in IndexType
  <2>1. CASE e \in I.map[t]
    BY <2>1 DEF AddComponentValue
  <2>2. CASE e \notin I.map[t]
    <3> DEFINE map == [I.map EXCEPT ![t] = @ \cup {e}]
               owner == [I.owner EXCEPT ![e] = @ \cup {"link"}]
               linked == [I.linked EXCEPT ![t] = IF I.map[t] = {} THEN @ \cup {"link"} ELSE @]
    <3>1. map \in [Ids -> SUBSET Ids]
      BY DEF IndexType
    <3>2. owner \in [Ids -> SUBSET LinkTypes] /\ linked \in [Ids -> SUBSET LinkTypes]
      BY DEF IndexType, LinkTypes
    <3>3. AddComponentValue(I, e, t) = [I EXCEPT !.map = map, !.owner = owner, !.linked = linked]
      BY <2>2 DEF AddComponentValue
    <3> HIDE DEF map, owner, linked
    <3> QED BY <3>1, <3>2, <3>3 DEF IndexType
  <2> QED BY <2>1, <2>2
<1> QED BY <1>1, <1>2

LEMMA SetIndexTyped ==
  ASSUME NEW I \in IndexType, SetIndex(I)
  PROVE  /\ entityMap' \in [Ids -> SUBSET Ids]
         /\ isOwner' \in [Ids -> SUBSET LinkTypes] /\ isLinked' \in [Ids -> SUBSET LinkTypes]
BY DEF SetIndex, IndexType

LEMMA IndexOfStore ==
  ASSUME TypeOK
  PROVE  Index \in IndexType
BY DEF TypeOK, Index, IndexType

\* RemoveLinkOf() keeps the rows.
LEMMA RemoveLinkOfExact ==
  ASSUME TypeOK, RowsExact, NEW e \in store.created, RemoveLinkOf(e)
  PROVE  /\ store' \in Storage /\ RowsExact' /\ store'.created = store.created
         /\ entityMap' \in [Ids -> SUBSET Ids]
         /\ isOwner' \in [Ids -> SUBSET LinkTypes] /\ isLinked' \in [Ids -> SUBSET LinkTypes]
<1>1. store \in Storage /\ RowsExactOf(store)
  BY DEF TypeOK, RowsExact
<1>2. e \in Ids /\ store.archetype[e] \ {"LinkComponent"} \in Archs
  BY <1>1, RowOfEntity DEF Archs
<1>3. store' \in Storage /\ RowsExactOf(store') /\ store'.created = store.created
  BY <1>1, <1>2, MoveEntityToExact DEF RemoveLinkOf
<1>4. RemoveComponentValue(Index, e, LinkOf(store, e)) \in IndexType
  BY <1>2, IndexOfStore, IndexTyped
<1>5. SetIndex(RemoveComponentValue(Index, e, LinkOf(store, e)))
  BY DEF RemoveLinkOf
<1>6. /\ entityMap' \in [Ids -> SUBSET Ids]
      /\ isOwner' \in [Ids -> SUBSET LinkTypes] /\ isLinked' \in [Ids -> SUBSET LinkTypes]
  BY <1>4, <1>5, SetIndexTyped
<1> QED BY <1>3, <1>6 DEF RowsExact

\* The position of a relation that is stored in a node is the one of its row, or the
\* step is a fault.
LEMMA RemoveEntityRelationExact ==
  ASSUME TypeOK, faults = {}, NEW e \in Ids, NEW p \in positionMap[e], RemoveEntityRelation(e, p)
  PROVE  /\ store' \in Storage /\ (faults' = {} => store' = store)
         /\ faults' \subseteq {"row", "relation", "child", "list"}
         /\ isOwner' \in [Ids -> SUBSET LinkTypes]
         /\ relationRows' \in Seq(RelationRow)
         /\ positionMap' \in [Ids -> SUBSET (Nat \ {0})]
<1> DEFINE last == Len(relationRows)
           lastId == relationRows[last].id
           moved == [positionMap EXCEPT ![lastId] = (@ \ {last}) \cup {p}]
           positions == IF lastId = e THEN positionMap[e] \ {last} ELSE moved[e] \ {p}
           rest == [j \in 1..last - 1 |-> relationRows[IF j = p THEN last ELSE j]]
           cond == last # p /\ store.compIndex[lastId] # p
<1>1. /\ relationRows' = rest
      /\ positionMap' = [moved EXCEPT ![e] = positions]
      /\ isOwner' = IF positions = {} THEN [isOwner EXCEPT ![e] = @ \ {"relation"}] ELSE isOwner
      /\ store' = IF last # p THEN [store EXCEPT !.compIndex = [@ EXCEPT ![lastId] = p]] ELSE store
      /\ faults' = faults \cup (IF cond THEN {"row"} ELSE {})
  BY DEF RemoveEntityRelation, Fault
<1>2. /\ relationRows \in Seq(RelationRow) /\ last \in Nat
      /\ positionMap \in [Ids -> SUBSET (Nat \ {0})]
      /\ isOwner \in [Ids -> SUBSET LinkTypes] /\ store \in Storage
  BY DEF TypeOK
<1>3. rest \in Seq(RelationRow)
  <2>1. \A j \in 1..last - 1 : rest[j] \in RelationRow
    <3> TAKE j \in 1..last - 1
    <3>1. last \in 1..last /\ j \in 1..last
      BY <1>2
    <3> QED BY <1>2, <3>1
  <2>2. CASE last = 0
    <3>1. rest \in [1..0 -> RelationRow]
      BY <2>1, <2>2
    <3> HIDE DEF rest
    <3> QED BY <3>1
  <2>3. CASE last > 0
    <3>1. last - 1 \in Nat /\ rest \in [1..last - 1 -> RelationRow]
      BY <1>2, <2>1, <2>3
    <3> HIDE DEF rest, last
    <3> QED BY <3>1
  <2> QED BY <1>2, <2>2, <2>3
<1>4. p \in Nat \ {0}
  BY <1>2
<1> HIDE DEF last, lastId, rest, cond
<1>5. moved \in [Ids -> SUBSET (Nat \ {0})]
  BY <1>2, <1>4
<1>6. positions \in SUBSET (Nat \ {0})
  BY <1>2, <1>5
<1> HIDE DEF moved, positions
<1>7. positionMap' \in [Ids -> SUBSET (Nat \ {0})] /\ isOwner' \in [Ids -> SUBSET LinkTypes]
  BY <1>1, <1>2, <1>5, <1>6
<1>8. store' \in Storage /\ (faults' = {} => store' = store)
  <2>1. CASE last = p
    BY <1>1, <1>2, <2>1
  <2>2. CASE last # p
    <3> DEFINE index == [store.compIndex EXCEPT ![lastId] = p]
    <3>1. /\ store = [created |-> store.created, archetype |-> store.archetype,
                      compIndex |-> store.compIndex, rows |-> store.rows]
          /\ store.compIndex \in [Ids -> Nat]
      BY <1>2, StorageFields
    <3>2. index \in [Ids -> Nat]
      BY <1>4, <3>1
    <3>3. store.compIndex[lastId] = p => index = store.compIndex
      BY <3>1
    <3>4. store' = [store EXCEPT !.compIndex = index]
      BY <1>1, <2>2
    <3> HIDE DEF index
    <3>5. store' = [created |-> store.created, archetype |-> store.archetype,
                    compIndex |-> index, rows |-> store.rows]
      BY <3>1, <3>4
    <3>6. store' \in Storage
      BY <1>2, <3>2, <3>5 DEF Storage
    <3>7. faults' = {} => store.compIndex[lastId] = p
      BY <1>1, <2>2 DEF cond
    <3> QED BY <3>1, <3>3, <3>5, <3>6, <3>7
  <2> QED BY <2>1, <2>2
<1>9. faults' \subseteq {"row", "relation", "child", "list"}
  BY <1>1
<1> QED BY <1>1, <1>3, <1>7, <1>8, <1>9

-----------------------------------------------------------------------------
(* The operations                                                          *)

\* What an operation of the application finds, and what it has to leave.
LEMMA Operating ==
  ASSUME StoreInv, faults = {}
  PROVE  /\ TypeOK /\ store \in Storage /\ RowsExactOf(store)
         /\ \A e \in Ids : Ready(e) => e \in store.created
         /\ \A e : Created(store, e) <=> e \in store.created
         /\ NoId \notin Ids
BY ArchetypesAssumption DEF StoreInv, RowsExactUntilFault, RowsExact, TypeOK, Ready, Created

LEMMA IdleKept ==
  ASSUME deleting = Idle, deleting' = deleting
  PROVE  DeletingExists'
BY DEF DeletingExists, Idle

LEMMA RowsKeep ==
  ASSUME RowsExactOf(store')
  PROVE  RowsExactUntilFault'
BY DEF RowsExactUntilFault, RowsExact

LEMMA CreateEntityKeeps ==
  ASSUME StoreInv, faults = {}, NEW e \in Ids, CreateEntity(e)
  PROVE  StoreInv'
<1>1. store' \in Storage /\ RowsExactOf(store')
  BY Operating, CreateEntityNodeExact DEF CreateEntity
<1>2. TypeOK'
  BY <1>1, Operating DEF CreateEntity, Fault, TypeOK, linkVars, relationVars
<1> QED BY <1>1, <1>2, RowsKeep, IdleKept DEF StoreInv, CreateEntity

LEMMA AddChildKeeps ==
  ASSUME StoreInv, faults = {}, NEW p \in Ids, NEW c \in Ids, AddChild(p, c)
  PROVE  StoreInv'
<1> DEFINE left == LeaveParent(store, c)
           node == GetTreeNode(left, p)
           ids == Append(ChildIds(node, p), c)
<1>1. left \in Storage /\ RowsExactOf(left) /\ p \in left.created
  <2>1. p \in store.created
    BY Operating DEF AddChild
  <2> QED BY <2>1, Operating, LeaveParentExact
<1> HIDE DEF left
<1>2. node \in Storage /\ RowsExactOf(node)
  BY <1>1, GetTreeNodeExact
<1> HIDE DEF node
<1>3. ids \in Seq(Ids)
  <2>1. ChildIds(node, p) \in Seq(Ids)
    BY <1>2, ComponentValues
  <2> QED BY <2>1, AppendProperties
<1>4. store' = SetChildIds(node, p, ids)
  BY DEF AddChild, node, left
<1> HIDE DEF ids
<1>5. store' \in Storage /\ RowsExactOf(store')
  <2>1. NoId \in Ids \cup {NoId}
    OBVIOUS
  <2> QED BY <1>2, <1>3, <1>4, <2>1, ValuesAssigned
<1>6. TypeOK'
  BY <1>5, Operating DEF AddChild, TypeOK, linkVars, relationVars
<1> QED BY <1>5, <1>6, RowsKeep, IdleKept DEF StoreInv, AddChild, Ready

LEMMA InsertChildKeeps ==
  ASSUME StoreInv, faults = {}, NEW p \in Ids, NEW c \in Ids, NEW i \in Int, InsertChild(p, c, i)
  PROVE  StoreInv'
<1> DEFINE node == GetTreeNode(store, p)
           removed == LeaveParent(node, c)
           ids == ChildIds(node, p)
           others == IF Parent(c) = p THEN Without(ids, c) ELSE ids
           inRange == i <= Len(ids)
           fails == i < 0 \/ (Parent(c) = p /\ i = Len(ids))
           inserted == InsertAt(others, i + 1, c)
<1>1. node \in Storage /\ RowsExactOf(node)
  <2>1. p \in store.created
    BY Operating DEF InsertChild
  <2> QED BY <2>1, Operating, GetTreeNodeExact
<1>2. \/ store' = node /\ UNCHANGED <<parentMap, faults>>
      \/ /\ store' = removed /\ faults' = {"child"}
         /\ parentMap' = [parentMap EXCEPT ![c] = p]
      \/ /\ inRange /\ ~fails
         /\ store' = SetChildIds(removed, p, inserted)
         /\ parentMap' = [parentMap EXCEPT ![c] = p] /\ UNCHANGED faults
  BY DEF InsertChild, Fault
<1> HIDE DEF node
<1>3. removed \in Storage /\ RowsExactOf(removed)
  BY <1>1, Operating, LeaveParentExact
<1>4. ids \in Seq(Ids)
  BY <1>1, ComponentValues
<1> HIDE DEF removed, ids
<1>5. others \in Seq(Ids) /\ (inRange /\ ~fails => i + 1 \in 1..Len(others) + 1)
  <2>1. Without(ids, c) \in Seq(Ids) /\ Len(Without(ids, c)) >= Len(ids) - 1
    BY <1>4, WithoutTyped
  <2> QED BY <1>4, <2>1
<1>6. inRange /\ ~fails => inserted \in Seq(Ids)
  <2> HIDE DEF others, inRange, fails
  <2> QED BY <1>5, InsertTyped
<1> HIDE DEF inRange, fails, inserted
<1>7. inRange /\ ~fails =>
        SetChildIds(removed, p, inserted) \in Storage
        /\ RowsExactOf(SetChildIds(removed, p, inserted))
  <2>1. NoId \in Ids \cup {NoId}
    OBVIOUS
  <2> QED BY <1>3, <1>6, <2>1, ValuesAssigned
<1>8. store' \in Storage /\ RowsExactOf(store')
  BY <1>1, <1>2, <1>3, <1>7
<1>9. parentMap' \in [Ids -> Ids \cup {NoId}] /\ faults' \subseteq {"row", "relation", "child", "list"}
  BY <1>2, Operating DEF TypeOK
<1>10. TypeOK'
  BY <1>8, <1>9, Operating DEF InsertChild, TypeOK, linkVars, relationVars
<1> QED BY <1>8, <1>10, RowsKeep, IdleKept DEF StoreInv, InsertChild, Ready

LEMMA RemoveChildKeeps ==
  ASSUME StoreInv, faults = {}, NEW p \in Ids, NEW c \in Ids, RemoveChild(p, c)
  PROVE  StoreInv'
<1>1. store' = LeaveParent(store, c)
  BY Operating DEF RemoveChild, LeaveParent
<1>2. store' \in Storage /\ RowsExactOf(store')
  BY <1>1, Operating, LeaveParentExact
<1>3. TypeOK'
  BY <1>2, Operating DEF RemoveChild, TypeOK, linkVars, relationVars
<1> QED BY <1>2, <1>3, RowsKeep, IdleKept DEF StoreInv, RemoveChild, Ready

LEMMA LoadEntityKeeps ==
  ASSUME StoreInv, faults = {}, NEW p \in Ids, NEW ids \in ChildLists, LoadEntity(p, ids)
  PROVE  StoreInv'
<1> DEFINE created == CreateEntityNode(store, p)
           node == GetTreeNode(created, p)
<1>1. created \in Storage /\ RowsExactOf(created) /\ p \in created.created
  BY Operating, CreateEntityNodeExact
<1>2. store' = IF ids = <<>> THEN created ELSE SetChildIds(node, p, ids)
  BY DEF LoadEntity
<1> HIDE DEF created
<1>3. node \in Storage /\ RowsExactOf(node)
  BY <1>1, GetTreeNodeExact
<1> HIDE DEF node
<1>4. ids \in Seq(Ids)
  <2>1. PICK n \in 0..Cardinality(Ids) - 1 : ids \in [1..n -> Ids]
    BY DEF ChildLists
  <2> QED BY <2>1
<1>5. store' \in Storage /\ RowsExactOf(store')
  <2>1. NoId \in Ids \cup {NoId}
    OBVIOUS
  <2> QED BY <1>1, <1>2, <1>3, <1>4, <2>1, ValuesAssigned
<1>6. parentMap' \in [Ids -> Ids \cup {NoId}] /\ faults' \subseteq {"row", "relation", "child", "list"}
  BY Operating DEF LoadEntity, TypeOK
<1>7. TypeOK'
  BY <1>5, <1>6, Operating DEF LoadEntity, TypeOK, linkVars, relationVars
<1> QED BY <1>5, <1>7, RowsKeep, IdleKept DEF StoreInv, LoadEntity

LEMMA ComponentKeeps ==
  ASSUME StoreInv, faults = {}, NEW e \in Ids, NEW type \in Others,
         AddComponent(e, type) \/ RemoveComponent(e, type)
  PROVE  StoreInv'
<1>1. e \in store.created
  BY Operating DEF AddComponent, RemoveComponent
<1>2. PICK a \in Archs : store' = MoveEntityTo(store, e, a)
  <2>1. store.archetype[e] \cup {type} \in Archs /\ store.archetype[e] \ {type} \in Archs
    BY <1>1, Operating, RowOfEntity DEF Archs, ComponentTypes
  <2> QED BY <2>1 DEF AddComponent, RemoveComponent
<1>3. store' \in Storage /\ RowsExactOf(store')
  BY <1>1, <1>2, Operating, MoveEntityToExact
<1>4. TypeOK'
  BY <1>3, Operating DEF AddComponent, RemoveComponent, TypeOK, linkVars, relationVars
<1> QED BY <1>3, <1>4, RowsKeep, IdleKept DEF StoreInv, AddComponent, RemoveComponent, Ready

LEMMA AddLinkKeeps ==
  ASSUME StoreInv, faults = {}, NEW e \in Ids, NEW t \in Ids, AddLink(e, t)
  PROVE  StoreInv'
<1>1. e \in store.created
  BY Operating DEF AddLink
<1> DEFINE moved == MoveEntityTo(store, e, store.archetype[e] \cup {"LinkComponent"})
<1>2. moved \in Storage /\ RowsExactOf(moved)
  <2>1. store.archetype[e] \cup {"LinkComponent"} \in Archs
    BY <1>1, Operating, RowOfEntity DEF Archs, ComponentTypes
  <2> QED BY <1>1, <2>1, Operating, MoveEntityToExact
<1>3. store' = SetLinkOf(moved, e, t)
  BY DEF AddLink
<1> HIDE DEF moved
<1>4. store' \in Storage /\ RowsExactOf(store')
  <2>1. <<>> \in Seq(Ids) /\ t \in Ids \cup {NoId}
    OBVIOUS
  <2> QED BY <1>2, <1>3, <2>1, ValuesAssigned
<1>5. PICK I \in IndexType : SetIndex(I)
  <2> DEFINE without == RemoveComponentValue(Index, e, LinkOf(store, e))
  <2>1. /\ AddComponentValue(Index, e, t) \in IndexType
        /\ without \in IndexType
    BY Operating, IndexOfStore, IndexTyped
  <2>2. \/ SetIndex(AddComponentValue(without, e, t))
        \/ SetIndex(AddComponentValue(Index, e, t))
    BY DEF AddLink
  <2> HIDE DEF without
  <2>3. AddComponentValue(without, e, t) \in IndexType
    BY <2>1, IndexTyped
  <2> QED BY <2>1, <2>2, <2>3
<1>6. /\ entityMap' \in [Ids -> SUBSET Ids]
      /\ isOwner' \in [Ids -> SUBSET LinkTypes] /\ isLinked' \in [Ids -> SUBSET LinkTypes]
  BY <1>5, SetIndexTyped
<1>7. TypeOK'
  BY <1>4, <1>6, Operating DEF AddLink, TypeOK, relationVars
<1> QED BY <1>4, <1>7, RowsKeep, IdleKept DEF StoreInv, AddLink, Ready

LEMMA RemoveLinkKeeps ==
  ASSUME StoreInv, faults = {}, NEW e \in Ids, RemoveLink(e)
  PROVE  StoreInv'
<1>1. /\ store' \in Storage /\ RowsExactOf(store')
      /\ entityMap' \in [Ids -> SUBSET Ids]
      /\ isOwner' \in [Ids -> SUBSET LinkTypes] /\ isLinked' \in [Ids -> SUBSET LinkTypes]
  <2>1. e \in store.created /\ RemoveLinkOf(e)
    BY Operating DEF RemoveLink
  <2> QED BY <2>1, Operating, RemoveLinkOfExact DEF RowsExact
<1>2. TypeOK'
  BY <1>1, Operating DEF RemoveLink, TypeOK, relationVars
<1> QED BY <1>1, <1>2, RowsKeep, IdleKept DEF StoreInv, RemoveLink, Ready

LEMMA AddRelationKeeps ==
  ASSUME StoreInv, faults = {}, NEW e \in Ids, NEW t \in Ids, AddRelation(e, t)
  PROVE  StoreInv'
<1>1. relationRows' \in Seq(RelationRow)
  <2>1. relationRows \in Seq(RelationRow) /\ [id |-> e, target |-> t] \in RelationRow
    BY Operating DEF TypeOK, RelationRow
  <2> QED BY <2>1, AppendProperties DEF AddRelation
<1>2. positionMap' \in [Ids -> SUBSET (Nat \ {0})]
  <2>1. Len(relationRows) + 1 \in Nat \ {0} /\ positionMap \in [Ids -> SUBSET (Nat \ {0})]
    BY Operating DEF TypeOK
  <2> QED BY <2>1 DEF AddRelation
<1>3. linkEntityMap' \in [Ids -> SUBSET Ids]
  BY Operating DEF AddRelation, TypeOK
<1>4. isOwner' \in [Ids -> SUBSET LinkTypes] /\ isLinked' \in [Ids -> SUBSET LinkTypes]
  BY Operating DEF AddRelation, TypeOK, LinkTypes
<1>5. TypeOK'
  BY <1>1, <1>2, <1>3, <1>4, Operating DEF AddRelation, TypeOK
<1>6. RowsExactOf(store')
  BY Operating DEF AddRelation
<1> QED BY <1>5, <1>6, RowsKeep, IdleKept DEF StoreInv, AddRelation, Ready

\* RemoveRelationTo(), called by the application and by DeleteEntity().
LEMMA RemoveRelationToExact ==
  ASSUME StoreInv, faults = {}, NEW e \in Ids, NEW t, NEW p \in positionMap[e],
         RemoveRelationTo(e, t, p)
  PROVE  /\ store' \in Storage /\ (faults' = {} => store' = store)
         /\ faults' \subseteq {"row", "relation", "child", "list"}
         /\ isOwner' \in [Ids -> SUBSET LinkTypes] /\ isLinked' \in [Ids -> SUBSET LinkTypes]
         /\ relationRows' \in Seq(RelationRow)
         /\ positionMap' \in [Ids -> SUBSET (Nat \ {0})]
         /\ linkEntityMap' \in [Ids -> SUBSET Ids]
<1>1. RemoveEntityRelation(e, p)
  BY DEF RemoveRelationTo
<1>2. linkEntityMap' \in [Ids -> SUBSET Ids] /\ isLinked' \in [Ids -> SUBSET LinkTypes]
  BY Operating DEF RemoveRelationTo, TypeOK
<1> QED BY <1>1, <1>2, Operating, RemoveEntityRelationExact

LEMMA RemoveRelationKeeps ==
  ASSUME StoreInv, faults = {}, NEW e \in Ids, NEW t \in Ids, RemoveRelation(e, t)
  PROVE  StoreInv'
<1>1. PICK p \in positionMap[e] : RemoveRelationTo(e, t, p)
  BY DEF RemoveRelation, FindRelationPosition
<1>2. TypeOK'
  BY <1>1, Operating, RemoveRelationToExact DEF RemoveRelation, TypeOK
<1>3. RowsExactUntilFault'
  BY <1>1, Operating, RemoveRelationToExact DEF RowsExactUntilFault, RowsExact
<1> QED BY <1>2, <1>3, IdleKept DEF StoreInv, RemoveRelation, Ready

LEMMA DeleteEntityKeeps ==
  ASSUME StoreInv, faults = {}, NEW e \in Ids, DeleteEntity(e)
  PROVE  StoreInv'
<1>1. e \in store.created /\ store.archetype[e] \in Archs /\ store.compIndex[e] \in Nat
  <2>1. e \in store.created
    BY Operating DEF DeleteEntity
  <2> QED BY <2>1, Operating, StorageFields
<1>2. /\ deleting' = [id |-> e, archetype |-> store.archetype[e], index |-> store.compIndex[e],
                      collected |-> FALSE, links |-> {}, sources |-> {}]
      /\ store' = store /\ faults' = faults
  BY DEF DeleteEntity, Idle
<1>3. entityMap' \in [Ids -> SUBSET Ids] /\ isOwner' \in [Ids -> SUBSET LinkTypes]
  <2>1. entityMap \in [Ids -> SUBSET Ids] /\ isOwner \in [Ids -> SUBSET LinkTypes]
    BY Operating DEF TypeOK
  <2>2. \/ /\ entityMap' = [entityMap EXCEPT ![LinkOf(store, e)] = @ \ {e}]
           /\ isOwner' = [isOwner EXCEPT ![e] = @ \ {"link"}]
        \/ entityMap' = entityMap /\ isOwner' = isOwner
    BY DEF DeleteEntity
  <2> QED BY <2>1, <2>2
<1>4. TypeOK'
  <2>1. deleting' \in [id : Ids \cup {NoId}, archetype : Archs, index : Nat,
                       collected : BOOLEAN, links : SUBSET Ids, sources : SUBSET Ids]
    BY <1>1, <1>2
  <2> QED BY <1>2, <1>3, <2>1, Operating DEF DeleteEntity, TypeOK, relationVars
<1>5. DeletingExists'
  BY <1>1, <1>2 DEF DeletingExists, Created
<1>6. RowsExactOf(store')
  BY <1>2, Operating
<1> QED BY <1>4, <1>5, <1>6, RowsKeep DEF StoreInv

LEMMA DeletingFields ==
  ASSUME StoreInv, faults = {}, deleting.id # NoId
  PROVE  /\ deleting = [id |-> deleting.id, archetype |-> deleting.archetype,
                        index |-> deleting.index, collected |-> deleting.collected,
                        links |-> deleting.links, sources |-> deleting.sources]
         /\ deleting.id \in Ids /\ deleting.id \in store.created /\ deleting.archetype \in Archs
         /\ deleting.index \in Nat /\ deleting.collected \in BOOLEAN
         /\ deleting.links \subseteq Ids /\ deleting.sources \subseteq Ids
<1>1. deleting \in [id : Ids \cup {NoId}, archetype : Archs, index : Nat,
                    collected : BOOLEAN, links : SUBSET Ids, sources : SUBSET Ids]
  BY Operating DEF TypeOK
<1>2. deleting.id \in store.created
  BY DEF StoreInv, DeletingExists, Created
<1> QED BY <1>1, <1>2

LEMMA DeleteRelationKeeps ==
  ASSUME StoreInv, faults = {}, DeleteRelation
  PROVE  StoreInv'
<1>1. /\ deleting.id \in Ids /\ deleting.id \in store.created /\ deleting.id # NoId
      /\ ~deleting.collected /\ deleting' = deleting
  BY DeletingFields DEF DeleteRelation
<1>2. PICK p \in positionMap[deleting.id] : RemoveEntityRelation(deleting.id, p)
  BY DEF DeleteRelation
<1>3. /\ store' \in Storage /\ (faults' = {} => store' = store)
      /\ faults' \subseteq {"row", "relation", "child", "list"}
      /\ isOwner' \in [Ids -> SUBSET LinkTypes]
      /\ relationRows' \in Seq(RelationRow)
      /\ positionMap' \in [Ids -> SUBSET (Nat \ {0})]
  BY <1>1, <1>2, Operating, RemoveEntityRelationExact
<1>4. TypeOK'
  BY <1>3, Operating DEF DeleteRelation, TypeOK
<1>5. RowsExactUntilFault' /\ DeletingExists'
  BY <1>1, <1>3, Operating DEF RowsExactUntilFault, RowsExact, DeletingExists, Created
<1> QED BY <1>4, <1>5 DEF StoreInv

LEMMA CollectLinksKeeps ==
  ASSUME StoreInv, faults = {}, CollectLinks
  PROVE  StoreInv'
<1>1. /\ deleting.id # NoId /\ store' = store /\ faults' = faults
      /\ UNCHANGED <<linkVars, relationVars, parentMap>>
  BY DEF CollectLinks
<1>2. PICK links \in SUBSET Ids, sources \in SUBSET Ids :
        deleting' = [deleting EXCEPT !.collected = TRUE, !.links = links, !.sources = sources]
  <2> DEFINE linked == isLinked[deleting.id]
             links == IF "link" \in linked THEN entityMap[deleting.id] ELSE {}
             sources == IF "relation" \in linked THEN linkEntityMap[deleting.id] ELSE {}
  <2>1. links \in SUBSET Ids /\ sources \in SUBSET Ids
    BY <1>1, DeletingFields, Operating DEF TypeOK
  <2>2. deleting' = [deleting EXCEPT !.collected = TRUE, !.links = links, !.sources = sources]
    BY DEF CollectLinks
  <2> QED BY <2>1, <2>2
<1>3. deleting' = [id |-> deleting.id, archetype |-> deleting.archetype,
                   index |-> deleting.index, collected |-> TRUE,
                   links |-> links, sources |-> sources]
  BY <1>1, <1>2, DeletingFields
<1>4. deleting' \in [id : Ids \cup {NoId}, archetype : Archs, index : Nat,
                     collected : BOOLEAN, links : SUBSET Ids, sources : SUBSET Ids]
  BY <1>1, <1>3, DeletingFields
<1>5. TypeOK'
  BY <1>1, <1>4, Operating DEF TypeOK, linkVars, relationVars
<1>6. DeletingExists'
  BY <1>1, <1>3, DeletingFields DEF DeletingExists, Created
<1>7. RowsExactOf(store')
  BY <1>1, Operating
<1> QED BY <1>5, <1>6, <1>7, RowsKeep DEF StoreInv

\* DeleteEntity() takes the next entity of a set of those that link to the deleted one.
LEMMA DeletingShrinks ==
  ASSUME StoreInv, faults = {}, NEW o,
         \/ deleting' = [deleting EXCEPT !.links = @ \ {o}]
         \/ deleting' = [deleting EXCEPT !.sources = @ \ {o}],
         store'.created = store.created \/ faults' # {}
  PROVE  /\ deleting' \in [id : Ids \cup {NoId}, archetype : Archs, index : Nat,
                           collected : BOOLEAN, links : SUBSET Ids, sources : SUBSET Ids]
         /\ DeletingExists'
<1>1. deleting \in [id : Ids \cup {NoId}, archetype : Archs, index : Nat,
                    collected : BOOLEAN, links : SUBSET Ids, sources : SUBSET Ids]
  BY Operating DEF TypeOK
<1>2. /\ deleting'.id = deleting.id /\ deleting'.collected = deleting.collected
      /\ deleting' \in [id : Ids \cup {NoId}, archetype : Archs, index : Nat,
                        collected : BOOLEAN, links : SUBSET Ids, sources : SUBSET Ids]
  BY <1>1
<1>3. /\ deleting.collected => deleting.id # NoId
      /\ deleting.id # NoId => deleting.id \in store.created
  BY DEF StoreInv, DeletingExists, Created
<1>4. DeletingExists'
  BY <1>2, <1>3 DEF DeletingExists, Created
<1> QED BY <1>2, <1>4

LEMMA DeleteLinkToEntityKeeps ==
  ASSUME StoreInv, faults = {}, DeleteLinkToEntity
  PROVE  StoreInv'
<1>1. PICK o \in deleting.links :
        /\ deleting' = [deleting EXCEPT !.links = @ \ {o}]
        /\ IF HasComponent(store, o, "LinkComponent") THEN RemoveLinkOf(o)
           ELSE UNCHANGED <<store, linkVars>>
  BY DEF DeleteLinkToEntity
<1>2. /\ store' \in Storage /\ RowsExactOf(store') /\ store'.created = store.created
      /\ entityMap' \in [Ids -> SUBSET Ids]
      /\ isOwner' \in [Ids -> SUBSET LinkTypes] /\ isLinked' \in [Ids -> SUBSET LinkTypes]
  <2>1. CASE HasComponent(store, o, "LinkComponent")
    <3>1. o \in store.created /\ RemoveLinkOf(o)
      BY <1>1, <2>1 DEF HasComponent, Created
    <3> QED BY <3>1, Operating, RemoveLinkOfExact DEF RowsExact
  <2>2. CASE ~HasComponent(store, o, "LinkComponent")
    BY <1>1, <2>2, Operating DEF TypeOK, linkVars
  <2> QED BY <2>1, <2>2
<1>3. /\ deleting' \in [id : Ids \cup {NoId}, archetype : Archs, index : Nat,
                        collected : BOOLEAN, links : SUBSET Ids, sources : SUBSET Ids]
      /\ DeletingExists'
  BY <1>1, <1>2, DeletingShrinks
<1>4. TypeOK'
  BY <1>2, <1>3, Operating DEF DeleteLinkToEntity, TypeOK, relationVars
<1> QED BY <1>2, <1>3, <1>4, RowsKeep DEF StoreInv

LEMMA DeleteRelationToEntityKeeps ==
  ASSUME StoreInv, faults = {}, DeleteRelationToEntity
  PROVE  StoreInv'
<1>1. PICK o \in deleting.sources :
        /\ deleting' = [deleting EXCEPT !.sources = @ \ {o}]
        /\ \/ \E p \in FindRelationPosition(o, deleting.id) : RemoveRelationTo(o, deleting.id, p)
           \/ UNCHANGED <<store, isOwner, isLinked, relationVars, faults>>
  BY DEF DeleteRelationToEntity
<1>2. /\ store' \in Storage /\ (faults' = {} => store' = store)
      /\ faults' \subseteq {"row", "relation", "child", "list"}
      /\ isOwner' \in [Ids -> SUBSET LinkTypes] /\ isLinked' \in [Ids -> SUBSET LinkTypes]
      /\ relationRows' \in Seq(RelationRow)
      /\ positionMap' \in [Ids -> SUBSET (Nat \ {0})]
      /\ linkEntityMap' \in [Ids -> SUBSET Ids]
  <2>1. CASE \E p \in FindRelationPosition(o, deleting.id) : RemoveRelationTo(o, deleting.id, p)
    <3>1. o \in Ids
      BY Operating DEF TypeOK
    <3>2. PICK p \in positionMap[o] : RemoveRelationTo(o, deleting.id, p)
      BY <2>1 DEF FindRelationPosition
    <3> QED BY <3>1, <3>2, RemoveRelationToExact
  <2>2. CASE UNCHANGED <<store, isOwner, isLinked, relationVars, faults>>
    BY <2>2, Operating DEF TypeOK, relationVars
  <2> QED BY <1>1, <2>1, <2>2
<1>3. /\ deleting' \in [id : Ids \cup {NoId}, archetype : Archs, index : Nat,
                        collected : BOOLEAN, links : SUBSET Ids, sources : SUBSET Ids]
      /\ DeletingExists'
  BY <1>1, <1>2, DeletingShrinks
<1>4. TypeOK'
  BY <1>2, <1>3, Operating DEF DeleteRelationToEntity, TypeOK
<1>5. RowsExactUntilFault'
  BY <1>2, Operating DEF RowsExactUntilFault, RowsExact
<1> QED BY <1>3, <1>4, <1>5 DEF StoreInv

LEMMA FinishDeleteKeeps ==
  ASSUME StoreInv, faults = {}, FinishDelete
  PROVE  StoreInv'
<1> DEFINE e == deleting.id
           left == LeaveParent(store, e)
           cleared == [left EXCEPT !.created = @ \ {e}, !.archetype[e] = DefaultArchetype,
                                   !.compIndex[e] = 0]
<1>1. /\ e \in Ids /\ e \in store.created /\ deleting.archetype \in Archs /\ deleting.index \in Nat
  <2>1. deleting.id # NoId
    BY DEF FinishDelete, StoreInv, DeletingExists
  <2> QED BY <2>1, DeletingFields
<1>2. /\ store' = MoveLastComponentsTo(cleared, deleting.archetype, deleting.index)
      /\ faults' = {} => store.archetype[e] = deleting.archetype
                         /\ store.compIndex[e] = deleting.index
      /\ faults' \subseteq {"row", "relation", "child", "list"}
      /\ deleting' = Idle
  BY DEF FinishDelete
<1>3. /\ left \in Storage /\ RowsExactOf(left) /\ left.created = store.created
      /\ left.archetype = store.archetype /\ left.compIndex = store.compIndex
  <2> HIDE DEF e
  <2> QED BY <1>1, Operating, LeaveParentExact
<1>4. /\ cleared \in Storage /\ cleared.created = left.created \ {e}
      /\ ExactAside(cleared, e, left.archetype[e], left.compIndex[e])
  <2> HIDE DEF left, e
  <2> QED BY <1>1, <1>3, NodeCleared
<1> HIDE DEF cleared, left, e
<1>5. store' \in Storage /\ store'.created = cleared.created
  BY <1>1, <1>2, <1>4, MoveLastTyped
<1>6. ASSUME faults' = {} PROVE RowsExactOf(store')
  <2>1. ExactAside(cleared, e, deleting.archetype, deleting.index)
    BY <1>2, <1>3, <1>4, <1>6
  <2>2. ExactBut(store', e)
    BY <1>1, <1>2, <1>4, <2>1, MoveLastExact
  <2>3. e \notin store'.created
    BY <1>4, <1>5
  <2> QED BY <2>2, <2>3, ExactUnfold DEF ExactBut
<1>7. /\ isOwner' \in [Ids -> SUBSET LinkTypes] /\ isLinked' \in [Ids -> SUBSET LinkTypes]
      /\ parentMap' \in [Ids -> Ids \cup {NoId}]
  BY Operating DEF FinishDelete, TypeOK
<1>8. /\ deleting' \in [id : Ids \cup {NoId}, archetype : Archs, index : Nat,
                        collected : BOOLEAN, links : SUBSET Ids, sources : SUBSET Ids]
      /\ DeletingExists'
  BY <1>2 DEF Idle, DeletingExists, DefaultArchetype, Archs
<1>9. TypeOK'
  BY <1>2, <1>5, <1>7, <1>8, Operating DEF FinishDelete, TypeOK, relationVars
<1> QED BY <1>6, <1>8, <1>9 DEF StoreInv, RowsExactUntilFault, RowsExact

-----------------------------------------------------------------------------
LEMMA InitStoreInv == Init => StoreInv
<1> SUFFICES ASSUME Init PROVE StoreInv
  OBVIOUS
<1>1. store \in Storage /\ RowsExactOf(store)
  <2>1. DefaultArchetype \in Archs
    BY DEF DefaultArchetype, Archs
  <2>2. <<>> \in Seq(Row) /\ Len(<<>>) = 0
    OBVIOUS
  <2>3. NoEntities \in Storage
    BY <2>1, <2>2 DEF NoEntities, Storage
  <2>4. NoEntities.created = {} /\ \A a \in Archs : Len(NoEntities.rows[a]) = 0
    BY <2>2 DEF NoEntities
  <2>5. RowsExactOf(NoEntities)
    BY <2>4, ExactUnfold
  <2> QED BY <2>3, <2>5 DEF Init
<1>2. deleting \in [id : Ids \cup {NoId}, archetype : Archs, index : Nat,
                    collected : BOOLEAN, links : SUBSET Ids, sources : SUBSET Ids]
  BY DEF Init, Idle, DefaultArchetype, Archs
<1>3. TypeOK
  BY <1>1, <1>2 DEF Init, TypeOK
<1>4. DeletingExists
  BY DEF Init, Idle, DeletingExists
<1> QED BY <1>1, <1>3, <1>4 DEF StoreInv, RowsExactUntilFault, RowsExact

LEMMA StepStoreInv == StoreInv /\ [Next]_vars => StoreInv'
<1> SUFFICES ASSUME StoreInv, [Next]_vars PROVE StoreInv'
  OBVIOUS
<1>1. CASE faults = {} /\ Operation
  <2> USE <1>1
  <2>1. ASSUME NEW e \in Ids, CreateEntity(e) PROVE StoreInv'
    BY <2>1, CreateEntityKeeps
  <2>2. ASSUME NEW e \in Ids, RemoveLink(e) PROVE StoreInv'
    BY <2>2, RemoveLinkKeeps
  <2>3. ASSUME NEW e \in Ids, DeleteEntity(e) PROVE StoreInv'
    BY <2>3, DeleteEntityKeeps
  <2>4. ASSUME NEW e \in Ids, NEW type \in Others, AddComponent(e, type) \/ RemoveComponent(e, type)
        PROVE  StoreInv'
    BY <2>4, ComponentKeeps
  <2>5. ASSUME NEW e \in Ids, NEW t \in Ids, AddLink(e, t) PROVE StoreInv'
    BY <2>5, AddLinkKeeps
  <2>6. ASSUME NEW e \in Ids, NEW t \in Ids, AddRelation(e, t) PROVE StoreInv'
    BY <2>6, AddRelationKeeps
  <2>7. ASSUME NEW e \in Ids, NEW t \in Ids, RemoveRelation(e, t) PROVE StoreInv'
    BY <2>7, RemoveRelationKeeps
  <2>8. ASSUME NEW e \in Ids, NEW c \in Ids, AddChild(e, c) PROVE StoreInv'
    BY <2>8, AddChildKeeps
  <2>9. ASSUME NEW e \in Ids, NEW c \in Ids, RemoveChild(e, c) PROVE StoreInv'
    BY <2>9, RemoveChildKeeps
  <2>10. ASSUME NEW e \in Ids, NEW c \in Ids, NEW i \in -1..Cardinality(Ids) - 1, InsertChild(e, c, i)
         PROVE  StoreInv'
    <3>1. i \in Int
      BY EntityStoreAssumption, FS_CardinalityType
    <3> QED BY <2>10, <3>1, InsertChildKeeps
  <2>11. ASSUME NEW e \in Ids, NEW ids \in ChildLists, LoadEntity(e, ids) PROVE StoreInv'
    BY <2>11, LoadEntityKeeps
  <2>12. CASE DeleteRelation
    BY <2>12, DeleteRelationKeeps
  <2>13. CASE CollectLinks
    BY <2>13, CollectLinksKeeps
  <2>14. CASE DeleteLinkToEntity
    BY <2>14, DeleteLinkToEntityKeeps
  <2>15. CASE DeleteRelationToEntity
    BY <2>15, DeleteRelationToEntityKeeps
  <2>16. CASE FinishDelete
    BY <2>16, FinishDeleteKeeps
  <2> QED BY <2>1, <2>2, <2>3, <2>4, <2>5, <2>6, <2>7, <2>8, <2>9, <2>10, <2>11,
             <2>12, <2>13, <2>14, <2>15, <2>16 DEF Operation
<1>2. CASE UNCHANGED vars
  BY <1>2 DEF StoreInv, TypeOK, RowsExactUntilFault, RowsExact, DeletingExists,
              vars, linkVars, relationVars
<1> QED BY <1>1, <1>2 DEF Next, Stopped

\* Whatever the application does with components, links, relations, children and
\* DeleteEntity(): until the first fault, the node of every entity refers to the row
\* that has its id, every row is that of a living entity, and a deletion works on an
\* entity that exists (Archetype.MoveLastComponentsTo(), EntityStoreBase.MoveEntityTo()).
THEOREM StoreCorrect == Spec => []StoreInv
BY InitStoreInv, StepStoreInv, PTL DEF Spec

-----------------------------------------------------------------------------
(* The components of an entity                                             *)

\* Entity x has the same components, with the same values, in T and U.
SameEntity(T, U, x) ==
  /\ x \in T.created <=> x \in U.created
  /\ x \in T.created => T.archetype[x] = U.archetype[x] /\ RowOf(T, x) = RowOf(U, x)

LEMMA SameEntityValues ==
  ASSUME NEW T, NEW U, NEW x, SameEntity(T, U, x)
  PROVE  /\ \A type : HasComponent(U, x, type) <=> HasComponent(T, x, type)
         /\ LinkOf(U, x) = LinkOf(T, x) /\ ChildIds(U, x) = ChildIds(T, x)
<1>1. \A type : HasComponent(U, x, type) <=> HasComponent(T, x, type)
  BY DEF SameEntity, HasComponent, Created
<1>2. HasComponent(T, x, "LinkComponent") => RowOf(U, x).link = RowOf(T, x).link
  BY DEF SameEntity, HasComponent, Created
<1>3. HasComponent(T, x, "TreeNode") => RowOf(U, x).childIds = RowOf(T, x).childIds
  BY DEF SameEntity, HasComponent, Created
<1> QED BY <1>1, <1>2, <1>3 DEF LinkOf, ChildIds

\* AddEntity() adds the components of its entity and leaves those of the others.
LEMMA AddEntityValues ==
  ASSUME NEW T \in Storage, NEW a \in Archs, NEW row \in Row, ExactBut(T, row.id)
  PROVE  LET U == AddEntity(T, a, row)
         IN /\ \A x \in Ids \ {row.id} : SameEntity(T, U, x)
            /\ row.id \in U.created /\ U.archetype[row.id] = a /\ RowOf(U, row.id) = row
<1> DEFINE e == row.id
           n == Len(T.rows[a]) + 1
           U == AddEntity(T, a, row)
<1>1. /\ T = [created |-> T.created, archetype |-> T.archetype,
              compIndex |-> T.compIndex, rows |-> T.rows]
      /\ T.created \in SUBSET Ids /\ T.archetype \in [Ids -> Archs]
      /\ T.compIndex \in [Ids -> Nat] /\ T.rows \in [Archs -> Seq(Row)]
  BY StorageFields
<1>2. T.rows[a] \in Seq(Row) /\ e \in Ids /\ n \in Nat
  <2>1. T.rows[a] \in Seq(Row) /\ e \in Ids
    BY <1>1 DEF Row
  <2> QED BY <2>1
<1>3. /\ U.created = T.created \cup {e} /\ U.archetype = [T.archetype EXCEPT ![e] = a]
      /\ U.compIndex = [T.compIndex EXCEPT ![e] = n]
      /\ U.rows = [T.rows EXCEPT ![a] = Append(T.rows[a], row)]
  <2>1. U = [T EXCEPT !.created = T.created \cup {e}, !.archetype[e] = a,
                      !.compIndex[e] = n, !.rows[a] = Append(T.rows[a], row)]
    BY DEF AddEntity
  <2> HIDE DEF U, e, n
  <2> QED BY <1>1, <2>1
<1>4. /\ \A i \in 1..Len(T.rows[a]) : Append(T.rows[a], row)[i] = T.rows[a][i]
      /\ Append(T.rows[a], row)[n] = row
  BY <1>2, AppendProperties
<1> HIDE DEF U, n
<1>5. ASSUME NEW x \in Ids \ {e} PROVE SameEntity(T, U, x)
  <2>1. x \in T.created <=> x \in U.created
    BY <1>3
  <2>2. ASSUME x \in T.created PROVE RowOf(T, x) = RowOf(U, x) /\ T.archetype[x] = U.archetype[x]
    <3>1. OwnRow(T, x) /\ T.archetype[x] \in Archs
      BY <1>1, <2>2 DEF ExactBut
    <3>2. U.archetype[x] = T.archetype[x] /\ U.compIndex[x] = T.compIndex[x]
      BY <1>1, <1>3
    <3>3. U.rows[T.archetype[x]][T.compIndex[x]] = T.rows[T.archetype[x]][T.compIndex[x]]
      BY <1>1, <1>3, <1>4, <3>1 DEF OwnRow
    <3> QED BY <3>2, <3>3 DEF RowOf
  <2> QED BY <2>1, <2>2 DEF SameEntity
<1>6. e \in U.created /\ U.archetype[e] = a /\ RowOf(U, e) = row
  <2> HIDE DEF e
  <2>1. e \in U.created /\ U.archetype[e] = a /\ U.compIndex[e] = n
    BY <1>1, <1>2, <1>3
  <2>2. U.rows[a][n] = row
    BY <1>1, <1>3, <1>4
  <2> QED BY <2>1, <2>2 DEF RowOf
<1> QED BY <1>5, <1>6 DEF U

\* MoveLastComponentsTo() moves a row without changing its components.
LEMMA MoveLastValues ==
  ASSUME NEW T \in Storage, NEW e \in Ids, NEW a \in Archs, NEW i \in Nat, ExactAside(T, e, a, i)
  PROVE  \A x \in Ids \ {e} : SameEntity(T, MoveLastComponentsTo(T, a, i), x)
<1> DEFINE last == Len(T.rows[a])
           U == MoveLastComponentsTo(T, a, i)
           lastId == T.rows[a][last].id
<1>1. /\ U.created = T.created /\ U.archetype = T.archetype
      /\ U.compIndex = IF last # i THEN [T.compIndex EXCEPT ![lastId] = i] ELSE T.compIndex
      /\ \A b \in Archs : b # a => U.rows[b] = T.rows[b]
      /\ \A j \in 1..last - 1 : U.rows[a][j] = T.rows[a][IF j = i THEN last ELSE j]
  BY MoveLastStorage
<1>2. /\ T.archetype \in [Ids -> Archs] /\ T.compIndex \in [Ids -> Nat] /\ last \in Nat
  BY StorageFields
<1>3. /\ i \in 1..last /\ T.rows[a][i].id = e
      /\ \A x \in Ids \ {e} : x \in T.created => OwnRow(T, x)
      /\ last # i => OwnNode(T, a, last)
  <2>1. i \in 1..last
    BY DEF ExactAside
  <2>2. last \in 1..Len(T.rows[a])
    BY <1>2, <2>1
  <2> QED BY <2>1, <2>2 DEF ExactAside
<1> HIDE DEF U, last, lastId
<1> SUFFICES ASSUME NEW x \in Ids \ {e}, x \in T.created PROVE RowOf(U, x) = RowOf(T, x)
  BY <1>1 DEF SameEntity, U
<1> DEFINE b == T.archetype[x]
           k == T.compIndex[x]
<1>4. b \in Archs /\ k \in 1..Len(T.rows[b]) /\ T.rows[b][k].id = x /\ U.archetype[x] = b
  BY <1>1, <1>2, <1>3 DEF OwnRow
<1>5. CASE b = a /\ k = last
  <2>1. last # i /\ x = lastId /\ i \in 1..last - 1
    BY <1>2, <1>3, <1>4, <1>5 DEF lastId
  <2>2. U.compIndex[x] = i /\ U.rows[a][i] = T.rows[a][last]
    BY <1>1, <1>2, <2>1
  <2> QED BY <1>4, <1>5, <2>2 DEF RowOf
<1>6. CASE ~(b = a /\ k = last)
  <2>1. last # i => x # lastId
    BY <1>3, <1>6 DEF OwnNode, lastId
  <2>2. U.compIndex[x] = k
    BY <1>1, <1>2, <2>1
  <2>3. U.rows[b][k] = T.rows[b][k]
    <3>1. CASE b # a
      BY <1>1, <1>4, <3>1
    <3>2. CASE b = a
      <4>1. k \in 1..last - 1 /\ k # i
        BY <1>2, <1>3, <1>4, <1>6, <3>2 DEF last
      <4> QED BY <1>1, <3>2, <4>1
    <3> QED BY <3>1, <3>2
  <2> QED BY <1>4, <2>2, <2>3 DEF RowOf
<1> QED BY <1>5, <1>6

\* The row of an entity of an exact storage, left aside.
LEMMA OwnRowAside ==
  ASSUME NEW T \in Storage, RowsExactOf(T), NEW e \in T.created
  PROVE  ExactAside(T, e, T.archetype[e], T.compIndex[e])
<1>1. /\ \A x \in Ids : x \in T.created => OwnRow(T, x)
      /\ \A b \in Archs : \A j \in 1..Len(T.rows[b]) : OwnNode(T, b, j)
      /\ e \in Ids
  BY ExactUnfold, StorageFields
<1> DEFINE a == T.archetype[e]
           i == T.compIndex[e]
<1>2. i \in 1..Len(T.rows[a]) /\ T.rows[a][i].id = e
  BY <1>1 DEF OwnRow
<1>3. ASSUME NEW b \in Archs, NEW j \in 1..Len(T.rows[b]), T.rows[b][j].id = e
      PROVE  b = a /\ j = i
  BY <1>1, <1>3 DEF OwnNode
<1> HIDE DEF a, i
<1>4. ExactAside(T, e, a, i)
  BY <1>1, <1>2, <1>3 DEF ExactAside
<1> QED BY <1>4 DEF a, i

\* MoveEntityTo() changes the types of one entity and keeps the values of the types
\* the entity has before and after.
LEMMA MoveEntityToValues ==
  ASSUME NEW T \in Storage, RowsExactOf(T), NEW e \in T.created, NEW a \in Archs
  PROVE  LET U == MoveEntityTo(T, e, a)
         IN /\ \A x \in Ids \ {e} : SameEntity(T, U, x)
            /\ e \in U.created /\ U.archetype[e] = a
            /\ "LinkComponent" \in T.archetype[e] /\ "LinkComponent" \in a =>
                 RowOf(U, e).link = RowOf(T, e).link
            /\ "TreeNode" \in T.archetype[e] =>
                 ("TreeNode" \in a => RowOf(U, e).childIds = RowOf(T, e).childIds)
            /\ "TreeNode" \notin T.archetype[e] =>
                 ("TreeNode" \in a => RowOf(U, e).childIds = <<>>)
<1> DEFINE source == T.archetype[e]
           M == MoveLastComponentsTo(T, source, T.compIndex[e])
           row == CopyComponents(RowOf(T, e), source, a)
<1>1. /\ e \in Ids /\ source \in Archs /\ T.compIndex[e] \in 1..Len(T.rows[source])
      /\ RowOf(T, e) \in Row /\ RowOf(T, e).id = e /\ T.compIndex[e] \in Nat
  BY RowOfEntity, StorageFields
<1>2. CASE source = a
  BY <1>2 DEF MoveEntityTo, SameEntity
<1>3. CASE source # a
  <2>1. ExactAside(T, e, source, T.compIndex[e])
    BY OwnRowAside
  <2>2. /\ M \in Storage /\ M.created = T.created /\ ExactBut(M, e)
        /\ \A x \in Ids \ {e} : SameEntity(T, M, x)
    <3> HIDE DEF source
    <3> QED BY <1>1, <2>1, MoveLastTyped, MoveLastExact, MoveLastValues
  <2>3. row \in Row /\ row.id = e
    <3>1. <<>> \in Seq(Ids)
      OBVIOUS
    <3> QED BY <1>1, <3>1 DEF CopyComponents, Row
  <2>4. /\ row.link = IF "LinkComponent" \in source \cap a THEN RowOf(T, e).link ELSE NoId
        /\ row.childIds = IF "TreeNode" \in source \cap a THEN RowOf(T, e).childIds ELSE <<>>
    BY DEF CopyComponents
  <2> HIDE DEF M, row
  <2> DEFINE U == AddEntity(M, a, row)
  <2>5. /\ \A x \in Ids \ {e} : SameEntity(M, U, x)
        /\ e \in U.created /\ U.archetype[e] = a /\ RowOf(U, e) = row
    BY <2>2, <2>3, AddEntityValues
  <2>6. MoveEntityTo(T, e, a) = U
    BY <1>3 DEF MoveEntityTo, M, row
  <2> HIDE DEF U
  <2>7. \A x \in Ids \ {e} : SameEntity(T, U, x)
    BY <2>2, <2>5 DEF SameEntity
  <2> QED BY <2>4, <2>5, <2>6, <2>7
<1> QED BY <1>2, <1>3

\* CreateEntityNode() leaves the entities there are.
LEMMA CreateEntityNodeValues ==
  ASSUME NEW T \in Storage, RowsExactOf(T), NEW e \in Ids
  PROVE  LET U == CreateEntityNode(T, e)
         IN /\ \A x \in Ids \ {e} : SameEntity(T, U, x)
            /\ e \in T.created => SameEntity(T, U, e)
            /\ e \notin T.created => U.archetype[e] = DefaultArchetype
<1> DEFINE row == [id |-> e, link |-> NoId, childIds |-> <<>>]
<1>1. CASE e \in T.created
  BY <1>1 DEF CreateEntityNode, Created, SameEntity
<1>2. CASE e \notin T.created
  <2>1. row \in Row /\ row.id = e /\ DefaultArchetype \in Archs
    BY DEF Row, DefaultArchetype, Archs
  <2>2. ExactBut(T, e)
    BY <1>2, ExactUnfold DEF ExactBut, OwnNode
  <2> HIDE DEF row
  <2>3. CreateEntityNode(T, e) = AddEntity(T, DefaultArchetype, row)
    BY <1>2 DEF CreateEntityNode, Created, row
  <2> QED BY <1>2, <2>1, <2>2, <2>3, AddEntityValues
<1> QED BY <1>1, <1>2

\* Assigning a value of an entity that exists: other entities keep theirs.
LEMMA ValueOfEntity ==
  ASSUME NEW T \in Storage, RowsExactOf(T), NEW e \in T.created,
         NEW t \in Ids \cup {NoId}, NEW ids \in Seq(Ids)
  PROVE  /\ LET U == SetLinkOf(T, e, t)
            IN /\ \A x \in Ids \ {e} : SameEntity(T, U, x)
               /\ e \in U.created /\ U.archetype[e] = T.archetype[e]
               /\ RowOf(U, e) = [RowOf(T, e) EXCEPT !.link = t]
         /\ LET U == SetChildIds(T, e, ids)
            IN /\ \A x \in Ids \ {e} : SameEntity(T, U, x)
               /\ e \in U.created /\ U.archetype[e] = T.archetype[e]
               /\ RowOf(U, e) = [RowOf(T, e) EXCEPT !.childIds = ids]
<1> DEFINE a == T.archetype[e]
           i == T.compIndex[e]
<1>1. /\ T = [created |-> T.created, archetype |-> T.archetype,
              compIndex |-> T.compIndex, rows |-> T.rows]
      /\ T.archetype \in [Ids -> Archs] /\ T.compIndex \in [Ids -> Nat]
      /\ T.rows \in [Archs -> Seq(Row)] /\ e \in Ids
  BY StorageFields
<1>2. /\ \A x \in T.created : x \in Ids /\ OwnRow(T, x)
  BY ExactUnfold, StorageFields
<1>3. a \in Archs /\ i \in 1..Len(T.rows[a]) /\ T.rows[a][i].id = e /\ T.rows[a] \in Seq(Row)
  BY <1>1, <1>2 DEF OwnRow
<1> HIDE DEF a, i
<1>4. ASSUME NEW U, NEW row,
             U.created = T.created, U.archetype = T.archetype, U.compIndex = T.compIndex,
             U.rows = [T.rows EXCEPT ![a] = [T.rows[a] EXCEPT ![i] = row]]
      PROVE  /\ \A x \in Ids \ {e} : SameEntity(T, U, x)
             /\ e \in U.created /\ U.archetype[e] = T.archetype[e] /\ RowOf(U, e) = row
  <2>1. ASSUME NEW x \in Ids \ {e}, x \in T.created PROVE RowOf(T, x) = RowOf(U, x)
    <3> DEFINE b == T.archetype[x]
               k == T.compIndex[x]
    <3>1. b \in Archs /\ k \in 1..Len(T.rows[b]) /\ T.rows[b][k].id = x
      BY <1>1, <1>2, <2>1 DEF OwnRow
    <3> HIDE DEF b, k
    <3>2. ~(b = a /\ k = i)
      BY <1>3, <3>1
    <3>3. T.rows[b] \in Seq(Row)
      BY <1>1, <3>1
    <3>4. U.rows[b][k] = T.rows[b][k]
      BY <1>1, <1>3, <1>4, <3>1, <3>2, <3>3
    <3> QED BY <1>4, <3>4 DEF RowOf, b, k
  <2>2. RowOf(U, e) = row
    <3>1. U.rows[a][i] = row
      BY <1>1, <1>3, <1>4
    <3> QED BY <1>4, <3>1 DEF RowOf, a, i
  <2> QED BY <1>4, <2>1, <2>2 DEF SameEntity
<1> DEFINE linked == [T.rows[a][i] EXCEPT !.link = t]
           parent == [T.rows[a][i] EXCEPT !.childIds = ids]
           U == SetLinkOf(T, e, t)
           V == SetChildIds(T, e, ids)
<1>5. /\ U = [T EXCEPT !.rows[a] = [T.rows[a] EXCEPT ![i] = linked]]
      /\ V = [T EXCEPT !.rows[a] = [T.rows[a] EXCEPT ![i] = parent]]
  BY <1>1 DEF SetLinkOf, SetChildIds, a, i
<1>6. RowOf(T, e) = T.rows[a][i]
  BY DEF RowOf, a, i
<1> HIDE DEF linked, parent, U, V
<1>7. /\ U.created = T.created /\ U.archetype = T.archetype /\ U.compIndex = T.compIndex
      /\ U.rows = [T.rows EXCEPT ![a] = [T.rows[a] EXCEPT ![i] = linked]]
      /\ V.created = T.created /\ V.archetype = T.archetype /\ V.compIndex = T.compIndex
      /\ V.rows = [T.rows EXCEPT ![a] = [T.rows[a] EXCEPT ![i] = parent]]
  BY <1>1, <1>5
<1>8. /\ \A x \in Ids \ {e} : SameEntity(T, U, x)
      /\ e \in U.created /\ U.archetype[e] = T.archetype[e] /\ RowOf(U, e) = linked
  BY <1>4, <1>7
<1>9. /\ \A x \in Ids \ {e} : SameEntity(T, V, x)
      /\ e \in V.created /\ V.archetype[e] = T.archetype[e] /\ RowOf(V, e) = parent
  BY <1>4, <1>7
<1> QED BY <1>6, <1>8, <1>9 DEF linked, parent, U, V

\* DeleteEntity() ends: the other entities are those left when the parent has let go.
LEMMA FinishDeleteEntities ==
  ASSUME StoreInv, faults = {}, faults' = {}, FinishDelete
  PROVE  LET e == deleting.id
             left == LeaveParent(store, e)
         IN /\ e \in store.created /\ store'.created = store.created \ {e}
            /\ left \in Storage /\ RowsExactOf(left) /\ left.created = store.created
            /\ \A x \in Ids \ {e} : SameEntity(left, store', x)
<1> DEFINE e == deleting.id
           left == LeaveParent(store, e)
           cleared == [left EXCEPT !.created = @ \ {e}, !.archetype[e] = DefaultArchetype,
                                   !.compIndex[e] = 0]
<1>1. /\ TypeOK /\ store \in Storage /\ RowsExactOf(store)
      /\ e \in Ids /\ e \in store.created /\ deleting.archetype \in Archs /\ deleting.index \in Nat
  <2>1. deleting.id # NoId
    BY DEF FinishDelete, StoreInv, DeletingExists
  <2> QED BY <2>1, Operating, DeletingFields
<1>2. /\ store' = MoveLastComponentsTo(cleared, deleting.archetype, deleting.index)
      /\ store.archetype[e] = deleting.archetype /\ store.compIndex[e] = deleting.index
  BY DEF FinishDelete
<1>3. /\ left \in Storage /\ RowsExactOf(left) /\ left.created = store.created
      /\ left.archetype = store.archetype /\ left.compIndex = store.compIndex
  <2> HIDE DEF e
  <2> QED BY <1>1, LeaveParentExact
<1> HIDE DEF left, e
<1>4. /\ cleared \in Storage /\ cleared.created = left.created \ {e}
      /\ ExactAside(cleared, e, left.archetype[e], left.compIndex[e])
  BY <1>1, <1>3, NodeCleared
<1>5. \A x \in Ids \ {e} : SameEntity(left, cleared, x)
  <2>1. /\ left = [created |-> left.created, archetype |-> left.archetype,
                   compIndex |-> left.compIndex, rows |-> left.rows]
        /\ left.archetype \in [Ids -> Archs] /\ left.compIndex \in [Ids -> Nat]
    BY <1>3, StorageFields
  <2>2. cleared = [created |-> left.created \ {e},
                   archetype |-> [left.archetype EXCEPT ![e] = DefaultArchetype],
                   compIndex |-> [left.compIndex EXCEPT ![e] = 0], rows |-> left.rows]
    <3> DEFINE default == DefaultArchetype
    <3>1. cleared = [left EXCEPT !.created = left.created \ {e},
                                 !.archetype = [left.archetype EXCEPT ![e] = default],
                                 !.compIndex = [left.compIndex EXCEPT ![e] = 0]]
      OBVIOUS
    <3> HIDE DEF cleared, default
    <3>2. cleared = [created |-> left.created \ {e},
                     archetype |-> [left.archetype EXCEPT ![e] = default],
                     compIndex |-> [left.compIndex EXCEPT ![e] = 0], rows |-> left.rows]
      BY <2>1, <3>1
    <3> QED BY <3>2 DEF default
  <2> HIDE DEF cleared
  <2>3. ASSUME NEW x \in Ids \ {e}
        PROVE  /\ cleared.archetype[x] = left.archetype[x]
               /\ cleared.compIndex[x] = left.compIndex[x] /\ cleared.rows = left.rows
               /\ x \in cleared.created <=> x \in left.created
    BY <2>1, <2>2
  <2> QED BY <2>3 DEF SameEntity, RowOf
<1> HIDE DEF cleared
<1>6. /\ store'.created = cleared.created /\ \A x \in Ids \ {e} : SameEntity(cleared, store', x)
  <2>1. ExactAside(cleared, e, deleting.archetype, deleting.index)
    BY <1>2, <1>3, <1>4
  <2> QED BY <1>1, <1>2, <1>4, <2>1, MoveLastTyped, MoveLastValues
<1>7. \A x \in Ids \ {e} : SameEntity(left, store', x)
  BY <1>5, <1>6 DEF SameEntity
<1> QED BY <1>1, <1>3, <1>4, <1>6, <1>7 DEF left, e

-----------------------------------------------------------------------------
(* The links of the entities                                               *)

HasLink(T, x) == HasComponent(T, x, "LinkComponent")

\* A component of a link has a target.
LinksHaveTargets(T) == \A x \in Ids : HasLink(T, x) => LinkOf(T, x) \in Ids

\* The links are the same in T and U, but for those of the entities in S.
SameLinks(T, U, S) ==
  \A x \in Ids \ S : (HasLink(U, x) <=> HasLink(T, x)) /\ LinkOf(U, x) = LinkOf(T, x)

\* Without a component there is no target, and every link is one of an entity.
LEMMA LinkTargets ==
  ASSUME NEW T, LinksHaveTargets(T), NEW x \in Ids
  PROVE  /\ HasLink(T, x) <=> LinkOf(T, x) \in Ids
         /\ ~HasLink(T, x) => LinkOf(T, x) = NoId
BY ArchetypesAssumption DEF LinksHaveTargets, HasLink, LinkOf

LEMMA SameLinksHaveTargets ==
  ASSUME NEW T, NEW U, NEW S, LinksHaveTargets(T), SameLinks(T, U, S),
         \A x \in S : HasLink(U, x) => LinkOf(U, x) \in Ids
  PROVE  LinksHaveTargets(U)
BY DEF LinksHaveTargets, SameLinks

\* Entities that are the same have the same link.
LEMMA SameEntitiesSameLinks ==
  ASSUME NEW T, NEW U, NEW S, \A x \in Ids \ S : SameEntity(T, U, x)
  PROVE  SameLinks(T, U, S)
BY SameEntityValues DEF SameLinks, HasLink

\* MoveEntityTo() changes a link only if it adds or removes the component.
LEMMA MoveEntityToLinks ==
  ASSUME NEW T \in Storage, RowsExactOf(T), NEW e \in T.created, NEW a \in Archs
  PROVE  LET U == MoveEntityTo(T, e, a)
         IN /\ SameLinks(T, U, {e})
            /\ ("LinkComponent" \in a <=> "LinkComponent" \in T.archetype[e]) => SameLinks(T, U, {})
            /\ HasLink(U, e) <=> "LinkComponent" \in a
<1> DEFINE U == MoveEntityTo(T, e, a)
<1>1. /\ \A x \in Ids \ {e} : SameEntity(T, U, x)
      /\ e \in U.created /\ U.archetype[e] = a
      /\ "LinkComponent" \in T.archetype[e] /\ "LinkComponent" \in a =>
           RowOf(U, e).link = RowOf(T, e).link
  BY MoveEntityToValues
<1> HIDE DEF U
<1>2. SameLinks(T, U, {e})
  BY <1>1, SameEntitiesSameLinks
<1>3. HasLink(U, e) <=> "LinkComponent" \in a
  BY <1>1 DEF HasLink, HasComponent, Created
<1>4. HasLink(T, e) <=> "LinkComponent" \in T.archetype[e]
  BY DEF HasLink, HasComponent, Created
<1>5. ASSUME "LinkComponent" \in a <=> "LinkComponent" \in T.archetype[e]
      PROVE  LinkOf(U, e) = LinkOf(T, e)
  BY <1>1, <1>3, <1>4, <1>5 DEF LinkOf, HasLink
<1> QED BY <1>2, <1>3, <1>4, <1>5 DEF SameLinks, U

\* CreateEntityNode() adds an entity without a link.
LEMMA CreateEntityNodeLinks ==
  ASSUME NEW T \in Storage, RowsExactOf(T), NEW e \in Ids
  PROVE  SameLinks(T, CreateEntityNode(T, e), {})
<1> DEFINE U == CreateEntityNode(T, e)
<1>1. /\ \A x \in Ids \ {e} : SameEntity(T, U, x)
      /\ e \in T.created => SameEntity(T, U, e)
      /\ e \notin T.created => U.archetype[e] = DefaultArchetype
  BY CreateEntityNodeValues
<1> HIDE DEF U
<1>2. SameLinks(T, U, {e})
  BY <1>1, SameEntitiesSameLinks
<1>3. (HasLink(U, e) <=> HasLink(T, e)) /\ LinkOf(U, e) = LinkOf(T, e)
  <2>1. CASE e \in T.created
    BY <1>1, <2>1, SameEntityValues DEF HasLink
  <2>2. CASE e \notin T.created
    BY <1>1, <2>2 DEF HasLink, LinkOf, HasComponent, Created, DefaultArchetype
  <2> QED BY <2>1, <2>2
<1> QED BY <1>2, <1>3 DEF SameLinks, U

\* Assigning the children of an entity changes no link.
LEMMA SetChildIdsLinks ==
  ASSUME NEW T \in Storage, RowsExactOf(T), NEW e \in Ids, NEW ids
  PROVE  SameLinks(T, SetChildIds(T, e, ids), {})
<1> DEFINE a == T.archetype[e]
           i == T.compIndex[e]
           U == SetChildIds(T, e, ids)
           row == [T.rows[a][i] EXCEPT !.childIds = ids]
<1>1. /\ T = [created |-> T.created, archetype |-> T.archetype,
              compIndex |-> T.compIndex, rows |-> T.rows]
      /\ T.archetype \in [Ids -> Archs] /\ T.compIndex \in [Ids -> Nat]
      /\ T.rows \in [Archs -> Seq(Row)]
  BY StorageFields
<1>2. U = [T EXCEPT !.rows[a] = [T.rows[a] EXCEPT ![i] = row]]
  BY <1>1 DEF SetChildIds
<1>3. a \in Archs /\ i \in Nat
  BY <1>1
<1> HIDE DEF row, a, i, U
<1>4. /\ U.created = T.created /\ U.archetype = T.archetype /\ U.compIndex = T.compIndex
      /\ U.rows = [T.rows EXCEPT ![a] = [T.rows[a] EXCEPT ![i] = row]]
  BY <1>1, <1>2
<1>5. ASSUME NEW x \in Ids, x \in T.created PROVE RowOf(U, x).link = RowOf(T, x).link
  <2> DEFINE b == T.archetype[x]
             k == T.compIndex[x]
  <2>1. b \in Archs /\ k \in 1..Len(T.rows[b]) /\ T.rows[b] \in Seq(Row)
    BY <1>1, <1>5, ExactUnfold DEF OwnRow
  <2> HIDE DEF b, k
  <2>2. U.rows[b][k].link = T.rows[b][k].link
    <3>1. CASE b = a /\ k = i
      <4>1. T.rows[a][i] \in Row
        BY <2>1, <3>1
      <4>2. row.link = T.rows[a][i].link
        BY <4>1 DEF row, Row
      <4>3. U.rows[a][i] = row
        BY <1>1, <1>3, <1>4, <2>1, <3>1
      <4> QED BY <3>1, <4>2, <4>3
    <3>2. CASE ~(b = a /\ k = i)
      BY <1>1, <1>3, <1>4, <2>1, <3>2
    <3> QED BY <3>1, <3>2
  <2> QED BY <1>4, <2>2 DEF RowOf, b, k
<1>6. ASSUME NEW x \in Ids
      PROVE  (HasLink(U, x) <=> HasLink(T, x)) /\ LinkOf(U, x) = LinkOf(T, x)
  <2>1. HasLink(U, x) <=> HasLink(T, x)
    BY <1>4 DEF HasLink, HasComponent, Created
  <2>2. HasLink(T, x) => RowOf(U, x).link = RowOf(T, x).link
    BY <1>5 DEF HasLink, HasComponent, Created
  <2> QED BY <2>1, <2>2 DEF LinkOf, HasLink
<1> QED BY <1>6 DEF SameLinks, U

LEMMA SameLinksTransitive ==
  ASSUME NEW T, NEW U, NEW V, SameLinks(T, U, {}), SameLinks(U, V, {})
  PROVE  SameLinks(T, V, {})
BY DEF SameLinks

LEMMA LeaveParentLinks ==
  ASSUME TypeOK, NEW T \in Storage, RowsExactOf(T), NEW c \in Ids
  PROVE  SameLinks(T, LeaveParent(T, c), {})
<1>1. Parent(c) # NoId => Parent(c) \in Ids
  BY DEF Parent, TypeOK
<1>2. Parent(c) # NoId => LeaveParent(T, c) =
        SetChildIds(T, Parent(c), Without(ChildIds(T, Parent(c)), c))
  BY DEF LeaveParent, RemoveChildNode
<1>3. Parent(c) = NoId => LeaveParent(T, c) = T
  BY DEF LeaveParent
<1> QED BY <1>1, <1>2, <1>3, SetChildIdsLinks DEF SameLinks

LEMMA GetTreeNodeLinks ==
  ASSUME NEW T \in Storage, RowsExactOf(T), NEW e \in T.created
  PROVE  SameLinks(T, GetTreeNode(T, e), {})
<1>1. T.archetype[e] \cup {"TreeNode"} \in Archs
  BY RowOfEntity DEF Archs, ComponentTypes
<1>2. "LinkComponent" \in T.archetype[e] \cup {"TreeNode"} <=> "LinkComponent" \in T.archetype[e]
  OBVIOUS
<1> QED BY <1>1, <1>2, MoveEntityToLinks DEF GetTreeNode

-----------------------------------------------------------------------------
(* The index of the links                                                  *)

\* The index I of the links that entities have, L[x] being the target of x, the
\* entity d excepted.
IndexExact(I, L, d) ==
  /\ \A t \in Ids : I.map[t] = {x \in Ids \ {d} : L[x] = t}
  /\ \A x \in Ids \ {d} : "link" \in I.owner[x] <=> L[x] \in Ids
  /\ \A t \in Ids : I.map[t] # {} => "link" \in I.linked[t]

Targets(T) == [x \in Ids |-> LinkOf(T, x)]

\* RemoveComponentValue() of the link that an entity has.
LEMMA ValueRemoved ==
  ASSUME NEW I \in IndexType, NEW L, NEW M, NEW d, IndexExact(I, L, d),
         NEW e \in Ids \ {d}, L[e] \in Ids, M[e] = NoId, \A x \in Ids \ {e} : M[x] = L[x]
  PROVE  IndexExact(RemoveComponentValue(I, e, L[e]), M, d)
<1> DEFINE t == L[e]
           map == [I.map EXCEPT ![t] = @ \ {e}]
           owner == [I.owner EXCEPT ![e] = @ \ {"link"}]
           linked == [I.linked EXCEPT ![t] = IF I.map[t] = {e} THEN @ \ {"link"} ELSE @]
           J == RemoveComponentValue(I, e, t)
<1>1. /\ I = [map |-> I.map, owner |-> I.owner, linked |-> I.linked]
      /\ I.map \in [Ids -> SUBSET Ids]
      /\ I.owner \in [Ids -> SUBSET LinkTypes] /\ I.linked \in [Ids -> SUBSET LinkTypes]
  BY DEF IndexType
<1>2. t \in Ids /\ e \in I.map[t] /\ NoId \notin Ids
  BY ArchetypesAssumption DEF IndexExact
<1>3. J = [I EXCEPT !.map = map, !.owner = owner, !.linked = linked]
  BY <1>2 DEF RemoveComponentValue
<1> HIDE DEF J, map, owner, linked
<1>4. J.map = map /\ J.owner = owner /\ J.linked = linked
  BY <1>1, <1>3
<1> HIDE DEF t
<1>5. ASSUME NEW s \in Ids PROVE map[s] = {x \in Ids \ {d} : M[x] = s}
  <2>1. map[s] = IF s = t THEN I.map[s] \ {e} ELSE I.map[s]
    BY <1>1 DEF map
  <2>2. I.map[s] = {x \in Ids \ {d} : L[x] = s}
    BY DEF IndexExact
  <2> QED BY <1>2, <2>1, <2>2 DEF t
<1>6. ASSUME NEW x \in Ids \ {d} PROVE "link" \in owner[x] <=> M[x] \in Ids
  <2>1. "link" \in I.owner[x] <=> L[x] \in Ids
    BY DEF IndexExact
  <2>2. owner[x] = IF x = e THEN I.owner[x] \ {"link"} ELSE I.owner[x]
    BY <1>1 DEF owner
  <2> QED BY <1>2, <2>1, <2>2
<1>7. ASSUME NEW s \in Ids, map[s] # {} PROVE "link" \in linked[s]
  <2>1. map[s] = IF s = t THEN I.map[s] \ {e} ELSE I.map[s]
    BY <1>1 DEF map
  <2>2. linked[s] = IF s = t /\ I.map[t] = {e} THEN I.linked[s] \ {"link"} ELSE I.linked[s]
    BY <1>1 DEF linked
  <2>3. I.map[s] # {} => "link" \in I.linked[s]
    BY DEF IndexExact
  <2> QED BY <1>7, <2>1, <2>2, <2>3
<1>8. IndexExact(J, M, d)
  BY <1>4, <1>5, <1>6, <1>7 DEF IndexExact
<1> QED BY <1>8 DEF J, t

\* AddComponentValue() of a link to t of an entity without a link.
LEMMA ValueAdded ==
  ASSUME NEW I \in IndexType, NEW L, NEW M, NEW d, IndexExact(I, L, d),
         NEW e \in Ids \ {d}, NEW t \in Ids, L[e] = NoId, M[e] = t,
         \A x \in Ids \ {e} : M[x] = L[x]
  PROVE  IndexExact(AddComponentValue(I, e, t), M, d)
<1> DEFINE map == [I.map EXCEPT ![t] = @ \cup {e}]
           owner == [I.owner EXCEPT ![e] = @ \cup {"link"}]
           linked == [I.linked EXCEPT ![t] = IF I.map[t] = {} THEN @ \cup {"link"} ELSE @]
           J == AddComponentValue(I, e, t)
<1>1. /\ I = [map |-> I.map, owner |-> I.owner, linked |-> I.linked]
      /\ I.map \in [Ids -> SUBSET Ids]
      /\ I.owner \in [Ids -> SUBSET LinkTypes] /\ I.linked \in [Ids -> SUBSET LinkTypes]
  BY DEF IndexType
<1>2. e \notin I.map[t] /\ NoId \notin Ids
  BY ArchetypesAssumption DEF IndexExact
<1>3. J = [I EXCEPT !.map = map, !.owner = owner, !.linked = linked]
  BY <1>2 DEF AddComponentValue
<1> HIDE DEF J, map, owner, linked
<1>4. J.map = map /\ J.owner = owner /\ J.linked = linked
  BY <1>1, <1>3
<1>5. ASSUME NEW s \in Ids PROVE map[s] = {x \in Ids \ {d} : M[x] = s}
  <2>1. map[s] = IF s = t THEN I.map[s] \cup {e} ELSE I.map[s]
    BY <1>1 DEF map
  <2>2. I.map[s] = {x \in Ids \ {d} : L[x] = s}
    BY DEF IndexExact
  <2> QED BY <1>2, <2>1, <2>2
<1>6. ASSUME NEW x \in Ids \ {d} PROVE "link" \in owner[x] <=> M[x] \in Ids
  <2>1. "link" \in I.owner[x] <=> L[x] \in Ids
    BY DEF IndexExact
  <2>2. owner[x] = IF x = e THEN I.owner[x] \cup {"link"} ELSE I.owner[x]
    BY <1>1 DEF owner
  <2> QED BY <1>2, <2>1, <2>2
<1>7. ASSUME NEW s \in Ids, map[s] # {} PROVE "link" \in linked[s]
  <2>1. map[s] = IF s = t THEN I.map[s] \cup {e} ELSE I.map[s]
    BY <1>1 DEF map
  <2>2. linked[s] = IF s = t /\ I.map[t] = {} THEN I.linked[s] \cup {"link"} ELSE I.linked[s]
    BY <1>1 DEF linked
  <2>3. I.map[s] # {} => "link" \in I.linked[s]
    BY DEF IndexExact
  <2> QED BY <1>7, <2>1, <2>2, <2>3
<1>8. IndexExact(J, M, d)
  BY <1>4, <1>5, <1>6, <1>7 DEF IndexExact
<1> QED BY <1>8 DEF J

\* The inductive invariant of the links: a component of a link has a target, the index
\* is exact, and when the links to a deleted entity are collected, all the entities
\* with a link to it are still in the list.
LinksCollected ==
  IF deleting.collected THEN entityMap[deleting.id] \subseteq deleting.links
  ELSE deleting.links = {}
LinksInv ==
  /\ StoreInv
  /\ faults = {} =>
       /\ LinksHaveTargets(store) /\ IndexExact(Index, Targets(store), deleting.id)
       /\ LinksCollected

LEMMA LinksInvExact == LinksInv => LinksExact
<1> SUFFICES ASSUME LinksInv, faults = {} PROVE LinksExact
  BY DEF LinksExact
<1>1. LinksHaveTargets(store) /\ IndexExact(Index, Targets(store), deleting.id)
  BY DEF LinksInv
<1>2. \A x \in Ids : /\ HasLink(store, x) <=> LinkOf(store, x) \in Ids
                     /\ Targets(store)[x] = LinkOf(store, x)
  BY <1>1, LinkTargets DEF Targets
<1>3. ASSUME NEW t \in Ids
      PROVE  entityMap[t] = {x \in Ids \ {deleting.id} : HasLink(store, x) /\ LinkOf(store, x) = t}
  BY <1>1, <1>2 DEF IndexExact, Index
<1>4. ASSUME NEW x \in Ids \ {deleting.id} PROVE "link" \in isOwner[x] <=> HasLink(store, x)
  BY <1>1, <1>2 DEF IndexExact, Index
<1>5. \A t \in Ids : entityMap[t] # {} => "link" \in isLinked[t]
  BY <1>1 DEF IndexExact, Index
<1> QED BY <1>3, <1>4, <1>5 DEF LinksExact, HasLink

\* The index after a step, by its parts.
LEMMA IndexNext ==
  ASSUME NEW J, SetIndex(J), NEW L, NEW d, IndexExact(J, L, d)
  PROVE  IndexExact(Index', L, d)
<1>1. Index'.map = J.map /\ Index'.owner = J.owner /\ Index'.linked = J.linked
  BY DEF SetIndex, Index
<1> QED BY <1>1 DEF IndexExact

SameLinkMarks ==
  \A x \in Ids : /\ "link" \in isOwner'[x] <=> "link" \in isOwner[x]
                 /\ "link" \in isLinked'[x] <=> "link" \in isLinked[x]

\* A step that changes neither the links nor their index.
LEMMA LinksKeptNext ==
  ASSUME LinksInv, faults = {}, StoreInv', SameLinks(store, store', {}),
         entityMap' = entityMap, SameLinkMarks, deleting'.id = deleting.id,
         deleting'.collected = deleting.collected, deleting'.links = deleting.links
  PROVE  LinksInv'
<1>1. /\ LinksHaveTargets(store) /\ IndexExact(Index, Targets(store), deleting.id)
      /\ LinksCollected
  BY DEF LinksInv
<1>2. LinksHaveTargets(store')
  BY <1>1, SameLinksHaveTargets
<1>3. \A x \in Ids : Targets(store')[x] = Targets(store)[x]
  BY DEF Targets, SameLinks
<1>4. IndexExact(Index', Targets(store'), deleting'.id)
  <2>1. /\ Index'.map = Index.map
        /\ \A x \in Ids : /\ "link" \in Index'.owner[x] <=> "link" \in Index.owner[x]
                          /\ "link" \in Index'.linked[x] <=> "link" \in Index.linked[x]
    BY DEF Index, SameLinkMarks
  <2> QED BY <1>1, <1>3, <2>1 DEF IndexExact
<1>5. LinksCollected'
  BY <1>1 DEF LinksCollected
<1> QED BY <1>2, <1>4, <1>5 DEF LinksInv

\* The operations on entities, children and other components change no link.
LEMMA OtherOperationsSameLinks ==
  ASSUME StoreInv, faults = {}, NEW e \in Ids,
         \/ CreateEntity(e)
         \/ \E type \in Others : AddComponent(e, type) \/ RemoveComponent(e, type)
         \/ \E c \in Ids : AddChild(e, c) \/ RemoveChild(e, c)
         \/ \E c \in Ids, i \in -1..Cardinality(Ids) - 1 : InsertChild(e, c, i)
         \/ \E ids \in ChildLists : LoadEntity(e, ids)
  PROVE  SameLinks(store, store', {})
<1>7. TypeOK /\ store \in Storage /\ RowsExactOf(store)
  BY Operating
<1>1. CASE CreateEntity(e)
  BY <1>7, <1>1, CreateEntityNodeLinks DEF CreateEntity
<1>2. ASSUME NEW type \in Others, AddComponent(e, type) \/ RemoveComponent(e, type)
      PROVE  SameLinks(store, store', {})
  <2>1. e \in store.created /\ type # "LinkComponent"
    BY <1>2, ArchetypesAssumption DEF AddComponent, RemoveComponent, Ready, Created
  <2>2. /\ store.archetype[e] \cup {type} \in Archs /\ store.archetype[e] \ {type} \in Archs
    BY <1>7, <2>1, RowOfEntity DEF Archs, ComponentTypes
  <2>3. \/ store' = MoveEntityTo(store, e, store.archetype[e] \cup {type})
        \/ store' = MoveEntityTo(store, e, store.archetype[e] \ {type})
    BY <1>2 DEF AddComponent, RemoveComponent
  <2>4. CASE store' = MoveEntityTo(store, e, store.archetype[e] \cup {type})
    BY <1>7, <2>1, <2>2, <2>4, MoveEntityToLinks
  <2>5. CASE store' = MoveEntityTo(store, e, store.archetype[e] \ {type})
    BY <1>7, <2>1, <2>2, <2>5, MoveEntityToLinks
  <2> QED BY <2>3, <2>4, <2>5
<1>3. ASSUME NEW c \in Ids, AddChild(e, c) PROVE SameLinks(store, store', {})
  <2> DEFINE left == LeaveParent(store, c)
             node == GetTreeNode(left, e)
  <2>1. e \in store.created
    BY <1>3 DEF AddChild, Ready, Created
  <2>2. /\ left \in Storage /\ RowsExactOf(left) /\ e \in left.created
        /\ SameLinks(store, left, {})
    BY <1>7, <2>1, LeaveParentExact, LeaveParentLinks
  <2> HIDE DEF left
  <2>3. node \in Storage /\ RowsExactOf(node) /\ SameLinks(left, node, {})
    BY <2>2, GetTreeNodeExact, GetTreeNodeLinks
  <2>4. store' = SetChildIds(node, e, Append(ChildIds(node, e), c))
    BY <1>3 DEF AddChild, left
  <2> HIDE DEF node
  <2>5. SameLinks(node, store', {})
    BY <2>3, <2>4, SetChildIdsLinks
  <2> QED BY <2>2, <2>3, <2>5, SameLinksTransitive
<1>4. ASSUME NEW c \in Ids, RemoveChild(e, c) PROVE SameLinks(store, store', {})
  <2>1. store' = SetChildIds(store, e, Without(ChildIds(store, e), c))
    BY <1>4 DEF RemoveChild, RemoveChildNode
  <2> QED BY <1>7, <2>1, SetChildIdsLinks
<1>5. ASSUME NEW c \in Ids, NEW i \in -1..Cardinality(Ids) - 1, InsertChild(e, c, i)
      PROVE  SameLinks(store, store', {})
  <2> DEFINE node == GetTreeNode(store, e)
             removed == LeaveParent(node, c)
  <2>1. e \in store.created
    BY <1>5 DEF InsertChild, Ready, Created
  <2>2. node \in Storage /\ RowsExactOf(node) /\ SameLinks(store, node, {})
    BY <1>7, <2>1, GetTreeNodeExact, GetTreeNodeLinks
  <2>3. store' = node \/ store' = removed \/ \E ids : store' = SetChildIds(removed, e, ids)
    BY <1>5 DEF InsertChild
  <2> HIDE DEF node
  <2>4. removed \in Storage /\ RowsExactOf(removed) /\ SameLinks(store, removed, {})
    <3>1. removed \in Storage /\ RowsExactOf(removed) /\ SameLinks(node, removed, {})
      BY <1>7, <2>2, LeaveParentExact, LeaveParentLinks
    <3> QED BY <2>2, <3>1, SameLinksTransitive
  <2> HIDE DEF removed
  <2>5. ASSUME NEW ids, store' = SetChildIds(removed, e, ids) PROVE SameLinks(store, store', {})
    <3>1. SameLinks(removed, store', {})
      BY <2>4, <2>5, SetChildIdsLinks
    <3> QED BY <2>4, <3>1, SameLinksTransitive
  <2> QED BY <2>2, <2>3, <2>4, <2>5
<1>6. ASSUME NEW ids \in ChildLists, LoadEntity(e, ids) PROVE SameLinks(store, store', {})
  <2> DEFINE created == CreateEntityNode(store, e)
             node == GetTreeNode(created, e)
  <2>1. /\ created \in Storage /\ RowsExactOf(created) /\ e \in created.created
        /\ SameLinks(store, created, {})
    BY <1>7, CreateEntityNodeExact, CreateEntityNodeLinks
  <2>2. store' = created \/ store' = SetChildIds(node, e, ids)
    BY <1>6 DEF LoadEntity
  <2> HIDE DEF created
  <2>3. node \in Storage /\ RowsExactOf(node) /\ SameLinks(store, node, {})
    <3>1. node \in Storage /\ RowsExactOf(node) /\ SameLinks(created, node, {})
      BY <2>1, GetTreeNodeExact, GetTreeNodeLinks
    <3> QED BY <2>1, <3>1, SameLinksTransitive
  <2> HIDE DEF node
  <2>4. CASE store' = SetChildIds(node, e, ids)
    <3>1. SameLinks(node, store', {})
      BY <2>3, <2>4, SetChildIdsLinks
    <3> QED BY <2>3, <3>1, SameLinksTransitive
  <2> QED BY <2>1, <2>2, <2>4
<1> QED BY <1>1, <1>2, <1>3, <1>4, <1>5, <1>6

LEMMA OtherOperationsLinks ==
  ASSUME LinksInv, faults = {}, StoreInv', NEW e \in Ids,
         \/ CreateEntity(e)
         \/ \E type \in Others : AddComponent(e, type) \/ RemoveComponent(e, type)
         \/ \E c \in Ids : AddChild(e, c) \/ RemoveChild(e, c)
         \/ \E c \in Ids, i \in -1..Cardinality(Ids) - 1 : InsertChild(e, c, i)
         \/ \E ids \in ChildLists : LoadEntity(e, ids)
  PROVE  LinksInv'
<1>1. deleting' = deleting /\ UNCHANGED linkVars
  BY DEF CreateEntity, AddComponent, RemoveComponent, AddChild, RemoveChild, InsertChild,
         LoadEntity
<1>2. SameLinks(store, store', {})
  BY OtherOperationsSameLinks DEF LinksInv
<1>3. SameLinkMarks /\ entityMap' = entityMap
  BY <1>1 DEF linkVars, SameLinkMarks
<1> QED BY <1>1, <1>2, <1>3, LinksKeptNext

\* AddLink(): the entity has a link, with the new target.
LEMMA LinkAssigned ==
  ASSUME StoreInv, faults = {}, NEW e \in Ids, NEW t \in Ids, AddLink(e, t)
  PROVE  SameLinks(store, store', {e}) /\ HasLink(store', e) /\ LinkOf(store', e) = t
<1> DEFINE moved == MoveEntityTo(store, e, store.archetype[e] \cup {"LinkComponent"})
<1>7. /\ store \in Storage /\ RowsExactOf(store) /\ e \in store.created
      /\ store' = SetLinkOf(moved, e, t)
  BY Operating DEF AddLink
<1>8. /\ moved \in Storage /\ RowsExactOf(moved) /\ e \in moved.created
      /\ SameLinks(store, moved, {e}) /\ HasLink(moved, e)
  <2>1. store.archetype[e] \cup {"LinkComponent"} \in Archs
    BY <1>7, RowOfEntity DEF Archs, ComponentTypes
  <2> QED BY <1>7, <2>1, MoveEntityToExact, MoveEntityToLinks
<1> HIDE DEF moved
<1>1. PICK ids \in Seq(Ids) : t \in Ids \cup {NoId}
  <2>1. <<>> \in Seq(Ids) /\ t \in Ids \cup {NoId}
    OBVIOUS
  <2> QED BY <2>1
<1>2. /\ \A x \in Ids \ {e} : SameEntity(moved, store', x)
      /\ e \in store'.created /\ store'.archetype[e] = moved.archetype[e]
      /\ RowOf(store', e) = [RowOf(moved, e) EXCEPT !.link = t]
  <2> DEFINE linked == SetLinkOf(moved, e, t)
  <2>1. /\ \A x \in Ids \ {e} : SameEntity(moved, linked, x)
        /\ e \in linked.created /\ linked.archetype[e] = moved.archetype[e]
        /\ RowOf(linked, e) = [RowOf(moved, e) EXCEPT !.link = t]
    BY <1>8, <1>1, ValueOfEntity
  <2> HIDE DEF linked
  <2>2. store' = linked
    BY <1>7 DEF linked
  <2> QED BY <2>1, <2>2
<1>3. RowOf(moved, e) \in Row
  BY <1>8, RowOfEntity
<1>4. RowOf(store', e).link = t
  BY <1>2, <1>3 DEF Row
<1>5. HasLink(store', e)
  BY <1>8, <1>2 DEF HasLink, HasComponent, Created
<1>6. SameLinks(moved, store', {e})
  BY <1>2, SameEntitiesSameLinks
<1> QED BY <1>8, <1>4, <1>5, <1>6 DEF SameLinks, LinkOf, HasLink

\* AddLink(): the old target, if there is one, is removed from the index.
LEMMA AddLinkLinks ==
  ASSUME LinksInv, faults = {}, StoreInv', NEW e \in Ids, NEW t \in Ids, AddLink(e, t)
  PROVE  LinksInv'
<1> DEFINE L == Targets(store)
           M == Targets(store')
           s == LinkOf(store, e)
           J == RemoveComponentValue(Index, e, s)
<1>1. /\ TypeOK /\ store \in Storage /\ RowsExactOf(store) /\ e \in store.created
      /\ deleting.id = NoId /\ deleting' = deleting /\ NoId \notin Ids
      /\ LinksHaveTargets(store) /\ IndexExact(Index, L, NoId) /\ LinksCollected
      /\ deleting.collected = FALSE /\ deleting.links = {}
  BY Operating DEF LinksInv, AddLink, Ready, Idle
<1>2. SetIndex(IF HasLink(store, e) THEN AddComponentValue(J, e, t)
               ELSE AddComponentValue(Index, e, t))
  BY DEF AddLink, HasLink
<1>3. SameLinks(store, store', {e}) /\ HasLink(store', e) /\ LinkOf(store', e) = t
  BY LinkAssigned DEF LinksInv
<1>4. LinksHaveTargets(store')
  BY <1>1, <1>3, SameLinksHaveTargets
<1>5. M[e] = t /\ L[e] = s /\ \A x \in Ids \ {e} : M[x] = L[x]
  BY <1>3 DEF Targets, SameLinks
<1>6. Index \in IndexType /\ J \in IndexType
  BY <1>1, IndexOfStore, IndexTyped
<1>7. (HasLink(store, e) <=> s \in Ids) /\ (~HasLink(store, e) => s = NoId)
  BY <1>1, LinkTargets
<1> HIDE DEF L, M, s
<1>8. IndexExact(Index', M, NoId)
  <2>1. CASE HasLink(store, e)
    <3> DEFINE N == [x \in Ids |-> IF x = e THEN NoId ELSE L[x]]
    <3>1. N[e] = NoId /\ \A x \in Ids \ {e} : N[x] = L[x]
      OBVIOUS
    <3> HIDE DEF N
    <3>2. IndexExact(J, N, NoId)
      BY <1>1, <1>5, <1>6, <1>7, <2>1, <3>1, ValueRemoved
    <3> HIDE DEF J
    <3>3. \A x \in Ids \ {e} : M[x] = N[x]
      BY <1>5, <3>1
    <3>4. IndexExact(AddComponentValue(J, e, t), M, NoId)
      BY <1>1, <1>5, <1>6, <3>1, <3>2, <3>3, ValueAdded
    <3> QED BY <1>2, <2>1, <3>4, IndexNext
  <2>2. CASE ~HasLink(store, e)
    <3> HIDE DEF J
    <3>1. IndexExact(AddComponentValue(Index, e, t), M, NoId)
      BY <1>1, <1>5, <1>6, <1>7, <2>2, ValueAdded
    <3> QED BY <1>2, <2>2, <3>1, IndexNext
  <2> QED BY <2>1, <2>2
<1>9. LinksCollected'
  BY <1>1 DEF LinksCollected
<1> QED BY <1>1, <1>4, <1>8, <1>9 DEF LinksInv, M

\* RemoveLinkOf(): the entity has no link any more.
LEMMA LinkRemoved ==
  ASSUME StoreInv, faults = {}, NEW e \in store.created, RemoveLinkOf(e)
  PROVE  SameLinks(store, store', {e}) /\ ~HasLink(store', e)
<1>1. store.archetype[e] \ {"LinkComponent"} \in Archs
  BY Operating, RowOfEntity DEF Archs
<1>2. store' = MoveEntityTo(store, e, store.archetype[e] \ {"LinkComponent"})
  BY DEF RemoveLinkOf
<1> QED BY <1>1, <1>2, Operating, MoveEntityToLinks

\* RemoveLinkOf(), called by the application and by DeleteEntity(): the entity has no
\* link any more, and the index none of it.
LEMMA RemoveLinkOfLinks ==
  ASSUME LinksInv, faults = {}, NEW e \in Ids, HasLink(store, e), RemoveLinkOf(e)
  PROVE  /\ LinksHaveTargets(store') /\ IndexExact(Index', Targets(store'), deleting.id)
         /\ \A t \in Ids : entityMap'[t] \subseteq entityMap[t] \ {e}
<1> DEFINE L == Targets(store)
           M == Targets(store')
           d == deleting.id
           s == LinkOf(store, e)
           J == RemoveComponentValue(Index, e, s)
<1>1. /\ TypeOK /\ store \in Storage /\ RowsExactOf(store) /\ e \in store.created
      /\ NoId \notin Ids /\ LinksHaveTargets(store) /\ IndexExact(Index, L, d)
      /\ s \in Ids /\ SetIndex(J)
  BY Operating DEF LinksInv, LinksHaveTargets, RemoveLinkOf, HasLink, HasComponent, Created
<1>2. SameLinks(store, store', {e}) /\ ~HasLink(store', e)
  BY <1>1, LinkRemoved DEF LinksInv
<1>3. LinksHaveTargets(store')
  BY <1>1, <1>2, SameLinksHaveTargets
<1>4. M[e] = NoId /\ L[e] = s /\ \A x \in Ids \ {e} : M[x] = L[x]
  BY <1>2 DEF Targets, SameLinks, LinkOf, HasLink
<1>5. Index \in IndexType
  BY <1>1, IndexOfStore
<1> HIDE DEF L, M, s, d
<1>6. IndexExact(J, M, d)
  <2>1. CASE e # d
    BY <1>1, <1>4, <1>5, <2>1, ValueRemoved
  <2>2. CASE e = d
    <3>1. J = Index
      BY <1>1, <2>2 DEF IndexExact, RemoveComponentValue
    <3> QED BY <1>1, <1>4, <2>2, <3>1 DEF IndexExact
  <2> QED BY <2>1, <2>2
<1> HIDE DEF J
<1>7. IndexExact(Index', M, d)
  BY <1>1, <1>6, IndexNext
<1>8. ASSUME NEW t \in Ids PROVE entityMap'[t] \subseteq entityMap[t] \ {e}
  <2>1. entityMap'[t] = {x \in Ids \ {d} : M[x] = t}
    BY <1>7 DEF IndexExact, Index
  <2>2. entityMap[t] = {x \in Ids \ {d} : L[x] = t}
    BY <1>1 DEF IndexExact, Index
  <2> QED BY <1>1, <1>4, <2>1, <2>2
<1> QED BY <1>3, <1>7, <1>8 DEF M, d

LEMMA RemoveLinkLinks ==
  ASSUME LinksInv, faults = {}, StoreInv', NEW e \in Ids, RemoveLink(e)
  PROVE  LinksInv'
<1>1. HasLink(store, e) /\ RemoveLinkOf(e) /\ deleting' = deleting /\ deleting = Idle
  BY DEF RemoveLink, HasLink, Ready
<1>2. LinksCollected'
  BY <1>1 DEF LinksCollected, Idle
<1> QED BY <1>1, <1>2, RemoveLinkOfLinks DEF LinksInv

\* DeleteEntity() begins: the entity leaves the index.
LEMMA DeleteEntityLinks ==
  ASSUME LinksInv, faults = {}, StoreInv', NEW e \in Ids, DeleteEntity(e)
  PROVE  LinksInv'
<1> DEFINE L == Targets(store)
           s == L[e]
<1>1. /\ TypeOK /\ NoId \notin Ids /\ deleting.id = NoId /\ store' = store
      /\ deleting'.id = e /\ deleting'.collected = FALSE /\ deleting'.links = {}
      /\ isLinked' = isLinked
      /\ LinksHaveTargets(store) /\ IndexExact(Index, L, NoId) /\ LinkOf(store, e) = s
  BY Operating DEF LinksInv, DeleteEntity, Ready, Idle, Targets
<1>2. IF "link" \in isOwner[e]
        THEN /\ entityMap' = [entityMap EXCEPT ![s] = @ \ {e}]
             /\ isOwner' = [isOwner EXCEPT ![e] = @ \ {"link"}]
        ELSE entityMap' = entityMap /\ isOwner' = isOwner
  BY <1>1 DEF DeleteEntity
<1>3. /\ entityMap \in [Ids -> SUBSET Ids] /\ isOwner \in [Ids -> SUBSET LinkTypes]
      /\ "link" \in isOwner[e] <=> s \in Ids
      /\ \A t \in Ids : entityMap[t] = {x \in Ids \ {NoId} : L[x] = t}
      /\ \A x \in Ids \ {NoId} : "link" \in isOwner[x] <=> L[x] \in Ids
      /\ \A t \in Ids : entityMap[t] # {} => "link" \in isLinked[t]
  BY <1>1 DEF TypeOK, IndexExact, Index
<1>4. ASSUME NEW t \in Ids PROVE entityMap'[t] = {x \in Ids \ {e} : L[x] = t}
  <2>1. entityMap'[t] = entityMap[t] \ {e}
    BY <1>2, <1>3
  <2> QED BY <1>1, <1>3, <2>1
<1>5. \A x \in Ids \ {e} : "link" \in isOwner'[x] <=> L[x] \in Ids
  BY <1>1, <1>2, <1>3
<1>6. \A t \in Ids : entityMap'[t] # {} => "link" \in isLinked'[t]
  <2>1. \A t \in Ids : entityMap'[t] \subseteq entityMap[t]
    BY <1>2, <1>3
  <2> QED BY <1>1, <1>3, <2>1
<1> HIDE DEF L
<1>7. IndexExact(Index', L, e)
  BY <1>4, <1>5, <1>6 DEF IndexExact, Index
<1>8. LinksCollected'
  BY <1>1 DEF LinksCollected
<1> QED BY <1>1, <1>7, <1>8 DEF LinksInv, L

LEMMA CollectLinksLinks ==
  ASSUME LinksInv, faults = {}, StoreInv', CollectLinks
  PROVE  LinksInv'
<1> DEFINE e == deleting.id
           linked == isLinked[e]
           links == IF "link" \in linked THEN entityMap[e] ELSE {}
           sources == IF "relation" \in linked THEN linkEntityMap[e] ELSE {}
<1>1. /\ e \in Ids
      /\ LinksHaveTargets(store) /\ IndexExact(Index, Targets(store), e)
      /\ deleting = [id |-> deleting.id, archetype |-> deleting.archetype,
                     index |-> deleting.index, collected |-> deleting.collected,
                     links |-> deleting.links, sources |-> deleting.sources]
  BY DeletingFields DEF CollectLinks, LinksInv
<1>2. /\ deleting' = [deleting EXCEPT !.collected = TRUE, !.links = links, !.sources = sources]
      /\ UNCHANGED <<store, linkVars>>
  BY DEF CollectLinks
<1>3. entityMap[e] \subseteq links
  BY <1>1 DEF IndexExact, Index
<1> HIDE DEF links, sources
<1>4. deleting'.id = e /\ deleting'.links = links /\ deleting'.collected = TRUE
  BY <1>1, <1>2
<1>5. LinksCollected'
  BY <1>2, <1>3, <1>4 DEF LinksCollected, linkVars
<1>6. IndexExact(Index', Targets(store'), deleting'.id)
  BY <1>1, <1>2, <1>4 DEF Index, linkVars
<1> QED BY <1>1, <1>2, <1>5, <1>6 DEF LinksInv

LEMMA DeleteLinkToEntityLinks ==
  ASSUME LinksInv, faults = {}, StoreInv', DeleteLinkToEntity
  PROVE  LinksInv'
<1> DEFINE d == deleting.id
<1>1. PICK o \in deleting.links :
        /\ deleting' = [deleting EXCEPT !.links = @ \ {o}]
        /\ IF HasLink(store, o) THEN RemoveLinkOf(o) ELSE UNCHANGED <<store, linkVars>>
  BY DEF DeleteLinkToEntity, HasLink
<1>2. /\ LinksHaveTargets(store) /\ IndexExact(Index, Targets(store), d) /\ LinksCollected
      /\ deleting \in [id : Ids \cup {NoId}, archetype : Archs, index : Nat,
                       collected : BOOLEAN, links : SUBSET Ids, sources : SUBSET Ids]
  BY Operating DEF LinksInv, TypeOK
<1>3. /\ deleting'.id = d /\ deleting'.collected = deleting.collected
      /\ deleting'.links = deleting.links \ {o} /\ o \in Ids
  BY <1>1, <1>2
<1>4. deleting.collected /\ d \in Ids /\ entityMap[d] \subseteq deleting.links
  <2>1. deleting.collected /\ entityMap[d] \subseteq deleting.links
    BY <1>2 DEF LinksCollected
  <2> QED BY <1>2, <2>1 DEF LinksInv, StoreInv, DeletingExists
<1> HIDE DEF d
<1>5. CASE HasLink(store, o)
  <2>1. /\ LinksHaveTargets(store') /\ IndexExact(Index', Targets(store'), d)
        /\ \A t \in Ids : entityMap'[t] \subseteq entityMap[t] \ {o}
    BY <1>1, <1>3, <1>5, RemoveLinkOfLinks DEF d
  <2>2. LinksCollected'
    BY <1>3, <1>4, <2>1 DEF LinksCollected
  <2> QED BY <1>3, <2>1, <2>2 DEF LinksInv
<1>6. CASE ~HasLink(store, o)
  <2>1. UNCHANGED <<store, linkVars>>
    BY <1>1, <1>6
  <2>2. o \notin entityMap[d]
    <3>1. LinkOf(store, o) = NoId /\ NoId \notin Ids
      BY <1>2, <1>3, <1>6, LinkTargets, ArchetypesAssumption
    <3>2. entityMap[d] = {x \in Ids \ {d} : Targets(store)[x] = d}
      BY <1>2, <1>4 DEF IndexExact, Index
    <3>3. Targets(store)[o] = NoId
      BY <1>3, <3>1 DEF Targets
    <3> QED BY <1>4, <3>1, <3>2, <3>3
  <2>3. LinksCollected'
    BY <1>3, <1>4, <2>1, <2>2 DEF LinksCollected, linkVars
  <2>4. IndexExact(Index', Targets(store'), deleting'.id)
    BY <1>2, <1>3, <2>1 DEF Index, linkVars
  <2> QED BY <1>2, <2>1, <2>3, <2>4 DEF LinksInv
<1> QED BY <1>5, <1>6

\* The operations on relations, that of a deletion included.
LEMMA RelationOperationsLinks ==
  ASSUME LinksInv, faults = {}, StoreInv',
         \/ \E e, t \in Ids : AddRelation(e, t) \/ RemoveRelation(e, t)
         \/ DeleteRelation \/ DeleteRelationToEntity
  PROVE  LinksInv'
<1> SUFFICES ASSUME faults' = {} PROVE LinksInv'
  BY DEF LinksInv
<1>1. TypeOK /\ StoreInv
  BY Operating DEF LinksInv
<1>2. /\ isOwner \in [Ids -> SUBSET LinkTypes] /\ isLinked \in [Ids -> SUBSET LinkTypes]
      /\ deleting \in [id : Ids \cup {NoId}, archetype : Archs, index : Nat,
                       collected : BOOLEAN, links : SUBSET Ids, sources : SUBSET Ids]
  BY <1>1 DEF TypeOK
<1>3. ASSUME NEW e \in Ids, NEW p \in positionMap[e], RemoveEntityRelation(e, p)
      PROVE  /\ store' = store
             /\ \A x \in Ids : "link" \in isOwner'[x] <=> "link" \in isOwner[x]
  <2>1. store' = store
    BY <1>1, <1>3, RemoveEntityRelationExact
  <2>2. isOwner' = [isOwner EXCEPT ![e] = @ \ {"relation"}] \/ isOwner' = isOwner
    BY <1>3 DEF RemoveEntityRelation
  <2>3. \A x \in Ids : "link" \in isOwner'[x] <=> "link" \in isOwner[x]
    BY <1>2, <2>2
  <2> QED BY <2>1, <2>3
<1>4. ASSUME NEW e \in Ids, NEW t, NEW p \in positionMap[e], RemoveRelationTo(e, t, p)
      PROVE  store' = store /\ SameLinkMarks
  <2>1. /\ store' = store
        /\ \A x \in Ids : "link" \in isOwner'[x] <=> "link" \in isOwner[x]
    BY <1>3, <1>4 DEF RemoveRelationTo
  <2>2. isLinked' = [isLinked EXCEPT ![t] = @ \ {"relation"}] \/ isLinked' = isLinked
    BY <1>4 DEF RemoveRelationTo
  <2>3. \A x \in Ids : "link" \in isLinked'[x] <=> "link" \in isLinked[x]
    BY <1>2, <2>2
  <2> QED BY <2>1, <2>3 DEF SameLinkMarks
<1>5. /\ store' = store /\ SameLinkMarks /\ entityMap' = entityMap
      /\ deleting'.id = deleting.id /\ deleting'.collected = deleting.collected
      /\ deleting'.links = deleting.links
  <2>1. ASSUME NEW e \in Ids, NEW t \in Ids, AddRelation(e, t)
        PROVE  store' = store /\ SameLinkMarks /\ entityMap' = entityMap /\ deleting' = deleting
    <3>1. /\ store' = store /\ entityMap' = entityMap /\ deleting' = deleting
          /\ isOwner' = [isOwner EXCEPT ![e] = @ \cup {"relation"}]
          /\ \/ isLinked' = [isLinked EXCEPT ![t] = @ \cup {"relation"}]
             \/ isLinked' = isLinked
      BY <2>1 DEF AddRelation
    <3> QED BY <1>2, <3>1 DEF SameLinkMarks
  <2>2. ASSUME NEW e \in Ids, NEW t \in Ids, RemoveRelation(e, t)
        PROVE  store' = store /\ SameLinkMarks /\ entityMap' = entityMap /\ deleting' = deleting
    <3>1. PICK p \in positionMap[e] : RemoveRelationTo(e, t, p)
      BY <2>2 DEF RemoveRelation, FindRelationPosition
    <3> QED BY <1>4, <2>2, <3>1 DEF RemoveRelation
  <2>3. CASE DeleteRelation
    <3>1. PICK p \in positionMap[deleting.id] : RemoveEntityRelation(deleting.id, p)
      BY <2>3 DEF DeleteRelation
    <3>2. deleting.id \in Ids
      BY <1>2, <2>3 DEF DeleteRelation
    <3>3. /\ store' = store
          /\ \A x \in Ids : "link" \in isOwner'[x] <=> "link" \in isOwner[x]
      BY <1>3, <3>1, <3>2
    <3> QED BY <2>3, <3>3 DEF DeleteRelation, SameLinkMarks
  <2>4. CASE DeleteRelationToEntity
    <3>1. PICK o \in deleting.sources :
            /\ deleting' = [deleting EXCEPT !.sources = @ \ {o}]
            /\ \/ \E p \in FindRelationPosition(o, deleting.id) :
                    RemoveRelationTo(o, deleting.id, p)
               \/ UNCHANGED <<store, isOwner, isLinked, relationVars, faults>>
      BY <2>4 DEF DeleteRelationToEntity
    <3>2. o \in Ids /\ deleting'.id = deleting.id /\ deleting'.collected = deleting.collected
          /\ deleting'.links = deleting.links
      BY <1>2, <3>1
    <3>3. CASE \E p \in FindRelationPosition(o, deleting.id) : RemoveRelationTo(o, deleting.id, p)
      <4>1. PICK p \in positionMap[o] : RemoveRelationTo(o, deleting.id, p)
        BY <3>3 DEF FindRelationPosition
      <4> QED BY <1>4, <2>4, <3>2, <4>1 DEF DeleteRelationToEntity
    <3>4. CASE UNCHANGED <<store, isOwner, isLinked, relationVars, faults>>
      BY <2>4, <3>2, <3>4 DEF DeleteRelationToEntity, SameLinkMarks
    <3> QED BY <3>1, <3>3, <3>4
  <2> QED BY <2>1, <2>2, <2>3, <2>4
<1>6. SameLinks(store, store', {})
  BY <1>5 DEF SameLinks
<1> QED BY <1>5, <1>6, LinksKeptNext

\* DeleteEntity() ends: the other entities keep their links.
LEMMA FinishDeleteSameLinks ==
  ASSUME StoreInv, faults = {}, faults' = {}, FinishDelete
  PROVE  SameLinks(store, store', {deleting.id}) /\ ~HasLink(store', deleting.id)
<1> DEFINE e == deleting.id
           left == LeaveParent(store, e)
<1>1. /\ e \in store.created /\ store'.created = store.created \ {e}
      /\ \A x \in Ids \ {e} : SameEntity(left, store', x)
  BY FinishDeleteEntities
<1>2. TypeOK /\ store \in Storage /\ RowsExactOf(store) /\ e \in Ids
  BY <1>1, Operating, RowOfEntity
<1> HIDE DEF e
<1>3. SameLinks(store, left, {})
  BY <1>2, LeaveParentLinks
<1> HIDE DEF left
<1>4. SameLinks(left, store', {e})
  BY <1>1, SameEntitiesSameLinks
<1>5. ~HasLink(store', e)
  BY <1>1 DEF HasLink, HasComponent, Created
<1>6. SameLinks(store, store', {e})
  BY <1>3, <1>4 DEF SameLinks
<1> QED BY <1>5, <1>6 DEF e

\* DeleteEntity() ends: nobody links to the entity any more.
LEMMA FinishDeleteLinks ==
  ASSUME LinksInv, faults = {}, StoreInv', FinishDelete
  PROVE  LinksInv'
<1> DEFINE e == deleting.id
           L == Targets(store)
           M == Targets(store')
<1>1. /\ StoreInv /\ TypeOK /\ NoId \notin Ids /\ e \in Ids
      /\ LinksHaveTargets(store) /\ IndexExact(Index, L, e) /\ LinksCollected
  <2>1. StoreInv /\ deleting.id # NoId
    BY DEF FinishDelete, LinksInv, StoreInv, DeletingExists
  <2> QED BY <2>1, Operating, DeletingFields DEF LinksInv
<1>2. /\ deleting.collected /\ deleting.links = {}
      /\ isOwner' = [isOwner EXCEPT ![e] = {}] /\ isLinked' = [isLinked EXCEPT ![e] = {}]
      /\ entityMap' = entityMap /\ deleting' = Idle
  BY DEF FinishDelete
<1> SUFFICES ASSUME faults' = {} PROVE LinksInv'
  BY DEF LinksInv
<1>3. SameLinks(store, store', {e}) /\ ~HasLink(store', e)
  BY <1>1, FinishDeleteSameLinks
<1> HIDE DEF e
<1>4. LinksHaveTargets(store')
  BY <1>1, <1>3, SameLinksHaveTargets
<1>5. M[e] = NoId /\ \A x \in Ids \ {e} : M[x] = L[x]
  BY <1>1, <1>3 DEF Targets, SameLinks, LinkOf, HasLink
<1>6. /\ entityMap[e] = {}
      /\ isOwner \in [Ids -> SUBSET LinkTypes] /\ isLinked \in [Ids -> SUBSET LinkTypes]
      /\ \A t \in Ids : entityMap[t] = {x \in Ids \ {e} : L[x] = t}
      /\ \A x \in Ids \ {e} : "link" \in isOwner[x] <=> L[x] \in Ids
      /\ \A t \in Ids : entityMap[t] # {} => "link" \in isLinked[t]
  BY <1>1, <1>2 DEF LinksCollected, TypeOK, IndexExact, Index, e
<1> HIDE DEF L, M
<1>7. /\ \A t \in Ids : entityMap'[t] = {x \in Ids \ {NoId} : M[x] = t}
      /\ \A x \in Ids \ {NoId} : "link" \in isOwner'[x] <=> M[x] \in Ids
      /\ \A t \in Ids : entityMap'[t] # {} => "link" \in isLinked'[t]
  <2>1. ASSUME NEW t \in Ids PROVE entityMap'[t] = {x \in Ids \ {NoId} : M[x] = t}
    BY <1>1, <1>2, <1>5, <1>6
  <2>2. ASSUME NEW x \in Ids PROVE "link" \in isOwner'[x] <=> M[x] \in Ids
    BY <1>1, <1>2, <1>5, <1>6
  <2>3. ASSUME NEW t \in Ids, entityMap'[t] # {} PROVE "link" \in isLinked'[t]
    BY <1>1, <1>2, <1>6, <2>3
  <2> QED BY <2>1, <2>2, <2>3
<1>8. IndexExact(Index', M, NoId)
  BY <1>7 DEF IndexExact, Index
<1>9. deleting'.id = NoId /\ LinksCollected'
  BY <1>2 DEF Idle, LinksCollected
<1> QED BY <1>4, <1>8, <1>9 DEF LinksInv, M

LEMMA InitLinksInv == Init => LinksInv
<1> SUFFICES ASSUME Init PROVE LinksInv
  OBVIOUS
<1>1. /\ StoreInv /\ NoId \notin Ids /\ deleting = Idle
      /\ \A e \in Ids : ~HasLink(store, e) /\ LinkOf(store, e) = NoId
      /\ \A e \in Ids : entityMap[e] = {} /\ isOwner[e] = {}
  BY InitStoreInv, ArchetypesAssumption
  DEF Init, NoEntities, HasLink, LinkOf, HasComponent, Created
<1>2. LinksHaveTargets(store) /\ IndexExact(Index, Targets(store), deleting.id)
  BY <1>1 DEF LinksHaveTargets, IndexExact, Index, Targets
<1>3. LinksCollected
  BY <1>1 DEF LinksCollected, Idle
<1> QED BY <1>1, <1>2, <1>3 DEF LinksInv

LEMMA StepLinksInv == LinksInv /\ [Next]_vars => LinksInv'
<1> SUFFICES ASSUME LinksInv, [Next]_vars PROVE LinksInv'
  OBVIOUS
<1>1. StoreInv /\ StoreInv'
  BY StepStoreInv DEF LinksInv
<1>2. CASE faults = {} /\ Operation
  <2> USE <1>1, <1>2
  <2>1. ASSUME NEW e \in Ids,
               \/ CreateEntity(e)
               \/ \E type \in Others : AddComponent(e, type) \/ RemoveComponent(e, type)
               \/ \E c \in Ids : AddChild(e, c) \/ RemoveChild(e, c)
               \/ \E c \in Ids, i \in -1..Cardinality(Ids) - 1 : InsertChild(e, c, i)
               \/ \E ids \in ChildLists : LoadEntity(e, ids)
        PROVE  LinksInv'
    BY <2>1, OtherOperationsLinks
  <2>2. ASSUME NEW e \in Ids, RemoveLink(e) PROVE LinksInv'
    BY <2>2, RemoveLinkLinks
  <2>3. ASSUME NEW e \in Ids, NEW t \in Ids, AddLink(e, t) PROVE LinksInv'
    BY <2>3, AddLinkLinks
  <2>4. ASSUME NEW e \in Ids, DeleteEntity(e) PROVE LinksInv'
    BY <2>4, DeleteEntityLinks
  <2>5. CASE CollectLinks
    BY <2>5, CollectLinksLinks
  <2>6. CASE DeleteLinkToEntity
    BY <2>6, DeleteLinkToEntityLinks
  <2>7. CASE \/ \E e, t \in Ids : AddRelation(e, t) \/ RemoveRelation(e, t)
             \/ DeleteRelation \/ DeleteRelationToEntity
    BY <2>7, RelationOperationsLinks
  <2>8. CASE FinishDelete
    BY <2>8, FinishDeleteLinks
  <2> QED BY <2>1, <2>2, <2>3, <2>4, <2>5, <2>6, <2>7, <2>8 DEF Operation
<1>3. CASE UNCHANGED vars
  <2>1. UNCHANGED <<store, isOwner, isLinked, entityMap, deleting, faults>>
    BY <1>3 DEF vars, linkVars
  <2>2. Index' = Index
    BY <2>1 DEF Index
  <2>3. LinksCollected' <=> LinksCollected
    BY <2>1 DEF LinksCollected
  <2> QED BY <1>1, <2>1, <2>2, <2>3 DEF LinksInv
<1> QED BY <1>2, <1>3 DEF Next, Stopped

\* Whatever the application does with links, and between the steps in which
\* DeleteEntity() removes the links to an entity: the index has exactly the links of
\* the entities, the marks of the nodes agree with it, and every target of a link is
\* marked, so that DeleteEntity() looks for the links to it (EntityIndex,
\* EntityIndexUtils.AddComponentValue(), RemoveComponentValue(), NodeTree.cs).
THEOREM LinksCorrect == Spec => [](StoreInv /\ LinksExact)
<1>1. LinksInv => StoreInv /\ LinksExact
  BY LinksInvExact DEF LinksInv
<1> QED BY <1>1, InitLinksInv, StepLinksInv, PTL DEF Spec

-----------------------------------------------------------------------------
(* The relations                                                           *)

\* The inductive invariant of the relations: a relation has one row, and when the
\* links to a deleted entity are collected it has no relations any more, and all the
\* entities with a relation to it are still in the list.
RelationsOnce ==
  \A p, q \in 1..Len(relationRows) : relationRows[p] = relationRows[q] => p = q
DeletedUnrelated ==
  IF deleting.collected
    THEN /\ positionMap[deleting.id] = {}
         /\ linkEntityMap[deleting.id] \ {deleting.id} \subseteq deleting.sources
    ELSE deleting.sources = {}
RelationsInv ==
  /\ StoreInv /\ RelationsExact
  /\ faults = {} => RelationsOnce /\ DeletedUnrelated

\* The entity e has a relation to t.
Related(e, t) == FindRelationPosition(e, t) # {}

\* The parts of the invariant.
PositionsExact ==
  \A e \in Ids : positionMap[e] = {p \in 1..Len(relationRows) : relationRows[p].id = e}
LinkEntitiesExact ==
  \A t \in Ids : linkEntityMap[t] \ {deleting.id} = {e \in Ids \ {deleting.id} : Related(e, t)}
MarksExact ==
  /\ \A e \in Ids : "relation" \in isOwner[e] <=> positionMap[e] # {}
  /\ \A t \in Ids : linkEntityMap[t] # {} => "relation" \in isLinked[t]

LEMMA RelationsParts ==
  RelationsInv <=>
    /\ StoreInv
    /\ faults = {} =>
         PositionsExact /\ LinkEntitiesExact /\ MarksExact /\ RelationsOnce /\ DeletedUnrelated
BY DEF RelationsInv, RelationsExact, PositionsExact, LinkEntitiesExact, MarksExact, Related

LEMMA RelationsPartsNext ==
  RelationsInv' <=>
    /\ StoreInv'
    /\ faults' = {} =>
         /\ PositionsExact' /\ LinkEntitiesExact' /\ MarksExact'
         /\ RelationsOnce' /\ DeletedUnrelated'
BY DEF RelationsInv, RelationsExact, PositionsExact, LinkEntitiesExact, MarksExact, Related

\* The variables an operation on relations works with.
LEMMA RelationTypes ==
  ASSUME TypeOK
  PROVE  /\ relationRows \in Seq(RelationRow) /\ Len(relationRows) \in Nat
         /\ \A p \in 1..Len(relationRows) : relationRows[p] \in RelationRow
         /\ positionMap \in [Ids -> SUBSET (Nat \ {0})] /\ linkEntityMap \in [Ids -> SUBSET Ids]
         /\ isOwner \in [Ids -> SUBSET LinkTypes] /\ isLinked \in [Ids -> SUBSET LinkTypes]
         /\ NoId \notin Ids
BY ArchetypesAssumption DEF TypeOK

\* The marks for relations are the same.
SameMarks ==
  \A x \in Ids : /\ "relation" \in isOwner'[x] <=> "relation" \in isOwner[x]
                 /\ "relation" \in isLinked'[x] <=> "relation" \in isLinked[x]

\* An operation that leaves the relations and their marks alone.
LEMMA RelationsKept ==
  ASSUME RelationsInv, faults = {}, StoreInv', UNCHANGED relationVars, SameMarks,
         deleting' = deleting
  PROVE  RelationsInv'
<1>1. PositionsExact /\ LinkEntitiesExact /\ MarksExact /\ RelationsOnce /\ DeletedUnrelated
  BY RelationsParts
<1>2. PositionsExact' /\ RelationsOnce'
  BY <1>1 DEF PositionsExact, RelationsOnce, relationVars
<1>3. LinkEntitiesExact'
  BY <1>1 DEF LinkEntitiesExact, Related, FindRelationPosition, relationVars
<1>4. MarksExact'
  BY <1>1 DEF MarksExact, SameMarks, relationVars
<1>5. DeletedUnrelated'
  BY <1>1 DEF DeletedUnrelated, relationVars
<1> QED BY <1>2, <1>3, <1>4, <1>5, RelationsPartsNext

\* The index of links marks links only.
LEMMA IndexMarksLinks ==
  ASSUME NEW I \in IndexType, NEW e \in Ids, NEW t, NEW x \in Ids
  PROVE  /\ "relation" \in RemoveComponentValue(I, e, t).owner[x] <=> "relation" \in I.owner[x]
         /\ "relation" \in RemoveComponentValue(I, e, t).linked[x] <=> "relation" \in I.linked[x]
         /\ "relation" \in AddComponentValue(I, e, t).owner[x] <=> "relation" \in I.owner[x]
         /\ "relation" \in AddComponentValue(I, e, t).linked[x] <=> "relation" \in I.linked[x]
<1>1. /\ I = [map |-> I.map, owner |-> I.owner, linked |-> I.linked]
      /\ I.owner \in [Ids -> SUBSET LinkTypes] /\ I.linked \in [Ids -> SUBSET LinkTypes]
  BY DEF IndexType
<1>2. CASE e \in I.map[t]
  <2> DEFINE map == [I.map EXCEPT ![t] = @ \ {e}]
             owner == [I.owner EXCEPT ![e] = @ \ {"link"}]
             linked == [I.linked EXCEPT ![t] = IF I.map[t] = {e} THEN @ \ {"link"} ELSE @]
  <2>1. /\ "relation" \in owner[x] <=> "relation" \in I.owner[x]
        /\ "relation" \in linked[x] <=> "relation" \in I.linked[x]
    BY <1>1
  <2>2. RemoveComponentValue(I, e, t) = [I EXCEPT !.map = map, !.owner = owner, !.linked = linked]
    BY <1>2 DEF RemoveComponentValue
  <2> HIDE DEF map, owner, linked
  <2>3. /\ RemoveComponentValue(I, e, t).owner = owner
        /\ RemoveComponentValue(I, e, t).linked = linked
    BY <1>1, <2>2
  <2>4. AddComponentValue(I, e, t) = I
    BY <1>2 DEF AddComponentValue
  <2> QED BY <2>1, <2>3, <2>4
<1>3. CASE e \notin I.map[t]
  <2> DEFINE map == [I.map EXCEPT ![t] = @ \cup {e}]
             owner == [I.owner EXCEPT ![e] = @ \cup {"link"}]
             linked == [I.linked EXCEPT ![t] = IF I.map[t] = {} THEN @ \cup {"link"} ELSE @]
  <2>1. /\ "relation" \in owner[x] <=> "relation" \in I.owner[x]
        /\ "relation" \in linked[x] <=> "relation" \in I.linked[x]
    BY <1>1
  <2>2. AddComponentValue(I, e, t) = [I EXCEPT !.map = map, !.owner = owner, !.linked = linked]
    BY <1>3 DEF AddComponentValue
  <2> HIDE DEF map, owner, linked
  <2>3. /\ AddComponentValue(I, e, t).owner = owner
        /\ AddComponentValue(I, e, t).linked = linked
    BY <1>1, <2>2
  <2>4. RemoveComponentValue(I, e, t) = I
    BY <1>3 DEF RemoveComponentValue
  <2> QED BY <2>1, <2>3, <2>4
<1> QED BY <1>2, <1>3

\* An operation on links that writes the index leaves the marks for relations alone.
LEMMA SetIndexMarks ==
  ASSUME TypeOK, NEW e \in Ids, NEW s, NEW t \in Ids,
         \/ SetIndex(RemoveComponentValue(Index, e, s))
         \/ SetIndex(AddComponentValue(Index, e, t))
         \/ SetIndex(AddComponentValue(RemoveComponentValue(Index, e, s), e, t))
  PROVE  SameMarks
<1> DEFINE without == RemoveComponentValue(Index, e, s)
<1>1. Index \in IndexType /\ Index.owner = isOwner /\ Index.linked = isLinked
  BY IndexOfStore DEF Index
<1>2. without \in IndexType
  BY <1>1, IndexTyped
<1>3. \A x \in Ids : /\ "relation" \in without.owner[x] <=> "relation" \in isOwner[x]
                     /\ "relation" \in without.linked[x] <=> "relation" \in isLinked[x]
  BY <1>1, IndexMarksLinks
<1>4. CASE SetIndex(without)
  BY <1>3, <1>4 DEF SetIndex, SameMarks
<1>5. CASE SetIndex(AddComponentValue(Index, e, t))
  BY <1>1, <1>5, IndexMarksLinks DEF SetIndex, SameMarks
<1>6. CASE SetIndex(AddComponentValue(without, e, t))
  <2> HIDE DEF without
  <2> QED BY <1>2, <1>3, <1>6, IndexMarksLinks DEF SetIndex, SameMarks
<1> QED BY <1>4, <1>5, <1>6

\* AddRelation() appends a relation that was not there.
LEMMA AddRelationExact ==
  ASSUME RelationsInv, faults = {}, StoreInv', NEW e \in Ids, NEW t \in Ids, AddRelation(e, t)
  PROVE  RelationsInv'
<1> DEFINE n == Len(relationRows)
           row == [id |-> e, target |-> t]
<1>1. PositionsExact /\ LinkEntitiesExact /\ MarksExact /\ RelationsOnce /\ StoreInv
  BY RelationsParts
<1>2. /\ deleting = Idle /\ deleting' = deleting /\ ~Related(e, t)
      /\ relationRows' = Append(relationRows, row)
      /\ positionMap' = [positionMap EXCEPT ![e] = @ \cup {n + 1}]
      /\ linkEntityMap' = [linkEntityMap EXCEPT ![t] = @ \cup {e}]
      /\ isOwner' = [isOwner EXCEPT ![e] = @ \cup {"relation"}]
      /\ isLinked' = IF linkEntityMap[t] = {}
                       THEN [isLinked EXCEPT ![t] = @ \cup {"relation"}] ELSE isLinked
  BY DEF AddRelation, Ready, Related
<1>3. /\ relationRows \in Seq(RelationRow) /\ n \in Nat
      /\ \A p \in 1..n : relationRows[p] \in RelationRow
      /\ positionMap \in [Ids -> SUBSET (Nat \ {0})] /\ linkEntityMap \in [Ids -> SUBSET Ids]
      /\ isOwner \in [Ids -> SUBSET LinkTypes] /\ isLinked \in [Ids -> SUBSET LinkTypes]
      /\ NoId \notin Ids
  BY <1>1, Operating, RelationTypes
<1>4. /\ Len(relationRows') = n + 1 /\ relationRows'[n + 1] = row
      /\ \A p \in 1..n : relationRows'[p] = relationRows[p]
  <2>1. row \in RelationRow
    BY DEF RelationRow
  <2> QED BY <1>2, <1>3, <2>1, AppendProperties
<1> HIDE DEF n
<1>5. \A x \in Ids : positionMap[x] = {p \in 1..n : relationRows[p].id = x}
  BY <1>1 DEF PositionsExact, n
<1>6. PositionsExact'
  <2> SUFFICES ASSUME NEW x \in Ids
               PROVE  positionMap'[x] = {p \in 1..n + 1 : relationRows'[p].id = x}
    BY <1>4 DEF PositionsExact
  <2>1. 1..n + 1 = 1..n \cup {n + 1}
    BY <1>3
  <2>2. positionMap'[x] = IF x = e THEN positionMap[x] \cup {n + 1} ELSE positionMap[x]
    BY <1>2, <1>3
  <2> QED BY <1>4, <1>5, <2>1, <2>2
<1>7. ASSUME NEW x \in Ids, NEW s PROVE Related(x, s)' <=> Related(x, s) \/ (x = e /\ s = t)
  <2>1. positionMap[x] \subseteq 1..n /\ n + 1 \notin 1..n
    BY <1>3, <1>5
  <2>2. \A p \in positionMap[x] : relationRows'[p].target = relationRows[p].target
    BY <1>4, <2>1
  <2>3. CASE x = e
    <3>1. positionMap'[x] = positionMap[x] \cup {n + 1}
      BY <1>2, <1>3, <2>3
    <3>2. relationRows'[n + 1].target = t
      BY <1>4
    <3>3. Related(x, s)' <=> \E p \in positionMap'[x] : relationRows'[p].target = s
      BY DEF Related, FindRelationPosition
    <3>4. Related(x, s) <=> \E p \in positionMap[x] : relationRows[p].target = s
      BY DEF Related, FindRelationPosition
    <3> QED BY <2>2, <2>3, <3>1, <3>2, <3>3, <3>4
  <2>4. CASE x # e
    <3>1. positionMap'[x] = positionMap[x]
      BY <1>2, <1>3, <2>4
    <3> QED BY <2>2, <2>4, <3>1 DEF Related, FindRelationPosition
  <2> QED BY <2>3, <2>4
<1>8. LinkEntitiesExact'
  <2>1. deleting.id = NoId
    BY <1>2 DEF Idle
  <2> SUFFICES ASSUME NEW s \in Ids
               PROVE  linkEntityMap'[s] \ {NoId} = {x \in Ids \ {NoId} : Related(x, s)'}
    BY <1>2, <2>1 DEF LinkEntitiesExact
  <2>2. linkEntityMap[s] \ {NoId} = {x \in Ids \ {NoId} : Related(x, s)}
    BY <1>1, <2>1 DEF LinkEntitiesExact
  <2>3. linkEntityMap'[s] = IF s = t THEN linkEntityMap[s] \cup {e} ELSE linkEntityMap[s]
    BY <1>2, <1>3
  <2> QED BY <1>3, <1>7, <2>2, <2>3
<1>9. MarksExact'
  <2>1. ASSUME NEW x \in Ids PROVE "relation" \in isOwner'[x] <=> positionMap'[x] # {}
    BY <1>1, <1>2, <1>3 DEF MarksExact
  <2>2. ASSUME NEW s \in Ids, linkEntityMap'[s] # {} PROVE "relation" \in isLinked'[s]
    BY <1>1, <1>2, <1>3, <2>2 DEF MarksExact
  <2> QED BY <2>1, <2>2 DEF MarksExact
<1>10. RelationsOnce'
  <2>1. ASSUME NEW p \in 1..n PROVE relationRows[p] # row
    <3>1. CASE relationRows[p] = row
      <4>1. p \in positionMap[e] /\ relationRows[p].target = t
        BY <1>5, <3>1
      <4> QED BY <1>2, <4>1 DEF Related, FindRelationPosition
    <3> QED BY <3>1
  <2>2. \A p, q \in 1..n : relationRows[p] = relationRows[q] => p = q
    BY <1>1 DEF RelationsOnce, n
  <2>3. ASSUME NEW p \in 1..n + 1, NEW q \in 1..n + 1, relationRows'[p] = relationRows'[q]
        PROVE  p = q
    <3>1. (p \in 1..n \/ p = n + 1) /\ (q \in 1..n \/ q = n + 1)
      BY <1>3
    <3> QED BY <1>4, <2>1, <2>2, <2>3, <3>1
  <2> QED BY <1>4, <2>3 DEF RelationsOnce
<1>11. DeletedUnrelated'
  BY <1>2 DEF DeletedUnrelated, Idle
<1> QED BY <1>6, <1>8, <1>9, <1>10, <1>11, RelationsPartsNext

\* RemoveEntityRelation() fills the row with the last one, and keeps the positions exact.
LEMMA RelationRemoved ==
  ASSUME TypeOK, PositionsExact, NEW e \in Ids, NEW p \in positionMap[e],
         RemoveEntityRelation(e, p)
  PROVE  LET last == Len(relationRows)
         IN /\ last \in Nat /\ p \in 1..last /\ relationRows[p].id = e
            /\ Len(relationRows') = last - 1
            /\ \A j \in 1..last - 1 : relationRows'[j] = relationRows[IF j = p THEN last ELSE j]
            /\ PositionsExact'
            /\ \A x \in Ids : x # e => isOwner'[x] = isOwner[x]
            /\ "relation" \in isOwner'[e] <=> "relation" \in isOwner[e] /\ positionMap'[e] # {}
<1> DEFINE last == Len(relationRows)
           lastId == relationRows[last].id
           moved == [positionMap EXCEPT ![lastId] = (@ \ {last}) \cup {p}]
           positions == IF lastId = e THEN positionMap[e] \ {last} ELSE moved[e] \ {p}
           rest == [j \in 1..last - 1 |-> relationRows[IF j = p THEN last ELSE j]]
<1>1. /\ relationRows' = rest
      /\ positionMap' = [moved EXCEPT ![e] = positions]
      /\ isOwner' = IF positions = {} THEN [isOwner EXCEPT ![e] = @ \ {"relation"}] ELSE isOwner
  BY DEF RemoveEntityRelation
<1>2. /\ last \in Nat /\ \A j \in 1..last : relationRows[j] \in RelationRow
      /\ positionMap \in [Ids -> SUBSET (Nat \ {0})] /\ isOwner \in [Ids -> SUBSET LinkTypes]
      /\ relationRows' \in Seq(RelationRow) \/ relationRows' = rest
  BY <1>1, RelationTypes
<1>3. \A x \in Ids : positionMap[x] = {j \in 1..last : relationRows[j].id = x}
  BY DEF PositionsExact
<1>4. p \in 1..last /\ relationRows[p].id = e
  BY <1>3
<1>5. last - 1 \in Nat /\ last \in 1..last /\ lastId \in Ids
  <2>1. last \in 1..last /\ last - 1 \in Nat
    BY <1>2, <1>4
  <2> QED BY <1>2, <2>1 DEF RelationRow
<1>6. /\ Len(relationRows') = last - 1
      /\ \A j \in 1..last - 1 : relationRows'[j] = relationRows[IF j = p THEN last ELSE j]
  <2>1. DOMAIN rest = 1..last - 1
    OBVIOUS
  <2>2. \A j \in 1..last - 1 : rest[j] \in RelationRow
    <3> TAKE j \in 1..last - 1
    <3>1. j \in 1..last
      BY <1>2
    <3> QED BY <1>2, <1>5, <3>1
  <2>3. rest \in [1..last - 1 -> RelationRow]
    BY <2>2
  <2>4. \A j \in 1..last - 1 : rest[j] = relationRows[IF j = p THEN last ELSE j]
    OBVIOUS
  <2> HIDE DEF rest, last
  <2>5. Len(rest) = last - 1
    BY <1>5, <2>3
  <2> QED BY <1>1, <2>4, <2>5
<1>7. 1..last = 1..last - 1 \cup {last} /\ last \notin 1..last - 1
  BY <1>2, <1>4
<1> HIDE DEF rest, last
<1>8. ASSUME NEW x \in Ids
      PROVE  positionMap'[x] = {j \in 1..last - 1 : relationRows'[j].id = x}
  <2> DEFINE P == {j \in 1..last - 1 : relationRows'[j].id = x}
  <2>1. CASE lastId = e
    <3>1. P = positionMap[x] \ {last}
      <4>1. \A j \in 1..last - 1 : relationRows'[j].id = relationRows[j].id
        BY <1>4, <1>6, <2>1
      <4> QED BY <1>3, <1>7, <4>1
    <3>2. positionMap'[e] = positionMap[e] \ {last}
      BY <1>1, <1>2, <2>1
    <3>3. x # e => positionMap'[x] = positionMap[x] /\ last \notin positionMap[x]
      BY <1>1, <1>2, <1>3, <2>1
    <3> QED BY <3>1, <3>2, <3>3
  <2>2. CASE lastId # e
    <3>1. p # last /\ p \in 1..last - 1 /\ relationRows'[p].id = lastId
      BY <1>4, <1>6, <1>7, <2>2
    <3>2. \A j \in 1..last - 1 : j # p => relationRows'[j].id = relationRows[j].id
      BY <1>6
    <3>3. CASE x = lastId
      <4>1. positionMap'[x] = (positionMap[x] \ {last}) \cup {p}
        BY <1>1, <1>2, <1>5, <2>2, <3>3
      <4> QED BY <1>3, <1>7, <3>1, <3>2, <3>3, <4>1
    <3>4. CASE x = e
      <4>1. positionMap'[x] = positionMap[x] \ {p}
        BY <1>1, <1>2, <1>5, <2>2, <3>4
      <4>2. last \notin positionMap[x]
        BY <1>3, <2>2, <3>4
      <4> QED BY <1>3, <1>7, <2>2, <3>1, <3>2, <3>4, <4>1, <4>2
    <3>5. CASE x # lastId /\ x # e
      <4>1. positionMap'[x] = positionMap[x]
        BY <1>1, <1>2, <1>5, <3>5
      <4>2. last \notin positionMap[x] /\ p \notin positionMap[x]
        BY <1>3, <1>4, <3>5
      <4> QED BY <1>3, <1>7, <3>1, <3>2, <3>5, <4>1, <4>2
    <3> QED BY <3>3, <3>4, <3>5
  <2> QED BY <2>1, <2>2
<1>9. PositionsExact'
  BY <1>6, <1>8 DEF PositionsExact
<1>10. positionMap'[e] = positions
  <2>1. moved \in [Ids -> SUBSET (Nat \ {0})]
    <3>1. p \in Nat \ {0}
      BY <1>2, <1>4
    <3> QED BY <1>2, <3>1
  <2> HIDE DEF moved, positions
  <2> QED BY <1>1, <2>1
<1>11. /\ \A x \in Ids : x # e => isOwner'[x] = isOwner[x]
       /\ "relation" \in isOwner'[e] <=> "relation" \in isOwner[e] /\ positionMap'[e] # {}
  <2> HIDE DEF moved, positions
  <2>1. CASE positions = {}
    BY <1>1, <1>2, <1>10, <2>1
  <2>2. CASE positions # {}
    BY <1>1, <1>2, <1>10, <2>2
  <2> QED BY <2>1, <2>2
<1> QED BY <1>2, <1>4, <1>6, <1>9, <1>11 DEF last

\* The relations are the same as before, but for the one that is removed.
LEMMA RelationsLeft ==
  ASSUME TypeOK, PositionsExact, RelationsOnce, NEW e \in Ids, NEW p \in positionMap[e],
         RemoveEntityRelation(e, p)
  PROVE  /\ RelationsOnce'
         /\ relationRows[p].target \in Ids
         /\ \A x \in Ids : \A t \in Ids :
              Related(x, t)' <=> Related(x, t) /\ ~(x = e /\ t = relationRows[p].target)
<1> DEFINE last == Len(relationRows)
           old(j) == IF j = p THEN last ELSE j
<1>1. /\ last \in Nat /\ p \in 1..last /\ relationRows[p].id = e
      /\ Len(relationRows') = last - 1
      /\ \A j \in 1..last - 1 : relationRows'[j] = relationRows[old(j)]
      /\ PositionsExact'
  BY RelationRemoved
<1>2. /\ \A j \in 1..last : relationRows[j] \in RelationRow
      /\ \A i, j \in 1..last : relationRows[i] = relationRows[j] => i = j
      /\ \A x \in Ids : positionMap[x] = {j \in 1..last : relationRows[j].id = x}
      /\ \A x \in Ids : positionMap'[x] = {j \in 1..last - 1 : relationRows'[j].id = x}
  BY <1>1, RelationTypes DEF RelationsOnce, PositionsExact
<1> HIDE DEF last
<1>3. /\ \A j \in 1..last - 1 : old(j) \in 1..last \ {p}
      /\ \A i, j \in 1..last - 1 : old(i) = old(j) => i = j
      /\ \A k \in 1..last \ {p} : \E j \in 1..last - 1 : old(j) = k
  <2>1. ASSUME NEW k \in 1..last \ {p} PROVE \E j \in 1..last - 1 : old(j) = k
    <3>1. CASE k = last
      <4>1. p \in 1..last - 1 /\ old(p) = k
        BY <1>1, <3>1
      <4> QED BY <4>1
    <3>2. CASE k # last
      <4>1. k \in 1..last - 1 /\ old(k) = k
        BY <1>1, <3>2
      <4> QED BY <4>1
    <3> QED BY <3>1, <3>2
  <2> QED BY <1>1, <2>1
<1> HIDE DEF old
<1>4. RelationsOnce'
  <2>1. ASSUME NEW i \in 1..last - 1, NEW j \in 1..last - 1, relationRows'[i] = relationRows'[j]
        PROVE  i = j
    BY <1>1, <1>2, <1>3, <2>1
  <2> QED BY <1>1, <2>1 DEF RelationsOnce
<1>5. relationRows[p].target \in Ids
  BY <1>1, <1>2 DEF RelationRow
<1>6. ASSUME NEW x \in Ids, NEW t \in Ids
      PROVE  Related(x, t)' <=> Related(x, t) /\ ~(x = e /\ t = relationRows[p].target)
  <2>1. Related(x, t) <=>
          \E k \in 1..last : relationRows[k].id = x /\ relationRows[k].target = t
    BY <1>2 DEF Related, FindRelationPosition
  <2>2. Related(x, t)' <=>
          \E j \in 1..last - 1 : relationRows'[j].id = x /\ relationRows'[j].target = t
    BY <1>2 DEF Related, FindRelationPosition
  <2>3. Related(x, t)' <=>
          \E k \in 1..last \ {p} : relationRows[k].id = x /\ relationRows[k].target = t
    <3>1. ASSUME Related(x, t)'
          PROVE  \E k \in 1..last \ {p} : relationRows[k].id = x /\ relationRows[k].target = t
      BY <1>1, <1>3, <2>2, <3>1
    <3>2. ASSUME NEW k \in 1..last \ {p}, relationRows[k].id = x, relationRows[k].target = t
          PROVE  Related(x, t)'
      <4>1. PICK j \in 1..last - 1 : old(j) = k
        BY <1>3
      <4>2. relationRows'[j] = relationRows[k]
        BY <1>1, <4>1
      <4> QED BY <2>2, <3>2, <4>2
    <3> QED BY <3>1, <3>2
  <2>4. ASSUME NEW k \in 1..last, relationRows[k].id = e,
               relationRows[k].target = relationRows[p].target
        PROVE  k = p
    <3>1. relationRows[k] = relationRows[p]
      BY <1>1, <1>2, <2>4 DEF RelationRow
    <3> QED BY <1>1, <1>2, <3>1
  <2> QED BY <1>1, <2>1, <2>3, <2>4
<1> QED BY <1>4, <1>5, <1>6

\* The positions of other entities change, but not whether there are any.
LEMMA RelationOfOthers ==
  ASSUME TypeOK, PositionsExact, NEW e \in Ids, NEW p \in positionMap[e],
         RemoveEntityRelation(e, p), NEW x \in Ids, x # e
  PROVE  positionMap'[x] # {} <=> positionMap[x] # {}
<1> DEFINE last == Len(relationRows)
<1>1. /\ last \in Nat /\ p \in 1..last /\ relationRows[p].id = e
      /\ Len(relationRows') = last - 1
      /\ \A j \in 1..last - 1 : relationRows'[j] = relationRows[IF j = p THEN last ELSE j]
      /\ PositionsExact'
  BY RelationRemoved
<1>2. /\ positionMap[x] = {j \in 1..last : relationRows[j].id = x}
      /\ positionMap'[x] = {j \in 1..last - 1 : relationRows'[j].id = x}
  BY <1>1 DEF PositionsExact
<1> HIDE DEF last
<1>3. ASSUME NEW j \in positionMap[x] PROVE positionMap'[x] # {}
  <2>1. j \in 1..last /\ relationRows[j].id = x /\ j # p
    BY <1>1, <1>2, <1>3
  <2>2. CASE j = last
    <3>1. p \in 1..last - 1 /\ relationRows'[p].id = x
      BY <1>1, <2>1, <2>2
    <3> QED BY <1>2, <3>1
  <2>3. CASE j # last
    <3>1. j \in 1..last - 1 /\ relationRows'[j].id = x
      BY <1>1, <2>1, <2>3
    <3> QED BY <1>2, <3>1
  <2> QED BY <2>2, <2>3
<1>4. ASSUME NEW j \in positionMap'[x] PROVE positionMap[x] # {}
  <2>1. PICK k \in 1..last : relationRows[k].id = x
    BY <1>1, <1>2, <1>4
  <2> QED BY <1>2, <2>1
<1> QED BY <1>3, <1>4

\* RemoveRelationTo() removes one relation, and the entity from the map of its target.
LEMMA RelationToRemoved ==
  ASSUME RelationsInv, faults = {}, NEW e \in Ids, NEW t \in Ids,
         NEW p \in FindRelationPosition(e, t), RemoveRelationTo(e, t, p)
  PROVE  /\ PositionsExact' /\ RelationsOnce' /\ MarksExact'
         /\ linkEntityMap' = [linkEntityMap EXCEPT ![t] = @ \ {e}]
         /\ \A x \in Ids : \A s \in Ids : Related(x, s)' <=> Related(x, s) /\ ~(x = e /\ s = t)
         /\ \A x \in Ids : positionMap[x] = {} => positionMap'[x] = {}
<1>1. PositionsExact /\ MarksExact /\ RelationsOnce /\ StoreInv /\ TypeOK
  BY RelationsParts, Operating
<1>2. p \in positionMap[e] /\ relationRows[p].target = t /\ RemoveEntityRelation(e, p)
  BY DEF FindRelationPosition, RemoveRelationTo
<1>3. /\ linkEntityMap' = [linkEntityMap EXCEPT ![t] = @ \ {e}]
      /\ isLinked' = IF linkEntityMap[t] = {e}
                       THEN [isLinked EXCEPT ![t] = @ \ {"relation"}] ELSE isLinked
  BY DEF RemoveRelationTo
<1>4. /\ PositionsExact' /\ RelationsOnce'
      /\ \A x \in Ids : x # e => isOwner'[x] = isOwner[x]
      /\ "relation" \in isOwner'[e] <=> "relation" \in isOwner[e] /\ positionMap'[e] # {}
      /\ \A x \in Ids : \A s \in Ids : Related(x, s)' <=> Related(x, s) /\ ~(x = e /\ s = t)
  BY <1>1, <1>2, RelationRemoved, RelationsLeft
<1>5. ASSUME NEW x \in Ids PROVE "relation" \in isOwner'[x] <=> positionMap'[x] # {}
  <2>1. CASE x = e
    BY <1>1, <1>2, <1>4, <2>1 DEF MarksExact
  <2>2. CASE x # e
    <3>1. positionMap'[x] # {} <=> positionMap[x] # {}
      BY <1>1, <1>2, <2>2, RelationOfOthers
    <3> QED BY <1>1, <1>4, <2>2, <3>1 DEF MarksExact
  <2> QED BY <2>1, <2>2
<1>6. ASSUME NEW s \in Ids, linkEntityMap'[s] # {} PROVE "relation" \in isLinked'[s]
  <2>1. /\ linkEntityMap \in [Ids -> SUBSET Ids] /\ isLinked \in [Ids -> SUBSET LinkTypes]
        /\ linkEntityMap[s] # {} => "relation" \in isLinked[s]
    BY <1>1, RelationTypes DEF MarksExact
  <2> QED BY <1>3, <1>6, <2>1
<1>7. MarksExact'
  BY <1>5, <1>6 DEF MarksExact
<1>8. ASSUME NEW x \in Ids, positionMap[x] = {} PROVE positionMap'[x] = {}
  BY <1>1, <1>2, <1>8, RelationOfOthers
<1> QED BY <1>3, <1>4, <1>7, <1>8

\* RemoveRelation() of the application.
LEMMA RemoveRelationExact ==
  ASSUME RelationsInv, faults = {}, StoreInv', NEW e \in Ids, NEW t \in Ids, RemoveRelation(e, t)
  PROVE  RelationsInv'
<1>1. PICK p \in FindRelationPosition(e, t) : RemoveRelationTo(e, t, p)
  BY DEF RemoveRelation
<1>2. deleting = Idle /\ deleting' = deleting
  BY DEF RemoveRelation, Ready
<1>3. /\ PositionsExact' /\ RelationsOnce' /\ MarksExact'
      /\ linkEntityMap' = [linkEntityMap EXCEPT ![t] = @ \ {e}]
      /\ \A x \in Ids : \A s \in Ids : Related(x, s)' <=> Related(x, s) /\ ~(x = e /\ s = t)
  BY <1>1, RelationToRemoved
<1>4. LinkEntitiesExact'
  <2>1. deleting.id = NoId /\ NoId \notin Ids /\ linkEntityMap \in [Ids -> SUBSET Ids]
    BY <1>2, RelationTypes, RelationsParts, Operating DEF Idle
  <2> SUFFICES ASSUME NEW s \in Ids
               PROVE  linkEntityMap'[s] \ {NoId} = {x \in Ids \ {NoId} : Related(x, s)'}
    BY <1>2, <2>1 DEF LinkEntitiesExact
  <2>2. linkEntityMap[s] \ {NoId} = {x \in Ids \ {NoId} : Related(x, s)}
    BY <2>1, RelationsParts DEF LinkEntitiesExact
  <2>3. linkEntityMap'[s] = IF s = t THEN linkEntityMap[s] \ {e} ELSE linkEntityMap[s]
    BY <1>3, <2>1
  <2> QED BY <1>3, <2>1, <2>2, <2>3
<1>5. DeletedUnrelated'
  BY <1>2 DEF DeletedUnrelated, Idle
<1> QED BY <1>3, <1>4, <1>5, RelationsPartsNext

\* DeleteEntity() removes a relation of the entity: the maps of the targets keep it.
LEMMA DeleteRelationExact ==
  ASSUME RelationsInv, faults = {}, StoreInv', DeleteRelation
  PROVE  RelationsInv'
<1> DEFINE e == deleting.id
<1>1. /\ PositionsExact /\ LinkEntitiesExact /\ MarksExact /\ RelationsOnce /\ DeletedUnrelated
      /\ StoreInv /\ TypeOK /\ e \in Ids
  BY RelationsParts, Operating, DeletingFields DEF DeleteRelation
<1>2. PICK p \in positionMap[e] : RemoveEntityRelation(e, p)
  BY DEF DeleteRelation
<1>3. /\ ~deleting.collected /\ deleting' = deleting
      /\ isLinked' = isLinked /\ linkEntityMap' = linkEntityMap
  BY DEF DeleteRelation
<1> HIDE DEF e
<1>4. /\ PositionsExact' /\ RelationsOnce'
      /\ \A x \in Ids : x # e => isOwner'[x] = isOwner[x]
      /\ "relation" \in isOwner'[e] <=> "relation" \in isOwner[e] /\ positionMap'[e] # {}
      /\ \A x \in Ids : \A s \in Ids : x # e => (Related(x, s)' <=> Related(x, s))
      /\ \A x \in Ids : x # e => (positionMap'[x] # {} <=> positionMap[x] # {})
  BY <1>1, <1>2, RelationRemoved, RelationsLeft, RelationOfOthers
<1>5. MarksExact'
  <2>1. ASSUME NEW x \in Ids PROVE "relation" \in isOwner'[x] <=> positionMap'[x] # {}
    BY <1>1, <1>2, <1>4 DEF MarksExact
  <2> QED BY <1>1, <1>3, <2>1 DEF MarksExact
<1>6. LinkEntitiesExact'
  BY <1>1, <1>3, <1>4 DEF LinkEntitiesExact, e
<1>7. DeletedUnrelated'
  BY <1>1, <1>3 DEF DeletedUnrelated
<1> QED BY <1>4, <1>5, <1>6, <1>7, RelationsPartsNext

\* DeleteEntity() collects all entities with a relation to the deleted one, when it has
\* no relation any more.
LEMMA CollectLinksExact ==
  ASSUME RelationsInv, faults = {}, StoreInv', CollectLinks
  PROVE  RelationsInv'
<1> DEFINE e == deleting.id
           linked == isLinked[e]
           links == IF "link" \in linked THEN entityMap[e] ELSE {}
           sources == IF "relation" \in linked THEN linkEntityMap[e] ELSE {}
<1>1. /\ PositionsExact /\ LinkEntitiesExact /\ MarksExact /\ RelationsOnce /\ StoreInv
      /\ e \in Ids
      /\ deleting = [id |-> deleting.id, archetype |-> deleting.archetype,
                     index |-> deleting.index, collected |-> deleting.collected,
                     links |-> deleting.links, sources |-> deleting.sources]
  BY RelationsParts, DeletingFields DEF CollectLinks
<1>2. /\ deleting' = [deleting EXCEPT !.collected = TRUE, !.links = links, !.sources = sources]
      /\ "relation" \notin isOwner[e]
      /\ UNCHANGED <<isOwner, isLinked, relationVars>>
  BY DEF CollectLinks, linkVars
<1>3. positionMap[e] = {} /\ linkEntityMap[e] \subseteq sources
  BY <1>1, <1>2 DEF MarksExact
<1> HIDE DEF links, sources
<1>4. deleting'.id = e /\ deleting'.sources = sources
  BY <1>1, <1>2
<1> HIDE DEF e
<1>5. PositionsExact' /\ RelationsOnce' /\ MarksExact'
  BY <1>1, <1>2 DEF PositionsExact, RelationsOnce, MarksExact, relationVars
<1>6. LinkEntitiesExact'
  BY <1>1, <1>2, <1>4 DEF LinkEntitiesExact, Related, FindRelationPosition, relationVars, e
<1>7. DeletedUnrelated'
  BY <1>2, <1>3, <1>4 DEF DeletedUnrelated, relationVars
<1> QED BY <1>5, <1>6, <1>7, RelationsPartsNext

\* DeleteEntity() removes the relation of the next entity in its list.
LEMMA DeleteRelationToEntityExact ==
  ASSUME RelationsInv, faults = {}, StoreInv', DeleteRelationToEntity
  PROVE  RelationsInv'
<1> DEFINE d == deleting.id
<1>1. PICK o \in deleting.sources :
        /\ deleting' = [deleting EXCEPT !.sources = @ \ {o}]
        /\ \/ \E p \in FindRelationPosition(o, d) : RemoveRelationTo(o, d, p)
           \/ /\ FindRelationPosition(o, d) = {}
              /\ UNCHANGED <<store, isOwner, isLinked, relationVars, faults>>
  BY DEF DeleteRelationToEntity
<1>2. /\ PositionsExact /\ LinkEntitiesExact /\ MarksExact /\ RelationsOnce /\ DeletedUnrelated
      /\ StoreInv /\ TypeOK
  BY RelationsParts, Operating
<1>3. deleting \in [id : Ids \cup {NoId}, archetype : Archs, index : Nat,
                    collected : BOOLEAN, links : SUBSET Ids, sources : SUBSET Ids]
  BY <1>2 DEF TypeOK
<1>4. /\ deleting'.id = d /\ deleting'.collected = deleting.collected
      /\ deleting'.sources = deleting.sources \ {o} /\ o \in Ids
      /\ linkEntityMap \in [Ids -> SUBSET Ids]
  BY <1>1, <1>2, <1>3, RelationTypes
<1> HIDE DEF d
<1>5. CASE FindRelationPosition(o, d) = {} /\ UNCHANGED <<isOwner, isLinked, relationVars>>
  <2>1. PositionsExact' /\ RelationsOnce' /\ MarksExact'
    BY <1>2, <1>5 DEF PositionsExact, RelationsOnce, MarksExact, relationVars
  <2>2. LinkEntitiesExact'
    BY <1>2, <1>4, <1>5 DEF LinkEntitiesExact, Related, FindRelationPosition, relationVars, d
  <2>3. DeletedUnrelated'
    <3>1. /\ deleting.collected
          /\ positionMap[d] = {} /\ linkEntityMap[d] \ {d} \subseteq deleting.sources
      BY <1>2 DEF DeletedUnrelated, d
    <3>2. d \in Ids
      BY <1>2, <3>1, DeletingFields DEF StoreInv, DeletingExists, d
    <3>3. linkEntityMap[d] \ {d} = {x \in Ids \ {d} : Related(x, d)} /\ ~Related(o, d)
      BY <1>2, <1>5, <3>2 DEF LinkEntitiesExact, Related, d
    <3> QED BY <1>4, <1>5, <3>1, <3>3 DEF DeletedUnrelated, relationVars
  <2> QED BY <2>1, <2>2, <2>3, RelationsPartsNext
<1>6. ASSUME NEW p \in FindRelationPosition(o, d), RemoveRelationTo(o, d, p)
      PROVE  RelationsInv'
  <2>1. d \in Ids
    <3>1. deleting.collected
      BY <1>2 DEF DeletedUnrelated
    <3> QED BY <1>2, <1>3, <3>1 DEF StoreInv, DeletingExists, d
  <2>2. /\ PositionsExact' /\ RelationsOnce' /\ MarksExact'
        /\ linkEntityMap' = [linkEntityMap EXCEPT ![d] = @ \ {o}]
        /\ \A x \in Ids : \A s \in Ids : Related(x, s)' <=> Related(x, s) /\ ~(x = o /\ s = d)
        /\ positionMap[d] = {} => positionMap'[d] = {}
    BY <1>4, <1>6, <2>1, RelationToRemoved
  <2>3. LinkEntitiesExact'
    <3> SUFFICES ASSUME NEW s \in Ids
                 PROVE  linkEntityMap'[s] \ {d} = {x \in Ids \ {d} : Related(x, s)'}
      BY <1>4 DEF LinkEntitiesExact
    <3>1. linkEntityMap[s] \ {d} = {x \in Ids \ {d} : Related(x, s)}
      BY <1>2 DEF LinkEntitiesExact, d
    <3>2. linkEntityMap'[s] = IF s = d THEN linkEntityMap[s] \ {o} ELSE linkEntityMap[s]
      BY <1>4, <2>2
    <3> QED BY <1>4, <2>2, <3>1, <3>2
  <2>4. DeletedUnrelated'
    BY <1>2, <1>4, <2>1, <2>2 DEF DeletedUnrelated, d
  <2> QED BY <2>2, <2>3, <2>4, RelationsPartsNext
<1> QED BY <1>1, <1>5, <1>6

\* DeleteEntity() ends: nothing refers to the entity, or it is a fault.
LEMMA FinishDeleteExact ==
  ASSUME RelationsInv, faults = {}, StoreInv', FinishDelete
  PROVE  RelationsInv'
<1> DEFINE e == deleting.id
<1>1. /\ PositionsExact /\ LinkEntitiesExact /\ MarksExact /\ RelationsOnce /\ DeletedUnrelated
      /\ StoreInv /\ TypeOK /\ e \in Ids
  BY RelationsParts, Operating, DeletingFields DEF FinishDelete, StoreInv, DeletingExists
<1>2. /\ deleting.collected /\ deleting.sources = {} /\ deleting' = Idle
      /\ isOwner' = [isOwner EXCEPT ![e] = {}] /\ isLinked' = [isLinked EXCEPT ![e] = {}]
      /\ faults' = {} => \A t \in Ids : e \notin linkEntityMap[t]
      /\ UNCHANGED relationVars
  BY DEF FinishDelete
<1> SUFFICES ASSUME faults' = {} PROVE RelationsInv'
  BY RelationsPartsNext
<1>3. /\ positionMap[e] = {} /\ linkEntityMap[e] = {}
      /\ linkEntityMap \in [Ids -> SUBSET Ids] /\ NoId \notin Ids
      /\ isOwner \in [Ids -> SUBSET LinkTypes] /\ isLinked \in [Ids -> SUBSET LinkTypes]
  BY <1>1, <1>2, RelationTypes DEF DeletedUnrelated
<1>4. /\ relationRows' = relationRows /\ positionMap' = positionMap
      /\ linkEntityMap' = linkEntityMap
      /\ deleting'.id = NoId /\ ~deleting'.collected /\ deleting'.sources = {}
  BY <1>2 DEF relationVars, Idle
<1>5. PositionsExact' /\ RelationsOnce' /\ DeletedUnrelated'
  BY <1>1, <1>4 DEF PositionsExact, RelationsOnce, DeletedUnrelated
<1>6. MarksExact'
  <2>1. ASSUME NEW x \in Ids PROVE "relation" \in isOwner'[x] <=> positionMap'[x] # {}
    BY <1>1, <1>2, <1>3, <1>4 DEF MarksExact
  <2>2. ASSUME NEW t \in Ids, linkEntityMap'[t] # {} PROVE "relation" \in isLinked'[t]
    BY <1>1, <1>2, <1>3, <1>4, <2>2 DEF MarksExact
  <2> QED BY <2>1, <2>2 DEF MarksExact
<1>7. LinkEntitiesExact'
  <2> SUFFICES ASSUME NEW t \in Ids
               PROVE  linkEntityMap[t] \ {NoId} = {x \in Ids \ {NoId} : Related(x, t)'}
    BY <1>4 DEF LinkEntitiesExact
  <2>1. \A x \in Ids : Related(x, t)' <=> Related(x, t)
    BY <1>4 DEF Related, FindRelationPosition
  <2>2. linkEntityMap[t] \ {e} = {x \in Ids \ {e} : Related(x, t)} /\ e \notin linkEntityMap[t]
    BY <1>1, <1>2 DEF LinkEntitiesExact
  <2>3. ~Related(e, t)
    BY <1>3 DEF Related, FindRelationPosition
  <2> QED BY <1>3, <2>1, <2>2, <2>3
<1> QED BY <1>5, <1>6, <1>7, RelationsPartsNext

\* DeleteEntity() begins: the relations are not touched yet.
LEMMA DeleteEntityExact ==
  ASSUME RelationsInv, faults = {}, StoreInv', NEW e \in Ids, DeleteEntity(e)
  PROVE  RelationsInv'
<1>1. /\ PositionsExact /\ LinkEntitiesExact /\ MarksExact /\ RelationsOnce /\ TypeOK
  BY RelationsParts, Operating
<1>2. /\ deleting.id = NoId /\ deleting'.id = e
      /\ ~deleting'.collected /\ deleting'.sources = {}
      /\ UNCHANGED relationVars
  BY DEF DeleteEntity, Ready, Idle
<1>3. SameMarks
  BY <1>1, RelationTypes DEF DeleteEntity, SameMarks
<1>4. PositionsExact' /\ RelationsOnce' /\ DeletedUnrelated' /\ MarksExact'
  BY <1>1, <1>2, <1>3
  DEF PositionsExact, RelationsOnce, DeletedUnrelated, MarksExact, SameMarks, relationVars
<1>5. LinkEntitiesExact'
  <2> SUFFICES ASSUME NEW t \in Ids
               PROVE  linkEntityMap[t] \ {e} = {x \in Ids \ {e} : Related(x, t)'}
    BY <1>2 DEF LinkEntitiesExact, relationVars
  <2>1. \A x \in Ids : Related(x, t)' <=> Related(x, t)
    BY <1>2 DEF Related, FindRelationPosition, relationVars
  <2>2. /\ linkEntityMap[t] \ {NoId} = {x \in Ids \ {NoId} : Related(x, t)}
        /\ NoId \notin Ids /\ linkEntityMap[t] \subseteq Ids
    BY <1>1, <1>2, RelationTypes DEF LinkEntitiesExact
  <2> QED BY <2>1, <2>2
<1> QED BY <1>4, <1>5, RelationsPartsNext

\* The operations on links write the index and not the relations.
LEMMA LinkOperationsExact ==
  ASSUME RelationsInv, faults = {}, StoreInv', NEW e \in Ids,
         RemoveLink(e) \/ \E t \in Ids : AddLink(e, t)
  PROVE  RelationsInv'
<1>1. TypeOK /\ StoreInv
  BY RelationsParts, Operating
<1>2. CASE RemoveLink(e)
  <2>1. PICK t \in Ids : TRUE
    OBVIOUS
  <2>2. SetIndex(RemoveComponentValue(Index, e, LinkOf(store, e)))
    BY <1>2 DEF RemoveLink, RemoveLinkOf
  <2>3. SameMarks
    BY <1>1, <2>2, SetIndexMarks
  <2> QED BY <1>2, <2>3, RelationsKept DEF RemoveLink
<1>3. ASSUME NEW t \in Ids, AddLink(e, t) PROVE RelationsInv'
  <2>1. \/ SetIndex(AddComponentValue(RemoveComponentValue(Index, e, LinkOf(store, e)), e, t))
        \/ SetIndex(AddComponentValue(Index, e, t))
    BY <1>3 DEF AddLink
  <2>2. SameMarks
    BY <1>1, <2>1, SetIndexMarks
  <2> QED BY <1>3, <2>2, RelationsKept DEF AddLink, Ready, Idle
<1> QED BY <1>2, <1>3

LEMMA DeleteLinkToEntityExact ==
  ASSUME RelationsInv, faults = {}, StoreInv', DeleteLinkToEntity
  PROVE  RelationsInv'
<1>1. PICK o \in deleting.links :
        /\ deleting' = [deleting EXCEPT !.links = @ \ {o}]
        /\ IF HasComponent(store, o, "LinkComponent") THEN RemoveLinkOf(o)
           ELSE UNCHANGED <<store, linkVars>>
  BY DEF DeleteLinkToEntity
<1>2. /\ PositionsExact /\ LinkEntitiesExact /\ MarksExact /\ RelationsOnce /\ DeletedUnrelated
      /\ StoreInv /\ TypeOK
  BY RelationsParts, Operating
<1>3. deleting \in [id : Ids \cup {NoId}, archetype : Archs, index : Nat,
                    collected : BOOLEAN, links : SUBSET Ids, sources : SUBSET Ids]
  BY <1>2 DEF TypeOK
<1>4. /\ deleting'.id = deleting.id /\ deleting'.collected = deleting.collected
      /\ deleting'.sources = deleting.sources /\ o \in Ids
  BY <1>1, <1>3
<1>5. SameMarks
  <2>1. CASE HasComponent(store, o, "LinkComponent")
    <3>1. SetIndex(RemoveComponentValue(Index, o, LinkOf(store, o)))
      BY <1>1, <2>1 DEF RemoveLinkOf
    <3> QED BY <1>2, <1>4, <3>1, SetIndexMarks
  <2>2. CASE ~HasComponent(store, o, "LinkComponent")
    BY <1>1, <2>2 DEF linkVars, SameMarks
  <2> QED BY <2>1, <2>2
<1>6. UNCHANGED relationVars
  BY DEF DeleteLinkToEntity
<1>7. PositionsExact' /\ RelationsOnce' /\ DeletedUnrelated' /\ MarksExact'
  BY <1>2, <1>4, <1>5, <1>6
  DEF PositionsExact, RelationsOnce, DeletedUnrelated, MarksExact, SameMarks, relationVars
<1>8. LinkEntitiesExact'
  BY <1>2, <1>4, <1>6 DEF LinkEntitiesExact, Related, FindRelationPosition, relationVars
<1> QED BY <1>7, <1>8, RelationsPartsNext

LEMMA InitRelationsInv == Init => RelationsInv
<1> SUFFICES ASSUME Init PROVE RelationsInv
  OBVIOUS
<1>1. /\ relationRows = <<>> /\ Len(relationRows) = 0 /\ deleting = Idle
      /\ \A e \in Ids : positionMap[e] = {} /\ linkEntityMap[e] = {} /\ isOwner[e] = {}
  BY DEF Init
<1>2. PositionsExact /\ RelationsOnce /\ MarksExact
  BY <1>1 DEF PositionsExact, RelationsOnce, MarksExact
<1>3. LinkEntitiesExact /\ DeletedUnrelated
  BY <1>1 DEF LinkEntitiesExact, DeletedUnrelated, Idle, Related, FindRelationPosition
<1> QED BY <1>2, <1>3, InitStoreInv, RelationsParts

LEMMA StepRelationsInv == RelationsInv /\ [Next]_vars => RelationsInv'
<1> SUFFICES ASSUME RelationsInv, [Next]_vars PROVE RelationsInv'
  OBVIOUS
<1>1. StoreInv /\ StoreInv'
  BY StepStoreInv, RelationsParts
<1>2. CASE faults = {} /\ Operation
  <2> USE <1>1, <1>2
  <2>1. ASSUME NEW e \in Ids,
               \/ CreateEntity(e)
               \/ \E type \in Others : AddComponent(e, type) \/ RemoveComponent(e, type)
               \/ \E c \in Ids : AddChild(e, c) \/ RemoveChild(e, c)
               \/ \E c \in Ids, i \in -1..Cardinality(Ids) - 1 : InsertChild(e, c, i)
               \/ \E ids \in ChildLists : LoadEntity(e, ids)
        PROVE  RelationsInv'
    <3>1. deleting = Idle /\ deleting' = deleting /\ UNCHANGED <<linkVars, relationVars>>
      BY <2>1 DEF CreateEntity, AddComponent, RemoveComponent, AddChild, RemoveChild,
                  InsertChild, LoadEntity, Ready
    <3>2. SameMarks
      BY <3>1 DEF SameMarks, linkVars
    <3> QED BY <3>1, <3>2, RelationsKept
  <2>2. ASSUME NEW e \in Ids, RemoveLink(e) \/ \E t \in Ids : AddLink(e, t)
        PROVE  RelationsInv'
    BY <2>2, LinkOperationsExact
  <2>3. ASSUME NEW e \in Ids, NEW t \in Ids, AddRelation(e, t) PROVE RelationsInv'
    BY <2>3, AddRelationExact
  <2>4. ASSUME NEW e \in Ids, NEW t \in Ids, RemoveRelation(e, t) PROVE RelationsInv'
    BY <2>4, RemoveRelationExact
  <2>5. ASSUME NEW e \in Ids, DeleteEntity(e) PROVE RelationsInv'
    BY <2>5, DeleteEntityExact
  <2>6. CASE DeleteRelation
    BY <2>6, DeleteRelationExact
  <2>7. CASE CollectLinks
    BY <2>7, CollectLinksExact
  <2>8. CASE DeleteLinkToEntity
    BY <2>8, DeleteLinkToEntityExact
  <2>9. CASE DeleteRelationToEntity
    BY <2>9, DeleteRelationToEntityExact
  <2>10. CASE FinishDelete
    BY <2>10, FinishDeleteExact
  <2> QED BY <2>1, <2>2, <2>3, <2>4, <2>5, <2>6, <2>7, <2>8, <2>9, <2>10 DEF Operation
<1>3. CASE UNCHANGED vars
  <2>1. UNCHANGED relationVars /\ deleting' = deleting /\ faults' = faults /\ SameMarks
    BY <1>3 DEF vars, linkVars, SameMarks
  <2>2. CASE faults = {}
    BY <1>1, <2>1, <2>2, RelationsKept
  <2>3. CASE faults # {}
    BY <1>1, <2>1, <2>3, RelationsPartsNext
  <2> QED BY <2>2, <2>3
<1> QED BY <1>2, <1>3 DEF Next, Stopped

\* Whatever the application does, and while DeleteEntity() removes relations one after
\* the other: the positions of an entity are exactly its rows in the archetype of the
\* relation (also after a row was filled with the last one), the map of a target holds
\* exactly the entities with a relation to it, and the marks of the nodes agree
\* (EntityRelations.AddRelation(), RemoveRelation(), EntityRelationLinks).
THEOREM RelationsCorrect == Spec => [](StoreInv /\ RelationsExact)
<1>1. RelationsInv => StoreInv /\ RelationsExact
  BY DEF RelationsInv
<1> QED BY <1>1, InitRelationsInv, StepRelationsInv, PTL DEF Spec

-----------------------------------------------------------------------------
(* The way to the root                                                     *)

\* A set of natural numbers has a least one.
LEMMA LeastNumber ==
  ASSUME NEW B \in SUBSET Nat, B # {}
  PROVE  \E m \in B : \A k \in B : m <= k
<1> DEFINE T == {0..m : m \in B}
<1>1. T \subseteq FiniteSubsetsOf(Nat) /\ T # {}
  <2>1. \A m \in B : IsFiniteSet(0..m) /\ 0..m \in SUBSET Nat
    <3> TAKE m \in B
    <3>1. 0 \in Int /\ m \in Int
      OBVIOUS
    <3> QED BY <3>1, FS_Interval
  <2> QED BY <2>1 DEF FiniteSubsetsOf
<1>2. PICK U \in T : \A V \in T : <<V, U>> \notin StrictSubsetOrdering(Nat)
  <2> DEFINE R == StrictSubsetOrdering(Nat)
             S0 == FiniteSubsetsOf(Nat)
  <2>1. IsWellFoundedOn(R, S0)
    BY FS_StrictSubsetOrderingWellFounded
  <2> HIDE DEF R, S0, T
  <2>2. \E U \in T : \A V \in T : ~(<<V, U>> \in R)
    BY <1>1, <2>1, WFMin DEF S0
  <2> QED BY <2>2 DEF R
<1>3. PICK m \in B : U = 0..m
  OBVIOUS
<1>4. ASSUME NEW k \in B, k < m PROVE FALSE
  <2>1. 0..k \in T /\ 0..k \in SUBSET Nat /\ 0..m \in SUBSET Nat
    OBVIOUS
  <2>2. 0..k \subseteq 0..m /\ 0..k # 0..m
    BY <1>4
  <2>3. <<0..k, 0..m>> \in StrictSubsetOrdering(Nat)
    BY <2>1, <2>2 DEF StrictSubsetOrdering
  <2> QED BY <1>2, <1>3, <2>1, <2>3
<1> QED BY <1>4

\* What holds for 0 and passes from every number below m to the next holds for m.
LEMMA Stepwise ==
  ASSUME NEW m \in Nat, NEW G \in SUBSET Nat, 0 \in G,
         \A n \in Nat : n < m /\ n \in G => n + 1 \in G
  PROVE  m \in G
<1> DEFINE Bad == {n \in Nat : n <= m /\ n \notin G}
<1> SUFFICES ASSUME Bad # {} PROVE FALSE
  OBVIOUS
<1>1. PICK n \in Bad : \A k \in Bad : n <= k
  BY LeastNumber
<1>2. n # 0 /\ n - 1 \in Nat /\ n - 1 < m /\ n - 1 \notin Bad
  BY <1>1
<1>3. n - 1 \in G
  BY <1>2
<1>4. (n - 1) + 1 \in G
  BY <1>2, <1>3
<1> QED BY <1>1, <1>4

\* A set with the parents of its members.
WithParents(U) == U \cup {Parent(x) : x \in U}

\* f goes m steps towards the root.
Ascent(e, f, m) ==
  /\ f = [n \in 0..m |-> f[n]]
  /\ f[0] = {e}
  /\ \A n \in 1..m : f[n] = WithParents(f[n - 1])

LEMMA AscentExists ==
  ASSUME NEW e, NEW m \in Nat
  PROVE  \E f : Ascent(e, f, m)
<1> DEFINE G == {n \in Nat : \E f : Ascent(e, f, n)}
<1>1. 0 \in G
  <2> DEFINE f == [n \in 0..0 |-> {e}]
  <2>1. Ascent(e, f, 0)
    BY DEF Ascent
  <2> QED BY <2>1
<1>2. ASSUME NEW k \in Nat, k \in G PROVE k + 1 \in G
  <2>1. PICK f : Ascent(e, f, k)
    BY <1>2
  <2> DEFINE g == [n \in 0..k + 1 |-> IF n = k + 1 THEN WithParents(f[k]) ELSE f[n]]
  <2>2. \A n \in 0..k + 1 : g[n] = IF n = k + 1 THEN WithParents(f[k]) ELSE f[n]
    OBVIOUS
  <2>3. g = [n \in 0..k + 1 |-> g[n]]
    OBVIOUS
  <2> HIDE DEF g
  <2>4. g[0] = {e}
    <3>1. 0 \in 0..k + 1 /\ 0 # k + 1 /\ f[0] = {e}
      BY <2>1 DEF Ascent
    <3> QED BY <2>2, <3>1
  <2>5. ASSUME NEW n \in 1..k + 1 PROVE g[n] = WithParents(g[n - 1])
    <3>1. n \in 0..k + 1 /\ n - 1 \in 0..k + 1 /\ n - 1 # k + 1
      OBVIOUS
    <3>2. g[n - 1] = f[n - 1]
      BY <2>2, <3>1
    <3>3. CASE n = k + 1
      BY <2>2, <3>1, <3>2, <3>3
    <3>4. CASE n # k + 1
      <4>1. n \in 1..k
        BY <3>4
      <4>2. f[n] = WithParents(f[n - 1])
        BY <2>1, <4>1 DEF Ascent
      <4> QED BY <2>2, <3>1, <3>2, <3>4, <4>2
    <3> QED BY <3>3, <3>4
  <2>6. Ascent(e, g, k + 1)
    BY <2>3, <2>4, <2>5 DEF Ascent
  <2> QED BY <2>6
<1> HIDE DEF G
<1>3. m \in G
  <2>1. G \in SUBSET Nat
    BY DEF G
  <2> QED BY <1>1, <1>2, <2>1, Stepwise
<1> QED BY <1>3 DEF G

\* The branch of an entity is where the ascent ends.
LEMMA BranchAscent ==
  ASSUME NEW e
  PROVE  \E f : Ascent(e, f, Cardinality(Ids)) /\ Branch(e) = f[Cardinality(Ids)]
<1> DEFINE N == Cardinality(Ids)
           F(f) == [n \in 0..N |->
                      IF n = 0 THEN {e} ELSE f[n - 1] \cup {Parent(x) : x \in f[n - 1]}]
<1> DEFINE up[n \in 0..N] ==
        IF n = 0 THEN {e} ELSE up[n - 1] \cup {Parent(x) : x \in up[n - 1]}
<1>0. up = CHOOSE f : f = F(f)
  OBVIOUS
<1>N. N \in Nat
  BY EntityStoreAssumption, FS_CardinalityType
<1>B. Branch(e) = up[N]
  BY DEF Branch
<1> HIDE DEF N
<1>1. PICK f : Ascent(e, f, N)
  BY AscentExists, <1>N
<1>2. f = F(f)
  <2>1. /\ f = [n \in 0..N |-> f[n]] /\ f[0] = {e}
        /\ \A n \in 1..N : f[n] = f[n - 1] \cup {Parent(x) : x \in f[n - 1]}
    BY <1>1 DEF Ascent, WithParents
  <2>2. \A n \in 0..N : f[n] = IF n = 0 THEN {e} ELSE f[n - 1] \cup {Parent(x) : x \in f[n - 1]}
    <3> TAKE n \in 0..N
    <3>1. n = 0 \/ n \in 1..N
      BY <1>N
    <3> QED BY <2>1, <3>1
  <2> QED BY <2>1, <2>2
<1>3. up = F(up)
  <2> HIDE DEF F
  <2>1. \E g : g = F(g)
    BY <1>2
  <2> QED BY <1>0, <2>1
<1>4. Ascent(e, up, N)
  <2> HIDE DEF up
  <2>1. \A n \in 0..N : up[n] = IF n = 0 THEN {e} ELSE up[n - 1] \cup {Parent(x) : x \in up[n - 1]}
    BY <1>3
  <2>2. up = [n \in 0..N |-> up[n]]
    BY <1>3, <2>1
  <2>3. up[0] = {e}
    <3>1. 0 \in 0..N
      BY <1>N
    <3> QED BY <2>1, <3>1
  <2>4. ASSUME NEW n \in 1..N PROVE up[n] = up[n - 1] \cup {Parent(x) : x \in up[n - 1]}
    <3>1. n \in 0..N /\ n # 0
      BY <1>N
    <3> QED BY <2>1, <3>1
  <2> QED BY <2>2, <2>3, <2>4 DEF Ascent, WithParents
<1> HIDE DEF up
<1> QED BY <1>4, <1>B DEF N

\* A set of entities that has the parents of its members.
Closed(S) == \A x \in S : Parent(x) \in S

\* The branch of an entity is the least closed set it is in.
BranchesExact ==
  \A e \in Ids \cup {NoId} :
    /\ Branch(e) \in SUBSET (Ids \cup {NoId}) /\ e \in Branch(e) /\ Closed(Branch(e))
    /\ \A S \in SUBSET (Ids \cup {NoId}) : e \in S /\ Closed(S) => Branch(e) \subseteq S

\* A set that grows is larger afterwards.
LEMMA WithParentsGrows ==
  ASSUME TypeOK, NEW U \in SUBSET (Ids \cup {NoId})
  PROVE  /\ WithParents(U) \in SUBSET (Ids \cup {NoId}) /\ U \subseteq WithParents(U)
         /\ Closed(U) => WithParents(U) = U
         /\ ~Closed(U) => Cardinality(WithParents(U)) >= Cardinality(U) + 1
         /\ Cardinality(U) \in Nat
<1> DEFINE W == WithParents(U)
<1>1. W \in SUBSET (Ids \cup {NoId}) /\ U \subseteq W
  BY DEF WithParents, Parent, TypeOK
<1>2. Closed(U) => W = U
  BY DEF Closed, WithParents
<1>3. ~Closed(U) => W # U
  BY DEF Closed, WithParents
<1> HIDE DEF W
<1>4. IsFiniteSet(W) /\ IsFiniteSet(U)
  <2>1. IsFiniteSet(Ids \cup {NoId})
    BY EntityStoreAssumption, FS_AddElement
  <2> QED BY <1>1, <2>1, FS_Subset
<1>5. Cardinality(W) \in Nat /\ Cardinality(U) \in Nat
  BY <1>4, FS_CardinalityType
<1>6. W # U => Cardinality(U) < Cardinality(W)
  <2>1. Cardinality(U) <= Cardinality(W) /\ (Cardinality(U) = Cardinality(W) => U = W)
    BY <1>1, <1>4, FS_Subset
  <2> QED BY <1>5, <2>1
<1>7. ~Closed(U) => Cardinality(W) >= Cardinality(U) + 1
  BY <1>3, <1>5, <1>6
<1> QED BY <1>1, <1>2, <1>5, <1>7 DEF W

LEMMA BranchesAreExact == TypeOK => BranchesExact
<1> SUFFICES ASSUME TypeOK, NEW e \in Ids \cup {NoId}
             PROVE  /\ Branch(e) \in SUBSET (Ids \cup {NoId}) /\ e \in Branch(e)
                    /\ Closed(Branch(e))
                    /\ \A S \in SUBSET (Ids \cup {NoId}) :
                         e \in S /\ Closed(S) => Branch(e) \subseteq S
  BY DEF BranchesExact
<1> DEFINE N == Cardinality(Ids)
           All == Ids \cup {NoId}
<1>1. N \in Nat /\ IsFiniteSet(All) /\ Cardinality(All) = N + 1
  BY EntityStoreAssumption, ArchetypesAssumption, FS_CardinalityType, FS_AddElement
<1>2. PICK f : Ascent(e, f, N) /\ Branch(e) = f[N]
  BY BranchAscent
<1> HIDE DEF N
<1> DEFINE Least(U) == \A S \in SUBSET All : e \in S /\ Closed(S) => U \subseteq S
           Good(n) == /\ f[n] \in SUBSET All /\ e \in f[n] /\ Least(f[n])
                      /\ Closed(f[n]) \/ Cardinality(f[n]) >= n + 1
           G == {n \in Nat : n <= N => Good(n)}
<1>3. 0 \in G
  <2>1. f[0] = {e}
    BY <1>2 DEF Ascent
  <2>2. Cardinality({e}) = 1
    BY FS_Singleton
  <2>3. Good(0)
    BY <2>1, <2>2
  <2> QED BY <2>3
<1>4. ASSUME NEW n \in Nat, n < N, n \in G PROVE n + 1 \in G
  <2>1. Good(n)
    BY <1>1, <1>4
  <2>2. f[n + 1] = WithParents(f[n])
    <3>1. n + 1 \in 1..N /\ (n + 1) - 1 = n
      BY <1>1, <1>4
    <3> QED BY <1>2, <3>1 DEF Ascent
  <2>3. f[n + 1] \in SUBSET All /\ f[n] \subseteq f[n + 1]
    BY <2>1, <2>2, WithParentsGrows
  <2>4. Least(f[n + 1])
    <3> SUFFICES ASSUME NEW S \in SUBSET All, e \in S, Closed(S)
                 PROVE  f[n + 1] \subseteq S
      OBVIOUS
    <3>1. f[n] \subseteq S
      BY <2>1
    <3> QED BY <2>2, <3>1 DEF WithParents, Closed
  <2>5. Closed(f[n + 1]) \/ Cardinality(f[n + 1]) >= (n + 1) + 1
    <3>1. CASE Closed(f[n])
      <4>1. f[n + 1] = f[n]
        BY <2>1, <2>2, <3>1, WithParentsGrows
      <4> QED BY <3>1, <4>1
    <3>2. CASE ~Closed(f[n])
      <4>1. Cardinality(f[n]) \in Nat /\ Cardinality(f[n]) >= n + 1
        BY <2>1, <3>2, WithParentsGrows
      <4>2. Cardinality(f[n + 1]) >= Cardinality(f[n]) + 1
        BY <2>1, <2>2, <3>2, WithParentsGrows
      <4>3. Cardinality(f[n + 1]) \in Nat
        BY <2>3, WithParentsGrows
      <4> QED BY <4>1, <4>2, <4>3
    <3> QED BY <3>1, <3>2
  <2>6. Good(n + 1)
    BY <2>1, <2>3, <2>4, <2>5
  <2> QED BY <2>6
<1>5. Good(N)
  <2>1. G \in SUBSET Nat
    OBVIOUS
  <2> HIDE DEF G
  <2>2. N \in G
    BY <1>1, <1>3, <1>4, <2>1, Stepwise
  <2> QED BY <1>1, <2>2 DEF G
<1>6. Closed(f[N])
  <2> SUFFICES ASSUME ~Closed(f[N]) PROVE FALSE
    OBVIOUS
  <2>1. Cardinality(f[N]) >= N + 1 /\ f[N] \in SUBSET All
    BY <1>5
  <2>2. Cardinality(f[N]) <= N + 1 /\ (Cardinality(f[N]) = N + 1 => f[N] = All)
    BY <1>1, <2>1, FS_Subset
  <2>3. Cardinality(f[N]) \in Nat
    BY <2>1, WithParentsGrows
  <2>4. f[N] = All
    BY <1>1, <2>1, <2>2, <2>3
  <2> QED BY <2>4 DEF Closed, Parent, TypeOK
<1> QED BY <1>2, <1>5, <1>6

\* No entity is above itself, whether it lives or not.
NoCycle ==
  \A e \in Ids, p \in Ids \cup {NoId} : Parent(e) = p => e \notin Branch(p)

\* Entities that get another parent are not above it.
LEMMA NewParent ==
  ASSUME BranchesExact, BranchesExact', NoCycle, TypeOK,
         NEW K \in SUBSET Ids, NEW t \in Ids \cup {NoId}, K \cap Branch(t) = {},
         parentMap' = [c \in Ids |-> IF c \in K THEN t ELSE parentMap[c]]
  PROVE  NoCycle'
<1> DEFINE All == Ids \cup {NoId}
<1>1. \A x \in All : Parent(x)' = IF x \in K THEN t ELSE Parent(x)
  BY ArchetypesAssumption DEF Parent
<1>2. \A x \in All : Parent(x) \in All
  BY DEF Parent, TypeOK
<1>3. ASSUME NEW S \in SUBSET All, Closed(S), S \cap K # {} => t \in S PROVE Closed(S)'
  BY <1>1, <1>3 DEF Closed
<1>4. /\ Branch(t) \in SUBSET All /\ t \in Branch(t) /\ Closed(Branch(t))
  BY DEF BranchesExact
<1> SUFFICES ASSUME NEW e \in Ids, NEW p \in All, Parent(e)' = p
             PROVE  e \notin (Branch(p))'
  BY DEF NoCycle
<1>5. \A S \in SUBSET All : p \in S /\ (Closed(S))' => (Branch(p))' \subseteq S
  BY DEF BranchesExact
<1>6. CASE e \in K
  <2>1. PICK R \in SUBSET All : R = Branch(t)
    BY <1>4
  <2>2. p = t
    BY <1>1, <1>6
  <2>3. (Closed(R))'
    BY <1>3, <1>4, <2>1
  <2> QED BY <1>4, <1>5, <1>6, <2>1, <2>2, <2>3
<1>7. CASE e \notin K
  <2>1. p = Parent(e)
    BY <1>1, <1>7
  <2>2. PICK S \in SUBSET All : S = Branch(p)
    BY DEF BranchesExact
  <2>3. p \in S /\ Closed(S) /\ e \notin S
    BY <2>1, <2>2 DEF BranchesExact, NoCycle
  <2>4. PICK R \in SUBSET All : R = Branch(t)
    BY <1>4
  <2>5. t \in R /\ Closed(R) /\ R \cap K = {}
    BY <1>4, <2>4
  <2>6. CASE e \in R
    <3>1. p \in R
      BY <2>1, <2>5, <2>6 DEF Closed
    <3>2. S \subseteq R
      BY <2>2, <2>5, <3>1 DEF BranchesExact
    <3>3. (Closed(S))'
      BY <1>3, <2>3, <2>5, <3>2
    <3> QED BY <1>5, <2>3, <3>3
  <2>7. CASE e \notin R
    <3>1. PICK V \in SUBSET All : V = S \cup R
      OBVIOUS
    <3>2. Closed(V)
      BY <2>3, <2>5, <3>1 DEF Closed
    <3>3. (Closed(V))'
      BY <1>3, <2>5, <3>1, <3>2
    <3> QED BY <1>5, <2>3, <2>7, <3>1, <3>3
  <2> QED BY <2>6, <2>7
<1> QED BY <1>6, <1>7
-----------------------------------------------------------------------------
(* Lists of children                                                       *)

\* The list without the entity at position i.
LEMMA RemovedAt ==
  ASSUME NEW ids \in Seq(Ids), NEW i \in 1..Len(ids)
  PROVE  RemoveAt(ids, i) = [j \in 1..Len(ids) - 1 |-> IF j < i THEN ids[j] ELSE ids[j + 1]]
<1> DEFINE front == SubSeq(ids, 1, i - 1)
           back == SubSeq(ids, i + 1, Len(ids))
<1>1. /\ front \in Seq(Ids) /\ Len(front) = i - 1
      /\ \A j \in 1..i - 1 : front[j] = ids[j]
  BY SubSeqProperties
<1>2. /\ back \in Seq(Ids) /\ Len(back) = Len(ids) - i
      /\ \A j \in 1..Len(ids) - i : back[j] = ids[j + i]
  BY SubSeqProperties
<1>3. RemoveAt(ids, i) = front \o back
  BY DEF RemoveAt
<1> HIDE DEF front, back
<1>4. /\ front \o back \in Seq(Ids) /\ Len(front \o back) = Len(ids) - 1
      /\ \A j \in 1..Len(ids) - 1 :
           (front \o back)[j] = IF j <= i - 1 THEN front[j] ELSE back[j - (i - 1)]
  BY <1>1, <1>2, ConcatProperties
<1>5. ASSUME NEW j \in 1..Len(ids) - 1
      PROVE  (front \o back)[j] = IF j < i THEN ids[j] ELSE ids[j + 1]
  <2>1. CASE j < i
    BY <1>1, <1>4, <2>1
  <2>2. CASE ~(j < i)
    <3>1. j - (i - 1) \in 1..Len(ids) - i /\ (j - (i - 1)) + i = j + 1
      BY <2>2
    <3>2. back[j - (i - 1)] = ids[j + 1]
      BY <1>2, <3>1
    <3> QED BY <1>4, <2>2, <3>2
  <2> QED BY <2>1, <2>2
<1> DEFINE s == front \o back
<1> HIDE DEF s
<1>6. s = [j \in 1..Len(ids) - 1 |-> s[j]]
  <2>1. s \in Seq(Ids) /\ Len(s) = Len(ids) - 1
    BY <1>4 DEF s
  <2> QED BY <2>1
<1>7. \A j \in 1..Len(ids) - 1 : s[j] = IF j < i THEN ids[j] ELSE ids[j + 1]
  BY <1>5 DEF s
<1>8. RemoveAt(ids, i) = s
  BY <1>3 DEF s
<1> QED BY <1>6, <1>7, <1>8

\* Without() removes an entity that is once in a list, and only this one.
LEMMA WithoutValues ==
  ASSUME NEW ids \in Seq(Ids), IsInjective(ids), NEW c
  PROVE  /\ Without(ids, c) \in Seq(Ids) /\ IsInjective(Without(ids, c))
         /\ Range(Without(ids, c)) = Range(ids) \ {c}
         /\ c \notin Range(ids) => Without(ids, c) = ids
         /\ \A i \in 1..Len(ids) : ids[i] = c =>
              Without(ids, c) = [j \in 1..Len(ids) - 1 |-> IF j < i THEN ids[j] ELSE ids[j + 1]]
<1>1. CASE c \notin Range(ids)
  <2>1. Without(ids, c) = ids /\ \A i \in 1..Len(ids) : ids[i] # c
    BY <1>1 DEF Without, Range
  <2> QED BY <1>1, <2>1
<1>2. CASE c \in Range(ids)
  <2>1. PICK i \in 1..Len(ids) : ids[i] = c
    BY <1>2 DEF Range
  <2>2. \A j \in 1..Len(ids) : ids[j] = c => j = i
    BY <2>1 DEF IsInjective
  <2>3. (CHOOSE j \in DOMAIN ids : ids[j] = c) = i
    BY <2>1, <2>2
  <2>4. Without(ids, c) = RemoveAt(ids, i)
    BY <1>2, <2>3 DEF Without
  <2> DEFINE s == [j \in 1..Len(ids) - 1 |-> IF j < i THEN ids[j] ELSE ids[j + 1]]
  <2>5. Without(ids, c) = s
    BY <2>4, RemovedAt
  <2>6. s \in Seq(Ids) /\ DOMAIN s = 1..Len(ids) - 1
    BY WithoutTyped, <2>5
  <2>7. IsInjective(s)
    <3> SUFFICES ASSUME NEW j \in 1..Len(ids) - 1, NEW k \in 1..Len(ids) - 1, s[j] = s[k]
                 PROVE  j = k
      BY <2>6 DEF IsInjective
    <3>1. PICK m \in 1..Len(ids) : m = IF j < i THEN j ELSE j + 1
      OBVIOUS
    <3>2. PICK n \in 1..Len(ids) : n = IF k < i THEN k ELSE k + 1
      OBVIOUS
    <3>3. ids[m] = ids[n]
      BY <3>1, <3>2
    <3>4. m = n
      BY <3>3 DEF IsInjective
    <3> QED BY <3>1, <3>2, <3>4
  <2>8. Range(s) = Range(ids) \ {c}
    <3>1. ASSUME NEW j \in 1..Len(ids) - 1 PROVE s[j] \in Range(ids) \ {c}
      <4>1. PICK m \in 1..Len(ids) : m = (IF j < i THEN j ELSE j + 1) /\ m # i
        OBVIOUS
      <4>2. s[j] = ids[m]
        BY <4>1
      <4> QED BY <2>2, <4>1, <4>2 DEF Range
    <3>2. ASSUME NEW m \in 1..Len(ids), ids[m] # c PROVE ids[m] \in Range(s)
      <4>1. m # i
        BY <2>1, <3>2
      <4>2. PICK j \in 1..Len(ids) - 1 : m = IF j < i THEN j ELSE j + 1
        <5>1. CASE m < i
          BY <5>1
        <5>2. CASE m > i
          <6>1. m - 1 \in 1..Len(ids) - 1 /\ ~(m - 1 < i) /\ m = (m - 1) + 1
            BY <5>2
          <6> QED BY <6>1
        <5> QED BY <4>1, <5>1, <5>2
      <4>3. s[j] = ids[m]
        BY <4>2
      <4> QED BY <2>6, <4>3 DEF Range
    <3> HIDE DEF s
    <3>3. \A x \in Range(s) : x \in Range(ids) \ {c}
      BY <2>6, <3>1 DEF Range
    <3>4. \A x \in Range(ids) \ {c} : x \in Range(s)
      BY <3>2 DEF Range
    <3> QED BY <3>3, <3>4
  <2>9. ASSUME NEW k \in 1..Len(ids), ids[k] = c
        PROVE  Without(ids, c) = [j \in 1..Len(ids) - 1 |-> IF j < k THEN ids[j] ELSE ids[j + 1]]
    BY <2>2, <2>5, <2>9
  <2> HIDE DEF s
  <2> QED BY <1>2, <2>5, <2>6, <2>7, <2>8, <2>9
<1> QED BY <1>1, <1>2

\* The list with one more entity, at position i.
LEMMA InsertedAt ==
  ASSUME NEW ids \in Seq(Ids), NEW i \in 1..Len(ids) + 1, NEW c \in Ids
  PROVE  /\ InsertAt(ids, i, c) \in Seq(Ids)
         /\ InsertAt(ids, i, c) = [j \in 1..Len(ids) + 1 |->
              IF j < i THEN ids[j] ELSE IF j = i THEN c ELSE ids[j - 1]]
<1> DEFINE front == SubSeq(ids, 1, i - 1)
           back == SubSeq(ids, i, Len(ids))
           one == <<c>>
<1>1. /\ front \in Seq(Ids) /\ Len(front) = i - 1
      /\ \A j \in 1..i - 1 : front[j] = ids[j]
  BY SubSeqProperties
<1>2. /\ back \in Seq(Ids) /\ Len(back) = Len(ids) + 1 - i
      /\ \A j \in 1..Len(ids) + 1 - i : back[j] = ids[j + i - 1]
  BY SubSeqProperties
<1>3. one \in Seq(Ids) /\ Len(one) = 1 /\ one[1] = c
  OBVIOUS
<1>4. InsertAt(ids, i, c) = front \o one \o back
  BY DEF InsertAt
<1> HIDE DEF front, back, one
<1>5. /\ front \o one \in Seq(Ids) /\ Len(front \o one) = i
      /\ \A j \in 1..i : (front \o one)[j] = IF j <= i - 1 THEN front[j] ELSE one[j - (i - 1)]
  <2>1. /\ front \o one \in Seq(Ids) /\ Len(front \o one) = Len(front) + Len(one)
        /\ \A j \in 1..Len(front) + Len(one) :
             (front \o one)[j] = IF j <= Len(front) THEN front[j] ELSE one[j - Len(front)]
    BY <1>1, <1>3, ConcatProperties
  <2>2. Len(front) + Len(one) = i
    BY <1>1, <1>3
  <2> QED BY <1>1, <2>1, <2>2
<1> DEFINE most == front \o one
<1> HIDE DEF most
<1> DEFINE s == most \o back
<1>6. /\ s \in Seq(Ids) /\ Len(s) = Len(ids) + 1
      /\ \A j \in 1..Len(ids) + 1 : s[j] = IF j <= i THEN most[j] ELSE back[j - i]
  <2>1. most \in Seq(Ids) /\ Len(most) = i
    BY <1>5 DEF most
  <2> QED BY <1>2, <2>1, ConcatProperties
<1> HIDE DEF s
<1>7. ASSUME NEW j \in 1..Len(ids) + 1
      PROVE  s[j] = IF j < i THEN ids[j] ELSE IF j = i THEN c ELSE ids[j - 1]
  <2>1. CASE j < i
    <3>1. most[j] = front[j] /\ front[j] = ids[j]
      BY <1>1, <1>5, <2>1 DEF most
    <3> QED BY <1>6, <2>1, <3>1
  <2>2. CASE j = i
    <3>1. most[j] = one[1]
      BY <1>5, <2>2 DEF most
    <3> QED BY <1>3, <1>6, <2>2, <3>1
  <2>3. CASE j > i
    <3>1. j - i \in 1..Len(ids) + 1 - i /\ (j - i) + i - 1 = j - 1
      BY <2>3
    <3>2. back[j - i] = ids[j - 1]
      BY <1>2, <3>1
    <3> QED BY <1>6, <2>3, <3>2
  <2>4. j \in Int /\ i \in Int
    OBVIOUS
  <2> QED BY <2>1, <2>2, <2>3, <2>4
<1>8. s = [j \in 1..Len(ids) + 1 |-> s[j]]
  BY <1>6
<1>9. InsertAt(ids, i, c) = s
  BY <1>4 DEF most, s
<1> QED BY <1>6, <1>7, <1>8, <1>9

\* A new entity in a list.
LEMMA InsertValues ==
  ASSUME NEW ids \in Seq(Ids), IsInjective(ids), NEW i \in 1..Len(ids) + 1,
         NEW c \in Ids, c \notin Range(ids)
  PROVE  /\ InsertAt(ids, i, c) \in Seq(Ids) /\ IsInjective(InsertAt(ids, i, c))
         /\ Range(InsertAt(ids, i, c)) = Range(ids) \cup {c}
<1> DEFINE s == [j \in 1..Len(ids) + 1 |->
                   IF j < i THEN ids[j] ELSE IF j = i THEN c ELSE ids[j - 1]]
<1>1. InsertAt(ids, i, c) = s /\ s \in Seq(Ids)
  BY InsertedAt
<1>2. \A j \in 1..Len(ids) : ids[j] # c
  BY DEF Range
<1>3. DOMAIN s = 1..Len(ids) + 1
  OBVIOUS
<1>4. IsInjective(s)
  <2> SUFFICES ASSUME NEW j \in 1..Len(ids) + 1, NEW k \in 1..Len(ids) + 1, s[j] = s[k]
               PROVE  j = k
    BY <1>3 DEF IsInjective
  <2>1. j = i <=> k = i
    <3>1. ASSUME NEW m \in 1..Len(ids) + 1, m # i PROVE s[m] # c
      <4>1. PICK n \in 1..Len(ids) : n = IF m < i THEN m ELSE m - 1
        BY <3>1
      <4>2. s[m] = ids[n]
        BY <3>1, <4>1
      <4> QED BY <1>2, <4>2
    <3>2. s[i] = c
      OBVIOUS
    <3> QED BY <3>1, <3>2
  <2>2. CASE j # i /\ k # i
    <3>1. PICK m \in 1..Len(ids) : m = IF j < i THEN j ELSE j - 1
      BY <2>2
    <3>2. PICK n \in 1..Len(ids) : n = IF k < i THEN k ELSE k - 1
      BY <2>2
    <3>3. ids[m] = ids[n]
      BY <2>2, <3>1, <3>2
    <3>4. m = n
      BY <3>3 DEF IsInjective
    <3> QED BY <2>2, <3>1, <3>2, <3>4
  <2> QED BY <2>1, <2>2
<1>5. Range(s) = Range(ids) \cup {c}
  <2>1. ASSUME NEW j \in 1..Len(ids) + 1 PROVE s[j] \in Range(ids) \cup {c}
    <3>1. CASE j = i
      BY <3>1
    <3>2. CASE j # i
      <4>1. PICK n \in 1..Len(ids) : n = IF j < i THEN j ELSE j - 1
        BY <3>2
      <4>2. s[j] = ids[n]
        BY <3>2, <4>1
      <4> QED BY <4>2 DEF Range
    <3> QED BY <3>1, <3>2
  <2>2. ASSUME NEW n \in 1..Len(ids) PROVE ids[n] \in Range(s)
    <3>1. CASE n < i
      <4>1. n \in 1..Len(ids) + 1 /\ s[n] = ids[n]
        BY <3>1
      <4> QED BY <1>3, <4>1 DEF Range
    <3>2. CASE n >= i
      <4>1. n + 1 \in 1..Len(ids) + 1 /\ ~(n + 1 < i) /\ n + 1 # i /\ (n + 1) - 1 = n
        BY <3>2
      <4>2. s[n + 1] = ids[n]
        BY <4>1
      <4> QED BY <1>3, <4>1, <4>2 DEF Range
    <3> QED BY <3>1, <3>2
  <2>3. c \in Range(s)
    <3>1. s[i] = c /\ i \in 1..Len(ids) + 1
      OBVIOUS
    <3> QED BY <1>3, <3>1 DEF Range
  <2> HIDE DEF s
  <2>4. \A x \in Range(s) : x \in Range(ids) \cup {c}
    BY <1>3, <2>1 DEF Range
  <2>5. \A x \in Range(ids) : x \in Range(s)
    BY <2>2 DEF Range
  <2> QED BY <2>3, <2>4, <2>5
<1> QED BY <1>1, <1>4, <1>5

\* Append() inserts after the last one.
LEMMA AppendInserts ==
  ASSUME NEW ids \in Seq(Ids), NEW c \in Ids
  PROVE  Append(ids, c) = InsertAt(ids, Len(ids) + 1, c)
<1> DEFINE s == Append(ids, c)
<1>1. s \in Seq(Ids) /\ Len(s) = Len(ids) + 1
      /\ \A j \in 1..Len(ids) + 1 : s[j] = IF j = Len(ids) + 1 THEN c ELSE ids[j]
  OBVIOUS
<1> HIDE DEF s
<1>2. s = [j \in 1..Len(ids) + 1 |-> s[j]]
  BY <1>1
<1>3. Len(ids) + 1 \in 1..Len(ids) + 1
  OBVIOUS
<1>4. InsertAt(ids, Len(ids) + 1, c) = [j \in 1..Len(ids) + 1 |->
        IF j < Len(ids) + 1 THEN ids[j] ELSE IF j = Len(ids) + 1 THEN c ELSE ids[j - 1]]
  BY <1>3, InsertedAt
<1>5. \A j \in 1..Len(ids) + 1 : j = Len(ids) + 1 \/ j < Len(ids) + 1
  OBVIOUS
<1> QED BY <1>1, <1>2, <1>4, <1>5 DEF s

-----------------------------------------------------------------------------
(* The children of the entities                                            *)

Children(T) == [x \in Ids |-> ChildIds(T, x)]

\* Entities that are the same have the same children.
LEMMA SameEntitiesSameChildren ==
  ASSUME NEW T, NEW U, NEW e, \A x \in Ids \ {e} : SameEntity(T, U, x),
         e \in Ids => ChildIds(U, e) = ChildIds(T, e)
  PROVE  Children(U) = Children(T)
<1>1. \A x \in Ids : ChildIds(U, x) = ChildIds(T, x)
  BY SameEntityValues
<1> QED BY <1>1 DEF Children

\* MoveEntityTo() keeps the children if the component stays.
LEMMA MoveEntityToChildren ==
  ASSUME NEW T \in Storage, RowsExactOf(T), NEW e \in T.created, NEW a \in Archs,
         "TreeNode" \in T.archetype[e] => "TreeNode" \in a
  PROVE  Children(MoveEntityTo(T, e, a)) = Children(T)
<1> DEFINE U == MoveEntityTo(T, e, a)
<1>1. /\ \A x \in Ids \ {e} : SameEntity(T, U, x)
      /\ e \in U.created /\ U.archetype[e] = a
      /\ "TreeNode" \in T.archetype[e] =>
           ("TreeNode" \in a => RowOf(U, e).childIds = RowOf(T, e).childIds)
      /\ "TreeNode" \notin T.archetype[e] =>
           ("TreeNode" \in a => RowOf(U, e).childIds = <<>>)
  BY MoveEntityToValues
<1> HIDE DEF U
<1>2. ChildIds(U, e) = ChildIds(T, e)
  BY <1>1 DEF ChildIds, HasComponent, Created
<1>3. Children(U) = Children(T)
  BY <1>1, <1>2, SameEntitiesSameChildren
<1> QED BY <1>3 DEF U

LEMMA GetTreeNodeChildren ==
  ASSUME NEW T \in Storage, RowsExactOf(T), NEW e \in T.created
  PROVE  LET U == GetTreeNode(T, e)
         IN /\ U \in Storage /\ RowsExactOf(U) /\ U.created = T.created
            /\ Children(U) = Children(T) /\ "TreeNode" \in U.archetype[e]
<1>1. T.archetype[e] \cup {"TreeNode"} \in Archs
  BY RowOfEntity DEF Archs, ComponentTypes
<1>2. Children(GetTreeNode(T, e)) = Children(T)
  BY <1>1, MoveEntityToChildren DEF GetTreeNode
<1>3. GetTreeNode(T, e).archetype[e] = T.archetype[e] \cup {"TreeNode"}
  BY <1>1, MoveEntityToValues DEF GetTreeNode
<1> QED BY <1>2, <1>3, GetTreeNodeExact

\* CreateEntityNode() adds an entity without children.
LEMMA CreateEntityNodeChildren ==
  ASSUME NEW T \in Storage, RowsExactOf(T), NEW e \in Ids
  PROVE  Children(CreateEntityNode(T, e)) = Children(T)
<1> DEFINE U == CreateEntityNode(T, e)
<1>1. /\ \A x \in Ids \ {e} : SameEntity(T, U, x)
      /\ e \in T.created => SameEntity(T, U, e)
      /\ e \notin T.created => U.archetype[e] = DefaultArchetype
  BY CreateEntityNodeValues
<1> HIDE DEF U
<1>2. ChildIds(U, e) = ChildIds(T, e)
  <2>1. CASE e \in T.created
    BY <1>1, <2>1, SameEntityValues
  <2>2. CASE e \notin T.created
    BY <1>1, <2>2 DEF ChildIds, HasComponent, Created, DefaultArchetype
  <2> QED BY <2>1, <2>2
<1>3. Children(U) = Children(T)
  BY <1>1, <1>2, SameEntitiesSameChildren
<1> QED BY <1>3 DEF U

\* A target that is assigned to a link changes no children.
LEMMA SetLinkOfChildren ==
  ASSUME NEW T \in Storage, RowsExactOf(T), NEW e \in T.created, NEW t \in Ids \cup {NoId}
  PROVE  Children(SetLinkOf(T, e, t)) = Children(T)
<1> DEFINE U == SetLinkOf(T, e, t)
<1>1. PICK ids \in Seq(Ids) : TRUE
  <2>1. <<>> \in Seq(Ids)
    OBVIOUS
  <2> QED BY <2>1
<1>2. /\ \A x \in Ids \ {e} : SameEntity(T, U, x)
      /\ e \in U.created /\ U.archetype[e] = T.archetype[e]
      /\ RowOf(U, e) = [RowOf(T, e) EXCEPT !.link = t]
  BY <1>1, ValueOfEntity
<1> HIDE DEF U
<1>3. RowOf(T, e) \in Row
  BY RowOfEntity
<1>4. RowOf(U, e).childIds = RowOf(T, e).childIds
  BY <1>2, <1>3 DEF Row
<1>5. ChildIds(U, e) = ChildIds(T, e)
  BY <1>2, <1>4 DEF ChildIds, HasComponent, Created
<1>6. Children(U) = Children(T)
  BY <1>2, <1>5, SameEntitiesSameChildren
<1> QED BY <1>6 DEF U

\* The children of an entity that has a TreeNode are assigned.
LEMMA SetChildIdsChildren ==
  ASSUME NEW T \in Storage, RowsExactOf(T), NEW e \in T.created, NEW ids \in Seq(Ids),
         "TreeNode" \in T.archetype[e]
  PROVE  Children(SetChildIds(T, e, ids)) = [Children(T) EXCEPT ![e] = ids]
<1> DEFINE U == SetChildIds(T, e, ids)
<1>1. NoId \in Ids \cup {NoId}
  OBVIOUS
<1>2. /\ \A x \in Ids \ {e} : SameEntity(T, U, x)
      /\ e \in U.created /\ U.archetype[e] = T.archetype[e]
      /\ RowOf(U, e) = [RowOf(T, e) EXCEPT !.childIds = ids]
  BY <1>1, ValueOfEntity
<1> HIDE DEF U
<1>3. RowOf(T, e) \in Row
  BY RowOfEntity
<1>4. RowOf(U, e).childIds = ids
  BY <1>2, <1>3 DEF Row
<1>5. ChildIds(U, e) = ids
  BY <1>2, <1>4 DEF ChildIds, HasComponent, Created
<1>6. \A x \in Ids \ {e} : ChildIds(U, x) = ChildIds(T, x)
  BY <1>2, SameEntityValues
<1>7. Children(U) = [Children(T) EXCEPT ![e] = ids]
  BY <1>5, <1>6 DEF Children
<1> QED BY <1>7 DEF U

\* The lists K of children agree with the parents P, the entities C being alive.
ListsExact(K, P, C) ==
  /\ \A p \in Ids : IsInjective(K[p]) /\ \A c \in Range(K[p]) : P[c] = p
  /\ \A c \in C : P[c] # NoId => P[c] \in C /\ c \in Range(K[P[c]])

LEMMA ChildrenAreLists ==
  TypeOK => (ChildrenExact <=> ListsExact(Children(store), parentMap, store.created))
<1> SUFFICES ASSUME TypeOK
             PROVE  ChildrenExact <=> ListsExact(Children(store), parentMap, store.created)
  OBVIOUS
<1>1. store.created \in SUBSET Ids /\ parentMap \in [Ids -> Ids \cup {NoId}]
  BY StorageFields DEF TypeOK
<1>2. \A p \in Ids : Children(store)[p] = ChildIds(store, p)
  BY DEF Children
<1> QED BY <1>1, <1>2 DEF ChildrenExact, ListsExact, Created, IsChild

\* An entity leaves the children of its parent, and it is in no other list.
LEMMA LeaveParentChildren ==
  ASSUME TypeOK, NEW T \in Storage, RowsExactOf(T), NEW c \in T.created,
         ListsExact(Children(T), parentMap, T.created)
  PROVE  Children(LeaveParent(T, c)) = [q \in Ids |-> Without(ChildIds(T, q), c)]
<1>1. /\ c \in Ids /\ NoId \notin Ids /\ Parent(c) = parentMap[c]
      /\ Parent(c) # NoId => Parent(c) \in Ids
      /\ \A q \in Ids : Children(T)[q] = ChildIds(T, q)
  BY StorageFields, ArchetypesAssumption DEF TypeOK, Parent, Children
<1>2. ASSUME NEW q \in Ids, q # Parent(c) PROVE Without(ChildIds(T, q), c) = ChildIds(T, q)
  BY <1>1, <1>2 DEF ListsExact, Without
<1>3. CASE Parent(c) = NoId
  <2>1. LeaveParent(T, c) = T
    BY <1>3 DEF LeaveParent
  <2> QED BY <1>1, <1>2, <1>3, <2>1 DEF Children
<1>4. CASE Parent(c) # NoId
  <2> DEFINE p == Parent(c)
             ids == Without(ChildIds(T, p), c)
  <2>1. p \in Ids /\ p \in T.created /\ c \in Range(ChildIds(T, p))
    BY <1>1, <1>4 DEF ListsExact
  <2>2. LeaveParent(T, c) = SetChildIds(T, p, ids)
    BY <1>4 DEF LeaveParent, RemoveChildNode
  <2>3. \A q \in Ids \ {p} : Without(ChildIds(T, q), c) = ChildIds(T, q)
    BY <1>2
  <2> HIDE DEF p
  <2>4. "TreeNode" \in T.archetype[p]
    BY <2>1 DEF ChildIds, HasComponent, Range
  <2>5. ids \in Seq(Ids)
    BY <2>1, ComponentValues, WithoutTyped
  <2> HIDE DEF ids
  <2>6. Children(SetChildIds(T, p, ids)) = [Children(T) EXCEPT ![p] = ids]
    BY <2>1, <2>4, <2>5, SetChildIdsChildren
  <2> QED BY <2>1, <2>2, <2>3, <2>6 DEF Children, ids
<1> QED BY <1>3, <1>4

\* What the operations of the tree do to the lists of children.
LEMMA AdoptedLists ==
  ASSUME NEW K \in [Ids -> Seq(Ids)], NEW P \in [Ids -> Ids \cup {NoId}], NEW C \in SUBSET Ids,
         ListsExact(K, P, C), NEW p \in C, NEW c \in C, NEW i \in 1..Len(Without(K[p], c)) + 1
  PROVE  ListsExact([[q \in Ids |-> Without(K[q], c)] EXCEPT ![p] = InsertAt(@, i, c)],
                    [P EXCEPT ![c] = p], C)
<1> DEFINE L == [q \in Ids |-> Without(K[q], c)]
           M == [L EXCEPT ![p] = InsertAt(@, i, c)]
           Q == [P EXCEPT ![c] = p]
<1>1. \A q \in Ids : /\ L[q] \in Seq(Ids) /\ IsInjective(L[q])
                     /\ Range(L[q]) = Range(K[q]) \ {c}
  <2> SUFFICES ASSUME NEW q \in Ids
               PROVE  /\ Without(K[q], c) \in Seq(Ids) /\ IsInjective(Without(K[q], c))
                      /\ Range(Without(K[q], c)) = Range(K[q]) \ {c}
    OBVIOUS
  <2>1. K[q] \in Seq(Ids) /\ IsInjective(K[q])
    BY DEF ListsExact
  <2> QED BY <2>1, WithoutValues
<1>2. i \in 1..Len(L[p]) + 1 /\ c \in Ids /\ p \in Ids
  OBVIOUS
<1>3. L = [q \in Ids |-> L[q]]
  OBVIOUS
<1> HIDE DEF L
<1>4. IsInjective(InsertAt(L[p], i, c)) /\ Range(InsertAt(L[p], i, c)) = Range(L[p]) \cup {c}
  BY <1>1, <1>2, InsertValues
<1>5. M[p] = InsertAt(L[p], i, c) /\ \A q \in Ids \ {p} : M[q] = L[q]
  BY <1>2, <1>3
<1>6. Q[c] = p /\ \A d \in Ids \ {c} : Q[d] = P[d]
  OBVIOUS
<1> HIDE DEF M, Q
<1>7. \A q \in Ids : /\ IsInjective(M[q])
                     /\ Range(M[q]) = IF q = p THEN (Range(K[q]) \ {c}) \cup {c}
                                      ELSE Range(K[q]) \ {c}
  BY <1>1, <1>4, <1>5
<1>8. ASSUME NEW q \in Ids PROVE IsInjective(M[q]) /\ \A d \in Range(M[q]) : Q[d] = q
  <2> SUFFICES ASSUME NEW d \in Range(M[q]) PROVE Q[d] = q
    BY <1>7
  <2>1. CASE d = c
    BY <1>6, <1>7, <2>1
  <2>2. CASE d # c
    <3>1. d \in Range(K[q])
      BY <1>7, <2>2
    <3>2. d \in Ids
      BY <3>1 DEF Range
    <3> QED BY <1>6, <2>2, <3>1, <3>2 DEF ListsExact
  <2> QED BY <2>1, <2>2
<1>9. ASSUME NEW d \in C, Q[d] # NoId PROVE Q[d] \in C /\ d \in Range(M[Q[d]])
  <2>1. CASE d = c
    BY <1>2, <1>6, <1>7, <2>1
  <2>2. CASE d # c
    <3>1. P[d] \in C /\ d \in Range(K[P[d]]) /\ Q[d] = P[d]
      BY <1>6, <1>9, <2>2 DEF ListsExact
    <3> QED BY <1>7, <2>2, <3>1
  <2> QED BY <2>1, <2>2
<1>10. ListsExact(M, Q, C)
  BY <1>8, <1>9 DEF ListsExact
<1> QED BY <1>10 DEF L, M, Q

LEMMA AbandonedLists ==
  ASSUME NEW K \in [Ids -> Seq(Ids)], NEW P \in [Ids -> Ids \cup {NoId}], NEW C \in SUBSET Ids,
         ListsExact(K, P, C), NEW c \in Ids
  PROVE  ListsExact([q \in Ids |-> Without(K[q], c)], [P EXCEPT ![c] = NoId], C)
<1> DEFINE L == [q \in Ids |-> Without(K[q], c)]
           Q == [P EXCEPT ![c] = NoId]
<1>1. \A q \in Ids : IsInjective(L[q]) /\ Range(L[q]) = Range(K[q]) \ {c}
  <2> SUFFICES ASSUME NEW q \in Ids
               PROVE  /\ IsInjective(Without(K[q], c))
                      /\ Range(Without(K[q], c)) = Range(K[q]) \ {c}
    OBVIOUS
  <2>1. K[q] \in Seq(Ids) /\ IsInjective(K[q])
    BY DEF ListsExact
  <2> QED BY <2>1, WithoutValues
<1>2. Q[c] = NoId /\ \A d \in Ids \ {c} : Q[d] = P[d]
  OBVIOUS
<1> HIDE DEF L, Q
<1>3. ASSUME NEW q \in Ids, NEW d \in Range(L[q]) PROVE Q[d] = q
  <2>1. d \in Range(K[q]) /\ d # c
    BY <1>1
  <2>2. d \in Ids
    BY <2>1 DEF Range
  <2> QED BY <1>2, <2>1, <2>2 DEF ListsExact
<1>4. ASSUME NEW d \in C, Q[d] # NoId PROVE Q[d] \in C /\ d \in Range(L[Q[d]])
  <2>1. d # c /\ Q[d] = P[d] /\ P[d] \in C /\ d \in Range(K[P[d]])
    BY <1>2, <1>4 DEF ListsExact
  <2> QED BY <1>1, <2>1
<1>5. ListsExact(L, Q, C)
  BY <1>1, <1>3, <1>4 DEF ListsExact
<1> QED BY <1>5 DEF L, Q

LEMMA DeletedLists ==
  ASSUME NEW K \in [Ids -> Seq(Ids)], NEW P \in [Ids -> Ids \cup {NoId}], NEW C \in SUBSET Ids,
         ListsExact(K, P, C), NEW e \in C
  PROVE  ListsExact([q \in Ids |-> IF q = e THEN <<>> ELSE Without(K[q], e)],
                    [d \in Ids |-> IF d \in Range(K[e]) THEN NoId ELSE P[d]], C \ {e})
<1> DEFINE L == [q \in Ids |-> IF q = e THEN <<>> ELSE Without(K[q], e)]
           Q == [d \in Ids |-> IF d \in Range(K[e]) THEN NoId ELSE P[d]]
<1>1. \A q \in Ids : /\ IsInjective(L[q])
                     /\ Range(L[q]) = IF q = e THEN {} ELSE Range(K[q]) \ {e}
  <2> SUFFICES ASSUME NEW q \in Ids, q # e
               PROVE  /\ IsInjective(Without(K[q], e))
                      /\ Range(Without(K[q], e)) = Range(K[q]) \ {e}
    <3>1. IsInjective(<<>>) /\ Range(<<>>) = {}
      BY DEF IsInjective, Range
    <3> QED BY <3>1
  <2>1. K[q] \in Seq(Ids) /\ IsInjective(K[q])
    BY DEF ListsExact
  <2> QED BY <2>1, WithoutValues
<1>2. \A d \in Ids : Q[d] = IF d \in Range(K[e]) THEN NoId ELSE P[d]
  OBVIOUS
<1> HIDE DEF L, Q
<1>3. ASSUME NEW q \in Ids, NEW d \in Range(L[q]) PROVE Q[d] = q
  <2>1. q # e /\ d \in Range(K[q]) /\ d # e
    BY <1>1
  <2>2. d \in Ids /\ P[d] = q
    BY <2>1 DEF Range, ListsExact
  <2>3. d \notin Range(K[e])
    BY <2>1, <2>2 DEF ListsExact
  <2> QED BY <1>2, <2>2, <2>3
<1>4. ASSUME NEW d \in C \ {e}, Q[d] # NoId PROVE Q[d] \in C \ {e} /\ d \in Range(L[Q[d]])
  <2>1. Q[d] = P[d] /\ d \notin Range(K[e])
    BY <1>2, <1>4
  <2>2. P[d] \in C /\ d \in Range(K[P[d]])
    BY <1>4, <2>1 DEF ListsExact
  <2> QED BY <1>1, <2>1, <2>2
<1>5. ListsExact(L, Q, C \ {e})
  BY <1>1, <1>3, <1>4 DEF ListsExact
<1> QED BY <1>5 DEF L, Q

\* The children ids that p can be loaded with.
Loadable(K, P, C, p, ids) ==
  /\ ids \in Seq(Ids) /\ IsInjective(ids)
  /\ \A d \in Range(ids) : P[d] \in {NoId, p}
  /\ \A d \in C : d \in Range(K[p]) => d \in Range(ids)
  /\ p \notin Range(ids) /\ P[p] # p
  /\ P[p] # NoId => P[p] \in C /\ p \in Range(K[P[p]])

LEMMA LoadedLists ==
  ASSUME NEW K \in [Ids -> Seq(Ids)], NEW P \in [Ids -> Ids \cup {NoId}], NEW C \in SUBSET Ids,
         ListsExact(K, P, C), NEW p \in Ids, NEW ids, Loadable(K, P, C, p, ids)
  PROVE  ListsExact([K EXCEPT ![p] = ids],
                    [d \in Ids |-> IF d \in Range(ids) THEN p ELSE P[d]], C \cup {p})
<1> DEFINE L == [K EXCEPT ![p] = ids]
           Q == [d \in Ids |-> IF d \in Range(ids) THEN p ELSE P[d]]
<1>0. /\ ids \in Seq(Ids) /\ IsInjective(ids)
      /\ \A d \in Range(ids) : P[d] \in {NoId, p}
      /\ \A d \in C : d \in Range(K[p]) => d \in Range(ids)
      /\ p \notin Range(ids) /\ P[p] # p
      /\ P[p] # NoId => P[p] \in C /\ p \in Range(K[P[p]])
  BY DEF Loadable
<1>1. L[p] = ids /\ \A q \in Ids \ {p} : L[q] = K[q]
  OBVIOUS
<1>2. \A d \in Ids : Q[d] = IF d \in Range(ids) THEN p ELSE P[d]
  OBVIOUS
<1> HIDE DEF L, Q
<1>3. \A q \in Ids : IsInjective(L[q])
  BY <1>0, <1>1 DEF ListsExact
<1>4. ASSUME NEW q \in Ids, NEW d \in Range(L[q]) PROVE Q[d] = q
  <2>1. CASE q = p
    <3>1. d \in Range(ids)
      BY <1>1, <2>1
    <3>2. d \in Ids
      BY <1>0, <3>1 DEF Range
    <3> QED BY <1>2, <2>1, <3>1, <3>2
  <2>2. CASE q # p
    <3>1. d \in Range(K[q]) /\ P[d] = q
      BY <1>1, <2>2 DEF ListsExact
    <3>2. d \in Ids
      BY <3>1 DEF Range
    <3>3. P[d] \notin {NoId, p}
      BY <2>2, <3>1, ArchetypesAssumption
    <3>4. d \notin Range(ids)
      BY <1>0, <3>3
    <3> QED BY <1>2, <3>1, <3>2, <3>4
  <2> QED BY <2>1, <2>2
<1>5. ASSUME NEW d \in C \cup {p}, Q[d] # NoId
      PROVE  Q[d] \in C \cup {p} /\ d \in Range(L[Q[d]])
  <2>1. CASE d \in Range(ids)
    BY <1>0, <1>1, <1>2, <2>1
  <2>2. CASE d \notin Range(ids)
    <3>1. Q[d] = P[d] /\ P[d] # NoId
      BY <1>2, <1>5, <2>2
    <3>2. P[d] \in C /\ d \in Range(K[P[d]])
      BY <1>0, <3>1 DEF ListsExact
    <3>3. P[d] # p
      BY <1>0, <2>2, <3>2
    <3> QED BY <1>1, <3>1, <3>2, <3>3
  <2> QED BY <2>1, <2>2
<1>6. ListsExact(L, Q, C \cup {p})
  BY <1>3, <1>4, <1>5 DEF ListsExact
<1> QED BY <1>6 DEF L, Q

-----------------------------------------------------------------------------
(* The operations of the tree                                              *)

\* Child c leaves its parent, and becomes child number i of p.
Leaving(c) == [q \in Ids |-> Without(ChildIds(store, q), c)]
Adopting(p, c, i) == [Leaving(c) EXCEPT ![p] = InsertAt(@, i, c)]
Adopted(p, c) ==
  /\ p \in store.created /\ c \in store.created /\ store'.created = store.created
  /\ parentMap' = [parentMap EXCEPT ![c] = p] /\ c \notin Branch(p)
  /\ \E i \in 1..Len(Leaving(c)[p]) + 1 : Children(store') = Adopting(p, c, i)
SameTree == /\ store'.created = store.created /\ parentMap' = parentMap
            /\ Children(store') = Children(store)

\* An entity that is alive leaves the list of its parent.
LEMMA LeavingLists ==
  ASSUME StoreInv, faults = {}, ChildrenExact, NEW T \in Storage, RowsExactOf(T),
         T.created = store.created, Children(T) = Children(store), NEW c \in store.created
  PROVE  LET U == LeaveParent(T, c)
         IN /\ U \in Storage /\ RowsExactOf(U) /\ U.created = store.created
            /\ U.archetype = T.archetype /\ Children(U) = Leaving(c)
<1>1. TypeOK /\ c \in Ids /\ c \in T.created
  BY Operating, StorageFields
<1>2. ListsExact(Children(T), parentMap, T.created)
  BY <1>1, ChildrenAreLists
<1>3. Children(LeaveParent(T, c)) = [q \in Ids |-> Without(ChildIds(T, q), c)]
  BY <1>1, <1>2, LeaveParentChildren
<1>4. \A q \in Ids : ChildIds(T, q) = ChildIds(store, q)
  <2>1. \A q \in Ids : Children(T)[q] = ChildIds(T, q) /\ Children(store)[q] = ChildIds(store, q)
    BY DEF Children
  <2> QED BY <2>1
<1> QED BY <1>1, <1>3, <1>4, LeaveParentExact DEF Leaving

LEMMA AddChildTree ==
  ASSUME StoreInv, faults = {}, ChildrenExact, NEW p \in Ids, NEW c \in Ids, AddChild(p, c)
  PROVE  Adopted(p, c)
<1> DEFINE left == LeaveParent(store, c)
           node == GetTreeNode(left, p)
           ids == ChildIds(node, p)
<1>1. TypeOK /\ store \in Storage /\ RowsExactOf(store) /\ p \in store.created /\ c \in store.created
  BY Operating DEF AddChild
<1>2. /\ left \in Storage /\ RowsExactOf(left) /\ left.created = store.created
      /\ Children(left) = Leaving(c)
  BY <1>1, LeavingLists
<1>3. store' = SetChildIds(node, p, Append(ids, c))
  BY DEF AddChild
<1> HIDE DEF left
<1>4. /\ node \in Storage /\ RowsExactOf(node) /\ node.created = left.created
      /\ Children(node) = Children(left) /\ "TreeNode" \in node.archetype[p]
  BY <1>1, <1>2, GetTreeNodeChildren
<1> HIDE DEF node
<1>5. ids = Leaving(c)[p] /\ ids \in Seq(Ids)
  <2>1. Children(node)[p] = ids
    BY DEF Children
  <2> QED BY <1>2, <1>4, <2>1, ComponentValues
<1> HIDE DEF ids
<1>6. Append(ids, c) \in Seq(Ids) /\ Append(ids, c) = InsertAt(ids, Len(ids) + 1, c)
  BY <1>5, AppendInserts
<1>7. /\ Children(store') = [Children(node) EXCEPT ![p] = Append(ids, c)]
      /\ store'.created = node.created
  <2>1. NoId \in Ids \cup {NoId} /\ p \in node.created
    BY <1>1, <1>2, <1>4
  <2> DEFINE longer == Append(ids, c)
  <2>2. longer \in Seq(Ids)
    BY <1>6
  <2> HIDE DEF longer
  <2>3. Children(SetChildIds(node, p, longer)) = [Children(node) EXCEPT ![p] = longer]
    BY <1>4, <2>1, <2>2, SetChildIdsChildren
  <2>4. SetChildIds(node, p, longer).created = node.created
    BY <1>4, <2>1, <2>2, ValuesAssigned
  <2> QED BY <1>3, <2>3, <2>4 DEF longer
<1>8. Children(store') = Adopting(p, c, Len(ids) + 1)
  BY <1>2, <1>4, <1>5, <1>6, <1>7 DEF Adopting
<1>9. Len(ids) + 1 \in 1..Len(Leaving(c)[p]) + 1
  BY <1>5
<1>10. parentMap' = [parentMap EXCEPT ![c] = p] /\ c \notin Branch(p)
  BY DEF AddChild, WouldCreateCycle
<1> QED BY <1>1, <1>2, <1>4, <1>7, <1>8, <1>9, <1>10 DEF Adopted

LEMMA InsertChildTree ==
  ASSUME StoreInv, faults = {}, ChildrenExact, NEW p \in Ids, NEW c \in Ids,
         NEW i \in Int, InsertChild(p, c, i)
  PROVE  \/ faults' = {} /\ (Adopted(p, c) \/ SameTree)
         \/ /\ faults' # {} /\ store'.created = store.created /\ c \in store.created
            /\ Children(store') = Leaving(c) /\ parentMap' = [parentMap EXCEPT ![c] = p]
<1> DEFINE node == GetTreeNode(store, p)
           removed == LeaveParent(node, c)
           ids == ChildIds(node, p)
           others == IF Parent(c) = p THEN Without(ids, c) ELSE ids
           inserted == InsertAt(others, i + 1, c)
<1>1. TypeOK /\ store \in Storage /\ RowsExactOf(store) /\ p \in store.created /\ c \in store.created
  BY Operating DEF InsertChild
<1>2. \/ store' = node /\ UNCHANGED <<parentMap, faults>>
      \/ /\ store' = removed /\ faults' = {"child"}
         /\ parentMap' = [parentMap EXCEPT ![c] = p]
      \/ /\ i >= 0 /\ i <= Len(ids) /\ ~(Parent(c) = p /\ i = Len(ids))
         /\ store' = SetChildIds(removed, p, inserted)
         /\ parentMap' = [parentMap EXCEPT ![c] = p] /\ UNCHANGED faults
  BY DEF InsertChild, Fault
<1>3. c \notin Branch(p)
  BY DEF InsertChild, WouldCreateCycle
<1>4. /\ node \in Storage /\ RowsExactOf(node) /\ node.created = store.created
      /\ Children(node) = Children(store) /\ "TreeNode" \in node.archetype[p]
  BY <1>1, GetTreeNodeChildren
<1> HIDE DEF node
<1>5. /\ removed \in Storage /\ RowsExactOf(removed) /\ removed.created = store.created
      /\ removed.archetype = node.archetype /\ Children(removed) = Leaving(c)
  BY <1>1, <1>4, LeavingLists
<1>6. ids \in Seq(Ids) /\ IsInjective(ids) /\ ids = ChildIds(store, p)
  <2>1. Children(node)[p] = ids /\ Children(store)[p] = ChildIds(store, p)
    BY DEF Children
  <2>2. IsInjective(ChildIds(store, p))
    BY DEF ChildrenExact
  <2> QED BY <1>4, <2>1, <2>2, ComponentValues
<1> HIDE DEF removed, ids
<1>7. CASE store' = node /\ UNCHANGED <<parentMap, faults>>
  BY <1>4, <1>7 DEF SameTree
<1>9. CASE /\ store' = removed /\ faults' = {"child"}
           /\ parentMap' = [parentMap EXCEPT ![c] = p]
  BY <1>1, <1>4, <1>5, <1>9
<1>8. CASE /\ i >= 0 /\ i <= Len(ids) /\ ~(Parent(c) = p /\ i = Len(ids))
           /\ store' = SetChildIds(removed, p, inserted)
           /\ parentMap' = [parentMap EXCEPT ![c] = p] /\ UNCHANGED faults
  <2>1. others = Leaving(c)[p]
    <3>1. CASE Parent(c) = p
      BY <1>6, <3>1 DEF Leaving
    <3>2. CASE Parent(c) # p
      <4>1. parentMap[c] # p
        BY <3>2, ArchetypesAssumption DEF Parent
      <4>2. c \notin Range(ids)
        BY <1>6, <4>1 DEF ChildrenExact
      <4>3. Without(ids, c) = ids
        BY <4>2 DEF Without
      <4> QED BY <1>6, <3>2, <4>3 DEF Leaving
    <3> QED BY <3>1, <3>2
  <2>2. others \in Seq(Ids) /\ i + 1 \in 1..Len(others) + 1
    <3>1. Without(ids, c) \in Seq(Ids) /\ Len(Without(ids, c)) >= Len(ids) - 1
      BY <1>6, WithoutTyped
    <3> QED BY <1>6, <1>8, <3>1
  <2> HIDE DEF others
  <2>3. inserted \in Seq(Ids)
    BY <2>2, InsertTyped
  <2> HIDE DEF inserted
  <2>4. NoId \in Ids \cup {NoId} /\ p \in removed.created /\ "TreeNode" \in removed.archetype[p]
    BY <1>1, <1>4, <1>5
  <2>5. Children(store') = [Children(removed) EXCEPT ![p] = inserted]
    BY <1>5, <1>8, <2>3, <2>4, SetChildIdsChildren
  <2>6. store'.created = removed.created
    BY <1>5, <1>8, <2>3, <2>4, ValuesAssigned
  <2>7. Children(store') = Adopting(p, c, i + 1)
    BY <1>5, <2>1, <2>5 DEF Adopting, inserted
  <2>8. i + 1 \in 1..Len(Leaving(c)[p]) + 1
    BY <2>1, <2>2
  <2>9. faults' = {}
    BY <1>8
  <2> QED BY <2>9, <1>1, <1>3, <1>5, <1>8, <2>6, <2>7, <2>8 DEF Adopted
<1> QED BY <1>2, <1>7, <1>8, <1>9

LEMMA RemoveChildTree ==
  ASSUME StoreInv, faults = {}, ChildrenExact, NEW p \in Ids, NEW c \in Ids, RemoveChild(p, c)
  PROVE  /\ store'.created = store.created /\ Children(store') = Leaving(c)
         /\ parentMap' = [parentMap EXCEPT ![c] = NoId]
<1>1. store \in Storage /\ RowsExactOf(store) /\ c \in store.created /\ NoId \notin Ids
  BY Operating DEF RemoveChild
<1>2. store' = LeaveParent(store, c)
  BY <1>1 DEF RemoveChild, LeaveParent
<1>3. parentMap' = [parentMap EXCEPT ![c] = NoId]
  BY DEF RemoveChild
<1> QED BY <1>1, <1>2, <1>3, LeavingLists

LEMMA LoadEntityTree ==
  ASSUME StoreInv, faults = {}, NEW p \in Ids, NEW ids \in ChildLists, LoadEntity(p, ids)
  PROVE  /\ store'.created = store.created \cup {p} /\ ids \in Seq(Ids)
         /\ Children(store') = IF ids = <<>> THEN Children(store)
                               ELSE [Children(store) EXCEPT ![p] = ids]
<1> DEFINE created == CreateEntityNode(store, p)
           node == GetTreeNode(created, p)
<1>1. store \in Storage /\ RowsExactOf(store)
  BY Operating
<1>2. /\ created \in Storage /\ RowsExactOf(created) /\ created.created = store.created \cup {p}
      /\ Children(created) = Children(store)
  BY <1>1, CreateEntityNodeExact, CreateEntityNodeChildren
<1>3. store' = IF ids = <<>> THEN created ELSE SetChildIds(node, p, ids)
  BY DEF LoadEntity
<1> HIDE DEF created
<1>4. /\ node \in Storage /\ RowsExactOf(node) /\ node.created = created.created
      /\ Children(node) = Children(created) /\ "TreeNode" \in node.archetype[p]
  BY <1>2, GetTreeNodeChildren
<1> HIDE DEF node
<1>5. ids \in Seq(Ids)
  <2>1. PICK n \in 0..Cardinality(Ids) - 1 : ids \in [1..n -> Ids]
    BY DEF ChildLists
  <2> QED BY <2>1
<1>6. CASE ids = <<>>
  BY <1>2, <1>3, <1>5, <1>6
<1>7. CASE ids # <<>>
  <2>1. NoId \in Ids \cup {NoId} /\ p \in node.created
    BY <1>2, <1>4
  <2>2. Children(SetChildIds(node, p, ids)) = [Children(node) EXCEPT ![p] = ids]
    BY <1>4, <1>5, <2>1, SetChildIdsChildren
  <2>3. SetChildIds(node, p, ids).created = node.created
    BY <1>4, <1>5, <2>1, ValuesAssigned
  <2> QED BY <1>2, <1>3, <1>4, <1>5, <1>7, <2>2, <2>3
<1> QED BY <1>6, <1>7

\* The children that get their parent are in the list.
LEMMA AdopteesListed ==
  ASSUME NEW p \in Ids, NEW ids \in Seq(Ids)
  PROVE  Adoptees(p, ids) \subseteq Range(ids) /\ Range(ids) \subseteq Ids
BY DEF Adoptees, Range

\* A load without a fault: every child of the list gets its parent.
LEMMA LoadEntityAccepted ==
  ASSUME TypeOK, NoCycle, faults = {}, faults' = {}, NEW p \in Ids, NEW ids \in Seq(Ids),
         LoadEntity(p, ids)
  PROVE  /\ IsInjective(ids) /\ \A d \in Range(ids) : Parent(d) \in {NoId, p} /\ d \notin Branch(p)
         /\ Adoptees(p, ids) = Range(ids)
<1>1. IsInjective(ids) /\ \A d \in Range(ids) : ~Throws(p, d)
  BY DEF LoadEntity
<1>2. ASSUME NEW d \in Range(ids)
      PROVE  Parent(d) \in {NoId, p} /\ d \notin Branch(p) /\ d \in Adoptees(p, ids)
  <2>1. /\ ~OtherParent(p, d) /\ ~(Parent(d) = NoId /\ d \in Branch(p)) /\ d \in Ids
    BY <1>1, AdopteesListed DEF Throws, HasCycle, WouldCreateCycle
  <2>2. Parent(d) \in {NoId, p}
    BY <2>1 DEF OtherParent
  <2>3. d \notin Branch(p)
    BY <2>1, <2>2 DEF NoCycle
  <2>4. PICK i \in DOMAIN ids : ids[i] = d
    BY DEF Range
  <2>5. \A j \in 1..i - 1 : ids[j] \in Range(ids)
    BY <2>4 DEF Range
  <2>6. \A j \in 1..i - 1 : ~Throws(p, ids[j])
    BY <1>1, <2>5
  <2>7. d \in Adoptees(p, ids)
    BY <2>1, <2>4, <2>6 DEF Adoptees
  <2> QED BY <2>2, <2>3, <2>7
<1>3. Adoptees(p, ids) = Range(ids)
  BY <1>2, AdopteesListed
<1> QED BY <1>1, <1>2, <1>3

\* DeleteEntity() ends: the entity has no children and is no child.
LEMMA FinishDeleteTree ==
  ASSUME StoreInv, faults = {}, faults' = {}, ChildrenExact, FinishDelete
  PROVE  LET e == deleting.id
         IN /\ e \in store.created /\ store'.created = store.created \ {e}
            /\ Children(store') = [q \in Ids |-> IF q = e THEN <<>>
                                                 ELSE Without(ChildIds(store, q), e)]
            /\ parentMap' = [d \in Ids |-> IF d \in Range(ChildIds(store, e)) THEN NoId
                                           ELSE parentMap[d]]
<1> DEFINE e == deleting.id
           left == LeaveParent(store, e)
<1>1. /\ e \in store.created /\ store'.created = store.created \ {e}
      /\ \A x \in Ids \ {e} : SameEntity(left, store', x)
  BY FinishDeleteEntities
<1>2. parentMap' = [d \in Ids |-> IF d \in Range(ChildIds(store, e)) THEN NoId ELSE parentMap[d]]
  BY DEF FinishDelete
<1> HIDE DEF e
<1>3. Children(left) = Leaving(e)
  BY <1>1, Operating, LeavingLists
<1> HIDE DEF left
<1>4. ASSUME NEW q \in Ids
      PROVE  ChildIds(store', q) = IF q = e THEN <<>> ELSE Without(ChildIds(store, q), e)
  <2>1. CASE q = e
    BY <1>1, <2>1 DEF ChildIds, HasComponent, Created
  <2>2. CASE q # e
    <3>1. ChildIds(store', q) = ChildIds(left, q)
      BY <1>1, <2>2, SameEntityValues
    <3>2. Children(left)[q] = ChildIds(left, q) /\ Leaving(e)[q] = Without(ChildIds(store, q), e)
      BY DEF Children, Leaving
    <3> QED BY <1>3, <2>2, <3>1, <3>2
  <2> QED BY <2>1, <2>2
<1>5. Children(store') = [q \in Ids |-> IF q = e THEN <<>> ELSE Without(ChildIds(store, q), e)]
  BY <1>4 DEF Children
<1> QED BY <1>1, <1>2, <1>5 DEF e

\* MoveEntityTo() of an operation on one component.
LEMMA MoveEntityToTree ==
  ASSUME StoreInv, faults = {}, NEW e \in store.created, NEW a \in Archs,
         "TreeNode" \in store.archetype[e] => "TreeNode" \in a
  PROVE  LET U == MoveEntityTo(store, e, a)
         IN /\ U \in Storage /\ RowsExactOf(U) /\ U.created = store.created
            /\ Children(U) = Children(store)
BY Operating, MoveEntityToExact, MoveEntityToChildren

LEMMA RemoveLinkOfTree ==
  ASSUME StoreInv, faults = {}, NEW e \in store.created, RemoveLinkOf(e)
  PROVE  store'.created = store.created /\ Children(store') = Children(store)
<1>1. store.archetype[e] \ {"LinkComponent"} \in Archs
  BY Operating, RowOfEntity DEF Archs, ComponentTypes
<1> QED BY <1>1, MoveEntityToTree DEF RemoveLinkOf

\* The operations on components, links and relations, and most of a deletion.
LEMMA OtherOperationsTree ==
  ASSUME StoreInv, faults = {}, faults' = {},
         \/ \E e \in Ids : \/ RemoveLink(e) \/ DeleteEntity(e)
                           \/ \E type \in Others : AddComponent(e, type) \/ RemoveComponent(e, type)
                           \/ \E t \in Ids : AddLink(e, t) \/ AddRelation(e, t) \/ RemoveRelation(e, t)
         \/ DeleteRelation \/ CollectLinks \/ DeleteLinkToEntity \/ DeleteRelationToEntity
  PROVE  SameTree
<1>1. /\ TypeOK /\ store \in Storage /\ RowsExactOf(store)
      /\ "LinkComponent" \notin Others /\ "TreeNode" \notin Others
  BY Operating, ArchetypesAssumption
<1>2. parentMap' = parentMap
  BY DEF RemoveLink, DeleteEntity, AddComponent, RemoveComponent, AddLink, AddRelation,
         RemoveRelation, DeleteRelation, CollectLinks, DeleteLinkToEntity, DeleteRelationToEntity
<1> SUFFICES store'.created = store.created /\ Children(store') = Children(store)
  BY <1>2 DEF SameTree
<1>3. ASSUME NEW e \in Ids, RemoveLink(e)
      PROVE  store'.created = store.created /\ Children(store') = Children(store)
  BY <1>3, Operating, RemoveLinkOfTree DEF RemoveLink
<1>4. ASSUME NEW e \in Ids, NEW type \in Others, AddComponent(e, type) \/ RemoveComponent(e, type)
      PROVE  store'.created = store.created /\ Children(store') = Children(store)
  <2>1. e \in store.created
    BY <1>4, Operating DEF AddComponent, RemoveComponent
  <2>2. store.archetype[e] \cup {type} \in Archs /\ store.archetype[e] \ {type} \in Archs
    BY <1>1, <2>1, RowOfEntity DEF Archs, ComponentTypes
  <2>3. \/ store' = MoveEntityTo(store, e, store.archetype[e] \cup {type})
        \/ store' = MoveEntityTo(store, e, store.archetype[e] \ {type})
    BY <1>4 DEF AddComponent, RemoveComponent
  <2>4. CASE store' = MoveEntityTo(store, e, store.archetype[e] \cup {type})
    BY <2>1, <2>2, <2>4, MoveEntityToTree
  <2>5. CASE store' = MoveEntityTo(store, e, store.archetype[e] \ {type})
    BY <1>1, <2>1, <2>2, <2>5, MoveEntityToTree
  <2> QED BY <2>3, <2>4, <2>5
<1>5. ASSUME NEW e \in Ids, NEW t \in Ids, AddLink(e, t)
      PROVE  store'.created = store.created /\ Children(store') = Children(store)
  <2> DEFINE a == store.archetype[e] \cup {"LinkComponent"}
             moved == MoveEntityTo(store, e, a)
  <2>1. e \in store.created
    BY <1>5, Operating DEF AddLink
  <2>2. a \in Archs
    BY <1>1, <2>1, RowOfEntity DEF Archs, ComponentTypes
  <2>3. store' = SetLinkOf(moved, e, t)
    BY <1>5 DEF AddLink
  <2>4. "TreeNode" \in store.archetype[e] => "TreeNode" \in a
    OBVIOUS
  <2> HIDE DEF a
  <2>5. /\ moved \in Storage /\ RowsExactOf(moved) /\ moved.created = store.created
        /\ Children(moved) = Children(store)
    BY <2>1, <2>2, <2>4, MoveEntityToTree
  <2> HIDE DEF moved
  <2>6. Children(SetLinkOf(moved, e, t)) = Children(moved)
    BY <2>1, <2>5, SetLinkOfChildren
  <2>7. SetLinkOf(moved, e, t).created = moved.created
    <3>1. <<>> \in Seq(Ids) /\ t \in Ids \cup {NoId}
      OBVIOUS
    <3> QED BY <2>5, <3>1, ValuesAssigned
  <2> QED BY <2>3, <2>5, <2>6, <2>7
<1>6. ASSUME NEW e \in Ids, NEW p \in positionMap[e], RemoveEntityRelation(e, p)
      PROVE  store' = store
  BY <1>1, <1>6, RemoveEntityRelationExact
<1>7. ASSUME NEW e \in Ids, NEW t \in Ids, RemoveRelation(e, t) PROVE store' = store
  <2>1. PICK p \in positionMap[e] : RemoveEntityRelation(e, p)
    BY <1>7 DEF RemoveRelation, FindRelationPosition, RemoveRelationTo
  <2> QED BY <1>6, <2>1
<1>8. CASE DeleteRelation
  <2>1. deleting.id \in Ids /\ \E p \in positionMap[deleting.id] : RemoveEntityRelation(deleting.id, p)
    BY <1>8, DeletingFields DEF DeleteRelation
  <2> QED BY <1>6, <2>1
<1>9. CASE DeleteLinkToEntity
  <2>1. PICK o \in deleting.links :
          IF HasComponent(store, o, "LinkComponent") THEN RemoveLinkOf(o)
          ELSE UNCHANGED <<store, linkVars>>
    BY <1>9 DEF DeleteLinkToEntity
  <2>2. CASE HasComponent(store, o, "LinkComponent")
    BY <2>1, <2>2, RemoveLinkOfTree DEF HasComponent, Created
  <2>3. CASE ~HasComponent(store, o, "LinkComponent")
    BY <2>1, <2>3
  <2> QED BY <2>2, <2>3
<1>10. CASE DeleteRelationToEntity
  <2>1. PICK o \in deleting.sources :
          \/ \E p \in FindRelationPosition(o, deleting.id) : RemoveRelationTo(o, deleting.id, p)
          \/ UNCHANGED <<store, isOwner, isLinked, relationVars, faults>>
    BY <1>10 DEF DeleteRelationToEntity
  <2>2. o \in Ids
    BY <1>1 DEF TypeOK
  <2>3. CASE \E p \in FindRelationPosition(o, deleting.id) : RemoveRelationTo(o, deleting.id, p)
    <3>1. PICK p \in positionMap[o] : RemoveEntityRelation(o, p)
      BY <2>3 DEF FindRelationPosition, RemoveRelationTo
    <3> QED BY <1>6, <2>2, <3>1
  <2>4. CASE UNCHANGED <<store, isOwner, isLinked, relationVars, faults>>
    BY <2>4
  <2> QED BY <2>1, <2>3, <2>4
<1>11. ASSUME \/ \E e \in Ids : DeleteEntity(e) \/ \E t \in Ids : AddRelation(e, t)
              \/ CollectLinks
       PROVE  store' = store
  BY <1>11 DEF DeleteEntity, AddRelation, CollectLinks
<1> QED BY <1>3, <1>4, <1>5, <1>7, <1>8, <1>9, <1>10, <1>11

-----------------------------------------------------------------------------
(* The inductive invariant of the tree                                     *)

\* No living entity is above itself.
NoLivingCycle ==
  \A e \in Ids, p \in Ids \cup {NoId} : Created(store, e) /\ Parent(e) = p => e \notin Branch(p)

\* Without a fault no entity, living or not, is above itself; a fault of a child or a
\* list has left lists and parents that do not agree, or a cycle.
Damaged == ~(ChildrenExact /\ NoLivingCycle)
TreeInv ==
  /\ StoreInv
  /\ faults = {} => NoCycle /\ ChildrenExact
  /\ faults # {} /\ faults \subseteq {"child", "list"} => Damaged

LEMMA TreeInvExact == TreeInv => TreeExact
<1> SUFFICES ASSUME TreeInv PROVE TreeExact
  OBVIOUS
<1>1. \A e \in Ids : Parent(e) \in Ids \cup {NoId}
  BY DEF Parent, TreeInv, StoreInv, TypeOK
<1>2. faults = {} => TreeSound
  BY <1>1 DEF TreeInv, NoCycle, TreeSound
<1>3. TreeSound => ~Damaged
  BY DEF TreeSound, Damaged, NoLivingCycle
<1> QED BY <1>2, <1>3 DEF TreeInv, TreeExact

LEMMA NoCycleKept ==
  ASSUME NoCycle, parentMap' = parentMap
  PROVE  NoCycle'
<1>1. ASSUME NEW p \in Ids \cup {NoId} PROVE (Branch(p))' = Branch(p) /\ (Parent(p))' = Parent(p)
  BY DEF Branch, Parent
<1> QED BY <1>1 DEF NoCycle

\* The entities in K leave their parents.
LEMMA ParentsLost ==
  ASSUME TreeInv, faults = {}, TypeOK', NEW K \in SUBSET Ids,
         parentMap' = [d \in Ids |-> IF d \in K THEN NoId ELSE parentMap[d]]
  PROVE  NoCycle'
<1>1. TypeOK /\ NoCycle
  BY DEF TreeInv, StoreInv
<1>2. BranchesExact /\ BranchesExact'
  BY <1>1, BranchesAreExact, PTL
<1>3. Branch(NoId) \subseteq {NoId}
  <2>1. Closed({NoId})
    BY DEF Closed, Parent
  <2> QED BY <1>2, <2>1 DEF BranchesExact
<1>4. K \cap Branch(NoId) = {} /\ NoId \in Ids \cup {NoId}
  BY <1>3, ArchetypesAssumption
<1> QED BY <1>1, <1>2, <1>4, NewParent

\* The entities in K get the parent p.
LEMMA ParentsFound ==
  ASSUME TreeInv, faults = {}, TypeOK', NEW p \in Ids, NEW K \in SUBSET Ids, \A d \in K : d \notin Branch(p),
         parentMap' = [d \in Ids |-> IF d \in K THEN p ELSE parentMap[d]]
  PROVE  NoCycle'
<1>1. TypeOK /\ NoCycle
  BY DEF TreeInv, StoreInv
<1>2. BranchesExact /\ BranchesExact'
  BY <1>1, BranchesAreExact, PTL
<1>3. K \cap Branch(p) = {} /\ p \in Ids \cup {NoId}
  OBVIOUS
<1> QED BY <1>1, <1>2, <1>3, NewParent

\* The lists of children as functions, and their types.
LEMMA TreeOfStore ==
  ASSUME TreeInv, faults = {}
  PROVE  /\ StoreInv /\ TypeOK /\ ChildrenExact /\ NoCycle /\ NoId \notin Ids
         /\ Children(store) \in [Ids -> Seq(Ids)]
         /\ \A q \in Ids : Children(store)[q] = ChildIds(store, q)
         /\ parentMap \in [Ids -> Ids \cup {NoId}] /\ store.created \in SUBSET Ids
         /\ ListsExact(Children(store), parentMap, store.created)
<1>1. StoreInv /\ TypeOK /\ ChildrenExact /\ NoCycle /\ NoId \notin Ids
  BY Operating DEF TreeInv
<1>2. \A q \in Ids : ChildIds(store, q) \in Seq(Ids)
  BY <1>1, Operating, ComponentValues
<1>3. store.created \in SUBSET Ids /\ parentMap \in [Ids -> Ids \cup {NoId}]
  BY <1>1, StorageFields DEF TypeOK
<1>4. ListsExact(Children(store), parentMap, store.created)
  BY <1>1, ChildrenAreLists
<1> QED BY <1>1, <1>2, <1>3, <1>4 DEF Children

LEMMA TreeInvNext ==
  ASSUME StoreInv',
         faults' = {} => /\ NoCycle'
                         /\ ListsExact(Children(store'), parentMap', store'.created),
         faults' # {} /\ faults' \subseteq {"child", "list"} => Damaged'
  PROVE  TreeInv'
<1>1. TypeOK'
  BY DEF StoreInv
<1>2. (ChildrenExact <=> ListsExact(Children(store), parentMap, store.created))'
  BY <1>1, ChildrenAreLists, PTL
<1>3. faults' = {} => NoCycle' /\ ChildrenExact'
  BY <1>2
<1> QED BY <1>3 DEF TreeInv

\* Two ways in which a step damages the tree.
LEMMA ListsDamaged ==
  ASSUME StoreInv', ~ListsExact(Children(store'), parentMap', store'.created)
  PROVE  Damaged'
<1>1. TypeOK'
  BY DEF StoreInv
<1>2. (ChildrenExact <=> ListsExact(Children(store), parentMap, store.created))'
  BY <1>1, ChildrenAreLists, PTL
<1> QED BY <1>2 DEF Damaged

LEMMA CycleClosed ==
  ASSUME TreeInv, faults = {}, StoreInv', NEW p \in Ids, NEW K \in SUBSET Ids, NEW c \in K,
         c \in Branch(p), p \in store'.created,
         parentMap' = [d \in Ids |-> IF d \in K THEN p ELSE parentMap[d]]
  PROVE  Damaged'
<1> DEFINE All == Ids \cup {NoId}
<1>1. TypeOK /\ BranchesExact /\ BranchesExact'
  <2>1. TypeOK /\ TypeOK'
    BY DEF TreeInv, StoreInv
  <2> QED BY <2>1, BranchesAreExact, PTL
<1>2. /\ \A x \in All : Parent(x)' = IF x \in K THEN p ELSE Parent(x)
      /\ \A x \in All : Parent(x) \in All
  BY <1>1, ArchetypesAssumption DEF Parent, TypeOK
<1>3. PICK q \in All : q = IF p \in K THEN p ELSE Parent(p)
  BY <1>2
<1>4. Parent(p)' = q
  BY <1>2, <1>3
<1>5. PICK R \in SUBSET All : R = (Branch(q))'
  BY <1>1 DEF BranchesExact
<1>6. q \in R /\ \A x \in R : Parent(x)' \in R
  BY <1>1, <1>5 DEF BranchesExact, Closed
<1>7. p \in R
  <2> SUFFICES ASSUME p \notin R PROVE FALSE
    OBVIOUS
  <2>1. R \cap K = {} /\ p \notin K
    BY <1>2, <1>3, <1>6
  <2>2. q = Parent(p)
    BY <1>3, <2>1
  <2>3. \A x \in R : Parent(x) \in R
    BY <1>2, <1>6, <2>1
  <2>4. PICK V \in SUBSET All : V = R \cup {p}
    OBVIOUS
  <2>5. p \in V /\ Closed(V)
    BY <1>6, <2>2, <2>3, <2>4 DEF Closed
  <2>6. Branch(p) \subseteq V
    BY <1>1, <2>5 DEF BranchesExact
  <2> QED BY <2>1, <2>4, <2>6
<1>8. Created(store, p)'
  BY DEF Created
<1>9. ~(NoLivingCycle')
  BY <1>4, <1>5, <1>7, <1>8 DEF NoLivingCycle
<1> QED BY <1>9 DEF Damaged

LEMMA SameTreeKeeps ==
  ASSUME TreeInv, faults = {}, StoreInv', parentMap' = parentMap, faults' = {} => SameTree,
         faults' \subseteq {"child", "list"} => faults' = {}
  PROVE  TreeInv'
<1>1. NoCycle'
  BY TreeOfStore, NoCycleKept
<1>2. faults' = {} => ListsExact(Children(store'), parentMap', store'.created)
  BY TreeOfStore DEF SameTree
<1> QED BY <1>1, <1>2, TreeInvNext

LEMMA AdoptedKeeps ==
  ASSUME TreeInv, faults = {}, faults' = {}, StoreInv', NEW p \in Ids, NEW c \in Ids,
         Adopted(p, c)
  PROVE  TreeInv'
<1>1. NoCycle'
  <2>1. parentMap' = [d \in Ids |-> IF d \in {c} THEN p ELSE parentMap[d]]
    BY TreeOfStore DEF Adopted
  <2>2. \A d \in {c} : d \notin Branch(p)
    BY DEF Adopted
  <2>3. TypeOK'
    BY DEF StoreInv
  <2>4. PICK K \in SUBSET Ids : K = {c}
    OBVIOUS
  <2> QED BY <2>1, <2>2, <2>3, <2>4, ParentsFound
<1>2. PICK i \in 1..Len(Leaving(c)[p]) + 1 : Children(store') = Adopting(p, c, i)
  BY DEF Adopted
<1>3. Leaving(c) = [q \in Ids |-> Without(Children(store)[q], c)]
  BY TreeOfStore DEF Leaving
<1>4. i \in 1..Len(Without(Children(store)[p], c)) + 1
  BY <1>3
<1>5. ListsExact(Adopting(p, c, i), parentMap', store'.created)
  <2> DEFINE K == Children(store)
             L == [q \in Ids |-> Without(K[q], c)]
  <2>1. ListsExact([L EXCEPT ![p] = InsertAt(@, i, c)], [parentMap EXCEPT ![c] = p], store.created)
    <3> HIDE DEF K
    <3>1. /\ K \in [Ids -> Seq(Ids)] /\ parentMap \in [Ids -> Ids \cup {NoId}]
          /\ store.created \in SUBSET Ids /\ ListsExact(K, parentMap, store.created)
          /\ p \in store.created /\ c \in store.created
          /\ i \in 1..Len(Without(K[p], c)) + 1
      BY <1>4, TreeOfStore DEF Adopted, K
    <3> QED BY <3>1, AdoptedLists
  <2> QED BY <1>3, <2>1 DEF Adopting, Adopted
<1> QED BY <1>1, <1>2, <1>5, TreeInvNext

LEMMA CreateEntityTreeKeeps ==
  ASSUME TreeInv, faults = {}, StoreInv', NEW e \in Ids, CreateEntity(e)
  PROVE  TreeInv'
<1>1. parentMap' = parentMap /\ store' = CreateEntityNode(store, e)
  BY DEF CreateEntity
<1>2. NoCycle'
  BY <1>1, TreeOfStore, NoCycleKept
<1>3. store'.created = store.created \cup {e} /\ Children(store') = Children(store)
  BY <1>1, TreeOfStore, Operating, CreateEntityNodeExact, CreateEntityNodeChildren
<1>4. ASSUME faults' = {} PROVE ListsExact(Children(store'), parentMap', store'.created)
  <2>1. ~StaleParent(e) /\ e \notin store.created
    BY <1>4 DEF CreateEntity, Fault, Created
  <2>2. parentMap[e] # NoId => parentMap[e] \in store.created /\ e \in Range(ChildIds(store, parentMap[e]))
    BY <2>1 DEF StaleParent, IsChild, Created
  <2>3. parentMap[e] # NoId => e \in Range(Children(store)[parentMap[e]])
    BY <2>2, TreeOfStore
  <2> QED BY <1>1, <1>3, <2>2, <2>3, TreeOfStore DEF ListsExact
<1>5. ASSUME faults' # {} PROVE Damaged'
  <2> DEFINE q == parentMap[e]
             K == Children(store)
  <2>1. q # NoId /\ e \notin store.created /\ q \in Ids
        /\ ~(q \in store.created /\ e \in Range(K[q]))
    BY <1>5, TreeOfStore DEF CreateEntity, Fault, StaleParent, IsChild, Created
  <2>2. q # e
    <3>1. BranchesExact
      BY TreeOfStore, BranchesAreExact
    <3>2. Parent(e) = q /\ q \in Branch(q)
      BY <2>1, <3>1, ArchetypesAssumption DEF Parent, BranchesExact
    <3> QED BY <3>2, TreeOfStore DEF NoCycle
  <2>3. ~ListsExact(Children(store'), parentMap', store'.created)
    <3> HIDE DEF K
    <3>1. Children(store') = K /\ parentMap'[e] = q /\ e \in store'.created
          /\ (q \in store'.created => q \in store.created)
      BY <1>1, <1>3, <2>2 DEF K
    <3> HIDE DEF q
    <3> QED BY <2>1, <3>1 DEF ListsExact
  <2> QED BY <2>3, ListsDamaged
<1> QED BY <1>2, <1>4, <1>5, TreeInvNext

LEMMA RemoveChildTreeKeeps ==
  ASSUME TreeInv, faults = {}, StoreInv', NEW p \in Ids, NEW c \in Ids, RemoveChild(p, c)
  PROVE  TreeInv'
<1>1. /\ store'.created = store.created /\ Children(store') = Leaving(c)
      /\ parentMap' = [parentMap EXCEPT ![c] = NoId]
  BY TreeOfStore, RemoveChildTree
<1>2. NoCycle'
  <2>1. PICK K \in SUBSET Ids : K = {c}
    OBVIOUS
  <2>2. parentMap' = [d \in Ids |-> IF d \in K THEN NoId ELSE parentMap[d]]
    BY <1>1, <2>1, TreeOfStore
  <2>3. TypeOK'
    BY DEF StoreInv
  <2> QED BY <2>2, <2>3, ParentsLost
<1>3. Leaving(c) = [q \in Ids |-> Without(Children(store)[q], c)]
  BY TreeOfStore DEF Leaving
<1>4. ListsExact(Children(store'), parentMap', store'.created)
  <2> DEFINE K == Children(store)
  <2>1. /\ K \in [Ids -> Seq(Ids)] /\ parentMap \in [Ids -> Ids \cup {NoId}]
        /\ store.created \in SUBSET Ids /\ ListsExact(K, parentMap, store.created)
    BY TreeOfStore
  <2> HIDE DEF K
  <2>2. ListsExact([q \in Ids |-> Without(K[q], c)], [parentMap EXCEPT ![c] = NoId], store.created)
    BY <2>1, AbandonedLists
  <2> QED BY <1>1, <1>3, <2>2 DEF K
<1>5. faults' = {}
  BY DEF RemoveChild
<1> QED BY <1>2, <1>4, <1>5, TreeInvNext

\* An insertion that throws leaves a child that its parent does not list.
LEMMA InsertChildTreeKeeps ==
  ASSUME TreeInv, faults = {}, StoreInv', NEW p \in Ids, NEW c \in Ids, NEW i \in Int,
         InsertChild(p, c, i)
  PROVE  TreeInv'
<1>1. \/ faults' = {} /\ (Adopted(p, c) \/ SameTree)
      \/ /\ faults' # {} /\ store'.created = store.created /\ c \in store.created
         /\ Children(store') = Leaving(c) /\ parentMap' = [parentMap EXCEPT ![c] = p]
  BY TreeOfStore, InsertChildTree
<1>2. CASE faults' = {} /\ Adopted(p, c)
  BY <1>2, AdoptedKeeps
<1>3. CASE faults' = {} /\ SameTree
  BY <1>3, SameTreeKeeps DEF SameTree
<1>4. CASE /\ faults' # {} /\ store'.created = store.created /\ c \in store.created
           /\ Children(store') = Leaving(c) /\ parentMap' = [parentMap EXCEPT ![c] = p]
  <2> DEFINE left == Without(ChildIds(store, p), c)
  <2>1. Children(store')[p] = left
    BY <1>4 DEF Leaving
  <2>2. c \notin Range(left)
    <3>1. ChildIds(store, p) \in Seq(Ids) /\ IsInjective(ChildIds(store, p))
      BY TreeOfStore DEF ListsExact
    <3> QED BY <3>1, WithoutValues
  <2> HIDE DEF left
  <2>3. parentMap'[c] = p /\ c \in store'.created /\ p # NoId
    BY <1>4, TreeOfStore
  <2>4. ~ListsExact(Children(store'), parentMap', store'.created)
    BY <2>1, <2>2, <2>3 DEF ListsExact
  <2>5. Damaged'
    BY <2>4, ListsDamaged
  <2> QED BY <1>4, <2>5, TreeInvNext
<1> QED BY <1>1, <1>2, <1>3, <1>4

LEMMA LoadEntityTreeKeeps ==
  ASSUME TreeInv, faults = {}, faults' = {}, StoreInv', NEW p \in Ids, NEW ids \in ChildLists,
         LoadEntity(p, ids)
  PROVE  TreeInv'
<1> DEFINE K == Children(store)
<1>0. /\ store'.created = store.created \cup {p} /\ ids \in Seq(Ids)
      /\ Children(store') = IF ids = <<>> THEN K ELSE [K EXCEPT ![p] = ids]
  BY TreeOfStore, LoadEntityTree
<1>9. /\ IsInjective(ids) /\ Adoptees(p, ids) = Range(ids)
      /\ \A d \in Range(ids) : Parent(d) \in {NoId, p} /\ d \notin Branch(p)
  BY <1>0, TreeOfStore, LoadEntityAccepted
<1>1. /\ store'.created = store.created \cup {p} /\ ids \in Seq(Ids) /\ IsInjective(ids)
      /\ Children(store') = IF ids = <<>> THEN K ELSE [K EXCEPT ![p] = ids]
  BY <1>0, <1>9
<1>2. /\ parentMap' = [d \in Ids |-> IF d \in Range(ids) THEN p ELSE parentMap[d]]
      /\ \A d \in Range(ids) : Parent(d) \in {NoId, p} /\ d \notin Branch(p)
  BY <1>9 DEF LoadEntity
<1>3. Range(ids) \subseteq Ids
  BY <1>1 DEF Range
<1>4. NoCycle'
  <2>1. PICK S \in SUBSET Ids : S = Range(ids)
    BY <1>3
  <2>2. TypeOK'
    BY DEF StoreInv
  <2> QED BY <1>2, <2>1, <2>2, ParentsFound
<1>5. p \notin Range(ids)
  <2>1. BranchesExact
    BY TreeOfStore, BranchesAreExact
  <2> QED BY <1>2, <2>1 DEF BranchesExact
<1>6. ListsExact(Children(store'), parentMap', store'.created)
  <2>1. /\ ~StaleParent(p)
        /\ ids # <<>> => \A d \in store.created :
             d \in Range(ChildIds(CreateEntityNode(store, p), p)) => d \in Range(ids)
    BY DEF LoadEntity, Created
  <2>2. parentMap[p] # NoId => parentMap[p] \in store.created /\ p \in Range(K[parentMap[p]])
    <3>1. CASE p \in store.created
      BY <3>1, TreeOfStore DEF ListsExact
    <3>2. CASE p \notin store.created
      <4>1. parentMap[p] # NoId =>
              parentMap[p] \in store.created /\ p \in Range(ChildIds(store, parentMap[p]))
        BY <2>1, <3>2 DEF StaleParent, IsChild, Created
      <4> QED BY <4>1, TreeOfStore
    <3> QED BY <3>1, <3>2
  <2>3. CASE ids = <<>>
    <3>1. Range(ids) = {}
      BY <2>3 DEF Range
    <3>2. parentMap' = parentMap
      BY <1>2, <3>1, TreeOfStore
    <3> QED BY <1>1, <2>2, <2>3, <3>2, TreeOfStore DEF ListsExact
  <2>4. CASE ids # <<>>
    <3>1. \A d \in store.created : d \in Range(K[p]) => d \in Range(ids)
      <4>1. Children(CreateEntityNode(store, p)) = K
        BY TreeOfStore, Operating, CreateEntityNodeChildren
      <4>2. Children(CreateEntityNode(store, p))[p] = ChildIds(CreateEntityNode(store, p), p)
        BY DEF Children
      <4> QED BY <2>1, <2>4, <4>1, <4>2
    <3>2. \A d \in Range(ids) : parentMap[d] \in {NoId, p}
      BY <1>2, <1>3, TreeOfStore DEF Parent
    <3>3. /\ K \in [Ids -> Seq(Ids)] /\ parentMap \in [Ids -> Ids \cup {NoId}]
          /\ store.created \in SUBSET Ids /\ ListsExact(K, parentMap, store.created)
      BY TreeOfStore
    <3>6. parentMap[p] # p
      <4>1. BranchesExact
        BY TreeOfStore, BranchesAreExact
      <4>2. p \in Branch(p) /\ p # NoId
        BY <4>1, TreeOfStore DEF BranchesExact
      <4> QED BY <4>2, TreeOfStore DEF NoCycle, Parent
    <3> HIDE DEF K
    <3>4. /\ ids \in Seq(Ids) /\ IsInjective(ids)
          /\ \A d \in Range(ids) : parentMap[d] \in {NoId, p}
      BY <1>1, <3>2
    <3>5. ListsExact([K EXCEPT ![p] = ids],
                     [d \in Ids |-> IF d \in Range(ids) THEN p ELSE parentMap[d]],
                     store.created \cup {p})
      <4> DEFINE P == parentMap
                 C == store.created
      <4>1. /\ K \in [Ids -> Seq(Ids)] /\ P \in [Ids -> Ids \cup {NoId}]
            /\ C \in SUBSET Ids /\ ListsExact(K, P, C)
        BY <3>3
      <4>2. Loadable(K, P, C, p, ids)
        BY <1>5, <2>2, <3>1, <3>4, <3>6 DEF Loadable
      <4> HIDE DEF P, C
      <4>3. ListsExact([K EXCEPT ![p] = ids],
                       [d \in Ids |-> IF d \in Range(ids) THEN p ELSE P[d]], C \cup {p})
        BY <4>1, <4>2, LoadedLists
      <4> QED BY <4>3 DEF P, C
    <3> QED BY <1>1, <1>2, <2>4, <3>5
  <2> QED BY <2>3, <2>4
<1> QED BY <1>4, <1>6, TreeInvNext

\* A load that names a fault leaves lists and parents that do not agree, or a cycle.
LEMMA LoadEntityDamages ==
  ASSUME TreeInv, faults = {}, faults' # {}, StoreInv', NEW p \in Ids, NEW ids \in ChildLists,
         LoadEntity(p, ids)
  PROVE  Damaged'
<1> DEFINE K == Children(store)
           L == Children(store')
           A == Adoptees(p, ids)
<1>1. /\ store'.created = store.created \cup {p} /\ ids \in Seq(Ids)
      /\ L = IF ids = <<>> THEN K ELSE [K EXCEPT ![p] = ids]
  BY TreeOfStore, LoadEntityTree
<1>2. parentMap' = [d \in Ids |-> IF d \in A THEN p ELSE parentMap[d]]
  BY DEF LoadEntity
<1>3. A \subseteq Range(ids) /\ Range(ids) \subseteq Ids
  BY <1>1, AdopteesListed
<1>4. K \in [Ids -> Seq(Ids)] /\ NoId \notin Ids /\ parentMap \in [Ids -> Ids \cup {NoId}]
  BY TreeOfStore
<1>5. ids # <<>> => L[p] = ids
  BY <1>1, <1>4
<1>6. \A q \in Ids \ {p} : L[q] = K[q]
  BY <1>1, <1>4
<1>7. \A d \in Range(ids) : ids # <<>>
  BY DEF Range
<1>8. \A c \in A : c \in Branch(p) => Damaged'
  <2>1. p \in store'.created
    BY <1>1
  <2>2. PICK S \in SUBSET Ids : S = A
    BY <1>3
  <2>3. parentMap' = [d \in Ids |-> IF d \in S THEN p ELSE parentMap[d]]
    BY <1>2, <2>2
  <2> HIDE DEF A
  <2> QED BY <2>1, <2>2, <2>3, CycleClosed
<1>9. (~ListsExact(L, parentMap', store'.created)) => Damaged'
  BY ListsDamaged
<1>10. \A d \in Ids : parentMap'[d] = IF d \in A THEN p ELSE parentMap[d]
  BY <1>2
<1>11. \/ ~IsInjective(ids)
       \/ \E c \in Range(ids) : Throws(p, c)
       \/ StaleParent(p)
       \/ ids # <<>> /\ \E c \in Range(ChildIds(CreateEntityNode(store, p), p)) :
                           Created(store, c) /\ c \notin Range(ids)
  BY DEF LoadEntity
<1> HIDE DEF L
<1>12. CASE ~IsInjective(ids)
  <2>1. ids # <<>>
    BY <1>12 DEF IsInjective
  <2>2. ~ListsExact(L, parentMap', store'.created)
    BY <1>5, <1>12, <2>1 DEF ListsExact
  <2> QED BY <1>9, <2>2
<1>13. ASSUME NEW c \in Range(ids), Throws(p, c) PROVE Damaged'
  <2>1. c \in Ids /\ c \in Range(L[p])
    BY <1>3, <1>5, <1>7
  <2>2. Parent(c) = parentMap[c]
    BY <1>4, <2>1 DEF Parent
  <2>3. CASE OtherParent(p, c)
    <3>1. c \notin A /\ parentMap[c] # p
      BY <2>2, <2>3 DEF Adoptees, OtherParent
    <3>2. parentMap'[c] # p
      BY <1>10, <2>1, <3>1
    <3>3. ~ListsExact(L, parentMap', store'.created)
      BY <2>1, <3>2 DEF ListsExact
    <3> QED BY <1>9, <3>3
  <2>4. CASE HasCycle(p, c)
    <3>1. c \in Branch(p) /\ parentMap[c] = NoId
      BY <2>2, <2>4 DEF HasCycle, WouldCreateCycle
    <3>2. CASE c \in A
      BY <1>8, <3>1, <3>2
    <3>3. CASE c \notin A
      <4>1. parentMap'[c] # p
        BY <1>4, <1>10, <2>1, <3>1, <3>3
      <4>2. ~ListsExact(L, parentMap', store'.created)
        BY <2>1, <4>1 DEF ListsExact
      <4> QED BY <1>9, <4>2
    <3> QED BY <3>2, <3>3
  <2> QED BY <1>13, <2>3, <2>4 DEF Throws
<1>14. CASE StaleParent(p)
  <2> DEFINE q == parentMap[p]
  <2>1. q # NoId /\ p \notin store.created /\ q \in Ids
        /\ ~(q \in store.created /\ p \in Range(K[q]))
    BY <1>14, TreeOfStore DEF StaleParent, IsChild, Created
  <2>2. BranchesExact
    BY TreeOfStore, BranchesAreExact
  <2>3. p \in Branch(p)
    BY <2>2 DEF BranchesExact
  <2>4. q # p
    BY <2>1, <2>3, TreeOfStore DEF NoCycle, Parent
  <2>5. CASE p \in A
    BY <1>8, <2>3, <2>5
  <2>6. CASE p \notin A
    <3>1. parentMap'[p] = q /\ p \in store'.created /\ L[q] = K[q]
          /\ (q \in store'.created => q \in store.created)
      BY <1>1, <1>6, <1>10, <2>1, <2>4, <2>6
    <3> HIDE DEF q, K
    <3>2. ~ListsExact(L, parentMap', store'.created)
      BY <2>1, <3>1 DEF ListsExact
    <3> QED BY <1>9, <3>2
  <2> QED BY <2>5, <2>6
<1>15. ASSUME ids # <<>>, NEW c \in Range(ChildIds(CreateEntityNode(store, p), p)),
              Created(store, c), c \notin Range(ids)
       PROVE  Damaged'
  <2>1. c \in Range(K[p]) /\ c \in store.created
    <3>1. Children(CreateEntityNode(store, p)) = K
      BY TreeOfStore, Operating, CreateEntityNodeChildren
    <3>2. Children(CreateEntityNode(store, p))[p] = ChildIds(CreateEntityNode(store, p), p)
      BY DEF Children
    <3> QED BY <1>15, <3>1, <3>2 DEF Created
  <2>2. parentMap[c] = p /\ c \in Ids
    BY <2>1, TreeOfStore DEF ListsExact
  <2>3. parentMap'[c] = p /\ c \in store'.created /\ c \notin Range(L[p])
    BY <1>1, <1>5, <1>10, <1>15, <2>1, <2>2
  <2>4. ~ListsExact(L, parentMap', store'.created)
    BY <1>4, <2>3 DEF ListsExact
  <2> QED BY <1>9, <2>4
<1> QED BY <1>11, <1>12, <1>13, <1>14, <1>15

LEMMA FinishDeleteTreeKeeps ==
  ASSUME TreeInv, faults = {}, StoreInv', FinishDelete
  PROVE  TreeInv'
<1> DEFINE e == deleting.id
<1>1. parentMap' = [d \in Ids |-> IF d \in Range(ChildIds(store, e)) THEN NoId ELSE parentMap[d]]
  BY DEF FinishDelete
<1>2. e \in Ids
  <2>1. deleting.id # NoId
    BY DEF FinishDelete, TreeInv, StoreInv, DeletingExists
  <2> QED BY <2>1, TreeOfStore, DeletingFields
<1>3. NoCycle'
  <2>1. PICK S \in SUBSET Ids : S = Range(ChildIds(store, e))
    <3>1. ChildIds(store, e) \in Seq(Ids)
      <4> HIDE DEF e
      <4> QED BY <1>2, TreeOfStore, Operating, ComponentValues
    <3> DEFINE ids == ChildIds(store, e)
    <3>2. ids \in Seq(Ids)
      BY <3>1
    <3> HIDE DEF ids
    <3>3. Range(ids) \in SUBSET Ids
      BY <3>2 DEF Range
    <3> QED BY <3>3 DEF ids
  <2>2. TypeOK'
    BY DEF StoreInv
  <2> QED BY <1>1, <2>1, <2>2, ParentsLost
<1>4. ASSUME faults' = {} PROVE ListsExact(Children(store'), parentMap', store'.created)
  <2>1. /\ e \in store.created /\ store'.created = store.created \ {e}
        /\ Children(store') = [q \in Ids |-> IF q = e THEN <<>> ELSE Without(ChildIds(store, q), e)]
    BY <1>4, TreeOfStore, FinishDeleteTree
  <2> HIDE DEF e
  <2>2. [q \in Ids |-> IF q = e THEN <<>> ELSE Without(ChildIds(store, q), e)]
        = [q \in Ids |-> IF q = e THEN <<>> ELSE Without(Children(store)[q], e)]
    BY TreeOfStore
  <2>3. parentMap' = [d \in Ids |-> IF d \in Range(Children(store)[e]) THEN NoId ELSE parentMap[d]]
    BY <1>1, <1>2, TreeOfStore
  <2> DEFINE K == Children(store)
  <2>4. /\ K \in [Ids -> Seq(Ids)] /\ parentMap \in [Ids -> Ids \cup {NoId}]
        /\ store.created \in SUBSET Ids /\ ListsExact(K, parentMap, store.created)
    BY TreeOfStore
  <2> HIDE DEF K
  <2>5. ListsExact([q \in Ids |-> IF q = e THEN <<>> ELSE Without(K[q], e)],
                   [d \in Ids |-> IF d \in Range(K[e]) THEN NoId ELSE parentMap[d]],
                   store.created \ {e})
    BY <2>1, <2>4, DeletedLists
  <2> QED BY <2>1, <2>2, <2>3, <2>5 DEF K
<1>5. faults' \subseteq {"child", "list"} => faults' = {}
  BY DEF FinishDelete
<1> QED BY <1>3, <1>4, <1>5, TreeInvNext

LEMMA InitTreeInv == Init => TreeInv
<1> SUFFICES ASSUME Init PROVE TreeInv
  OBVIOUS
<1>1. StoreInv /\ TypeOK /\ NoId \notin Ids
  BY InitStoreInv, ArchetypesAssumption DEF StoreInv
<1>2. \A e \in Ids \cup {NoId} : Parent(e) = NoId
  BY DEF Init, Parent
<1>3. NoCycle
  <2>1. Branch(NoId) \subseteq {NoId}
    <3>1. BranchesExact /\ Closed({NoId})
      BY <1>1, BranchesAreExact DEF Closed, Parent
    <3> QED BY <3>1 DEF BranchesExact
  <2> QED BY <1>1, <1>2, <2>1 DEF NoCycle
<1>4. \A p \in Ids : ChildIds(store, p) = <<>> /\ ~Created(store, p)
  BY DEF Init, NoEntities, ChildIds, HasComponent, Created
<1>5. IsInjective(<<>>) /\ Range(<<>>) = {}
  BY DEF IsInjective, Range
<1>6. ChildrenExact
  BY <1>4, <1>5 DEF ChildrenExact
<1> QED BY <1>1, <1>3, <1>6 DEF TreeInv, Init

LEMMA StepTreeInv == TreeInv /\ [Next]_vars => TreeInv'
<1> SUFFICES ASSUME TreeInv, [Next]_vars PROVE TreeInv'
  OBVIOUS
<1>1. StoreInv /\ StoreInv'
  BY StepStoreInv DEF TreeInv
<1>2. CASE faults = {} /\ Operation
  <2> USE <1>1, <1>2
  <2>1. ASSUME NEW e \in Ids, CreateEntity(e) PROVE TreeInv'
    BY <2>1, CreateEntityTreeKeeps
  <2>2. ASSUME NEW e \in Ids, NEW c \in Ids, AddChild(e, c) PROVE TreeInv'
    BY <2>2, TreeOfStore, AddChildTree, AdoptedKeeps DEF AddChild
  <2>3. ASSUME NEW e \in Ids, NEW c \in Ids, RemoveChild(e, c) PROVE TreeInv'
    BY <2>3, RemoveChildTreeKeeps
  <2>4. ASSUME NEW e \in Ids, NEW c \in Ids, NEW i \in -1..Cardinality(Ids) - 1, InsertChild(e, c, i)
        PROVE  TreeInv'
    <3>1. i \in Int
      BY EntityStoreAssumption, FS_CardinalityType
    <3> QED BY <2>4, <3>1, InsertChildTreeKeeps
  <2>5. ASSUME NEW e \in Ids, NEW ids \in ChildLists, LoadEntity(e, ids) PROVE TreeInv'
    <3>1. CASE faults' = {}
      BY <2>5, <3>1, LoadEntityTreeKeeps
    <3>2. CASE faults' # {}
      BY <2>5, <3>2, LoadEntityDamages, TreeInvNext
    <3> QED BY <3>1, <3>2
  <2>6. CASE FinishDelete
    BY <2>6, FinishDeleteTreeKeeps
  <2>7. ASSUME
          \/ \E e \in Ids :
               \/ RemoveLink(e) \/ DeleteEntity(e)
               \/ \E type \in Others : AddComponent(e, type) \/ RemoveComponent(e, type)
               \/ \E t \in Ids : AddLink(e, t) \/ AddRelation(e, t) \/ RemoveRelation(e, t)
          \/ DeleteRelation \/ CollectLinks \/ DeleteLinkToEntity \/ DeleteRelationToEntity
        PROVE  TreeInv'
    <3>1. parentMap' = parentMap
      BY <2>7 DEF RemoveLink, DeleteEntity, AddComponent, RemoveComponent, AddLink, AddRelation,
           RemoveRelation, DeleteRelation, CollectLinks, DeleteLinkToEntity, DeleteRelationToEntity
    <3>2. faults' = {} => SameTree
      BY <2>7, OtherOperationsTree
    <3>3. faults' \subseteq {"child", "list"} => faults' = {}
      <4>1. ASSUME NEW x, NEW r, RemoveEntityRelation(x, r) PROVE faults' \in {{}, {"row"}}
        BY <4>1 DEF RemoveEntityRelation, Fault
      <4>2. ASSUME NEW x, NEW t, RemoveRelation(x, t) PROVE faults' \in {{}, {"row"}}
        BY <4>1, <4>2 DEF RemoveRelation, RemoveRelationTo
      <4>3. DeleteRelation \/ DeleteRelationToEntity => faults' \in {{}, {"row"}}
        BY <4>1 DEF DeleteRelation, DeleteRelationToEntity, RemoveRelationTo
      <4>4. faults' \in {{}, {"row"}}
        BY <2>7, <4>2, <4>3 DEF RemoveLink, DeleteEntity, AddComponent, RemoveComponent, AddLink,
             AddRelation, CollectLinks, DeleteLinkToEntity
      <4> QED BY <4>4
    <3> QED BY <3>1, <3>2, <3>3, SameTreeKeeps
  <2> QED BY <2>1, <2>2, <2>3, <2>4, <2>5, <2>6, <2>7 DEF Operation
<1>3. CASE UNCHANGED vars
  <2>1. parentMap' = parentMap /\ store' = store /\ faults' = faults
    BY <1>3 DEF vars
  <2>2. NoCycle => NoCycle'
    BY <2>1, NoCycleKept
  <2>3. ChildrenExact' <=> ChildrenExact
    BY <2>1 DEF ChildrenExact, Created, IsChild, ChildIds, RowOf, HasComponent
  <2>4. NoLivingCycle' <=> NoLivingCycle
    BY <2>1 DEF NoLivingCycle, Created, Branch, Parent
  <2> QED BY <1>1, <2>1, <2>2, <2>3, <2>4 DEF TreeInv, Damaged
<1> QED BY <1>2, <1>3 DEF Next, Stopped

\* Whatever the application does with children, whichever entities are deleted and created
\* again and whatever lists of children are loaded: as long as no step of the tree has
\* failed, the child lists and the parents agree, no entity is twice in a list and no
\* living entity is above itself; and each of the steps named as faults, the loads and the
\* insertions that throw among them, leaves a store in which one of these is wrong
\* (NodeTree.cs, StoreExtension.parentMap, SetChildParents(), WouldCreateCycle()).
THEOREM TreeCorrect == Spec => [](StoreInv /\ TreeExact)
<1>1. TreeInv => StoreInv /\ TreeExact
  BY TreeInvExact DEF TreeInv
<1> QED BY <1>1, InitTreeInv, StepTreeInv, PTL DEF Spec

-----------------------------------------------------------------------------
(* The map of entities                                                     *)

\* Only an entity that is alive has relations; the last step of a deletion leaves none.
RelatedLive == \A e \in Ids : positionMap[e] # {} => e \in store.created

\* The inductive invariant of the refinement: all the parts of the store at once.
EntitiesInv ==
  /\ RelationsInv /\ LinksInv /\ TreeInv
  /\ faults = {} => RelatedLive

\* The relations of the map of entities.
RelatedTo == [e \in Ids |-> {t \in Ids : Related(e, t)}]

LEMMA RelationTargets ==
  TypeOK /\ PositionsExact =>
    [e \in Ids |-> {relationRows[p].target : p \in positionMap[e]}] = RelatedTo
<1> SUFFICES ASSUME TypeOK, PositionsExact, NEW e \in Ids
             PROVE  {relationRows[p].target : p \in positionMap[e]} = {t \in Ids : Related(e, t)}
  BY DEF RelatedTo
<1>1. ASSUME NEW p \in positionMap[e] PROVE relationRows[p].target \in Ids
  <2>1. p \in 1..Len(relationRows)
    BY DEF PositionsExact
  <2> QED BY <2>1, RelationTypes DEF RelationRow
<1>2. \A t : Related(e, t) <=> \E p \in positionMap[e] : relationRows[p].target = t
  BY DEF Related, FindRelationPosition
<1> QED BY <1>1, <1>2

LEMMA RelationTargetsNext ==
  TypeOK' /\ PositionsExact' =>
    [e \in Ids |-> {relationRows'[p].target : p \in positionMap'[e]}] = RelatedTo'
<1>1. (TypeOK /\ PositionsExact =>
         [e \in Ids |-> {relationRows[p].target : p \in positionMap[e]}] = RelatedTo)'
  BY RelationTargets, PTL
<1> QED BY <1>1

\* What the parts of the invariant say while there is no fault.
LEMMA EntitiesParts ==
  ASSUME EntitiesInv, faults = {}
  PROVE  /\ StoreInv /\ TypeOK /\ PositionsExact /\ LinkEntitiesExact /\ RelationsOnce
         /\ DeletedUnrelated /\ ChildrenExact /\ LinksCollected /\ RelatedLive
         /\ LinksHaveTargets(store) /\ IndexExact(Index, Targets(store), deleting.id)
         /\ ListsExact(Children(store), parentMap, store.created)
         /\ Children(store) \in [Ids -> Seq(Ids)]
         /\ \A q \in Ids : Children(store)[q] = ChildIds(store, q)
         /\ \A e : Ready(e) => e \in store.created
         /\ NoId \notin Ids /\ store.created \in SUBSET Ids
<1>1. /\ StoreInv /\ RelationsInv /\ LinksInv /\ TreeInv /\ RelatedLive
  BY DEF EntitiesInv, RelationsInv
<1>2. \A e : Ready(e) => e \in store.created
  BY DEF Ready, Created
<1>3. /\ PositionsExact /\ LinkEntitiesExact /\ RelationsOnce /\ DeletedUnrelated
  BY <1>1, RelationsParts
<1>4. /\ LinksCollected /\ LinksHaveTargets(store)
      /\ IndexExact(Index, Targets(store), deleting.id)
  BY <1>1 DEF LinksInv
<1> QED BY <1>1, <1>2, <1>3, <1>4, TreeOfStore

\* An entity that is put into a list is the only one that is new in it.
LEMMA InsertedWithout ==
  ASSUME NEW ids \in Seq(Ids), IsInjective(ids), NEW i \in 1..Len(ids) + 1,
         NEW c \in Ids, c \notin Range(ids)
  PROVE  Without(InsertAt(ids, i, c), c) = ids
<1> DEFINE s == InsertAt(ids, i, c)
<1>1. s \in Seq(Ids) /\ IsInjective(s)
  BY InsertValues
<1>2. s = [j \in 1..Len(ids) + 1 |-> IF j < i THEN ids[j] ELSE IF j = i THEN c ELSE ids[j - 1]]
  BY InsertedAt
<1> HIDE DEF s
<1>3. /\ Len(s) = Len(ids) + 1 /\ s[i] = c
      /\ \A j \in 1..Len(ids) : s[IF j < i THEN j ELSE j + 1] = ids[j]
  <2>1. Len(s) = Len(ids) + 1 /\ s[i] = c
    BY <1>1, <1>2
  <2>2. ASSUME NEW j \in 1..Len(ids) PROVE s[IF j < i THEN j ELSE j + 1] = ids[j]
    <3>1. CASE j < i
      BY <1>2, <3>1
    <3>2. CASE ~(j < i)
      <4>1. j + 1 \in 1..Len(ids) + 1 /\ ~(j + 1 < i) /\ j + 1 # i /\ (j + 1) - 1 = j
        BY <3>2
      <4>2. s[j + 1] = ids[(j + 1) - 1]
        BY <1>2, <4>1
      <4> QED BY <3>2, <4>1, <4>2
    <3> QED BY <3>1, <3>2
  <2> QED BY <2>1, <2>2
<1>4. i \in 1..Len(s)
  BY <1>3
<1>5. Without(s, c) = [j \in 1..Len(s) - 1 |-> IF j < i THEN s[j] ELSE s[j + 1]]
  BY <1>1, <1>3, <1>4, WithoutValues
<1>6. Len(s) - 1 = Len(ids)
  BY <1>3
<1>7. Without(s, c) = [j \in 1..Len(ids) |-> ids[j]]
  <2>1. \A j \in 1..Len(ids) : (IF j < i THEN s[j] ELSE s[j + 1]) = ids[j]
    BY <1>3
  <2> QED BY <1>5, <1>6, <2>1
<1> QED BY <1>7 DEF s

\* The parts of the invariant are kept by every step.
LEMMA StepParts ==
  EntitiesInv /\ [Next]_vars => RelationsInv' /\ LinksInv' /\ TreeInv'
BY StepRelationsInv, StepLinksInv, StepTreeInv DEF EntitiesInv

\* A step between two states without a fault, both with exact positions.
Exactly ==
  /\ EntitiesInv /\ faults = {} /\ faults' = {}
  /\ StoreInv' /\ TypeOK' /\ PositionsExact' /\ NoId \notin Ids

LEMMA StepExactly ==
  ASSUME EntitiesInv, [Next]_vars, faults = {}, faults' = {}
  PROVE  Exactly
<1>1. RelationsInv'
  BY StepParts
<1>2. StoreInv' /\ PositionsExact'
  BY <1>1, RelationsPartsNext
<1>3. TypeOK'
  BY <1>2 DEF StoreInv
<1> QED BY <1>2, <1>3, ArchetypesAssumption DEF Exactly

LEMMA RelatedKept ==
  ASSUME UNCHANGED relationVars
  PROVE  RelatedTo' = RelatedTo
<1>1. \A e, t : Related(e, t)' <=> Related(e, t)
  BY DEF Related, FindRelationPosition, relationVars
<1> QED BY <1>1 DEF RelatedTo

\* The variables of the map of entities, read in the store.
LEMMA MappedRelations ==
  ASSUME Exactly
  PROVE  /\ [e \in Ids |-> {relationRows[p].target : p \in positionMap[e]}] = RelatedTo
         /\ [e \in Ids |-> {relationRows'[p].target : p \in positionMap'[e]}] = RelatedTo'
BY EntitiesParts, RelationTargets, RelationTargetsNext DEF Exactly

LEMMA SameRange == \A s : Entities!Range(s) = Range(s)
BY DEF Entities!Range, Range

LEMMA MappedStutter ==
  ASSUME Exactly, store'.created = store.created, SameLinks(store, store', {}),
         RelatedTo' = RelatedTo, Children(store') = Children(store)
  PROVE  UNCHANGED Entities!vars
<1>1. [e \in Ids |-> LinkOf(store', e)] = [e \in Ids |-> LinkOf(store, e)]
  BY DEF SameLinks
<1>2. [e \in Ids |-> ChildIds(store', e)] = [e \in Ids |-> ChildIds(store, e)]
  BY DEF Children
<1>3. (faults' = {}) = (faults = {})
  BY DEF Exactly
<1> QED BY <1>1, <1>2, <1>3, MappedRelations DEF Entities!vars

LEMMA MappedCreate ==
  ASSUME Exactly, NEW e \in Ids, e \notin store.created,
         store'.created = store.created \cup {e}, SameLinks(store, store', {}),
         RelatedTo' = RelatedTo, Children(store') = Children(store)
  PROVE  Entities!Create(e)
<1>1. [x \in Ids |-> LinkOf(store', x)] = [x \in Ids |-> LinkOf(store, x)]
  BY DEF SameLinks
<1>2. [x \in Ids |-> ChildIds(store', x)] = [x \in Ids |-> ChildIds(store, x)]
  BY DEF Children
<1> QED BY <1>1, <1>2, MappedRelations DEF Entities!Create

LEMMA MappedLink ==
  ASSUME Exactly, NEW e \in store.created, store'.created = store.created,
         SameLinks(store, store', {e}), RelatedTo' = RelatedTo, Children(store') = Children(store)
  PROVE  Entities!Link(e)
<1>1. \A o \in Ids \ {e} : [x \in Ids |-> LinkOf(store', x)][o] = [x \in Ids |-> LinkOf(store, x)][o]
  BY DEF SameLinks
<1>2. [x \in Ids |-> ChildIds(store', x)] = [x \in Ids |-> ChildIds(store, x)]
  BY DEF Children
<1> QED BY <1>1, <1>2, MappedRelations DEF Entities!Link

LEMMA MappedRelate ==
  ASSUME Exactly, NEW e \in store.created, store' = store,
         \A o \in Ids \ {e} : RelatedTo'[o] = RelatedTo[o]
  PROVE  Entities!Relate(e)
BY MappedRelations DEF Entities!Relate

LEMMA MappedLoad ==
  ASSUME Exactly, NEW p \in Ids, store'.created = store.created \cup {p},
         SameLinks(store, store', {}), RelatedTo' = RelatedTo,
         \A q \in Ids \ {p} : /\ ChildIds(store', q) = ChildIds(store, q)
                              /\ Range(ChildIds(store, q)) \cap Range(ChildIds(store', p)) = {}
  PROVE  Entities!Load(p)
<1>1. [x \in Ids |-> LinkOf(store', x)] = [x \in Ids |-> LinkOf(store, x)]
  BY DEF SameLinks
<1>2. \A q \in Ids : /\ [x \in Ids |-> ChildIds(store', x)][q] = ChildIds(store', q)
                     /\ [x \in Ids |-> ChildIds(store, x)][q] = ChildIds(store, q)
  OBVIOUS
<1> QED BY <1>1, <1>2, MappedRelations, SameRange DEF Entities!Load

LEMMA MappedAbandon ==
  ASSUME Exactly, NEW c \in Ids, store'.created = store.created,
         SameLinks(store, store', {}), RelatedTo' = RelatedTo, Children(store') = Leaving(c)
  PROVE  Entities!Abandon(c)
<1>1. [x \in Ids |-> LinkOf(store', x)] = [x \in Ids |-> LinkOf(store, x)]
  BY DEF SameLinks
<1>2. [x \in Ids |-> ChildIds(store', x)] = [q \in Ids |-> Without(ChildIds(store, q), c)]
  BY DEF Children, Leaving
<1>3. \A s : Entities!Without(s, c) = Without(s, c)
  BY SameRange DEF Entities!Without, Entities!RemoveAt, Without, RemoveAt
<1> QED BY <1>1, <1>2, <1>3, MappedRelations DEF Entities!Abandon

LEMMA MappedAdopt ==
  ASSUME Exactly, NEW p \in Ids, NEW c \in Ids, Adopted(p, c),
         SameLinks(store, store', {}), RelatedTo' = RelatedTo
  PROVE  Entities!Adopt(p)
<1> DEFINE left == Without(ChildIds(store, p), c)
<1>1. /\ p \in store.created /\ c \in store.created /\ store'.created = store.created
  BY DEF Adopted
<1>2. PICK i \in 1..Len(Leaving(c)[p]) + 1 : Children(store') = Adopting(p, c, i)
  BY DEF Adopted
<1>3. Leaving(c)[p] = left /\ \A q \in Ids : Leaving(c)[q] = Without(ChildIds(store, q), c)
  BY DEF Leaving
<1>4. left \in Seq(Ids) /\ IsInjective(left) /\ c \notin Range(left)
  <2>1. ChildIds(store, p) \in Seq(Ids) /\ IsInjective(ChildIds(store, p))
    BY EntitiesParts DEF Exactly, ListsExact
  <2> QED BY <2>1, WithoutValues
<1> HIDE DEF left
<1>5. /\ ChildIds(store', p) = InsertAt(left, i, c)
      /\ \A q \in Ids \ {p} : ChildIds(store', q) = Without(ChildIds(store, q), c)
  <2>1. \A q \in Ids : ChildIds(store', q) = Adopting(p, c, i)[q]
    BY <1>2 DEF Children
  <2>2. \A q \in Ids : Adopting(p, c, i)[q] = IF q = p THEN InsertAt(Leaving(c)[q], i, c)
                                              ELSE Leaving(c)[q]
    BY DEF Adopting, Leaving
  <2> QED BY <1>3, <2>1, <2>2
<1>6. i \in 1..Len(left) + 1
  BY <1>2, <1>3
<1>7. Without(ChildIds(store', p), c) = left
  BY <1>4, <1>5, <1>6, InsertedWithout
<1>8. i \in DOMAIN ChildIds(store', p) /\ ChildIds(store', p)[i] = c /\ ChildIds(store', p) # <<>>
  <2>1. InsertAt(left, i, c) = [j \in 1..Len(left) + 1 |->
              IF j < i THEN left[j] ELSE IF j = i THEN c ELSE left[j - 1]]
    BY <1>4, <1>6, InsertedAt
  <2>2. i \in DOMAIN InsertAt(left, i, c) /\ InsertAt(left, i, c)[i] = c
    BY <1>6, <2>1
  <2>3. DOMAIN <<>> = {}
    OBVIOUS
  <2> QED BY <1>5, <2>2, <2>3
<1>9. [x \in Ids |-> LinkOf(store', x)] = [x \in Ids |-> LinkOf(store, x)]
  BY DEF SameLinks
<1>10. \A s : Entities!Without(s, c) = Without(s, c)
  BY SameRange DEF Entities!Without, Entities!RemoveAt, Without, RemoveAt
<1>11. \A q \in Ids : /\ [x \in Ids |-> ChildIds(store', x)][q] = ChildIds(store', q)
                      /\ [x \in Ids |-> ChildIds(store, x)][q] = ChildIds(store, q)
  OBVIOUS
<1> DEFINE K == [x \in Ids |-> ChildIds(store, x)]
           L == [x \in Ids |-> ChildIds(store', x)]
<1>12. /\ i \in DOMAIN L[p] /\ L[p][i] = c /\ L[p] # <<>>
       /\ Entities!Without(L[p], c) = Entities!Without(K[p], c)
       /\ \A q \in Ids \ {p} : L[q] = Entities!Without(K[q], c)
  BY <1>5, <1>7, <1>8, <1>10, <1>11 DEF left
<1>13. K' = L
  OBVIOUS
<1> HIDE DEF L
<1>14. /\ L[p] # <<>>
       /\ \E j \in DOMAIN L[p] :
            /\ L[p][j] \in store.created
            /\ Entities!Without(L[p], L[p][j]) = Entities!Without(K[p], L[p][j])
            /\ \A q \in Ids \ {p} : L[q] = Entities!Without(K[q], L[p][j])
  BY <1>1, <1>12
<1> HIDE DEF K
<1> QED BY <1>1, <1>9, <1>13, <1>14, MappedRelations DEF Entities!Adopt, K

LEMMA MappedDelete ==
  ASSUME Exactly, NEW e \in store.created, store'.created = store.created \ {e},
         SameLinks(store, store', {e}), LinkOf(store', e) = NoId,
         \A o \in Ids \ {e} : LinkOf(store, o) # e /\ e \notin RelatedTo[o],
         RelatedTo' = [RelatedTo EXCEPT ![e] = {}],
         Children(store') = [q \in Ids |-> IF q = e THEN <<>> ELSE Without(ChildIds(store, q), e)]
  PROVE  Entities!Delete(e)
<1>1. [x \in Ids |-> LinkOf(store', x)] = [[x \in Ids |-> LinkOf(store, x)] EXCEPT ![e] = NoId]
  BY DEF SameLinks
<1>2. [x \in Ids |-> ChildIds(store', x)]
        = [q \in Ids |-> IF q = e THEN <<>> ELSE Without(ChildIds(store, q), e)]
  BY DEF Children
<1>3. \A s : Entities!Without(s, e) = Without(s, e)
  BY SameRange DEF Entities!Without, Entities!RemoveAt, Without, RemoveAt
<1>4. \A o \in Ids \ {e} : [x \in Ids |-> LinkOf(store, x)][o] # e
  OBVIOUS
<1>5. \A o \in Ids \ {e} : e \notin RelatedTo[o]
  OBVIOUS
<1>6. [q \in Ids |-> IF q = e THEN <<>> ELSE Without(ChildIds(store, q), e)]
        = [q \in Ids |-> IF q = e THEN <<>>
                         ELSE Entities!Without([x \in Ids |-> ChildIds(store, x)][q], e)]
  BY <1>3
<1> QED BY <1>1, <1>2, <1>4, <1>5, <1>6, MappedRelations DEF Entities!Delete

-----------------------------------------------------------------------------
(* The operations of the map                                               *)

\* An operation that leaves the relations alone and deletes nobody.
LEMMA RelatedLiveKept ==
  ASSUME RelatedLive, UNCHANGED relationVars, store.created \subseteq store'.created
  PROVE  RelatedLive'
BY DEF RelatedLive, relationVars

\* A step of the store is one of the map, and no entity that is gone has relations.
Mapped == [Entities!Next]_(Entities!vars) /\ RelatedLive'

LEMMA CreateEntityMapped ==
  ASSUME Exactly, NEW e \in Ids, CreateEntity(e)
  PROVE  Mapped
<1>1. StoreInv /\ faults = {} /\ RelatedLive /\ ListsExact(Children(store), parentMap, store.created)
  BY EntitiesParts DEF Exactly
<1>2. e \notin store.created /\ store' = CreateEntityNode(store, e) /\ UNCHANGED relationVars
  BY DEF CreateEntity, Created
<1>3. store'.created = store.created \cup {e} /\ Children(store') = Children(store)
  BY <1>1, <1>2, Operating, CreateEntityNodeExact, CreateEntityNodeChildren
<1>4. SameLinks(store, store', {})
  BY <1>1, OtherOperationsSameLinks
<1>5. Entities!Create(e)
  BY <1>2, <1>3, <1>4, RelatedKept, MappedCreate
<1>6. RelatedLive'
  BY <1>1, <1>2, <1>3, RelatedLiveKept
<1> QED BY <1>5, <1>6 DEF Mapped, Entities!Next, Entities!Step

LEMMA LinkOperationsMapped ==
  ASSUME Exactly, NEW e \in Ids, RemoveLink(e) \/ \E t \in Ids : AddLink(e, t)
  PROVE  Mapped
<1>1. StoreInv /\ faults = {} /\ faults' = {} /\ RelatedLive /\ (Ready(e) => e \in store.created)
  BY EntitiesParts DEF Exactly
<1>2. e \in store.created /\ UNCHANGED relationVars
  BY <1>1 DEF RemoveLink, AddLink
<1>3. SameTree
  BY <1>1, OtherOperationsTree
<1>4. SameLinks(store, store', {e})
  <2>1. CASE RemoveLink(e)
    BY <1>1, <1>2, <2>1, LinkRemoved DEF RemoveLink
  <2>2. CASE \E t \in Ids : AddLink(e, t)
    BY <1>1, <2>2, LinkAssigned
  <2> QED BY <2>1, <2>2
<1>5. store'.created = store.created /\ Children(store') = Children(store)
  BY <1>3 DEF SameTree
<1>6. Entities!Link(e)
  BY <1>2, <1>4, <1>5, RelatedKept, MappedLink
<1>7. RelatedLive'
  BY <1>1, <1>2, <1>5, RelatedLiveKept
<1> QED BY <1>2, <1>6, <1>7, StorageFields DEF Mapped, Entities!Next, Entities!Step

\* The operations that the map does not see.
LEMMA StutterMapped ==
  ASSUME Exactly,
         \/ \E e \in Ids : \/ DeleteEntity(e)
                           \/ \E type \in Others : AddComponent(e, type) \/ RemoveComponent(e, type)
         \/ CollectLinks
  PROVE  Mapped
<1>1. StoreInv /\ faults = {} /\ faults' = {} /\ RelatedLive
  BY EntitiesParts DEF Exactly
<1>2. UNCHANGED relationVars
  BY DEF DeleteEntity, AddComponent, RemoveComponent, CollectLinks
<1>3. SameTree
  BY <1>1, OtherOperationsTree
<1>4. SameLinks(store, store', {})
  <2>1. CASE CollectLinks \/ \E e \in Ids : DeleteEntity(e)
    BY <2>1 DEF CollectLinks, DeleteEntity, SameLinks
  <2>2. CASE \E e \in Ids, type \in Others : AddComponent(e, type) \/ RemoveComponent(e, type)
    BY <1>1, <2>2, OtherOperationsSameLinks
  <2> QED BY <2>1, <2>2
<1>5. store'.created = store.created /\ Children(store') = Children(store)
  BY <1>3 DEF SameTree
<1>6. UNCHANGED Entities!vars
  BY <1>2, <1>4, <1>5, RelatedKept, MappedStutter
<1>7. RelatedLive'
  BY <1>1, <1>2, <1>5, RelatedLiveKept
<1> QED BY <1>6, <1>7 DEF Mapped

LEMMA ChildOperationsMapped ==
  ASSUME Exactly, NEW p \in Ids, NEW c \in Ids,
         \/ AddChild(p, c) \/ RemoveChild(p, c)
         \/ \E i \in -1..Cardinality(Ids) - 1 : InsertChild(p, c, i)
  PROVE  Mapped
<1>1. StoreInv /\ faults = {} /\ faults' = {} /\ RelatedLive /\ ChildrenExact
  BY EntitiesParts DEF Exactly
<1>2. UNCHANGED relationVars
  BY DEF AddChild, RemoveChild, InsertChild
<1>3. SameLinks(store, store', {})
  BY <1>1, OtherOperationsSameLinks
<1>4. CASE RemoveChild(p, c)
  <2>1. store'.created = store.created /\ Children(store') = Leaving(c)
    BY <1>1, <1>4, RemoveChildTree
  <2>2. Entities!Abandon(c)
    BY <1>2, <1>3, <2>1, RelatedKept, MappedAbandon
  <2>3. RelatedLive'
    BY <1>1, <1>2, <2>1, RelatedLiveKept
  <2> QED BY <2>2, <2>3 DEF Mapped, Entities!Next, Entities!Step
<1>5. CASE AddChild(p, c) \/ \E i \in -1..Cardinality(Ids) - 1 : InsertChild(p, c, i)
  <2>1. Adopted(p, c) \/ SameTree
    BY <1>1, <1>5, AddChildTree, InsertChildTree
  <2>2. store'.created = store.created
    BY <2>1 DEF Adopted, SameTree
  <2>3. RelatedLive'
    BY <1>1, <1>2, <2>2, RelatedLiveKept
  <2>4. CASE Adopted(p, c)
    <3>1. Entities!Adopt(p)
      BY <1>2, <1>3, <2>4, RelatedKept, MappedAdopt
    <3> QED BY <2>3, <3>1 DEF Mapped, Entities!Next, Entities!Step
  <2>5. CASE SameTree
    <3>1. UNCHANGED Entities!vars
      BY <1>2, <1>3, <2>5, RelatedKept, MappedStutter DEF SameTree
    <3> QED BY <2>3, <3>1 DEF Mapped
  <2> QED BY <2>1, <2>4, <2>5
<1> QED BY <1>4, <1>5

LEMMA LoadEntityMapped ==
  ASSUME Exactly, NEW p \in Ids, NEW ids \in ChildLists, LoadEntity(p, ids)
  PROVE  Mapped
<1>1. /\ StoreInv /\ faults = {} /\ RelatedLive
      /\ ListsExact(Children(store), parentMap, store.created)
      /\ \A q \in Ids : Children(store)[q] = ChildIds(store, q)
      /\ NoId \notin Ids
  BY EntitiesParts DEF Exactly
<1>0. faults' = {} /\ TypeOK /\ NoCycle /\ ids \in Seq(Ids)
  <2>1. PICK n \in 0..Cardinality(Ids) - 1 : ids \in [1..n -> Ids]
    BY DEF ChildLists
  <2> QED BY <2>1, TreeOfStore DEF Exactly, EntitiesInv
<1>2. UNCHANGED relationVars /\ \A c \in Range(ids) : Parent(c) \in {NoId, p}
  BY <1>0, <1>1, LoadEntityAccepted DEF LoadEntity
<1>3. SameLinks(store, store', {})
  BY <1>1, OtherOperationsSameLinks
<1>4. /\ store'.created = store.created \cup {p} /\ ids \in Seq(Ids)
      /\ Children(store') = IF ids = <<>> THEN Children(store)
                            ELSE [Children(store) EXCEPT ![p] = ids]
  BY <1>1, LoadEntityTree
<1>5. \A q \in Ids : ChildIds(store', q) = IF ids # <<>> /\ q = p THEN ids ELSE ChildIds(store, q)
  <2>1. \A q \in Ids : ChildIds(store', q) = Children(store')[q]
    BY DEF Children
  <2>2. DOMAIN Children(store) = Ids
    BY DEF Children
  <2> QED BY <1>1, <1>4, <2>1, <2>2
<1>6. ASSUME NEW q \in Ids \ {p}
      PROVE  Range(ChildIds(store, q)) \cap Range(ChildIds(store', p)) = {}
  <2> SUFFICES ASSUME NEW c \in Range(ChildIds(store, q)), c \in Range(ChildIds(store', p))
               PROVE  FALSE
    OBVIOUS
  <2>1. parentMap[c] = q
    BY <1>1 DEF ListsExact
  <2>2. CASE c \in Range(ChildIds(store, p))
    BY <1>1, <2>1, <2>2 DEF ListsExact
  <2>3. CASE c \in Range(ids)
    <3>1. Parent(c) \in {NoId, p} /\ c \in Ids
      BY <1>2, <1>4, <2>3 DEF Range
    <3> QED BY <1>1, <2>1, <3>1 DEF Parent
  <2> QED BY <1>5, <2>2, <2>3
<1>7. \A q \in Ids \ {p} : ChildIds(store', q) = ChildIds(store, q)
  BY <1>5
<1>8. Entities!Load(p)
  BY <1>2, <1>3, <1>4, <1>6, <1>7, RelatedKept, MappedLoad
<1>9. RelatedLive'
  BY <1>1, <1>2, <1>4, RelatedLiveKept
<1> QED BY <1>8, <1>9 DEF Mapped, Entities!Next, Entities!Step

LEMMA DeleteLinkToEntityMapped ==
  ASSUME Exactly, DeleteLinkToEntity
  PROVE  Mapped
<1>1. StoreInv /\ faults = {} /\ faults' = {} /\ RelatedLive
  BY EntitiesParts DEF Exactly
<1>2. UNCHANGED relationVars
  BY DEF DeleteLinkToEntity
<1>3. store'.created = store.created /\ Children(store') = Children(store)
  BY <1>1, OtherOperationsTree DEF SameTree
<1>4. PICK o \in deleting.links :
        IF HasLink(store, o) THEN RemoveLinkOf(o) ELSE UNCHANGED <<store, linkVars>>
  BY DEF DeleteLinkToEntity, HasLink
<1>5. RelatedLive'
  BY <1>1, <1>2, <1>3, RelatedLiveKept
<1>6. CASE HasLink(store, o)
  <2>1. o \in store.created
    BY <1>6 DEF HasLink, HasComponent, Created
  <2>2. SameLinks(store, store', {o})
    BY <1>1, <1>4, <1>6, <2>1, LinkRemoved
  <2>3. Entities!Link(o) /\ o \in Ids
    BY <1>1, <1>2, <1>3, <2>1, <2>2, RelatedKept, MappedLink, Operating, StorageFields
  <2> QED BY <1>5, <2>3 DEF Mapped, Entities!Next, Entities!Step
<1>7. CASE ~HasLink(store, o)
  <2>1. SameLinks(store, store', {})
    BY <1>4, <1>7 DEF SameLinks
  <2> QED BY <1>2, <1>3, <1>5, <2>1, RelatedKept, MappedStutter DEF Mapped
<1> QED BY <1>6, <1>7

\* The operations on relations: one entity gets or loses one.
LEMMA AddRelationMapped ==
  ASSUME Exactly, NEW e \in Ids, NEW t \in Ids, AddRelation(e, t)
  PROVE  Mapped
<1> DEFINE n == Len(relationRows)
<1>1. /\ TypeOK /\ PositionsExact /\ RelatedLive /\ (Ready(e) => e \in store.created)
  BY EntitiesParts DEF Exactly
<1>2. /\ e \in store.created /\ store' = store
      /\ relationRows' = Append(relationRows, [id |-> e, target |-> t])
      /\ positionMap' = [positionMap EXCEPT ![e] = @ \cup {n + 1}]
  BY <1>1 DEF AddRelation
<1>3. /\ relationRows \in Seq(RelationRow) /\ n \in Nat
      /\ positionMap \in [Ids -> SUBSET (Nat \ {0})]
  BY <1>1, RelationTypes
<1>4. \A p \in 1..n : relationRows'[p] = relationRows[p]
  <2>1. [id |-> e, target |-> t] \in RelationRow
    BY DEF RelationRow
  <2> QED BY <1>2, <1>3, <2>1, AppendProperties
<1>5. ASSUME NEW x \in Ids \ {e} PROVE RelatedTo'[x] = RelatedTo[x]
  <2>1. positionMap'[x] = positionMap[x] /\ positionMap[x] \subseteq 1..n
    BY <1>1, <1>2, <1>3 DEF PositionsExact
  <2>2. \A s : Related(x, s)' <=> Related(x, s)
    BY <1>4, <2>1 DEF Related, FindRelationPosition
  <2> QED BY <2>2 DEF RelatedTo
<1>6. RelatedLive'
  BY <1>1, <1>2, <1>3 DEF RelatedLive
<1>7. Entities!Relate(e)
  BY <1>2, <1>5, MappedRelate
<1> QED BY <1>6, <1>7 DEF Mapped, Entities!Next, Entities!Step

LEMMA RelationRemovedMapped ==
  ASSUME Exactly, NEW e \in store.created, NEW p \in positionMap[e], RemoveEntityRelation(e, p)
  PROVE  Mapped
<1>1. /\ TypeOK /\ PositionsExact /\ RelationsOnce /\ RelatedLive /\ e \in Ids
      /\ faults = {} /\ faults' = {}
  BY EntitiesParts DEF Exactly
<1>2. store' = store
  BY <1>1, RemoveEntityRelationExact
<1>3. ASSUME NEW x \in Ids \ {e} PROVE RelatedTo'[x] = RelatedTo[x]
  <2>1. \A s \in Ids : Related(x, s)' <=> Related(x, s)
    BY <1>1, RelationsLeft
  <2> QED BY <2>1 DEF RelatedTo
<1>4. ASSUME NEW x \in Ids, positionMap'[x] # {} PROVE x \in store.created
  <2>1. x = e \/ positionMap[x] # {}
    BY <1>1, <1>4, RelationOfOthers
  <2> QED BY <1>1, <2>1 DEF RelatedLive
<1>5. RelatedLive'
  BY <1>2, <1>4 DEF RelatedLive
<1>6. Entities!Relate(e)
  BY <1>2, <1>3, MappedRelate
<1> QED BY <1>1, <1>5, <1>6 DEF Mapped, Entities!Next, Entities!Step

LEMMA RemoveRelationMapped ==
  ASSUME Exactly,
         (\E e, t \in Ids : RemoveRelation(e, t)) \/ DeleteRelation \/ DeleteRelationToEntity
  PROVE  Mapped
<1>1. /\ StoreInv /\ faults = {} /\ RelatedLive
      /\ \A e : Ready(e) => e \in store.created
      /\ deleting.sources \subseteq Ids
  BY EntitiesParts DEF Exactly, TypeOK
<1>2. CASE \E e, t \in Ids : RemoveRelation(e, t)
  <2>1. PICK e \in Ids, t \in Ids : RemoveRelation(e, t)
    BY <1>2
  <2>2. e \in store.created
    BY <1>1, <2>1 DEF RemoveRelation
  <2>3. PICK p \in positionMap[e] : RemoveEntityRelation(e, p)
    BY <2>1 DEF RemoveRelation, FindRelationPosition, RemoveRelationTo
  <2> QED BY <2>2, <2>3, RelationRemovedMapped
<1>3. CASE DeleteRelation
  <2>1. deleting.id \in store.created
    BY <1>1, <1>3, DeletingFields DEF DeleteRelation
  <2>2. PICK p \in positionMap[deleting.id] : RemoveEntityRelation(deleting.id, p)
    BY <1>3 DEF DeleteRelation
  <2> QED BY <2>1, <2>2, RelationRemovedMapped
<1>4. CASE DeleteRelationToEntity
  <2>1. PICK o \in deleting.sources :
          \/ \E p \in FindRelationPosition(o, deleting.id) : RemoveRelationTo(o, deleting.id, p)
          \/ UNCHANGED <<store, isOwner, isLinked, relationVars, faults>>
    BY <1>4 DEF DeleteRelationToEntity
  <2>2. CASE \E p \in FindRelationPosition(o, deleting.id) : RemoveRelationTo(o, deleting.id, p)
    <3>1. PICK p \in positionMap[o] : RemoveEntityRelation(o, p)
      BY <2>2 DEF FindRelationPosition, RemoveRelationTo
    <3>2. o \in store.created
      BY <1>1, <3>1 DEF RelatedLive
    <3> QED BY <3>1, <3>2, RelationRemovedMapped
  <2>3. CASE UNCHANGED <<store, isOwner, isLinked, relationVars, faults>>
    <3>1. store' = store /\ UNCHANGED relationVars
      BY <2>3
    <3>2. SameLinks(store, store', {})
      BY <3>1 DEF SameLinks
    <3>3. UNCHANGED Entities!vars
      BY <3>1, <3>2, RelatedKept, MappedStutter
    <3>4. RelatedLive'
      BY <1>1, <3>1, RelatedLiveKept
    <3> QED BY <3>3, <3>4 DEF Mapped
  <2> QED BY <2>1, <2>2, <2>3
<1> QED BY <1>2, <1>3, <1>4

\* DeleteEntity() ends: the entity has no relations, and nobody has a link or a relation
\* to it.
LEMMA FinishDeleteMapped ==
  ASSUME Exactly, FinishDelete
  PROVE  Mapped
<1>1. /\ StoreInv /\ TypeOK /\ faults = {} /\ faults' = {} /\ NoId \notin Ids
      /\ ChildrenExact /\ LinkEntitiesExact /\ DeletedUnrelated /\ LinksCollected /\ RelatedLive
      /\ IndexExact(Index, Targets(store), deleting.id)
  BY EntitiesParts DEF Exactly
<1>2. /\ deleting.collected /\ deleting.links = {} /\ deleting.sources = {}
      /\ UNCHANGED relationVars
  BY DEF FinishDelete
<1>3. PICK e \in Ids : e = deleting.id
  BY <1>1, FinishDeleteTree DEF TypeOK, Storage
<1>4. /\ e \in store.created /\ store'.created = store.created \ {e}
      /\ Children(store') = [q \in Ids |-> IF q = e THEN <<>> ELSE Without(ChildIds(store, q), e)]
  BY <1>1, <1>3, FinishDeleteTree
<1>5. SameLinks(store, store', {e}) /\ ~HasLink(store', e)
  BY <1>1, <1>3, FinishDeleteSameLinks
<1>6. LinkOf(store', e) = NoId
  BY <1>5 DEF LinkOf, HasLink
<1>7. ASSUME NEW o \in Ids \ {e} PROVE LinkOf(store, o) # e
  <2>1. entityMap[e] = {}
    BY <1>1, <1>2, <1>3 DEF LinksCollected
  <2>2. entityMap[e] = {x \in Ids \ {e} : Targets(store)[x] = e}
    BY <1>1, <1>3 DEF IndexExact, Index
  <2> QED BY <2>1, <2>2 DEF Targets
<1>8. ASSUME NEW o \in Ids \ {e} PROVE e \notin RelatedTo[o]
  <2>1. linkEntityMap[e] \ {e} = {}
    BY <1>1, <1>2, <1>3 DEF DeletedUnrelated
  <2>2. linkEntityMap[e] \ {e} = {x \in Ids \ {e} : Related(x, e)}
    BY <1>1, <1>3 DEF LinkEntitiesExact
  <2> QED BY <2>1, <2>2 DEF RelatedTo
<1>9. positionMap[e] = {}
  BY <1>1, <1>2, <1>3 DEF DeletedUnrelated
<1>10. RelatedTo' = [RelatedTo EXCEPT ![e] = {}]
  <2>1. RelatedTo[e] = {}
    BY <1>9 DEF RelatedTo, Related, FindRelationPosition
  <2>2. RelatedTo' = RelatedTo /\ RelatedTo = [x \in Ids |-> RelatedTo[x]]
    BY <1>2, RelatedKept DEF RelatedTo
  <2> HIDE DEF RelatedTo
  <2> QED BY <2>1, <2>2
<1>11. RelatedLive'
  BY <1>1, <1>2, <1>4, <1>9 DEF RelatedLive, relationVars
<1>12. Entities!Delete(e)
  BY <1>4, <1>5, <1>6, <1>7, <1>8, <1>10, MappedDelete
<1> QED BY <1>11, <1>12 DEF Mapped, Entities!Next, Entities!Step

LEMMA InitEntitiesInv == Init => EntitiesInv /\ Entities!Init
<1> SUFFICES ASSUME Init PROVE EntitiesInv /\ Entities!Init
  OBVIOUS
<1>1. RelationsInv /\ LinksInv /\ TreeInv
  BY InitRelationsInv, InitLinksInv, InitTreeInv
<1>2. RelatedLive /\ positionMap = [e \in Ids |-> {}] /\ faults = {} /\ store = NoEntities
  BY DEF Init, RelatedLive
<1>3. EntitiesInv
  BY <1>1, <1>2 DEF EntitiesInv
<1>4. store.created = {} /\ \A e \in Ids : LinkOf(store, e) = NoId /\ ChildIds(store, e) = <<>>
  BY <1>2 DEF NoEntities, LinkOf, ChildIds, HasComponent, Created
<1>5. \A e \in Ids : {relationRows[p].target : p \in positionMap[e]} = {}
  BY <1>2
<1>6. Entities!Init
  BY <1>2, <1>4, <1>5 DEF Entities!Init
<1> QED BY <1>3, <1>6

LEMMA OperationMapped == Exactly /\ Operation => Mapped
<1> SUFFICES ASSUME Exactly, Operation PROVE Mapped
  OBVIOUS
<1>1. ASSUME NEW e \in Ids,
             \/ CreateEntity(e) \/ RemoveLink(e) \/ DeleteEntity(e)
             \/ \E type \in Others : AddComponent(e, type) \/ RemoveComponent(e, type)
             \/ \E t \in Ids : AddLink(e, t) \/ AddRelation(e, t) \/ RemoveRelation(e, t)
             \/ \E c \in Ids : AddChild(e, c) \/ RemoveChild(e, c)
             \/ \E c \in Ids, i \in -1..Cardinality(Ids) - 1 : InsertChild(e, c, i)
             \/ \E ids \in ChildLists : LoadEntity(e, ids)
      PROVE  Mapped
  <2>1. CASE CreateEntity(e)
    BY <2>1, CreateEntityMapped
  <2>2. CASE RemoveLink(e) \/ \E t \in Ids : AddLink(e, t)
    BY <2>2, LinkOperationsMapped
  <2>3. CASE DeleteEntity(e) \/ \E type \in Others : AddComponent(e, type) \/ RemoveComponent(e, type)
    BY <2>3, StutterMapped
  <2>4. CASE \E t \in Ids : AddRelation(e, t) \/ RemoveRelation(e, t)
    BY <2>4, AddRelationMapped, RemoveRelationMapped
  <2>5. CASE \/ \E c \in Ids : AddChild(e, c) \/ RemoveChild(e, c)
             \/ \E c \in Ids, i \in -1..Cardinality(Ids) - 1 : InsertChild(e, c, i)
    BY <2>5, ChildOperationsMapped
  <2>6. CASE \E ids \in ChildLists : LoadEntity(e, ids)
    BY <2>6, LoadEntityMapped
  <2> QED BY <1>1, <2>1, <2>2, <2>3, <2>4, <2>5, <2>6
<1>2. CASE DeleteRelation \/ DeleteRelationToEntity
  BY <1>2, RemoveRelationMapped
<1>3. CASE CollectLinks
  BY <1>3, StutterMapped
<1>4. CASE DeleteLinkToEntity
  BY <1>4, DeleteLinkToEntityMapped
<1>5. CASE FinishDelete
  BY <1>5, FinishDeleteMapped
<1> QED BY <1>1, <1>2, <1>3, <1>4, <1>5 DEF Operation

LEMMA StepMapped ==
  EntitiesInv /\ [Next]_vars => EntitiesInv' /\ [Entities!Next]_(Entities!vars)
<1> SUFFICES ASSUME EntitiesInv, [Next]_vars
             PROVE  EntitiesInv' /\ [Entities!Next]_(Entities!vars)
  OBVIOUS
<1>1. RelationsInv' /\ LinksInv' /\ TreeInv'
  BY StepParts
<1>2. CASE UNCHANGED vars
  <2>1. /\ store' = store /\ faults' = faults
        /\ relationRows' = relationRows /\ positionMap' = positionMap
    BY <1>2 DEF vars, relationVars
  <2>2. UNCHANGED Entities!vars
    BY <2>1 DEF Entities!vars
  <2>3. faults' = {} => RelatedLive'
    BY <2>1 DEF EntitiesInv, RelatedLive
  <2> QED BY <1>1, <2>2, <2>3 DEF EntitiesInv
<1>3. CASE faults' # {}
  BY <1>1, <1>3 DEF EntitiesInv, Entities!Next
<1>4. CASE faults' = {} /\ Next
  <2>1. CASE Stopped
    BY <1>2, <2>1 DEF Stopped
  <2>2. CASE faults = {} /\ Operation
    <3>1. Mapped
      BY <1>4, <2>2, StepExactly, OperationMapped
    <3> QED BY <1>1, <3>1 DEF Mapped, EntitiesInv
  <2> QED BY <1>4, <2>1, <2>2 DEF Next
<1> QED BY <1>2, <1>3, <1>4

\* Read through the nodes, the store is the plain map of entities, whatever moves its
\* rows: every operation changes what it names and nothing else, and when a deletion
\* ends nobody links to the entity any more.
THEOREM StoreImplementsEntities == Spec => ImplementsEntities
<1>1. Init => EntitiesInv /\ Entities!Init
  BY InitEntitiesInv
<1>2. EntitiesInv /\ [Next]_vars => EntitiesInv' /\ [Entities!Next]_(Entities!vars)
  BY StepMapped
<1> QED BY <1>1, <1>2, PTL DEF Spec, ImplementsEntities, Entities!Spec
==============================================================================
