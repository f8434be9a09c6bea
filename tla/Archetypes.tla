------------------------------ MODULE Archetypes ------------------------------
(***************************************************************************)
(* The storage of entities: every archetype keeps one row per entity with  *)
(* its components (Archetype.entityIds and the StructHeaps), and the node  *)
(* of an entity says which row is its own (EntityNode.archetype and        *)
(* compIndex).  A row that is removed is filled with the last row of the   *)
(* archetype.                                                              *)
(*                                                                         *)
(* The operators take and return the storage as one record.  Rows are      *)
(* numbered from 1, a component is its link target (ILinkComponent), its   *)
(* child ids (TreeNode) or has no value at all (the other component types  *)
(* and the tags).                                                          *)
(***************************************************************************)
EXTENDS Integers, Sequences

CONSTANTS Ids,     \* the entity ids
          NoId,    \* no entity
          Others   \* component types and tags without links and children

ASSUME ArchetypesAssumption ==
  /\ NoId \notin Ids
  /\ {"LinkComponent", "TreeNode"} \cap Others = {}

ComponentTypes == {"LinkComponent", "TreeNode"} \cup Others
Archs == SUBSET ComponentTypes
DefaultArchetype == {}
Row == [id : Ids, link : Ids \cup {NoId}, childIds : Seq(Ids)]

Storage == [created : SUBSET Ids,
            archetype : [Ids -> Archs],
            compIndex : [Ids -> Nat],
            rows : [Archs -> Seq(Row)]]

NoEntities == [created |-> {},
               archetype |-> [e \in Ids |-> DefaultArchetype],
               compIndex |-> [e \in Ids |-> 0],
               rows |-> [a \in Archs |-> <<>>]]

\* NodeFlags.Created
Created(T, e) == e \in T.created

\* The row Entity.GetComponent() reads.
RowOf(T, e) == T.rows[T.archetype[e]][T.compIndex[e]]

\* AddEntity(): a row at the end of an archetype, and the node that refers to it.
AddEntity(T, a, row) ==
  [T EXCEPT !.created = @ \cup {row.id},
            !.archetype[row.id] = a,
            !.compIndex[row.id] = Len(T.rows[a]) + 1,
            !.rows[a] = Append(@, row)]

MoveLastComponentsTo_IndexKept(T, a, i) ==
  LET last == Len(T.rows[a])
  IN [T EXCEPT !.rows[a] = [j \in 1..last - 1 |-> @[IF j = i THEN last ELSE j]]]

\* MoveLastComponentsTo(): row i of an archetype is overwritten with the last one.
MoveLastComponentsTo(T, a, i) ==
  LET last == Len(T.rows[a])
      lastId == T.rows[a][last].id
  IN [T EXCEPT
        !.compIndex = IF last # i THEN [@ EXCEPT ![lastId] = i] ELSE @,
        !.rows[a] = [j \in 1..last - 1 |-> @[IF j = i THEN last ELSE j]]]

\* The values a row keeps in another archetype, and defaults for the new types.
CopyComponents(row, from, to) ==
  [id |-> row.id,
   link |-> IF "LinkComponent" \in from \cap to THEN row.link ELSE NoId,
   childIds |-> IF "TreeNode" \in from \cap to THEN row.childIds ELSE <<>>]

\* MoveEntityTo(): the row of an entity moves to another archetype.
MoveEntityTo(T, e, a) ==
  LET source == T.archetype[e]
  IN IF source = a THEN T
     ELSE AddEntity(MoveLastComponentsTo(T, source, T.compIndex[e]), a,
                    CopyComponents(RowOf(T, e), source, a))

\* CreateEntityNode(): a node that is already created is left as it is.
CreateEntityNode(T, e) ==
  IF Created(T, e) THEN T
  ELSE AddEntity(T, DefaultArchetype, [id |-> e, link |-> NoId, childIds |-> <<>>])

HasComponent(T, e, type) == Created(T, e) /\ type \in T.archetype[e]
LinkOf(T, e) == IF HasComponent(T, e, "LinkComponent") THEN RowOf(T, e).link ELSE NoId
ChildIds(T, e) == IF HasComponent(T, e, "TreeNode") THEN RowOf(T, e).childIds ELSE <<>>

SetLinkOf(T, e, t) == [T EXCEPT !.rows[T.archetype[e]][T.compIndex[e]].link = t]
SetChildIds(T, e, ids) == [T EXCEPT !.rows[T.archetype[e]][T.compIndex[e]].childIds = ids]

\* GetTreeNodeRef(): an entity gets its TreeNode component with its first child.
GetTreeNode(T, e) == MoveEntityTo(T, e, T.archetype[e] \cup {"TreeNode"})

\* Every node refers to the row of its entity, and every row belongs to the node
\* of its entity (EntityNode.compIndex: "index within Archetype.entityIds").
RowsExactOf(T) ==
  /\ \A e \in Ids : Created(T, e) =>
       /\ T.compIndex[e] \in 1..Len(T.rows[T.archetype[e]])
       /\ RowOf(T, e).id = e
  /\ \A a \in Archs : \A i \in 1..Len(T.rows[a]) :
       /\ Created(T, T.rows[a][i].id)
       /\ T.archetype[T.rows[a][i].id] = a
       /\ T.compIndex[T.rows[a][i].id] = i
===============================================================================
