----------------------------- MODULE EntityStore ------------------------------
(***************************************************************************)
(* EntityStore: the entities of an application with their components, the  *)
(* links and relations between them and their tree.  One thread calls the  *)
(* operations.  DeleteEntity() is a step per relation and per link it      *)
(* removes, because the handlers of component events run between them; the *)
(* handlers only read the store.                                           *)
(*                                                                         *)
(* Sets stand for the id arrays of the indexes (IdArray): their order only *)
(* decides in which order links are removed, and every order is allowed.   *)
(*                                                                         *)
(* faults names the places where the program is known to damage the store: *)
(* "row": a node gets or uses the position of another entity's row;        *)
(* "relation": a deleted entity stays in the map of incoming relations;    *)
(* "child": a living entity has a parent that does not list it, or itself  *)
(* above it; "list": a loaded list has a child twice, a child of another   *)
(* parent, or one that is above its new parent.                            *)
(* The model ends with the first one.                                      *)
(***************************************************************************)
EXTENDS Archetypes, FiniteSets, SequencesExt

CONSTANT MaxRelations    \* bound: relations in the store

\* An id is an int, an index into the array of nodes.
ASSUME EntityStoreAssumption == IsFiniteSet(Ids)

VARIABLES
  store,          \* nodes and archetypes
  isOwner,        \* EntityNode.isOwner: of an index entry or a relation
  isLinked,       \* EntityNode.isLinked
  entityMap,      \* EntityIndex: target -> entities with a link to it
  relationRows,   \* the archetype of a relation type
  positionMap,    \* EntityRelations: entity -> its positions in relationRows
  linkEntityMap,  \* EntityRelations: target -> entities with a relation to it
  parentMap,      \* StoreExtension.parentMap
  deleting,       \* the locals of DeleteEntity()
  faults

linkVars == <<isOwner, isLinked, entityMap>>
relationVars == <<relationRows, positionMap, linkEntityMap>>
vars == <<store, linkVars, relationVars, parentMap, deleting, faults>>

LinkTypes == {"link", "relation"}
RelationRow == [id : Ids, target : Ids]
Idle == [id |-> NoId, archetype |-> DefaultArchetype, index |-> 0,
         collected |-> FALSE, links |-> {}, sources |-> {}]

TypeOK ==
  /\ store \in Storage
  /\ isOwner \in [Ids -> SUBSET LinkTypes] /\ isLinked \in [Ids -> SUBSET LinkTypes]
  /\ entityMap \in [Ids -> SUBSET Ids] /\ linkEntityMap \in [Ids -> SUBSET Ids]
  /\ relationRows \in Seq(RelationRow) /\ positionMap \in [Ids -> SUBSET (Nat \ {0})]
  /\ parentMap \in [Ids -> Ids \cup {NoId}]
  /\ deleting \in [id : Ids \cup {NoId}, archetype : Archs, index : Nat,
                   collected : BOOLEAN, links : SUBSET Ids, sources : SUBSET Ids]
  /\ faults \subseteq {"row", "relation", "child", "list"}

Init ==
  /\ store = NoEntities
  /\ isOwner = [e \in Ids |-> {}] /\ isLinked = [e \in Ids |-> {}]
  /\ entityMap = [e \in Ids |-> {}]
  /\ relationRows = <<>> /\ positionMap = [e \in Ids |-> {}]
  /\ linkEntityMap = [e \in Ids |-> {}]
  /\ parentMap = [e \in Ids |-> NoId]
  /\ deleting = Idle /\ faults = {}

\* An operation of the application on an entity it holds.
Ready(e) == deleting = Idle /\ Created(store, e)

Fault(condition, name) == faults' = faults \cup (IF condition THEN {name} ELSE {})
-------------------------------------------------------------------------------
(* The tree *)

Parent(e) == IF e = NoId THEN NoId ELSE parentMap[e]

\* The entities on the way from an entity to its root, itself included.
Branch(e) ==
  LET up[n \in 0..Cardinality(Ids)] ==
        IF n = 0 THEN {e} ELSE up[n - 1] \cup {Parent(x) : x \in up[n - 1]}
  IN up[Cardinality(Ids)]

WouldCreateCycle(id, parentId) == parentId \in Branch(id)

IsChild(T, p, c) == c \in Range(ChildIds(T, p))

\* A node that is created again keeps the parent it had when it was deleted.
StaleParent(e) ==
  /\ ~Created(store, e) /\ parentMap[e] # NoId
  /\ ~(Created(store, parentMap[e]) /\ IsChild(store, parentMap[e], e))

\* RemoveChildNode(): T without the child in the list of its parent.
Without(ids, c) ==
  IF c \in Range(ids) THEN RemoveAt(ids, CHOOSE i \in DOMAIN ids : ids[i] = c) ELSE ids
RemoveChildNode(T, p, c) == SetChildIds(T, p, Without(ChildIds(T, p), c))
LeaveParent(T, c) == IF Parent(c) # NoId THEN RemoveChildNode(T, Parent(c), c) ELSE T

CreateEntity(e) ==
  /\ deleting = Idle /\ ~Created(store, e)
  /\ store' = CreateEntityNode(store, e)
  /\ Fault(StaleParent(e), "child")
  /\ UNCHANGED <<linkVars, relationVars, parentMap, deleting>>

AddChild(p, c) ==
  /\ Ready(p) /\ Ready(c) /\ ~WouldCreateCycle(p, c) /\ Parent(c) # p
  /\ LET node == GetTreeNode(LeaveParent(store, c), p)
     IN store' = SetChildIds(node, p, Append(ChildIds(node, p), c))
  /\ parentMap' = [parentMap EXCEPT ![c] = p]
  /\ UNCHANGED <<linkVars, relationVars, deleting, faults>>

\* InsertChild(): the position counts from 0.  The TreeNode is added before the
\* position is tested against the end of the list only.  A child has left its parent
\* and has the new one before InsertAt() refuses a negative position, or the position
\* after the last child of the same parent, whose list is shorter by then.
InsertChild(p, c, i) ==
  /\ Ready(p) /\ Ready(c) /\ ~WouldCreateCycle(p, c)
  /\ LET node == GetTreeNode(store, p)
         removed == LeaveParent(node, c)
         ids == ChildIds(node, p)
         others == IF Parent(c) = p THEN Without(ids, c) ELSE ids
         inRange == i <= Len(ids)
         moved == Parent(c) = p => ids[i + 1] # c
         fails == i < 0 \/ (Parent(c) = p /\ i = Len(ids))
     IN IF ~inRange
          THEN store' = node /\ UNCHANGED <<parentMap, faults>>
        ELSE /\ parentMap' = [parentMap EXCEPT ![c] = p]
             /\ Fault(fails, "child")
             /\ IF fails THEN store' = removed
                ELSE moved /\ store' = SetChildIds(removed, p, InsertAt(others, i + 1, c))
  /\ UNCHANGED <<linkVars, relationVars, deleting>>

RemoveChild_ParentKept(p, c) ==
  /\ Ready(p) /\ Ready(c) /\ Parent(c) = p
  /\ store' = RemoveChildNode(store, p, c)
  /\ UNCHANGED <<linkVars, relationVars, parentMap, deleting, faults>>

RemoveChild(p, c) ==
  /\ Ready(p) /\ Ready(c) /\ Parent(c) = p
  /\ store' = RemoveChildNode(store, p, c)
  /\ parentMap' = [parentMap EXCEPT ![c] = NoId]
  /\ UNCHANGED <<linkVars, relationVars, deleting, faults>>

\* SetChildParents() throws for a child of another parent, and for one that is above p.
OtherParent(p, c) == Parent(c) \notin {NoId, p}
HasCycle(p, c) == Parent(c) = NoId /\ WouldCreateCycle(p, c)
Throws(p, c) == OtherParent(p, c) \/ HasCycle(p, c)

\* The children it sets the parent of: up to the first one it throws for, and that one
\* too if it closes a cycle.
Adoptees(p, ids) ==
  {c \in Range(ids) : /\ ~OtherParent(p, c)
                      /\ \E i \in DOMAIN ids : ids[i] = c /\ \A j \in 1..i - 1 : ~Throws(p, ids[j])}

\* DataEntityToEntity() with SetChildNodes() when nobody listens to child events: the
\* list is written before its children are looked at.  They need not be loaded yet;
\* an empty list leaves the old one.
LoadEntity(p, ids) ==
  LET created == CreateEntityNode(store, p)
      left == {c \in Range(ChildIds(created, p)) : Created(store, c) /\ c \notin Range(ids)}
  IN /\ deleting = Idle
     /\ store' = IF ids = <<>> THEN created
                 ELSE SetChildIds(GetTreeNode(created, p), p, ids)
     /\ parentMap' = [c \in Ids |-> IF c \in Adoptees(p, ids) THEN p ELSE parentMap[c]]
     /\ faults' = faults
          \cup (IF StaleParent(p) \/ (ids # <<>> /\ left # {}) THEN {"child"} ELSE {})
          \cup (IF ~IsInjective(ids) \/ (\E c \in Range(ids) : Throws(p, c)) THEN {"list"} ELSE {})
     /\ UNCHANGED <<linkVars, relationVars, deleting>>
-------------------------------------------------------------------------------
(* Components and the index of links *)

AddComponent(e, type) ==
  /\ Ready(e) /\ type \in Others \ store.archetype[e]
  /\ store' = MoveEntityTo(store, e, store.archetype[e] \cup {type})
  /\ UNCHANGED <<linkVars, relationVars, parentMap, deleting, faults>>

RemoveComponent(e, type) ==
  /\ Ready(e) /\ type \in Others \cap store.archetype[e]
  /\ store' = MoveEntityTo(store, e, store.archetype[e] \ {type})
  /\ UNCHANGED <<linkVars, relationVars, parentMap, deleting, faults>>

\* EntityIndexUtils.RemoveComponentValue() and AddComponentValue() on the index I.
Index == [map |-> entityMap, owner |-> isOwner, linked |-> isLinked]

RemoveComponentValue(I, e, t) ==
  IF e \notin I.map[t] THEN I
  ELSE [I EXCEPT !.map[t] = @ \ {e}, !.owner[e] = @ \ {"link"},
                 !.linked[t] = IF I.map[t] = {e} THEN @ \ {"link"} ELSE @]

AddComponentValue(I, e, t) ==
  IF e \in I.map[t] THEN I
  ELSE [I EXCEPT !.map[t] = @ \cup {e}, !.owner[e] = @ \cup {"link"},
                 !.linked[t] = IF I.map[t] = {} THEN @ \cup {"link"} ELSE @]

SetIndex(I) == entityMap' = I.map /\ isOwner' = I.owner /\ isLinked' = I.linked

AddLink_OldTargetKept(e, t) ==
  /\ Ready(e) /\ LinkOf(store, e) # t
  /\ store' = SetLinkOf(MoveEntityTo(store, e, store.archetype[e] \cup {"LinkComponent"}), e, t)
  /\ SetIndex(AddComponentValue(Index, e, t))
  /\ UNCHANGED <<relationVars, parentMap, deleting, faults>>

\* AddComponent() of a link: a new one, or a new target of the one there is.
AddLink(e, t) ==
  /\ Ready(e) /\ LinkOf(store, e) # t
  /\ store' = SetLinkOf(MoveEntityTo(store, e, store.archetype[e] \cup {"LinkComponent"}), e, t)
  /\ SetIndex(IF HasComponent(store, e, "LinkComponent")
                THEN AddComponentValue(RemoveComponentValue(Index, e, LinkOf(store, e)), e, t)
                ELSE AddComponentValue(Index, e, t))
  /\ UNCHANGED <<relationVars, parentMap, deleting, faults>>

RemoveLinkOf(e) ==
  /\ SetIndex(RemoveComponentValue(Index, e, LinkOf(store, e)))
  /\ store' = MoveEntityTo(store, e, store.archetype[e] \ {"LinkComponent"})

RemoveLink(e) ==
  /\ Ready(e) /\ HasComponent(store, e, "LinkComponent") /\ RemoveLinkOf(e)
  /\ UNCHANGED <<relationVars, parentMap, deleting, faults>>
-------------------------------------------------------------------------------
(* Relations *)

FindRelationPosition(e, t) == {p \in positionMap[e] : relationRows[p].target = t}

\* A relation that is there already only gets new values.
AddRelation(e, t) ==
  /\ Ready(e) /\ FindRelationPosition(e, t) = {} /\ Len(relationRows) < MaxRelations
  /\ relationRows' = Append(relationRows, [id |-> e, target |-> t])
  /\ positionMap' = [positionMap EXCEPT ![e] = @ \cup {Len(relationRows) + 1}]
  /\ linkEntityMap' = [linkEntityMap EXCEPT ![t] = @ \cup {e}]
  /\ isOwner' = [isOwner EXCEPT ![e] = @ \cup {"relation"}]
  /\ isLinked' = IF linkEntityMap[t] = {}
                   THEN [isLinked EXCEPT ![t] = @ \cup {"relation"}] ELSE isLinked
  /\ UNCHANGED <<store, entityMap, parentMap, deleting, faults>>

RemoveEntityRelation_LastNotMoved(e, p) ==
  LET last == Len(relationRows)
      lastId == relationRows[last].id
      positions == positionMap[e] \ {p}
  IN /\ relationRows' = [j \in 1..last - 1 |-> relationRows[IF j = p THEN last ELSE j]]
     /\ positionMap' = [positionMap EXCEPT ![e] = positions]
     /\ isOwner' = IF positions = {} THEN [isOwner EXCEPT ![e] = @ \ {"relation"}] ELSE isOwner
     /\ store' = IF last # p THEN [store EXCEPT !.compIndex[lastId] = p] ELSE store
     /\ Fault(last # p /\ store.compIndex[lastId] # p, "row")

\* RemoveEntityRelation(): the last relation moves to the position of the removed
\* one.  MoveLastComponentsTo() then stores this position in the node of the
\* entity that owns the moved relation, as if the row were one of its components.
RemoveEntityRelation(e, p) ==
  LET last == Len(relationRows)
      lastId == relationRows[last].id
      moved == [positionMap EXCEPT ![lastId] = (@ \ {last}) \cup {p}]
      positions == IF lastId = e THEN positionMap[e] \ {last} ELSE moved[e] \ {p}
  IN /\ relationRows' = [j \in 1..last - 1 |-> relationRows[IF j = p THEN last ELSE j]]
     /\ positionMap' = [moved EXCEPT ![e] = positions]
     /\ isOwner' = IF positions = {} THEN [isOwner EXCEPT ![e] = @ \ {"relation"}] ELSE isOwner
     /\ store' = IF last # p THEN [store EXCEPT !.compIndex[lastId] = p] ELSE store
     /\ Fault(last # p /\ store.compIndex[lastId] # p, "row")

\* RemoveRelation() of a link relation.
RemoveRelationTo(e, t, p) ==
  /\ RemoveEntityRelation(e, p)
  /\ linkEntityMap' = [linkEntityMap EXCEPT ![t] = @ \ {e}]
  /\ isLinked' = IF linkEntityMap[t] = {e}
                   THEN [isLinked EXCEPT ![t] = @ \ {"relation"}] ELSE isLinked

RemoveRelation(e, t) ==
  /\ Ready(e)
  /\ \E p \in FindRelationPosition(e, t) : RemoveRelationTo(e, t, p)
  /\ UNCHANGED <<entityMap, parentMap, deleting>>
-------------------------------------------------------------------------------
(* DeleteEntity() *)

\* Archetype and position of the row are read before anything is removed.  Then
\* the entity leaves the index of its link (RemoveEntityFromIndex()).
DeleteEntity(e) ==
  /\ Ready(e)
  /\ deleting' = [Idle EXCEPT !.id = e, !.archetype = store.archetype[e],
                              !.index = store.compIndex[e]]
  /\ IF "link" \in isOwner[e]
       THEN /\ entityMap' = [entityMap EXCEPT ![LinkOf(store, e)] = @ \ {e}]
            /\ isOwner' = [isOwner EXCEPT ![e] = @ \ {"link"}]
       ELSE UNCHANGED <<entityMap, isOwner>>
  /\ UNCHANGED <<store, isLinked, relationVars, parentMap, faults>>

\* RemoveEntityRelations(): its relations, one after the other.
DeleteRelation ==
  /\ deleting.id # NoId /\ ~deleting.collected
  /\ \E p \in positionMap[deleting.id] : RemoveEntityRelation(deleting.id, p)
  /\ UNCHANGED <<isLinked, entityMap, linkEntityMap, parentMap, deleting>>

CollectLinks_OnlyRelations ==
  /\ deleting.id # NoId /\ ~deleting.collected
  /\ "relation" \notin isOwner[deleting.id]
  /\ deleting' = [deleting EXCEPT
       !.collected = TRUE,
       !.sources = IF "relation" \in isLinked[deleting.id] THEN linkEntityMap[deleting.id] ELSE {}]
  /\ UNCHANGED <<store, linkVars, relationVars, parentMap, faults>>

\* RemoveLinksToEntity(): the link types that have an entry for the entity.
CollectLinks ==
  /\ deleting.id # NoId /\ ~deleting.collected
  /\ "relation" \notin isOwner[deleting.id]
  /\ LET linked == isLinked[deleting.id]
     IN deleting' = [deleting EXCEPT
          !.collected = TRUE,
          !.links = IF "link" \in linked THEN entityMap[deleting.id] ELSE {},
          !.sources = IF "relation" \in linked THEN linkEntityMap[deleting.id] ELSE {}]
  /\ UNCHANGED <<store, linkVars, relationVars, parentMap, faults>>

\* EntityIndex.RemoveLinksWithTarget()
DeleteLinkToEntity ==
  /\ \E o \in deleting.links :
       /\ deleting' = [deleting EXCEPT !.links = @ \ {o}]
       /\ IF HasComponent(store, o, "LinkComponent") THEN RemoveLinkOf(o)
          ELSE UNCHANGED <<store, linkVars>>
  /\ UNCHANGED <<relationVars, parentMap, faults>>

\* EntityRelationLinks.RemoveLinksWithTarget()
DeleteRelationToEntity ==
  /\ deleting.links = {}
  /\ \E o \in deleting.sources :
       /\ deleting' = [deleting EXCEPT !.sources = @ \ {o}]
       /\ \/ \E p \in FindRelationPosition(o, deleting.id) : RemoveRelationTo(o, deleting.id, p)
          \/ /\ FindRelationPosition(o, deleting.id) = {}
             /\ UNCHANGED <<store, isOwner, isLinked, relationVars, faults>>
  /\ UNCHANGED <<entityMap, parentMap>>

\* The rest of DeleteNode(), and MoveLastComponentsTo() at the position read first.
FinishDelete ==
  LET e == deleting.id
      children == Range(ChildIds(store, e))
      left == LeaveParent(store, e)
      cleared == [left EXCEPT !.created = @ \ {e}, !.archetype[e] = DefaultArchetype,
                              !.compIndex[e] = 0]
  IN /\ deleting.collected /\ deleting.links = {} /\ deleting.sources = {}
     /\ store' = MoveLastComponentsTo(cleared, deleting.archetype, deleting.index)
     /\ isOwner' = [isOwner EXCEPT ![e] = {}] /\ isLinked' = [isLinked EXCEPT ![e] = {}]
     /\ parentMap' = [c \in Ids |-> IF c \in children THEN NoId ELSE parentMap[c]]
     /\ faults' = faults
          \cup (IF <<store.archetype[e], store.compIndex[e]>> # <<deleting.archetype, deleting.index>>
                  THEN {"row"} ELSE {})
          \cup (IF \E t \in Ids : e \in linkEntityMap[t] THEN {"relation"} ELSE {})
     /\ deleting' = Idle
     /\ UNCHANGED <<entityMap, relationVars>>
-------------------------------------------------------------------------------
ChildLists == UNION {[1..n -> Ids] : n \in 0..Cardinality(Ids) - 1}

Operation ==
  \/ \E e \in Ids :
       \/ CreateEntity(e) \/ RemoveLink(e) \/ DeleteEntity(e)
       \/ \E type \in Others : AddComponent(e, type) \/ RemoveComponent(e, type)
       \/ \E t \in Ids : AddLink(e, t) \/ AddRelation(e, t) \/ RemoveRelation(e, t)
       \/ \E c \in Ids : AddChild(e, c) \/ RemoveChild(e, c)
       \/ \E c \in Ids, i \in -1..Cardinality(Ids) - 1 : InsertChild(e, c, i)
       \/ \E ids \in ChildLists : LoadEntity(e, ids)
  \/ DeleteRelation \/ CollectLinks \/ DeleteLinkToEntity \/ DeleteRelationToEntity
  \/ FinishDelete

Stopped == faults # {} /\ UNCHANGED vars

Next == (faults = {} /\ Operation) \/ Stopped

Spec == Init /\ [][Next]_vars
-------------------------------------------------------------------------------
(* Properties *)

\* What Entity.DeleteEntity(), AddComponent() and the relations do to the rows of
\* other entities: the node of every entity still refers to its own row, and every
\* row of an archetype is that of a living entity.
RowsExact == RowsExactOf(store)
RowsExactUntilFault == faults = {} => RowsExact

\* The inductive invariant of the rows: DeleteEntity() works on a living entity until
\* it has cleared its node.
DeletingExists ==
  faults = {} => /\ deleting.collected => deleting.id # NoId
                 /\ deleting.id # NoId => Created(store, deleting.id)
StoreInv == TypeOK /\ RowsExactUntilFault /\ DeletingExists

\* The index of links holds exactly the links of the living entities, the entity that
\* is being deleted excepted, and every target of a link is marked as linked:
\* DeleteNode() looks for links to an entity only if it is marked (NodeTree.cs:518).
LinksExact ==
  faults = {} =>
    /\ \A t \in Ids : entityMap[t] =
         {e \in Ids \ {deleting.id} : HasComponent(store, e, "LinkComponent") /\ LinkOf(store, e) = t}
    /\ \A e \in Ids \ {deleting.id} :
         "link" \in isOwner[e] <=> HasComponent(store, e, "LinkComponent")
    /\ \A t \in Ids : entityMap[t] # {} => "link" \in isLinked[t]

\* positionMap finds exactly the relations of an entity, linkEntityMap the entities
\* that have a relation to a target, and the marks of the nodes agree with both.
RelationsExact ==
  faults = {} =>
    /\ \A e \in Ids : positionMap[e] = {p \in 1..Len(relationRows) : relationRows[p].id = e}
    /\ \A t \in Ids : linkEntityMap[t] \ {deleting.id} =
         {e \in Ids \ {deleting.id} : FindRelationPosition(e, t) # {}}
    /\ \A e \in Ids : "relation" \in isOwner[e] <=> positionMap[e] # {}
    /\ \A t \in Ids : linkEntityMap[t] # {} => "relation" \in isLinked[t]

\* No entity is twice in a child list, its parent is the one that lists it, and the
\* parent of a living entity is alive and lists it.
ChildrenExact ==
  /\ \A p \in Ids : /\ IsInjective(ChildIds(store, p))
                    /\ \A c \in Range(ChildIds(store, p)) : parentMap[c] = p
  /\ \A c \in Ids : Created(store, c) /\ parentMap[c] # NoId =>
       Created(store, parentMap[c]) /\ IsChild(store, parentMap[c], c)

\* The child lists and the parents agree, and no living entity is above itself.
TreeSound ==
  /\ ChildrenExact
  /\ \A e \in Ids : Created(store, e) => e \notin Branch(Parent(e))

\* The steps named "child" and "list" are the only ones that damage the tree, and each of
\* them does: a child that is loaded or inserted without an exception, an entity that is
\* created again and one that is deleted leave lists and parents that agree, and a load or
\* an insertion that throws leaves a store that no longer is a tree (NodeTree.cs:239, 181).
TreeExact == faults \subseteq {"child", "list"} => (faults = {} <=> TreeSound)

\* Read through the nodes, the store is the plain map of entities: an operation
\* changes the component, relations or children it names and nothing else, and a
\* deleted entity is linked by nobody.
Entities == INSTANCE EntityMap WITH
  alive <- store.created,
  link <- [e \in Ids |-> LinkOf(store, e)],
  relations <- [e \in Ids |-> {relationRows[p].target : p \in positionMap[e]}],
  children <- [e \in Ids |-> ChildIds(store, e)],
  sound <- faults = {}
ImplementsEntities == Entities!Spec
===============================================================================
