---------------------------- MODULE EntityStoreMC -----------------------------
(***************************************************************************)
(* A store of three entities for TLC; the ids are interchangeable.  Links, *)
(* relations, children and other components together are at most MaxItems; *)
(* an other component, which only moves rows, counts twice, and so does a  *)
(* second relation, as relations leave the rows of the archetypes alone.   *)
(***************************************************************************)
EXTENDS EntityStore, TLC

CONSTANTS e1, e2, e3, MaxItems

MCIds == {e1, e2, e3}
IdSymmetry == Permutations(MCIds)

Items(e) ==
  LET types == store.archetype[e]
  IN Cardinality(types \ {"TreeNode"}) + Cardinality(types \cap Others) + Len(ChildIds(store, e))
Relations == Len(relationRows) + Len(relationRows) \div 2
\* Items are counted through the nodes, which is possible as long as the rows are exact.
FewItems == faults = {} /\ RowsExact => Relations + MapThenSumSet(Items, MCIds) <= MaxItems
===============================================================================
