-------------------------- MODULE EntityExplorerMC --------------------------
(***************************************************************************)
(* Two containers with the same two ids, which are interchangeable; a      *)
(* behaviour is followed up to the first handler that goes astray.         *)
(***************************************************************************)
EXTENDS EntityExplorer

Interchangeable == Permutations(Containers) \cup Permutations(Ids)

OnCourse == ~astray
=============================================================================
