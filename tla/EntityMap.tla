------------------------------ MODULE EntityMap -------------------------------
(***************************************************************************)
(* What a store of entities promises, without archetypes and indexes: an   *)
(* entity has at most one link, a set of relations and a list of children; *)
(* an operation changes the entity it names and nothing else, and a        *)
(* deleted entity is linked by nobody.  sound is an input: nothing is      *)
(* promised for a step that leaves it FALSE.                               *)
(***************************************************************************)
EXTENDS Integers, SequencesExt

CONSTANTS Ids, NoId

VARIABLES alive, link, relations, children, sound

vars == <<alive, link, relations, children, sound>>

Init ==
  /\ alive = {} /\ sound = TRUE
  /\ link = [e \in Ids |-> NoId]
  /\ relations = [e \in Ids |-> {}]
  /\ children = [e \in Ids |-> <<>>]

Without(s, c) ==
  IF c \in Range(s) THEN RemoveAt(s, CHOOSE i \in DOMAIN s : s[i] = c) ELSE s

Create(e) ==
  /\ alive' = alive \cup {e} /\ e \notin alive
  /\ UNCHANGED <<link, relations, children>>

\* An entity gets a link or another target of it, or loses it.
Link(e) ==
  /\ UNCHANGED alive /\ e \in alive
  /\ \A o \in Ids \ {e} : link'[o] = link[o]
  /\ UNCHANGED <<relations, children>>

\* An entity gets or loses relations.
Relate(e) ==
  /\ UNCHANGED alive /\ e \in alive
  /\ \A o \in Ids \ {e} : relations'[o] = relations[o]
  /\ UNCHANGED <<link, children>>

\* A child leaves its parent and is put between the children of p.
Adopt(p) ==
  /\ UNCHANGED alive /\ p \in alive /\ children'[p] # <<>>
  /\ UNCHANGED <<link, relations>>
  /\ \E i \in DOMAIN children'[p] :
       LET c == children'[p][i]
       IN /\ c \in alive
          /\ Without(children'[p], c) = Without(children[p], c)
          /\ \A q \in Ids \ {p} : children'[q] = Without(children[q], c)

\* A child leaves its parent.
Abandon(c) ==
  /\ UNCHANGED <<alive, link, relations>>
  /\ children' = [q \in Ids |-> Without(children[q], c)]

\* An entity is loaded with a list of children that no other entity has.
Load(p) ==
  /\ alive' = alive \cup {p}
  /\ \A q \in Ids \ {p} : /\ children'[q] = children[q]
                           /\ Range(children[q]) \cap Range(children'[p]) = {}
  /\ UNCHANGED <<link, relations>>

Delete(e) ==
  /\ e \in alive
  /\ \A o \in Ids \ {e} : link[o] # e /\ e \notin relations[o]
  /\ alive' = alive \ {e}
  /\ link' = [link EXCEPT ![e] = NoId]
  /\ relations' = [relations EXCEPT ![e] = {}]
  /\ children' = [q \in Ids |-> IF q = e THEN <<>> ELSE Without(children[q], e)]

Step ==
  \/ \E e \in Ids : Create(e) \/ Link(e) \/ Relate(e) \/ Load(e)
  \/ \E e \in Ids : Adopt(e) \/ Abandon(e) \/ Delete(e)

Next == sound' => Step

Spec == Init /\ [][Next]_vars
===============================================================================
