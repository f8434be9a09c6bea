------------------------------- MODULE Deque -------------------------------
(***************************************************************************)
(* Deque<T> (src/Json/Fliox/Utils/Deque.cs): a double ended queue in an    *)
(* array that is used as a ring.  Its operations are functions from one    *)
(* deque to the next one, so that a module can keep a deque in a variable. *)
(***************************************************************************)
EXTENDS Integers, Sequences

CONSTANT Default        \* default(T): what a cell holds that is not in use

NewDeque(capacity) == [ array    |-> [i \in 0 .. capacity - 1 |-> Default],
                        first    |-> 0,
                        count    |-> 0,
                        capacity |-> capacity ]

\* The cell of the n-th item, counted from 0
Cell(d, n) == (d.first + n) % d.capacity

\* The items in their order.  The enumerators of both Deque and
\* MessageBufferQueue walk the array the same way.
ToArray(d) == [n \in 1 .. d.count |-> d.array[Cell(d, n - 1)]]

\* Defect: first still counts in the old array.
Resize_KeepFirst(d, newCapacity) ==
  [ array    |-> [n \in 0 .. newCapacity - 1 |->
                    IF n < d.count THEN d.array[Cell(d, n)] ELSE Default],
    first    |-> d.first,
    count    |-> d.count,
    capacity |-> newCapacity ]

Resize(d, newCapacity) ==
  [ array    |-> [n \in 0 .. newCapacity - 1 |->
                    IF n < d.count THEN d.array[Cell(d, n)] ELSE Default],
    first    |-> 0,
    count    |-> d.count,
    capacity |-> newCapacity ]

\* AddHead() and AddTail() double the capacity of a full deque first.
Reserve(d) == IF d.count = d.capacity THEN Resize(d, 2 * d.capacity) ELSE d

\* Defect: AddHead() does not look whether the deque is full.
AddHead_Full(d, item) ==
  LET f == (d.first + d.capacity - 1) % d.capacity
  IN  [ d EXCEPT !.first = f, !.array[f] = item, !.count = d.count + 1 ]

AddHead(d, item) ==
  LET r == Reserve(d)
      f == (r.first + r.capacity - 1) % r.capacity
  IN  [ r EXCEPT !.first = f, !.array[f] = item, !.count = r.count + 1 ]

AddTail(d, item) ==
  LET r == Reserve(d)
  IN  [ r EXCEPT !.array[Cell(r, r.count)] = item, !.count = r.count + 1 ]

\* With an empty deque RemoveHead() throws
RemoveHead(d) ==
  [ d EXCEPT !.array[d.first] = Default, !.first = Cell(d, 1), !.count = d.count - 1 ]

Clear(d) ==
  [ d EXCEPT !.array = [i \in DOMAIN d.array |->
                          IF \E n \in 0 .. d.count - 1 : i = Cell(d, n)
                          THEN Default ELSE d.array[i]],
             !.count = 0, !.first = 0 ]

-----------------------------------------------------------------------------
\* A deque of items of the set T
IsDeque(d, T) ==
  /\ d = [array |-> d.array, first |-> d.first, count |-> d.count, capacity |-> d.capacity]
  /\ d.capacity \in Nat \ {0}
  /\ d.first \in 0 .. d.capacity - 1
  /\ d.count \in 0 .. d.capacity
  /\ d.array \in [0 .. d.capacity - 1 -> T \cup {Default}]
  /\ \A n \in 0 .. d.count - 1 : d.array[Cell(d, n)] \in T
=============================================================================
