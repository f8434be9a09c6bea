---------------------- MODULE MessageBufferQueueProofs ----------------------
(***************************************************************************)
(* Messages stay readable while they are queued or handed out, for every   *)
(* capacity, every set of lengths and every number of messages; and the    *)
(* queue of byte buffers implements MessageFifo.                           *)
(***************************************************************************)
EXTENDS MessageBufferQueue, TLAPS

-----------------------------------------------------------------------------
(* What the operations of a deque do to the sequence of its items, for     *)
(* every capacity: the ring, its growth and its wrap around are invisible. *)

\* Indexes of a ring are less than twice its capacity: % is one subtraction.
LEMMA ModIndex ==
  ASSUME NEW c \in Nat \ {0}, NEW a \in 0 .. 2 * c - 1
  PROVE  a % c = IF a < c THEN a ELSE a - c
<1>1. CASE a < c
  <2>1. a = c * 0 + a
    OBVIOUS
  <2> QED BY <1>1, <2>1
<1>2. CASE a >= c
  <2>1. a = c * 1 + (a - c) /\ a - c \in 0 .. c - 1
    BY <1>2
  <2> QED BY <1>2, <2>1
<1> QED BY <1>1, <1>2

\* The cell of an item, and different items lie in different cells.
LEMMA CellProperties ==
  ASSUME NEW T, NEW d, IsDeque(d, T)
  PROVE  /\ \A n \in 0 .. d.capacity :
              /\ Cell(d, n) = IF d.first + n < d.capacity THEN d.first + n ELSE d.first + n - d.capacity
              /\ Cell(d, n) \in 0 .. d.capacity - 1
         /\ \A n, k \in 0 .. d.capacity - 1 : Cell(d, n) = Cell(d, k) => n = k
<1>1. /\ d.capacity \in Nat \ {0}
      /\ d.first \in 0 .. d.capacity - 1
  BY DEF IsDeque
<1>2. ASSUME NEW n \in 0 .. d.capacity
      PROVE  Cell(d, n) = IF d.first + n < d.capacity THEN d.first + n ELSE d.first + n - d.capacity
  <2>1. d.first + n \in 0 .. 2 * d.capacity - 1
    BY <1>1
  <2>2. (d.first + n) % d.capacity =
          IF d.first + n < d.capacity THEN d.first + n ELSE (d.first + n) - d.capacity
    BY <1>1, <2>1, ModIndex, Zenon
  <2>3. (d.first + n) - d.capacity = d.first + n - d.capacity
    BY <1>1
  <2> QED BY <2>2, <2>3, Zenon DEF Cell
<1> QED BY <1>1, <1>2

\* A new deque is empty.
LEMMA NewDequeProperties ==
  ASSUME NEW T, NEW capacity \in Nat \ {0}
  PROVE  /\ IsDeque(NewDeque(capacity), T)
         /\ ToArray(NewDeque(capacity)) = <<>>
BY DEF IsDeque, NewDeque, ToArray, Cell

\* The items of a deque are a sequence.
LEMMA ToArrayProperties ==
  ASSUME NEW T, NEW d, IsDeque(d, T)
  PROVE  /\ ToArray(d) \in Seq(T)
         /\ Len(ToArray(d)) = d.count
         /\ \A i \in 1 .. d.count : ToArray(d)[i] = d.array[Cell(d, i - 1)]
<1>1. d.count \in Nat /\ \A n \in 0 .. d.count - 1 : d.array[Cell(d, n)] \in T
  BY DEF IsDeque
<1>2. \A i \in 1 .. d.count : i - 1 \in 0 .. d.count - 1
  BY <1>1
<1>3. ToArray(d) \in [1 .. d.count -> T]
  BY <1>1, <1>2 DEF ToArray
<1> QED BY <1>1, <1>3 DEF ToArray

\* Resizing keeps the items.
LEMMA ResizeProperties ==
  ASSUME NEW T, NEW d, IsDeque(d, T), NEW c \in Nat \ {0}, d.count <= c
  PROVE  /\ IsDeque(Resize(d, c), T)
         /\ ToArray(Resize(d, c)) = ToArray(d)
         /\ Resize(d, c).capacity = c /\ Resize(d, c).count = d.count
<1> DEFINE r == Resize(d, c)
<1>1. /\ d.count \in 0 .. c
      /\ \A n \in 0 .. d.count - 1 : d.array[Cell(d, n)] \in T
  BY DEF IsDeque
<1>2. /\ r.capacity = c /\ r.first = 0 /\ r.count = d.count
      /\ r = [array |-> r.array, first |-> r.first, count |-> r.count, capacity |-> r.capacity]
      /\ r.array = [n \in 0 .. c - 1 |-> IF n < d.count THEN d.array[Cell(d, n)] ELSE Default]
  BY DEF Resize
<1> HIDE DEF r
<1>3. \A n \in 0 .. c - 1 : Cell(r, n) = n
  BY <1>2, ModIndex DEF Cell
<1>4. r.array \in [0 .. c - 1 -> T \cup {Default}]
  BY <1>1, <1>2
<1>5. \A n \in 0 .. d.count - 1 : r.array[Cell(r, n)] = d.array[Cell(d, n)]
  BY <1>1, <1>2, <1>3
<1>6. IsDeque(r, T)
  <2>1. r.first \in 0 .. r.capacity - 1 /\ r.capacity \in Nat \ {0} /\ r.count \in 0 .. r.capacity
    BY <1>1, <1>2
  <2>2. \A n \in 0 .. r.count - 1 : r.array[Cell(r, n)] \in T
    BY <1>1, <1>2, <1>5
  <2> QED BY <1>2, <1>4, <2>1, <2>2 DEF IsDeque
<1>7. \A i \in 1 .. d.count : i - 1 \in 0 .. d.count - 1
  BY <1>1
<1>8. ToArray(r) = ToArray(d)
  BY <1>2, <1>5, <1>7 DEF ToArray
<1> QED BY <1>2, <1>6, <1>8 DEF r

\* Adding makes room first, and that keeps the items.
LEMMA ReserveProperties ==
  ASSUME NEW T, NEW d, IsDeque(d, T)
  PROVE  /\ IsDeque(Reserve(d), T)
         /\ ToArray(Reserve(d)) = ToArray(d)
         /\ Reserve(d).count = d.count
         /\ Reserve(d).count < Reserve(d).capacity
<1>1. d.capacity \in Nat \ {0} /\ d.count \in 0 .. d.capacity
  BY DEF IsDeque
<1>2. CASE d.count = d.capacity
  <2>1. 2 * d.capacity \in Nat \ {0} /\ d.count <= 2 * d.capacity
    BY <1>1
  <2>2. /\ IsDeque(Resize(d, 2 * d.capacity), T)
        /\ ToArray(Resize(d, 2 * d.capacity)) = ToArray(d)
        /\ Resize(d, 2 * d.capacity).capacity = 2 * d.capacity
        /\ Resize(d, 2 * d.capacity).count = d.count
    BY <2>1, ResizeProperties
  <2> QED BY <1>1, <1>2, <2>2 DEF Reserve
<1>3. CASE d.count # d.capacity
  BY <1>1, <1>3 DEF Reserve
<1> QED BY <1>2, <1>3

\* AddTail() appends.
LEMMA AddTailProperties ==
  ASSUME NEW T, NEW d, IsDeque(d, T), NEW item \in T
  PROVE  /\ IsDeque(AddTail(d, item), T)
         /\ ToArray(AddTail(d, item)) = Append(ToArray(d), item)
<1> DEFINE r == Reserve(d)
           e == AddTail(d, item)
<1>1. IsDeque(r, T) /\ ToArray(r) = ToArray(d) /\ r.count < r.capacity
  BY ReserveProperties
<1>2. e = [r EXCEPT !.array[Cell(r, r.count)] = item, !.count = r.count + 1]
  BY DEF AddTail
<1> HIDE DEF e, r
<1>3. /\ r = [array |-> r.array, first |-> r.first, count |-> r.count, capacity |-> r.capacity]
      /\ r.capacity \in Nat \ {0} /\ r.first \in 0 .. r.capacity - 1
      /\ r.count \in 0 .. r.capacity - 1
      /\ r.array \in [0 .. r.capacity - 1 -> T \cup {Default}]
      /\ \A n \in 0 .. r.count - 1 : r.array[Cell(r, n)] \in T
  BY <1>1 DEF IsDeque
<1>4. /\ e.capacity = r.capacity /\ e.first = r.first /\ e.count = r.count + 1
      /\ e.array = [r.array EXCEPT ![Cell(r, r.count)] = item]
      /\ e = [array |-> e.array, first |-> e.first, count |-> e.count, capacity |-> e.capacity]
  BY <1>2, <1>3
<1>5. \A n \in 0 .. r.capacity - 1 : Cell(e, n) = Cell(r, n)
  BY <1>4 DEF Cell
<1>6. /\ \A n \in 0 .. r.capacity - 1 : Cell(r, n) \in 0 .. r.capacity - 1
      /\ \A n \in 0 .. r.count - 1 : Cell(r, n) # Cell(r, r.count)
  <2>1. /\ \A n \in 0 .. r.capacity : Cell(r, n) \in 0 .. r.capacity - 1
        /\ \A n, k \in 0 .. r.capacity - 1 : Cell(r, n) = Cell(r, k) => n = k
    BY <1>1, CellProperties
  <2>2. \A n \in 0 .. r.count - 1 : n \in 0 .. r.capacity - 1 /\ n # r.count
    BY <1>3
  <2> QED BY <1>3, <2>1, <2>2
<1>7. /\ \A n \in 0 .. r.count - 1 : e.array[Cell(e, n)] = r.array[Cell(r, n)]
      /\ e.array[Cell(e, r.count)] = item
  <2>1. r.count \in 0 .. r.capacity - 1 /\ \A n \in 0 .. r.count - 1 : n \in 0 .. r.capacity - 1
    BY <1>3
  <2> QED BY <1>3, <1>4, <1>5, <1>6, <2>1
<1>8. e.array \in [0 .. e.capacity - 1 -> T \cup {Default}]
  BY <1>3, <1>4
<1>9. \A n \in 0 .. e.count - 1 : e.array[Cell(e, n)] \in T
  <2>1. \A n \in 0 .. e.count - 1 : n \in 0 .. r.count - 1 \/ n = r.count
    BY <1>3, <1>4
  <2> QED BY <1>3, <1>7, <2>1
<1>10. IsDeque(e, T)
  BY <1>3, <1>4, <1>8, <1>9 DEF IsDeque
<1>11. ToArray(e) = Append(ToArray(r), item)
  <2>1. /\ ToArray(r) \in Seq(T) /\ Len(ToArray(r)) = r.count
        /\ \A i \in 1 .. r.count : ToArray(r)[i] = r.array[Cell(r, i - 1)]
    BY <1>1, ToArrayProperties
  <2>2. /\ ToArray(e) \in Seq(T) /\ Len(ToArray(e)) = r.count + 1
        /\ \A i \in 1 .. r.count + 1 : ToArray(e)[i] = e.array[Cell(e, i - 1)]
    BY <1>4, <1>10, ToArrayProperties
  <2>3. \A i \in 1 .. r.count : ToArray(e)[i] = ToArray(r)[i]
    <3>1. \A i \in 1 .. r.count : i - 1 \in 0 .. r.count - 1 /\ i \in 1 .. r.count + 1
      BY <1>3
    <3> QED BY <1>7, <2>1, <2>2, <3>1
  <2>4. ToArray(e)[r.count + 1] = item
    BY <1>3, <1>7, <2>2
  <2> HIDE DEF e
  <2> QED BY <1>3, <2>1, <2>2, <2>3, <2>4
<1> QED BY <1>1, <1>10, <1>11 DEF e

\* AddHead() prepends.
LEMMA AddHeadProperties ==
  ASSUME NEW T, NEW d, IsDeque(d, T), NEW item \in T
  PROVE  /\ IsDeque(AddHead(d, item), T)
         /\ ToArray(AddHead(d, item)) = <<item>> \o ToArray(d)
<1> DEFINE r == Reserve(d)
           f == (r.first + r.capacity - 1) % r.capacity
           e == AddHead(d, item)
<1>1. IsDeque(r, T) /\ ToArray(r) = ToArray(d) /\ r.count < r.capacity
  BY ReserveProperties
<1>2. e = [r EXCEPT !.first = f, !.array[f] = item, !.count = r.count + 1]
  BY DEF AddHead
<1> HIDE DEF e, r
<1>3. /\ r = [array |-> r.array, first |-> r.first, count |-> r.count, capacity |-> r.capacity]
      /\ r.capacity \in Nat \ {0} /\ r.first \in 0 .. r.capacity - 1
      /\ r.count \in 0 .. r.capacity - 1
      /\ r.array \in [0 .. r.capacity - 1 -> T \cup {Default}]
      /\ \A n \in 0 .. r.count - 1 : r.array[Cell(r, n)] \in T
  BY <1>1 DEF IsDeque
<1>4. f = IF r.first = 0 THEN r.capacity - 1 ELSE r.first - 1
  <2> DEFINE a == r.first + r.capacity - 1
  <2>1. a \in 0 .. 2 * r.capacity - 1
    BY <1>3
  <2> HIDE DEF a
  <2>2. a % r.capacity = IF a < r.capacity THEN a ELSE a - r.capacity
    BY <1>3, <2>1, ModIndex
  <2>3. (r.first + r.capacity - 1) % r.capacity = a % r.capacity
    BY DEF a
  <2>4. a = r.first + r.capacity - 1
    BY DEF a
  <2>5. f = a % r.capacity
    BY <2>3
  <2> QED BY <1>3, <2>2, <2>4, <2>5
<1> HIDE DEF f
<1>5. f \in 0 .. r.capacity - 1
  BY <1>3, <1>4
<1>6. /\ e.capacity = r.capacity /\ e.first = f /\ e.count = r.count + 1
      /\ e.array = [r.array EXCEPT ![f] = item]
      /\ e = [array |-> e.array, first |-> e.first, count |-> e.count, capacity |-> e.capacity]
  BY <1>2, <1>3
<1>7. /\ Cell(e, 0) = f
      /\ \A n \in 0 .. r.count - 1 : Cell(e, n + 1) = Cell(r, n) /\ Cell(r, n) # f
  <2>1. /\ \A n \in 0 .. r.capacity :
             Cell(r, n) = IF r.first + n < r.capacity THEN r.first + n ELSE r.first + n - r.capacity
    BY <1>1, CellProperties
  <2>2. ASSUME NEW n \in 0 .. r.capacity - 1
        PROVE  Cell(e, n) = IF f + n < r.capacity THEN f + n ELSE f + n - r.capacity
    <3> DEFINE a == f + n
    <3>1. a \in 0 .. 2 * r.capacity - 1 /\ Cell(e, n) = a % r.capacity
      BY <1>3, <1>5, <1>6 DEF Cell
    <3> HIDE DEF a
    <3>2. a % r.capacity = IF a < r.capacity THEN a ELSE a - r.capacity
      BY <1>3, <3>1, ModIndex
    <3> QED BY <1>3, <1>5, <3>1, <3>2 DEF a
  <2>3. Cell(e, 0) = f
    BY <1>3, <1>5, <2>2
  <2>4. ASSUME NEW n \in 0 .. r.count - 1
        PROVE  Cell(e, n + 1) = Cell(r, n) /\ Cell(r, n) # f
    <3>1. n + 1 \in 0 .. r.capacity - 1 /\ n \in 0 .. r.capacity
      BY <1>3
    <3>2. Cell(e, n + 1) = IF f + (n + 1) < r.capacity THEN f + (n + 1) ELSE f + (n + 1) - r.capacity
      BY <2>2, <3>1
    <3>3. Cell(r, n) = IF r.first + n < r.capacity THEN r.first + n ELSE r.first + n - r.capacity
      BY <2>1, <3>1
    <3>4. n \in Nat /\ n + 1 < r.capacity
      BY <1>3
    <3>5. CASE r.first = 0
      BY <1>3, <1>4, <3>2, <3>3, <3>4, <3>5
    <3>6. CASE r.first # 0
      BY <1>3, <1>4, <3>2, <3>3, <3>4, <3>6
    <3> QED BY <3>5, <3>6
  <2> QED BY <2>3, <2>4
<1>8. /\ e.array[Cell(e, 0)] = item
      /\ \A n \in 0 .. r.count - 1 : e.array[Cell(e, n + 1)] = r.array[Cell(r, n)]
  <2>1. \A n \in 0 .. r.count - 1 : Cell(r, n) \in 0 .. r.capacity - 1
    <3>1. \A n \in 0 .. r.capacity : Cell(r, n) \in 0 .. r.capacity - 1
      BY <1>1, CellProperties
    <3> QED BY <1>3, <3>1
  <2> QED BY <1>3, <1>5, <1>6, <1>7, <2>1
<1>9. e.array \in [0 .. e.capacity - 1 -> T \cup {Default}]
  BY <1>3, <1>6
<1>10. \A n \in 0 .. e.count - 1 : e.array[Cell(e, n)] \in T
  <2> SUFFICES ASSUME NEW n \in 0 .. e.count - 1 PROVE e.array[Cell(e, n)] \in T
    OBVIOUS
  <2>1. CASE n = 0
    BY <1>8, <2>1
  <2>2. CASE n # 0
    <3>1. n - 1 \in 0 .. r.count - 1 /\ (n - 1) + 1 = n
      BY <1>3, <1>6, <2>2
    <3>2. e.array[Cell(e, (n - 1) + 1)] = r.array[Cell(r, n - 1)]
      BY <1>8, <3>1
    <3> QED BY <1>3, <3>1, <3>2
  <2> QED BY <2>1, <2>2
<1>11. IsDeque(e, T)
  <2>1. e.first \in 0 .. e.capacity - 1 /\ e.capacity \in Nat \ {0} /\ e.count \in 0 .. e.capacity
    BY <1>3, <1>5, <1>6
  <2> QED BY <1>6, <1>9, <1>10, <2>1 DEF IsDeque
<1>12. ToArray(e) = <<item>> \o ToArray(r)
  <2>1. /\ ToArray(r) \in Seq(T) /\ Len(ToArray(r)) = r.count
        /\ \A i \in 1 .. r.count : ToArray(r)[i] = r.array[Cell(r, i - 1)]
    BY <1>1, ToArrayProperties
  <2>2. /\ ToArray(e) \in Seq(T) /\ Len(ToArray(e)) = r.count + 1
        /\ \A i \in 1 .. r.count + 1 : ToArray(e)[i] = e.array[Cell(e, i - 1)]
    BY <1>6, <1>11, ToArrayProperties
  <2>3. ToArray(e)[1] = item
    <3>1. 1 \in 1 .. r.count + 1
      BY <1>3
    <3>2. ToArray(e)[1] = e.array[Cell(e, 1 - 1)]
      BY <2>2, <3>1, Zenon
    <3> QED BY <1>8, <3>2
  <2>4. ASSUME NEW i \in 1 .. r.count PROVE ToArray(e)[i + 1] = ToArray(r)[i]
    <3>1. i - 1 \in 0 .. r.count - 1 /\ i + 1 \in 1 .. r.count + 1 /\ (i + 1) - 1 = (i - 1) + 1
      BY <1>3
    <3>2. e.array[Cell(e, (i - 1) + 1)] = r.array[Cell(r, i - 1)]
      BY <1>8, <3>1
    <3>3. ToArray(e)[i + 1] = e.array[Cell(e, (i + 1) - 1)]
      BY <2>2, <3>1
    <3> QED BY <2>1, <3>1, <3>2, <3>3
  <2> DEFINE s == ToArray(r)
             t == ToArray(e)
  <2>5. s \in Seq(T) /\ t \in Seq(T) /\ Len(t) = Len(s) + 1 /\ t[1] = item
        /\ \A i \in 1 .. Len(s) : t[i + 1] = s[i]
    BY <2>1, <2>2, <2>3, <2>4
  <2> HIDE DEF s, t
  <2>6. t = <<item>> \o s
    BY <2>5
  <2> QED BY <2>6 DEF s, t
<1> QED BY <1>1, <1>11, <1>12 DEF e

\* RemoveHead() of a deque with items removes the first one.
LEMMA RemoveHeadProperties ==
  ASSUME NEW T, NEW d, IsDeque(d, T), d.count > 0
  PROVE  /\ IsDeque(RemoveHead(d), T)
         /\ ToArray(RemoveHead(d)) = Tail(ToArray(d))
<1> DEFINE e == RemoveHead(d)
<1>1. /\ d = [array |-> d.array, first |-> d.first, count |-> d.count, capacity |-> d.capacity]
      /\ d.capacity \in Nat \ {0} /\ d.first \in 0 .. d.capacity - 1
      /\ d.count \in 1 .. d.capacity
      /\ d.array \in [0 .. d.capacity - 1 -> T \cup {Default}]
      /\ \A n \in 0 .. d.count - 1 : d.array[Cell(d, n)] \in T
  BY DEF IsDeque
<1>2. /\ e.capacity = d.capacity /\ e.first = Cell(d, 1) /\ e.count = d.count - 1
      /\ e.array = [d.array EXCEPT ![d.first] = Default]
      /\ e = [array |-> e.array, first |-> e.first, count |-> e.count, capacity |-> e.capacity]
  <2>1. e = [d EXCEPT !.array[d.first] = Default, !.first = Cell(d, 1), !.count = d.count - 1]
    BY DEF RemoveHead
  <2> HIDE DEF e
  <2> QED BY <1>1, <2>1
<1> HIDE DEF e
<1>3. \A n \in 0 .. d.capacity :
        /\ Cell(d, n) = IF d.first + n < d.capacity THEN d.first + n ELSE d.first + n - d.capacity
        /\ Cell(d, n) \in 0 .. d.capacity - 1
  BY CellProperties
<1>4. e.first \in 0 .. d.capacity - 1
  BY <1>1, <1>2, <1>3
<1>5. ASSUME NEW n \in 0 .. d.count - 2
      PROVE  Cell(e, n) = Cell(d, n + 1) /\ Cell(e, n) # d.first
  <2> DEFINE a == e.first + n
  <2>1. a \in 0 .. 2 * d.capacity - 1 /\ Cell(e, n) = a % d.capacity
    BY <1>1, <1>2, <1>4 DEF Cell
  <2> HIDE DEF a
  <2>2. a % d.capacity = IF a < d.capacity THEN a ELSE a - d.capacity
    BY <1>1, <2>1, ModIndex
  <2>3. n + 1 \in 0 .. d.capacity - 1 /\ n + 1 \in 0 .. d.capacity /\ 1 \in 0 .. d.capacity
    BY <1>1
  <2>4. Cell(d, n + 1) = IF d.first + (n + 1) < d.capacity THEN d.first + (n + 1)
                                                      ELSE d.first + (n + 1) - d.capacity
    BY <1>3, <2>3, Zenon
  <2>5. Cell(d, 1) = IF d.first + 1 < d.capacity THEN d.first + 1 ELSE d.first + 1 - d.capacity
    BY <1>3, <2>3
  <2>6. a = (IF d.first + 1 < d.capacity THEN d.first + 1 ELSE d.first + 1 - d.capacity) + n
    BY <1>2, <2>5 DEF a
  <2>7. Cell(e, n) = Cell(d, n + 1)
    <3>1. CASE d.first + 1 < d.capacity
      <4>1. a = d.first + (n + 1)
        BY <1>1, <2>6, <3>1
      <4>2. d.first + (n + 1) \in Nat /\ d.capacity \in Nat
        BY <1>1
      <4> QED BY <1>1, <2>1, <2>2, <2>4, <4>1, <4>2
    <3>2. CASE ~(d.first + 1 < d.capacity)
      <4>1. d.first + 1 = d.capacity
        BY <1>1, <3>2
      <4>2. d.first + 1 = d.capacity /\ a = n
        BY <1>1, <2>6, <4>1
      <4>3. Cell(d, n + 1) = n
        BY <1>1, <2>3, <2>4, <4>2
      <4>4. n < d.capacity
        BY <1>1
      <4> QED BY <2>1, <2>2, <4>2, <4>3, <4>4
    <3> QED BY <3>1, <3>2
  <2>8. Cell(e, n) # d.first
    BY <1>1, <2>3, <2>4, <2>7
  <2> QED BY <2>7, <2>8
<1>6. ASSUME NEW n \in 0 .. d.count - 2
      PROVE  e.array[Cell(e, n)] = d.array[Cell(d, n + 1)]
  <2>1. n + 1 \in 0 .. d.capacity
    BY <1>1
  <2>2. Cell(d, n + 1) \in 0 .. d.capacity - 1
    BY <1>3, <2>1
  <2> QED BY <1>1, <1>2, <1>5, <2>2
<1>7. \A n \in 0 .. e.count - 1 : e.array[Cell(e, n)] \in T
  <2>1. \A n \in 0 .. e.count - 1 : n \in 0 .. d.count - 2 /\ n + 1 \in 0 .. d.count - 1
    BY <1>1, <1>2
  <2> QED BY <1>1, <1>6, <2>1
<1>8. IsDeque(e, T)
  <2>1. e.array \in [0 .. e.capacity - 1 -> T \cup {Default}]
    BY <1>1, <1>2
  <2>2. e.first \in 0 .. e.capacity - 1 /\ e.capacity \in Nat \ {0} /\ e.count \in 0 .. e.capacity
    BY <1>1, <1>2, <1>4
  <2> QED BY <1>2, <1>7, <2>1, <2>2 DEF IsDeque
<1>9. ToArray(e) = Tail(ToArray(d))
  <2> DEFINE s == ToArray(d)
             t == ToArray(e)
  <2>1. /\ s \in Seq(T) /\ Len(s) = d.count
        /\ \A i \in 1 .. d.count : s[i] = d.array[Cell(d, i - 1)]
    BY ToArrayProperties
  <2>2. /\ t \in Seq(T) /\ Len(t) = d.count - 1
        /\ \A i \in 1 .. d.count - 1 : t[i] = e.array[Cell(e, i - 1)]
    BY <1>2, <1>8, ToArrayProperties
  <2> HIDE DEF s, t
  <2>3. ASSUME NEW i \in 1 .. d.count - 1 PROVE t[i] = s[i + 1]
    <3>1. i - 1 \in 0 .. d.count - 2 /\ i + 1 \in 1 .. d.count /\ (i + 1) - 1 = (i - 1) + 1
      BY <1>1
    <3>2. e.array[Cell(e, i - 1)] = d.array[Cell(d, (i - 1) + 1)]
      BY <1>6, <3>1
    <3>3. s[i + 1] = d.array[Cell(d, (i + 1) - 1)]
      BY <2>1, <3>1
    <3> QED BY <2>2, <3>1, <3>2, <3>3
  <2>4. t = Tail(s)
    BY <1>1, <2>1, <2>2, <2>3
  <2> QED BY <2>4 DEF s, t
<1> QED BY <1>8, <1>9 DEF e

\* Clear() leaves no item.
LEMMA ClearProperties ==
  ASSUME NEW T, NEW d, IsDeque(d, T)
  PROVE  IsDeque(Clear(d), T) /\ ToArray(Clear(d)) = <<>>
<1> DEFINE e == Clear(d)
<1>1. /\ d = [array |-> d.array, first |-> d.first, count |-> d.count, capacity |-> d.capacity]
      /\ d.capacity \in Nat \ {0}
      /\ d.array \in [0 .. d.capacity - 1 -> T \cup {Default}]
  BY DEF IsDeque
<1>2. /\ e.capacity = d.capacity /\ e.first = 0 /\ e.count = 0
      /\ e.array = [i \in 0 .. d.capacity - 1 |->
                      IF \E n \in 0 .. d.count - 1 : i = Cell(d, n) THEN Default ELSE d.array[i]]
      /\ e = [array |-> e.array, first |-> e.first, count |-> e.count, capacity |-> e.capacity]
  <2>1. DOMAIN d.array = 0 .. d.capacity - 1
    BY <1>1
  <2>2. e = [d EXCEPT !.array = [i \in DOMAIN d.array |->
                                   IF \E n \in 0 .. d.count - 1 : i = Cell(d, n)
                                   THEN Default ELSE d.array[i]],
                      !.count = 0, !.first = 0]
    BY DEF Clear
  <2> HIDE DEF e
  <2> DEFINE ar == [i \in DOMAIN d.array |->
                                   IF \E n \in 0 .. d.count - 1 : i = Cell(d, n)
                                   THEN Default ELSE d.array[i]]
  <2>3. e = [d EXCEPT !.array = ar, !.count = 0, !.first = 0]
    BY <2>2
  <2>4. ar = [i \in 0 .. d.capacity - 1 |->
                      IF \E n \in 0 .. d.count - 1 : i = Cell(d, n) THEN Default ELSE d.array[i]]
    BY <2>1
  <2> HIDE DEF ar
  <2>5. /\ e.capacity = d.capacity /\ e.first = 0 /\ e.count = 0 /\ e.array = ar
        /\ e = [array |-> e.array, first |-> e.first, count |-> e.count, capacity |-> e.capacity]
    BY <1>1, <2>3
  <2> QED BY <2>4, <2>5
<1> HIDE DEF e
<1>3. IsDeque(e, T)
  <2>1. e.array \in [0 .. e.capacity - 1 -> T \cup {Default}]
    BY <1>1, <1>2
  <2> QED BY <1>1, <1>2, <2>1 DEF IsDeque
<1>4. ToArray(e) \in Seq(T) /\ Len(ToArray(e)) = 0
  BY <1>2, <1>3, ToArrayProperties
<1> QED BY <1>3, <1>4 DEF e

-----------------------------------------------------------------------------
(* The queue of byte buffers                                               *)

\* The inductive invariant.  Intact alone is not inductive: only BufferInv says
\* that a write does not touch what is still read.
Inv == TypeOK /\ Intact /\ BufferInv

-----------------------------------------------------------------------------
\* Queued is a sequence of messages.
LEMMA QueuedType ==
  ASSUME TypeOK
  PROVE  Queued \in Seq(Items) /\ Len(Queued) = deque.count
BY ToArrayProperties DEF TypeOK, Queued

\* The buffer lengths and the message CreateMessageValue() returns.
LEMMA NewItemProperties ==
  ASSUME TypeOK, BufferInv, adds < MaxAdds, NEW len \in Lengths
  PROVE  LET m == NewItem(len)
         IN  /\ len \in Nat \ {0}
             /\ m \in Items /\ m.len = len /\ m.meta = adds + 1
             /\ \A b \in 0 .. 1 : BufferLen(b) \in Nat
             /\ GrownLen(len) \in Nat /\ GrownLen(len) >= len
             /\ Grows(len) => m.array = Len(memory) + 1 /\ m.start = 0
             /\ ~Grows(len) => /\ m.array = buffer[writeBuffer] /\ m.array \in 1 .. Len(memory)
                               /\ m.start = bufferPos[writeBuffer]
                               /\ m.start + len <= Len(memory[m.array])
<1>1. /\ len \in Nat \ {0} /\ adds \in Nat /\ MaxAdds \in Nat
      /\ writeBuffer \in 0 .. 1
      /\ buffer \in [0 .. 1 -> 0 .. Len(memory)] /\ bufferPos \in [0 .. 1 -> Nat]
      /\ memory \in Seq(Seq(Nat)) /\ Len(memory) \in Nat
  BY LengthsAssumption, MaxAddsAssumption DEF TypeOK
<1>2. \A b \in 0 .. 1 : BufferLen(b) \in Nat
  <2> SUFFICES ASSUME NEW b \in 0 .. 1 PROVE BufferLen(b) \in Nat
    OBVIOUS
  <2>1. CASE buffer[b] = 0
    BY <2>1 DEF BufferLen
  <2>2. CASE buffer[b] # 0
    <3>1. buffer[b] \in 1 .. Len(memory)
      BY <1>1, <2>2
    <3>2. memory[buffer[b]] \in Seq(Nat)
      BY <1>1, <3>1
    <3> QED BY <2>2, <3>2 DEF BufferLen
  <2> QED BY <2>1, <2>2
<1>3. GrownLen(len) \in Nat /\ GrownLen(len) >= len
  <2>1. BufferLen(writeBuffer) \in Nat
    BY <1>1, <1>2
  <2> HIDE DEF BufferLen
  <2> QED BY <1>1, <2>1 DEF GrownLen
<1>4. /\ NewItem(len).len = len /\ NewItem(len).meta = adds + 1
      /\ NewItem(len) \in Items
  BY <1>1 DEF NewItem, Items
<1>5. Grows(len) => NewItem(len).array = Len(memory) + 1 /\ NewItem(len).start = 0
  BY DEF NewItem
<1>6. ASSUME ~Grows(len)
      PROVE  /\ NewItem(len).array = buffer[writeBuffer]
             /\ NewItem(len).array \in 1 .. Len(memory)
             /\ NewItem(len).start = bufferPos[writeBuffer]
             /\ NewItem(len).start + len <= Len(memory[NewItem(len).array])
  <2>1. NewItem(len).array = buffer[writeBuffer] /\ NewItem(len).start = bufferPos[writeBuffer]
    BY <1>6 DEF NewItem
  <2>2. /\ BufferLen(writeBuffer) \in Nat /\ bufferPos[writeBuffer] \in Nat
        /\ len <= BufferLen(writeBuffer) - bufferPos[writeBuffer]
    BY <1>1, <1>2, <1>6 DEF Grows, Remaining
  <2>3. buffer[writeBuffer] # 0
    BY <1>1, <2>2 DEF BufferLen
  <2>4. BufferLen(writeBuffer) = Len(memory[buffer[writeBuffer]])
    BY <2>3 DEF BufferLen
  <2>5. bufferPos[writeBuffer] + len <= BufferLen(writeBuffer)
    BY <1>1, <2>2
  <2> QED BY <1>1, <2>1, <2>3, <2>4, <2>5
<1> QED BY <1>1, <1>2, <1>3, <1>4, <1>5, <1>6

\* What CreateMessageValue() does to the byte arrays: the message can be read,
\* and no other byte changes.
LEMMA WriteMemory ==
  ASSUME TypeOK, BufferInv, adds < MaxAdds, NEW len \in Lengths, Write(NewItem(len))
  PROVE  LET m == NewItem(len)
         IN  /\ memory' \in Seq(Seq(Nat)) /\ Len(memory') \in Nat
             /\ Len(memory') >= Len(memory)
             /\ m.array \in 1 .. Len(memory')
             /\ m.start + m.len <= Len(memory'[m.array])
             /\ \A i \in Bytes(m) : memory'[m.array][i] = m.meta
             /\ \A a \in 1 .. Len(memory) :
                  /\ Len(memory'[a]) = Len(memory[a])
                  /\ \A i \in 1 .. Len(memory[a]) :
                       a # m.array \/ i \notin Bytes(m) => memory'[a][i] = memory[a][i]
             /\ Grows(len) => Len(memory') = Len(memory) + 1 /\ Len(memory'[m.array]) = GrownLen(len)
<1> DEFINE m == NewItem(len)
<1>1. /\ len \in Nat \ {0}
      /\ m \in Items /\ m.len = len /\ m.meta = adds + 1
      /\ GrownLen(len) \in Nat /\ GrownLen(len) >= len
      /\ Grows(len) => m.array = Len(memory) + 1 /\ m.start = 0
      /\ ~Grows(len) => /\ m.array = buffer[writeBuffer] /\ m.array \in 1 .. Len(memory)
                        /\ m.start = bufferPos[writeBuffer]
                        /\ m.start + len <= Len(memory[m.array])
  BY NewItemProperties
<1>2. memory \in Seq(Seq(Nat)) /\ Len(memory) \in Nat
  BY DEF TypeOK
<1>3. m.meta \in Nat /\ m.start \in Nat /\ m.len \in Nat
  BY <1>1 DEF Items
<1>4. Write(m)
  OBVIOUS
<1> HIDE DEF m
<1>5. CASE Grows(len)
  <2> DEFINE new == [i \in 1 .. GrownLen(len) |-> IF i \in Bytes(m) THEN m.meta ELSE 0]
  <2>1. memory' = Append(memory, new)
    BY <1>1, <1>4, <1>5 DEF Write
  <2>2. new \in Seq(Nat) /\ Len(new) = GrownLen(len)
    BY <1>1, <1>3
  <2>3. Bytes(m) \subseteq 1 .. GrownLen(len)
    BY <1>1, <1>5 DEF Bytes
  <2>4. \A i \in Bytes(m) : new[i] = m.meta
    BY <2>3
  <2> HIDE DEF new
  <2>5. /\ memory' \in Seq(Seq(Nat)) /\ Len(memory') = Len(memory) + 1
        /\ \A a \in 1 .. Len(memory) : memory'[a] = memory[a]
        /\ memory'[Len(memory) + 1] = new
    BY <1>2, <2>1, <2>2
  <2>6. \A a \in 1 .. Len(memory) : Len(memory'[a]) = Len(memory[a])
    BY <2>5
  <2>7. m.array = Len(memory) + 1 /\ m.start = 0
    BY <1>1, <1>5
  <2>8. m.array \in 1 .. Len(memory') /\ memory'[m.array] = new
    BY <1>2, <2>5, <2>7
  <2>9. m.start + m.len <= Len(memory'[m.array]) /\ m.array \notin 1 .. Len(memory)
    BY <1>1, <1>2, <2>2, <2>7, <2>8
  <2>10. \A i \in Bytes(m) : memory'[m.array][i] = m.meta
    BY <2>4, <2>8
  <2> QED BY <1>2, <2>2, <2>5, <2>6, <2>8, <2>9, <2>10 DEF m
<1>6. CASE ~Grows(len)
  <2> DEFINE old == memory[m.array]
             new == [i \in DOMAIN old |-> IF i \in Bytes(m) THEN m.meta ELSE old[i]]
  <2>1. memory' = [memory EXCEPT ![m.array] = new]
    BY <1>1, <1>4, <1>6 DEF Write
  <2>2. /\ m.array \in 1 .. Len(memory) /\ old \in Seq(Nat)
        /\ m.start + len <= Len(old)
    BY <1>1, <1>2, <1>6
  <2> HIDE DEF old
  <2>3. DOMAIN old = 1 .. Len(old) /\ Len(old) \in Nat /\ \A i \in 1 .. Len(old) : old[i] \in Nat
    BY <2>2
  <2>4. new \in Seq(Nat) /\ Len(new) = Len(old)
    <3>1. new \in [1 .. Len(old) -> Nat]
      BY <1>3, <2>3
    <3> QED BY <2>3, <3>1
  <2>5. Bytes(m) \subseteq 1 .. Len(old)
    <3>1. m.start + m.len <= Len(old)
      BY <1>1, <2>2
    <3> QED BY <1>3, <2>3, <3>1 DEF Bytes
  <2>6. /\ \A i \in Bytes(m) : new[i] = m.meta
        /\ \A i \in 1 .. Len(old) : i \notin Bytes(m) => new[i] = old[i]
    BY <2>3, <2>5
  <2> HIDE DEF new
  <2>7. /\ memory' \in Seq(Seq(Nat)) /\ Len(memory') = Len(memory)
        /\ memory'[m.array] = new
        /\ \A a \in 1 .. Len(memory) : a # m.array => memory'[a] = memory[a]
    BY <1>2, <2>1, <2>2, <2>4
  <2>8. ASSUME NEW a \in 1 .. Len(memory)
        PROVE  /\ Len(memory'[a]) = Len(memory[a])
               /\ \A i \in 1 .. Len(memory[a]) :
                    a # m.array \/ i \notin Bytes(m) => memory'[a][i] = memory[a][i]
    <3>1. CASE a = m.array
      BY <2>4, <2>6, <2>7, <3>1 DEF old
    <3>2. CASE a # m.array
      BY <2>7, <3>2
    <3> QED BY <3>1, <3>2
  <2>9. m.start + m.len <= Len(memory'[m.array])
    BY <1>1, <2>2, <2>4, <2>7
  <2> QED BY <1>1, <1>2, <1>6, <2>2, <2>6, <2>7, <2>8, <2>9 DEF m
<1> QED BY <1>5, <1>6

\* A message that is read from below the write position, or from another array
\* than the write buffer, is not touched by a write.
LEMMA WriteKeeps ==
  ASSUME TypeOK, BufferInv, adds < MaxAdds, NEW len \in Lengths, Write(NewItem(len)),
         NEW m \in Items, Reads(memory, m),
         m.array = buffer[writeBuffer] => m.start + m.len <= bufferPos[writeBuffer]
  PROVE  /\ Reads(memory', m)
         /\ m.array = NewItem(len).array => m.start + m.len <= NewItem(len).start
<1> DEFINE n == NewItem(len)
<1>1. /\ Len(memory') \in Nat /\ Len(memory') >= Len(memory)
      /\ \A a \in 1 .. Len(memory) :
           /\ Len(memory'[a]) = Len(memory[a])
           /\ \A i \in 1 .. Len(memory[a]) :
                a # n.array \/ i \notin Bytes(n) => memory'[a][i] = memory[a][i]
  BY WriteMemory
<1>2. /\ n \in Items
      /\ Grows(len) => n.array = Len(memory) + 1
      /\ ~Grows(len) => n.array = buffer[writeBuffer] /\ n.start = bufferPos[writeBuffer]
  BY NewItemProperties
<1> HIDE DEF n
<1>3. /\ m.array \in 1 .. Len(memory) /\ Len(memory) \in Nat
      /\ Bytes(m) \subseteq 1 .. Len(memory[m.array])
      /\ \A i \in Bytes(m) : memory[m.array][i] = m.meta
  BY DEF Reads, TypeOK
<1>4. m.array = n.array => m.start + m.len <= n.start
  BY <1>2, <1>3
<1>5. m.array = n.array => \A i \in Bytes(m) : i \notin Bytes(n)
  BY <1>2, <1>4 DEF Bytes, Items
<1>6. m.array \in 1 .. Len(memory')
  BY <1>1, <1>3
<1>7. /\ Bytes(m) \subseteq 1 .. Len(memory'[m.array])
      /\ \A i \in Bytes(m) : memory'[m.array][i] = m.meta
  BY <1>1, <1>3, <1>5
<1>8. Reads(memory', m)
  BY <1>6, <1>7 DEF Reads, Bytes
<1> QED BY <1>4, <1>8 DEF n

\* Adding a message, at either end, preserves the invariant.
LEMMA AddKeepsInv ==
  ASSUME Inv, adds < MaxAdds, NEW len \in Lengths, Write(NewItem(len)),
         UNCHANGED <<writeBuffer, closed, messages>>,
         IsDeque(deque, Items)',
         \A i \in 1 .. Len(Queued') : Queued'[i] = NewItem(len) \/ \E j \in 1 .. Len(Queued) : Queued'[i] = Queued[j]
  PROVE  Inv'
<1> DEFINE n == NewItem(len)
           w == writeBuffer
<1> USE DEF Inv
<1>1. /\ memory' \in Seq(Seq(Nat)) /\ Len(memory') \in Nat /\ Len(memory') >= Len(memory)
      /\ n.array \in 1 .. Len(memory')
      /\ n.start + n.len <= Len(memory'[n.array])
      /\ \A i \in Bytes(n) : memory'[n.array][i] = n.meta
      /\ \A a \in 1 .. Len(memory) : Len(memory'[a]) = Len(memory[a])
      /\ Grows(len) => Len(memory') = Len(memory) + 1
  BY WriteMemory
<1>2. /\ len \in Nat \ {0} /\ n \in Items /\ n.len = len
      /\ Grows(len) => n.array = Len(memory) + 1
      /\ ~Grows(len) => n.array = buffer[w]
  BY NewItemProperties
<1>3. \A m \in Items : Reads(memory, m) /\ (m.array = buffer[w] => m.start + m.len <= bufferPos[w])
           => Reads(memory', m) /\ (m.array = n.array => m.start + m.len <= n.start)
  BY WriteKeeps
<1>4. /\ buffer' = [buffer EXCEPT ![w] = n.array]
      /\ bufferPos' = [bufferPos EXCEPT ![w] = n.start + n.len]
      /\ adds' = adds + 1 /\ batchBytes' = batchBytes + n.len
      /\ largestBatch' = IF batchBytes' > largestBatch THEN batchBytes' ELSE largestBatch
  BY DEF Write
<1>5. \A i \in 1 .. Len(Queued') : Queued'[i] = n \/ \E j \in 1 .. Len(Queued) : Queued'[i] = Queued[j]
  OBVIOUS
<1> HIDE DEF n, w
<1>6. /\ w \in 0 .. 1 /\ writeBuffer' = w /\ writeBuffer = w /\ 1 - w \in 0 .. 1 /\ 1 - w # w
      /\ buffer \in [0 .. 1 -> 0 .. Len(memory)] /\ bufferPos \in [0 .. 1 -> Nat]
      /\ Len(memory) \in Nat /\ adds \in 0 .. MaxAdds /\ batchBytes \in Nat /\ largestBatch \in Nat
      /\ n.start \in Nat /\ n.len \in Nat \ {0} /\ n.array \in Nat
      /\ MaxAdds \in Nat
  BY <1>2, MaxAddsAssumption DEF w, TypeOK, Items
<1>7. TypeOK'
  <2>1. buffer' \in [0 .. 1 -> 0 .. Len(memory')]
    <3>1. n.array \in 0 .. Len(memory') /\ 0 .. Len(memory) \subseteq 0 .. Len(memory')
      BY <1>1, <1>6
    <3> QED BY <1>4, <1>6, <3>1
  <2>2. bufferPos' \in [0 .. 1 -> Nat]
    BY <1>4, <1>6
  <2>3. adds' \in 0 .. MaxAdds /\ batchBytes' \in Nat /\ largestBatch' \in Nat
    BY <1>4, <1>6
  <2>4. writeBuffer' \in 0 .. 1 /\ closed' \in BOOLEAN /\ messages' \in Seq(Items)
    BY DEF TypeOK
  <2> QED BY <1>1, <2>1, <2>2, <2>3, <2>4 DEF TypeOK
<1>8. Queued \in Seq(Items) /\ \A j \in 1 .. Len(Queued) : Queued[j] \in Items
  BY QueuedType
<1>9. messages \in Seq(Items) /\ messages' = messages /\ \A i \in 1 .. Len(messages) : messages[i] \in Items
  BY DEF TypeOK
<1>10. Reads(memory', n)
  <2>1. Bytes(n) \subseteq 1 .. Len(memory'[n.array])
    <3>1. memory'[n.array] \in Seq(Nat)
      BY <1>1
    <3>2. Len(memory'[n.array]) \in Nat
      BY <3>1
    <3>3. n.start + n.len <= Len(memory'[n.array]) /\ n.start \in Nat /\ n.len \in Nat
      BY <1>1, <1>6
    <3> QED BY <3>2, <3>3 DEF Bytes
  <2> QED BY <1>1, <2>1 DEF Reads
<1>11. ASSUME NEW j \in 1 .. Len(Queued)
       PROVE  /\ Reads(memory', Queued[j])
              /\ Queued[j].array = n.array => Queued[j].start + Queued[j].len <= n.start
              /\ Queued[j].array # buffer[1 - w]
  <2>1. /\ Reads(memory, Queued[j])
        /\ Queued[j].array = buffer[w] => Queued[j].start + Queued[j].len <= bufferPos[w]
        /\ Queued[j].array # buffer[1 - w]
    BY <1>6 DEF Intact, BufferInv
  <2> DEFINE q == Queued[j]
  <2>2. q \in Items /\ Reads(memory, q) /\ (q.array = buffer[w] => q.start + q.len <= bufferPos[w])
    BY <1>8, <2>1
  <2> HIDE DEF q
  <2>3. Reads(memory', q) /\ (q.array = n.array => q.start + q.len <= n.start)
    BY <1>3, <2>2
  <2> QED BY <2>1, <2>3 DEF q
<1>12. ASSUME NEW i \in 1 .. Len(messages)
       PROVE  Reads(memory', messages[i]) /\ messages[i].array # n.array
  <2>1. Reads(memory, messages[i]) /\ messages[i].array # buffer[w] /\ messages[i].array \in 1 .. Len(memory)
    BY <1>6 DEF Intact, BufferInv, Reads
  <2>2. messages[i].array # n.array
    BY <1>2, <1>6, <2>1
  <2>3. Reads(memory', messages[i])
    BY <1>3, <1>9, <2>1
  <2> QED BY <2>2, <2>3
<1>13. Intact'
  <2>1. \A i \in 1 .. Len(Queued') : Reads(memory', Queued'[i])
    BY <1>5, <1>10, <1>11
  <2>2. \A i \in 1 .. Len(messages') : Reads(memory', messages'[i])
    BY <1>9, <1>12
  <2> QED BY <2>1, <2>2 DEF Intact
<1>14. BufferInv'
  <2>1. /\ buffer'[w] = n.array /\ buffer'[1 - w] = buffer[1 - w]
        /\ bufferPos'[w] = n.start + n.len /\ bufferPos'[1 - w] = bufferPos[1 - w]
    BY <1>4, <1>6
  <2>2. /\ bufferPos[1 - w] <= BufferLen(1 - w)
        /\ buffer[0] # 0 => buffer[0] # buffer[1]
    BY <1>6 DEF BufferInv
  <2>3. n.array # buffer[1 - w] /\ n.array # 0
    <3>1. CASE Grows(len)
      <4>1. buffer[1 - w] \in 0 .. Len(memory)
        BY <1>6
      <4> QED BY <1>2, <1>6, <3>1, <4>1
    <3>2. CASE ~Grows(len)
      <4>1. n.array = buffer[w] /\ n.array # 0
        BY <1>1, <1>2, <3>2
      <4> QED BY <1>6, <2>2, <4>1
    <3> QED BY <3>1, <3>2
  <2>4. ASSUME NEW b \in 0 .. 1 PROVE bufferPos'[b] <= BufferLen(b)'
    <3>1. CASE b = w
      <4>1. buffer'[b] = n.array /\ bufferPos'[b] <= Len(memory'[n.array])
        BY <1>1, <2>1, <3>1
      <4> QED BY <2>3, <4>1 DEF BufferLen
    <3>2. CASE b = 1 - w
      <4>1. buffer'[b] = buffer[b] /\ bufferPos'[b] = bufferPos[b]
        BY <2>1, <3>2
      <4>2. CASE buffer[b] = 0
        BY <2>2, <3>2, <4>1, <4>2 DEF BufferLen
      <4>3. CASE buffer[b] # 0
        <5>1. buffer[b] \in 1 .. Len(memory)
          BY <1>6, <4>3
        <5>2. Len(memory'[buffer[b]]) = Len(memory[buffer[b]])
          BY <1>1, <5>1
        <5> QED BY <2>2, <3>2, <4>1, <4>3, <5>2 DEF BufferLen
      <4> QED BY <4>2, <4>3
    <3> QED BY <1>6, <3>1, <3>2
  <2>5. buffer'[0] # 0 => buffer'[0] # buffer'[1]
    BY <1>6, <2>1, <2>2, <2>3
  <2>6. ASSUME NEW i \in 1 .. Len(Queued')
        PROVE  /\ Queued'[i].array = buffer'[w] => Queued'[i].start + Queued'[i].len <= bufferPos'[w]
               /\ Queued'[i].array # buffer'[1 - w]
    <3>1. CASE Queued'[i] = n
      BY <1>6, <2>1, <2>3, <3>1
    <3>2. ASSUME NEW j \in 1 .. Len(Queued), Queued'[i] = Queued[j]
          PROVE  /\ Queued'[i].array = buffer'[w] => Queued'[i].start + Queued'[i].len <= bufferPos'[w]
                 /\ Queued'[i].array # buffer'[1 - w]
      <4> DEFINE q == Queued[j]
      <4>1. /\ q.array = n.array => q.start + q.len <= n.start
            /\ q.array # buffer[1 - w]
        BY <1>11
      <4>2. q.start \in Nat /\ q.len \in Nat
        BY <1>8 DEF Items
      <4>3. Queued'[i] = q
        BY <3>2
      <4> HIDE DEF q
      <4>4. q.array # buffer'[1 - w]
        BY <2>1, <4>1
      <4>5. ASSUME q.array = buffer'[w] PROVE q.start + q.len <= bufferPos'[w]
        <5>1. q.start + q.len <= n.start /\ n.start \in Nat /\ n.len \in Nat
          BY <1>6, <2>1, <4>1, <4>5
        <5>2. bufferPos'[w] = n.start + n.len
          BY <2>1
        <5> QED BY <4>2, <5>1, <5>2
      <4> QED BY <4>3, <4>4, <4>5
    <3> QED BY <1>5, <3>1, <3>2
  <2>7. \A i \in 1 .. Len(messages') : messages'[i].array # buffer'[w]
    BY <1>9, <1>12, <2>1
  <2> QED BY <1>6, <2>4, <2>5, <2>6, <2>7 DEF BufferInv
<1> QED BY <1>7, <1>13, <1>14

-----------------------------------------------------------------------------
\* The initial state satisfies the invariant.
LEMMA InitInv == Init => Inv
<1> SUFFICES ASSUME Init PROVE Inv
  OBVIOUS
<1>1. IsDeque(deque, Items) /\ Queued = <<>>
  BY NewDequeProperties, CapacityAssumption DEF Init, Queued
<1>2. TypeOK
  BY <1>1, MaxAddsAssumption DEF Init, TypeOK
<1>3. Len(Queued) = 0 /\ Len(messages) = 0
  BY <1>1 DEF Init
<1>4. Intact
  BY <1>3 DEF Intact
<1>5. BufferInv
  BY <1>3 DEF Init, BufferInv, BufferLen
<1> QED BY <1>2, <1>4, <1>5 DEF Inv

\* Every operation preserves the invariant.
LEMMA NextInv == Inv /\ [Next]_vars => Inv'
<1> SUFFICES ASSUME Inv, [Next]_vars PROVE Inv'
  OBVIOUS
<1>1. TypeOK /\ Intact /\ BufferInv /\ IsDeque(deque, Items)
  BY DEF Inv, TypeOK
<1>2. Queued \in Seq(Items) /\ Len(Queued) = deque.count
  BY <1>1, QueuedType
<1>3. ASSUME NEW len \in Lengths, AddTailMessage(len)
      PROVE  Inv'
  <2> DEFINE n == NewItem(len)
  <2>1. adds < MaxAdds /\ Write(n) /\ deque' = AddTail(deque, n)
        /\ UNCHANGED <<writeBuffer, closed, messages>>
    BY <1>3 DEF AddTailMessage
  <2>2. n \in Items
    BY <1>1, <2>1, NewItemProperties
  <2>3. IsDeque(AddTail(deque, n), Items) /\ ToArray(AddTail(deque, n)) = Append(ToArray(deque), n)
    BY <1>1, <2>2, AddTailProperties
  <2> HIDE DEF n
  <2>4. IsDeque(deque, Items)' /\ Queued' = Append(Queued, n)
    <3>1. IsDeque(deque', Items)
      BY <2>1, <2>3
    <3> QED BY <2>1, <2>3, <3>1 DEF Queued, Items
  <2>5. \A i \in 1 .. Len(Queued') : Queued'[i] = n \/ \E j \in 1 .. Len(Queued) : Queued'[i] = Queued[j]
    BY <1>2, <2>2, <2>4
  <2> QED BY <2>1, <2>4, <2>5, AddKeepsInv DEF n
<1>4. ASSUME NEW len \in Lengths, AddHeadMessage(len)
      PROVE  Inv'
  <2> DEFINE n == NewItem(len)
  <2>1. adds < MaxAdds /\ Write(n) /\ deque' = AddHead(deque, n)
        /\ UNCHANGED <<writeBuffer, closed, messages>>
    BY <1>4 DEF AddHeadMessage
  <2>2. n \in Items
    BY <1>1, <2>1, NewItemProperties
  <2>3. IsDeque(AddHead(deque, n), Items) /\ ToArray(AddHead(deque, n)) = <<n>> \o ToArray(deque)
    BY <1>1, <2>2, AddHeadProperties
  <2> HIDE DEF n
  <2>4. IsDeque(deque, Items)' /\ Queued' = <<n>> \o Queued
    <3>1. IsDeque(deque', Items)
      BY <2>1, <2>3
    <3> QED BY <2>1, <2>3, <3>1 DEF Queued, Items
  <2>5. \A i \in 1 .. Len(Queued') : Queued'[i] = n \/ \E j \in 1 .. Len(Queued) : Queued'[i] = Queued[j]
    <3> SUFFICES ASSUME NEW i \in 1 .. Len(Queued')
                 PROVE  Queued'[i] = n \/ \E j \in 1 .. Len(Queued) : Queued'[i] = Queued[j]
      OBVIOUS
    <3>1. Len(Queued') = Len(Queued) + 1 /\ Len(Queued) \in Nat
      BY <1>2, <2>2, <2>4
    <3>2. CASE i = 1
      BY <1>2, <2>2, <2>4, <3>2
    <3>3. CASE i # 1
      <4>1. i - 1 \in 1 .. Len(Queued) /\ Queued'[i] = Queued[i - 1]
        BY <1>2, <2>2, <2>4, <3>1, <3>3
      <4> QED BY <4>1
    <3> QED BY <3>2, <3>3
  <2> QED BY <2>1, <2>4, <2>5, AddKeepsInv DEF n
<1>5. CASE RemoveHeadMessage
  <2>1. /\ deque.count > 0 /\ deque' = RemoveHead(deque)
        /\ UNCHANGED <<buffer, bufferPos, writeBuffer, closed, messages, memory, adds,
                       batchBytes, largestBatch>>
    BY <1>5 DEF RemoveHeadMessage
  <2>2. IsDeque(deque', Items) /\ Queued' = Tail(Queued)
    <3>1. /\ IsDeque(RemoveHead(deque), Items)
          /\ ToArray(RemoveHead(deque)) = Tail(ToArray(deque))
      BY <1>1, <2>1, RemoveHeadProperties
    <3> QED BY <2>1, <3>1 DEF Queued
  <2>3. /\ Len(Queued') \in Nat
        /\ \A i \in 1 .. Len(Queued') : i + 1 \in 1 .. Len(Queued) /\ Queued'[i] = Queued[i + 1]
    <3>1. deque.count \in Nat
      BY <1>1 DEF IsDeque
    <3>2. Queued # <<>>
      BY <1>2, <2>1, <3>1
    <3> QED BY <1>2, <2>2, <3>2
  <2>4. TypeOK'
    BY <1>1, <2>1, <2>2 DEF TypeOK, Items
  <2>5. Intact'
    <3>1. \A i \in 1 .. Len(Queued') : Reads(memory, Queued'[i])
      BY <1>1, <2>3 DEF Intact
    <3>2. memory' = memory /\ messages' = messages
      BY <2>1
    <3> QED BY <1>1, <3>1, <3>2 DEF Intact
  <2>6. BufferInv'
    <3>1. /\ buffer' = buffer /\ bufferPos' = bufferPos /\ writeBuffer' = writeBuffer
          /\ messages' = messages /\ memory' = memory
      BY <2>1
    <3>2. \A i \in 1 .. Len(Queued') :
            /\ Queued'[i].array = buffer[writeBuffer] => Queued'[i].start + Queued'[i].len <= bufferPos[writeBuffer]
            /\ Queued'[i].array # buffer[1 - writeBuffer]
      BY <1>1, <2>3 DEF BufferInv
    <3>3. \A b \in 0 .. 1 : BufferLen(b)' = BufferLen(b)
      BY <3>1 DEF BufferLen
    <3> QED BY <1>1, <3>1, <3>2, <3>3 DEF BufferInv
  <2> QED BY <2>4, <2>5, <2>6 DEF Inv
<1>6. ASSUME NEW w \in 0 .. 1, ResetBufferPos(w),
             deque' = Clear(deque), writeBuffer' \in 0 .. 1,
             UNCHANGED <<buffer, closed, memory, adds, largestBatch>>,
             messages' \in Seq(Items),
             \A i \in 1 .. Len(messages') : Reads(memory, messages'[i]) /\ messages'[i].array # buffer[writeBuffer']
      PROVE  Inv'
  <2>1. IsDeque(deque', Items) /\ Queued' = <<>>
    BY <1>1, <1>6, ClearProperties DEF Queued
  <2>2. bufferPos' = [bufferPos EXCEPT ![w] = 0] /\ batchBytes' = 0
    BY <1>6 DEF ResetBufferPos
  <2>3. TypeOK'
    <3>1. bufferPos' \in [0 .. 1 -> Nat]
      BY <1>1, <2>2 DEF TypeOK
    <3> QED BY <1>1, <1>6, <2>1, <2>2, <3>1 DEF TypeOK, Items
  <2>4. Len(Queued') = 0
    BY <2>1
  <2>5. Intact'
    BY <1>6, <2>4 DEF Intact
  <2>6. \A b \in 0 .. 1 : bufferPos'[b] <= BufferLen(b)'
    <3>1. buffer' = buffer /\ memory' = memory
      BY <1>6
    <3>2. \A b \in 0 .. 1 : BufferLen(b)' = BufferLen(b)
      BY <3>1 DEF BufferLen
    <3>3. \A b \in 0 .. 1 : bufferPos[b] \in Nat /\ bufferPos[b] <= BufferLen(b) /\ BufferLen(b) \in Nat
      <4>1. \A b \in 0 .. 1 : buffer[b] # 0 => Len(memory[buffer[b]]) \in Nat
        <5>1. \A b \in 0 .. 1 : buffer[b] # 0 => buffer[b] \in 1 .. Len(memory)
          BY <1>1 DEF TypeOK
        <5> QED BY <1>1, <5>1 DEF TypeOK
      <4> QED BY <1>1, <4>1 DEF TypeOK, BufferInv, BufferLen
    <3> QED BY <1>1, <2>2, <3>2, <3>3 DEF TypeOK
  <2>7. BufferInv'
    <3>1. buffer[0] # 0 => buffer[0] # buffer[1]
      BY <1>1 DEF BufferInv
    <3> QED BY <1>6, <2>4, <2>6, <3>1 DEF BufferInv
  <2> QED BY <2>3, <2>5, <2>7 DEF Inv
<1>7. CASE DequeMessages
  <2>1. OtherBuffer = 1 - writeBuffer /\ OtherBuffer \in 0 .. 1
    BY <1>1 DEF OtherBuffer, TypeOK
  <2>2. messages' = Queued /\ writeBuffer' = OtherBuffer
    BY <1>7 DEF DequeMessages, Queued
  <2>3. \A i \in 1 .. Len(Queued) : Reads(memory, Queued[i]) /\ Queued[i].array # buffer[1 - writeBuffer]
    BY <1>1 DEF Intact, BufferInv
  <2>4. /\ messages' \in Seq(Items) /\ writeBuffer' \in 0 .. 1
        /\ \A i \in 1 .. Len(messages') : Reads(memory, messages'[i]) /\ messages'[i].array # buffer[writeBuffer']
    BY <1>2, <2>1, <2>2, <2>3
  <2> QED BY <1>6, <1>7, <2>1, <2>4 DEF DequeMessages
<1>8. CASE ClearMessages
  <2>1. /\ writeBuffer \in 0 .. 1 /\ messages \in Seq(Items)
        /\ \A i \in 1 .. Len(messages) : Reads(memory, messages[i]) /\ messages[i].array # buffer[writeBuffer]
    BY <1>1 DEF TypeOK, Intact, BufferInv
  <2>2. writeBuffer' = writeBuffer /\ messages' = messages
    BY <1>8 DEF ClearMessages
  <2> QED BY <1>6, <1>8, <2>1, <2>2 DEF ClearMessages
<1>9. CASE closed' \in BOOLEAN /\ UNCHANGED <<buffer, bufferPos, writeBuffer, deque, messages, memory, adds,
                                              batchBytes, largestBatch>>
  BY <1>1, <1>9 DEF Inv, TypeOK, Intact, BufferInv, BufferLen, Queued, Items
<1>10. CASE Close
  BY <1>9, <1>10 DEF Close
<1>11. CASE UNCHANGED vars
  BY <1>1, <1>9, <1>11 DEF vars, TypeOK
<1> QED BY <1>3, <1>4, <1>5, <1>7, <1>8, <1>10, <1>11 DEF Next

\* The invariant holds in every reachable state.
LEMMA InvCorrect == Spec => []Inv
BY InitInv, NextInv, PTL DEF Spec

\* Positions, lengths and the ring array keep their types.
THEOREM TypeCorrect == Spec => []TypeOK
<1>1. Inv => TypeOK
  BY DEF Inv
<1> QED BY <1>1, InvCorrect, PTL

\* Every message that is queued or was handed out by the last dequeue is
\* readable, whatever was added since.
THEOREM IntactCorrect == Spec => []Intact
<1>1. Inv => Intact
  BY DEF Inv
<1> QED BY <1>1, InvCorrect, PTL

-----------------------------------------------------------------------------
\* What bounds the buffers: the write position is at most what was added since
\* it was reset, and a buffer only grows if that does not fit.
LoadInv == /\ bufferPos[writeBuffer] <= batchBytes
           /\ batchBytes <= largestBatch
           /\ BuffersFitLoad

\* Every operation preserves what bounds the buffers.
LEMMA LoadNext == Inv /\ LoadInv /\ [Next]_vars => LoadInv'
<1> SUFFICES ASSUME Inv, LoadInv, [Next]_vars PROVE LoadInv'
  OBVIOUS
<1>1. /\ TypeOK /\ BufferInv
      /\ writeBuffer \in 0 .. 1 /\ 1 - writeBuffer \in 0 .. 1
      /\ buffer \in [0 .. 1 -> 0 .. Len(memory)] /\ bufferPos \in [0 .. 1 -> Nat]
      /\ batchBytes \in Nat /\ largestBatch \in Nat /\ Len(memory) \in Nat
  BY DEF Inv, TypeOK
<1>2. ASSUME NEW len \in Lengths, adds < MaxAdds, Write(NewItem(len)), writeBuffer' = writeBuffer
      PROVE  LoadInv'
  <2> DEFINE n == NewItem(len)
             w == writeBuffer
  <2>1. /\ len \in Nat \ {0} /\ n \in Items /\ n.len = len
        /\ \A b \in 0 .. 1 : BufferLen(b) \in Nat
        /\ GrownLen(len) \in Nat
        /\ Grows(len) => n.array = Len(memory) + 1 /\ n.start = 0
        /\ ~Grows(len) => /\ n.array = buffer[w] /\ n.array \in 1 .. Len(memory)
                          /\ n.start = bufferPos[w]
    BY <1>1, <1>2, NewItemProperties
  <2>2. /\ \A a \in 1 .. Len(memory) : Len(memory'[a]) = Len(memory[a])
        /\ Grows(len) => Len(memory'[n.array]) = GrownLen(len)
    BY <1>1, <1>2, WriteMemory
  <2>3. /\ buffer' = [buffer EXCEPT ![w] = n.array]
        /\ bufferPos' = [bufferPos EXCEPT ![w] = n.start + n.len]
        /\ batchBytes' = batchBytes + n.len
        /\ largestBatch' = IF batchBytes' > largestBatch THEN batchBytes' ELSE largestBatch
    BY <1>2 DEF Write
  <2> HIDE DEF n
  <2>4. n.start \in Nat /\ n.len \in Nat /\ bufferPos[w] \in Nat
    BY <1>1, <2>1 DEF Items
  <2>5. /\ batchBytes' \in Nat /\ largestBatch' \in Nat
        /\ batchBytes' <= largestBatch' /\ largestBatch <= largestBatch'
    <3>1. batchBytes \in Nat /\ largestBatch \in Nat
      BY <1>1
    <3>2. batchBytes' \in Nat
      BY <2>3, <2>4, <3>1
    <3>3. CASE batchBytes' > largestBatch
      <4>1. largestBatch' = batchBytes'
        BY <2>3, <3>3
      <4> QED BY <3>1, <3>2, <3>3, <4>1
    <3>4. CASE ~(batchBytes' > largestBatch)
      <4>1. largestBatch' = largestBatch
        BY <2>3, <3>4
      <4> QED BY <3>1, <3>2, <3>4, <4>1
    <3> QED BY <3>3, <3>4
  <2>6. bufferPos'[w] <= batchBytes'
    <3>1. bufferPos'[w] = n.start + n.len /\ n.start <= bufferPos[w]
      BY <1>1, <2>1, <2>3, <2>4
    <3>2. bufferPos[w] <= batchBytes
      BY DEF LoadInv
    <3> QED BY <1>1, <2>3, <2>4, <3>1, <3>2
  <2>7. \A b \in 0 .. 1 : BufferLen(b) <= 2 * largestBatch'
    <3>1. \A b \in 0 .. 1 : BufferLen(b) <= 2 * largestBatch
      BY DEF LoadInv, BuffersFitLoad
    <3> QED BY <1>1, <2>1, <2>5, <3>1
  <2>8. Grows(len) => GrownLen(len) <= 2 * largestBatch'
    <3> SUFFICES ASSUME Grows(len) PROVE GrownLen(len) <= 2 * largestBatch'
      OBVIOUS
    <3>1. BufferLen(w) \in Nat /\ len > BufferLen(w) - bufferPos[w]
      BY <1>1, <2>1 DEF Grows, Remaining
    <3>2. BufferLen(w) < batchBytes' /\ len <= batchBytes'
      <4>1. bufferPos[w] <= batchBytes /\ batchBytes' = batchBytes + len
        BY <2>1, <2>3 DEF LoadInv
      <4> QED BY <1>1, <2>1, <2>4, <3>1, <4>1
    <3>3. PICK bl \in Nat : bl = BufferLen(w)
      BY <3>1
    <3>4. GrownLen(len) = IF 2 * bl > len THEN 2 * bl ELSE len
      BY <3>3 DEF GrownLen
    <3>5. bl \in Nat /\ bl < batchBytes' /\ len <= batchBytes' /\ len \in Nat
      BY <2>1, <3>2, <3>3
    <3>6. 2 * bl <= 2 * largestBatch' /\ len <= 2 * largestBatch'
      <4>1. bl <= largestBatch' /\ len <= largestBatch'
        BY <2>5, <3>5
      <4>2. \A x, y \in Nat : x <= y => 2 * x <= 2 * y /\ x <= 2 * y
        OBVIOUS
      <4> QED BY <2>5, <3>5, <4>1, <4>2
    <3> QED BY <3>4, <3>6
  <2>9. ASSUME NEW b \in 0 .. 1 PROVE BufferLen(b)' <= 2 * largestBatch'
    <3>1. CASE b = w /\ Grows(len)
      <4>1. buffer'[b] = n.array /\ n.array # 0 /\ Len(memory'[n.array]) = GrownLen(len)
        BY <1>1, <2>1, <2>2, <2>3, <3>1
      <4>2. BufferLen(b)' = GrownLen(len)
        BY <4>1 DEF BufferLen
      <4> QED BY <2>8, <3>1, <4>2
    <3>2. CASE ~(b = w /\ Grows(len))
      <4>1. buffer'[b] = buffer[b]
        BY <1>1, <2>1, <2>3, <3>2
      <4>2. buffer[b] # 0 => Len(memory'[buffer[b]]) = Len(memory[buffer[b]])
        BY <1>1, <2>2
      <4>3. BufferLen(b)' = BufferLen(b)
        BY <4>1, <4>2 DEF BufferLen
      <4> QED BY <2>7, <4>3
    <3> QED BY <3>1, <3>2
  <2> QED BY <1>2, <2>5, <2>6, <2>9 DEF LoadInv, BuffersFitLoad
<1>3. ASSUME UNCHANGED <<buffer, memory, largestBatch>>,
             bufferPos'[writeBuffer'] <= batchBytes', batchBytes' <= largestBatch
      PROVE  LoadInv'
  <2>1. \A b \in 0 .. 1 : BufferLen(b)' = BufferLen(b)
    BY <1>3 DEF BufferLen
  <2> QED BY <1>3, <2>1 DEF LoadInv, BuffersFitLoad
<1>4. CASE DequeMessages
  <2>1. bufferPos'[writeBuffer'] = 0 /\ batchBytes' = 0
    BY <1>1, <1>4 DEF DequeMessages, ResetBufferPos, OtherBuffer
  <2> QED BY <1>1, <1>3, <1>4, <2>1 DEF DequeMessages
<1>5. CASE ClearMessages
  <2>1. bufferPos'[writeBuffer'] = 0 /\ batchBytes' = 0
    BY <1>1, <1>5 DEF ClearMessages, ResetBufferPos
  <2> QED BY <1>1, <1>3, <1>5, <2>1 DEF ClearMessages
<1>6. CASE RemoveHeadMessage \/ Close \/ UNCHANGED vars
  BY <1>3, <1>6 DEF RemoveHeadMessage, Close, vars, LoadInv
<1>7. ASSUME NEW len \in Lengths, AddTailMessage(len) \/ AddHeadMessage(len) PROVE LoadInv'
  BY <1>2, <1>7 DEF AddTailMessage, AddHeadMessage
<1> QED BY <1>4, <1>5, <1>6, <1>7 DEF Next

\* The buffers are at most twice as large as the most bytes added between two
\* resets of the write position (DequeMessages(), Clear()).
THEOREM BuffersFitLoadCorrect == Spec => []BuffersFitLoad
<1>1. Init => LoadInv
  BY DEF Init, LoadInv, BuffersFitLoad, BufferLen
<1>2. LoadInv => BuffersFitLoad
  BY DEF LoadInv
<1> QED BY <1>1, <1>2, LoadNext, InvCorrect, PTL DEF Spec

-----------------------------------------------------------------------------
\* What is read from memory are the numbers of the messages.
Numbers(s) == [i \in 1 .. Len(s) |-> s[i].meta]

\* A function from 1 .. k is a sequence of length k.
LEMMA FunctionIsSeq ==
  ASSUME NEW S, NEW k \in Nat, NEW f \in [1 .. k -> S]
  PROVE  f \in Seq(S) /\ Len(f) = k
OBVIOUS

\* While messages are intact, their first bytes are their numbers.
LEMMA ContentIsNumbers ==
  ASSUME Inv
  PROVE  Content(Queued) = Numbers(Queued) /\ Content(messages) = Numbers(messages)
<1>1. ASSUME NEW m \in Items, Reads(memory, m) PROVE memory[m.array][m.start + 1] = m.meta
  <2>1. m.start + 1 \in Bytes(m)
    BY DEF Bytes, Items
  <2> QED BY <1>1, <2>1 DEF Reads
<1>2. /\ Queued \in Seq(Items) /\ messages \in Seq(Items)
      /\ \A i \in 1 .. Len(Queued) : Reads(memory, Queued[i])
      /\ \A i \in 1 .. Len(messages) : Reads(memory, messages[i])
  BY QueuedType DEF Inv, TypeOK, Intact
<1>3. /\ \A i \in 1 .. Len(Queued) : Queued[i] \in Items
      /\ \A i \in 1 .. Len(messages) : messages[i] \in Items
  BY <1>2
<1> QED BY <1>1, <1>2, <1>3 DEF Content, Numbers

\* Every operation of the queue is one of the abstract queue.
LEMMA StepRefines == Inv /\ Inv' /\ [Next]_vars => [Fifo!Next]_(Fifo!vars)
<1> SUFFICES ASSUME Inv, Inv', [Next]_vars
             PROVE  Fifo!Next \/ UNCHANGED <<Content(Queued), Content(messages), closed>>
  BY DEF Fifo!vars
<1>1. /\ Content(Queued) = Numbers(Queued) /\ Content(messages) = Numbers(messages)
      /\ Content(Queued)' = Numbers(Queued)' /\ Content(messages)' = Numbers(messages)'
  <2>1. (Content(Queued) = Numbers(Queued) /\ Content(messages) = Numbers(messages))'
    BY ContentIsNumbers, PTL
  <2> QED BY <2>1, ContentIsNumbers
<1>2. /\ TypeOK /\ BufferInv /\ IsDeque(deque, Items)
      /\ Queued \in Seq(Items) /\ Len(Queued) = deque.count /\ Len(Queued) \in Nat
      /\ \A i \in 1 .. Len(Queued) : Queued[i] \in Items
  <2>1. Queued \in Seq(Items) /\ Len(Queued) = deque.count
    BY QueuedType DEF Inv
  <2>2. Len(Queued) \in Nat /\ \A i \in 1 .. Len(Queued) : Queued[i] \in Items
    BY <2>1
  <2> QED BY <2>1, <2>2 DEF Inv, TypeOK
<1>3. Numbers(Queued) \in Seq(1 .. MaxAdds) /\ Len(Numbers(Queued)) = Len(Queued)
  <2>1. Numbers(Queued) \in [1 .. Len(Queued) -> 1 .. MaxAdds]
    BY <1>2 DEF Numbers, Items
  <2>2. Len(Queued) \in Nat
    BY <1>2
  <2> QED BY <2>1, <2>2, FunctionIsSeq
<1>4. ASSUME NEW len \in Lengths, AddTailMessage(len) PROVE Fifo!Next
  <2> DEFINE n == NewItem(len)
  <2>1. adds < MaxAdds /\ deque' = AddTail(deque, n) /\ ~closed /\ closed' = closed /\ messages' = messages
    BY <1>4 DEF AddTailMessage
  <2>2. n \in Items /\ n.meta \in 1 .. MaxAdds
    BY <1>2, <2>1, NewItemProperties DEF Items
  <2> HIDE DEF n
  <2>3. Queued' = Append(Queued, n)
    BY <1>2, <2>1, <2>2, AddTailProperties DEF Queued
  <2>4. Numbers(Queued)' = Append(Numbers(Queued), n.meta)
    BY <1>2, <1>3, <2>2, <2>3 DEF Numbers
  <2>5. Numbers(messages)' = Numbers(messages)
    BY <2>1 DEF Numbers
  <2>6. Fifo!Add(n.meta)
    BY <1>1, <2>1, <2>4, <2>5 DEF Fifo!Add
  <2> QED BY <2>2, <2>6 DEF Fifo!Next
<1>5. ASSUME NEW len \in Lengths, AddHeadMessage(len) PROVE Fifo!Next
  <2> DEFINE n == NewItem(len)
  <2>1. adds < MaxAdds /\ deque' = AddHead(deque, n) /\ ~closed /\ closed' = closed /\ messages' = messages
    BY <1>5 DEF AddHeadMessage
  <2>2. n \in Items /\ n.meta \in 1 .. MaxAdds
    BY <1>2, <2>1, NewItemProperties DEF Items
  <2> HIDE DEF n
  <2>3. Queued' = <<n>> \o Queued
    BY <1>2, <2>1, <2>2, AddHeadProperties DEF Queued
  <2>4. Numbers(Queued)' = <<n.meta>> \o Numbers(Queued)
    <3>1. Len(Queued') = Len(Queued) + 1 /\ Queued'[1] = n
          /\ \A i \in 2 .. Len(Queued) + 1 : Queued'[i] = Queued[i - 1]
      BY <1>2, <2>2, <2>3
    <3>2. Numbers(Queued)' = [i \in 1 .. Len(Queued) + 1 |-> Queued'[i].meta]
      BY <3>1 DEF Numbers
    <3>3. \A i \in 2 .. Len(Queued) + 1 : Queued'[i].meta = Numbers(Queued)[i - 1]
      BY <1>2, <3>1 DEF Numbers
    <3> QED BY <1>2, <1>3, <2>2, <3>1, <3>2, <3>3
  <2>5. Numbers(messages)' = Numbers(messages)
    BY <2>1 DEF Numbers
  <2>6. Fifo!Push(n.meta)
    BY <1>1, <2>1, <2>4, <2>5 DEF Fifo!Push
  <2> QED BY <2>2, <2>6 DEF Fifo!Next
<1>6. CASE RemoveHeadMessage
  <2>1. deque.count > 0 /\ deque' = RemoveHead(deque) /\ ~closed /\ closed' = closed /\ messages' = messages
    BY <1>6 DEF RemoveHeadMessage
  <2>2. Queued' = Tail(Queued)
    BY <1>2, <2>1, RemoveHeadProperties DEF Queued
  <2>3. Numbers(Queued)' = Tail(Numbers(Queued)) /\ Numbers(Queued) # <<>>
    BY <1>2, <1>3, <2>1, <2>2 DEF Numbers
  <2>4. Numbers(messages)' = Numbers(messages)
    BY <2>1 DEF Numbers
  <2>5. Fifo!RemoveHead
    BY <1>1, <2>1, <2>3, <2>4 DEF Fifo!RemoveHead
  <2> QED BY <2>5 DEF Fifo!Next
<1>7. ASSUME deque' = Clear(deque) PROVE Numbers(Queued)' = <<>>
  <2>1. Queued' = <<>>
    BY <1>2, <1>7, ClearProperties DEF Queued
  <2> QED BY <2>1 DEF Numbers
<1>8. CASE DequeMessages
  <2>1. Numbers(messages)' = Numbers(Queued) /\ closed' = closed /\ Numbers(Queued)' = <<>>
    BY <1>7, <1>8 DEF DequeMessages, Queued, Numbers
  <2>2. Fifo!DequeueAll
    BY <1>1, <2>1 DEF Fifo!DequeueAll
  <2> QED BY <2>2 DEF Fifo!Next
<1>9. CASE ClearMessages
  <2>1. Numbers(messages)' = Numbers(messages) /\ closed' = closed /\ Numbers(Queued)' = <<>>
    BY <1>7, <1>9 DEF ClearMessages, Numbers
  <2>2. Fifo!Clear
    BY <1>1, <2>1 DEF Fifo!Clear
  <2> QED BY <2>2 DEF Fifo!Next
<1>10. CASE Close
  <2>1. Content(Queued)' = Content(Queued) /\ Content(messages)' = Content(messages) /\ closed' = TRUE
    BY <1>10 DEF Close, Content, Queued
  <2>2. Fifo!Close
    BY <2>1 DEF Fifo!Close
  <2> QED BY <2>2 DEF Fifo!Next
<1>11. CASE UNCHANGED vars
  BY <1>11 DEF vars, Content, Queued
<1> QED BY <1>4, <1>5, <1>6, <1>8, <1>9, <1>10, <1>11 DEF Next

\* Read through the byte buffers the queue is a FIFO queue of messages whose
\* batch stays the same until the next dequeue.
THEOREM QueueImplementsFifo == Spec => ImplementsFifo
<1>1. Init => Fifo!Init
  <2> SUFFICES ASSUME Init PROVE Fifo!Init
    OBVIOUS
  <2>1. Queued = <<>> /\ messages = <<>> /\ closed = FALSE
    BY NewDequeProperties, CapacityAssumption DEF Init, Queued
  <2> QED BY <2>1 DEF Fifo!Init, Content
<1> QED BY <1>1, StepRefines, InvCorrect, PTL DEF Spec, Fifo!Spec, ImplementsFifo
=============================================================================
