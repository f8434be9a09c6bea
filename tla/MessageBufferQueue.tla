------------------------- MODULE MessageBufferQueue -------------------------
(***************************************************************************)
(* MessageBufferQueue<T>: the queue of serialized messages used for the    *)
(* events of a client (EventSubClient) and for what a socket still has to  *)
(* send (WebSocketHost).  The bytes of the messages are copied into one of *)
(* two buffers; dequeuing all messages swaps the buffers, so the messages  *)
(* handed out are read, without a lock, while new ones are written into    *)
(* the other buffer.                                                       *)
(*                                                                         *)
(* Byte arrays are modelled with their contents: memory[a] is the array a, *)
(* and each byte of a message is the number of the message.                *)
(***************************************************************************)
EXTENDS Deque, FiniteSets

CONSTANTS
  Capacity,     \* initial capacity of the deque
  Lengths,      \* lengths of messages in bytes; a serialized message is never empty
  MaxAdds       \* bound: messages added in a behaviour

ASSUME CapacityAssumption == Capacity \in Nat \ {0}
ASSUME LengthsAssumption  == Lengths \subseteq Nat \ {0}
ASSUME MaxAddsAssumption  == MaxAdds \in Nat

VARIABLES
  buffer,       \* buffer0 and buffer1: the number of an array, 0 is null
  bufferPos,    \* buffer0Pos and buffer1Pos
  writeBuffer,  \* 0 or 1: the buffer new messages are written to
  deque,        \* the queued messages
  closed,
  messages,     \* the list the last DequeMessageValues() filled
  memory,       \* all byte arrays ever allocated
  adds,         \* history: number of messages added
  batchBytes,   \* history: bytes added since the write position was last reset
  largestBatch  \* history: the maximum batchBytes ever had

vars == <<buffer, bufferPos, writeBuffer, deque, closed, messages, memory, adds,
          batchBytes, largestBatch>>

\* A MessageItem: a JsonValue refers to len bytes of an array.  meta is the
\* number of the message.
Items == [array : Nat, start : Nat, len : Nat \ {0}, meta : 1 .. MaxAdds]

Bytes(m)  == m.start + 1 .. m.start + m.len

\* In the byte arrays mem, the message m reads the bytes that were added.
Reads(mem, m) == /\ m.array \in 1 .. Len(mem)
                 /\ Bytes(m) \subseteq 1 .. Len(mem[m.array])
                 /\ \A i \in Bytes(m) : mem[m.array][i] = m.meta

-----------------------------------------------------------------------------
Init ==
  /\ buffer = [b \in 0 .. 1 |-> 0]
  /\ bufferPos = [b \in 0 .. 1 |-> 0]
  /\ writeBuffer = 0
  /\ deque = NewDeque(Capacity)
  /\ closed = FALSE
  /\ messages = <<>>
  /\ memory = <<>>
  /\ adds = 0
  /\ batchBytes = 0
  /\ largestBatch = 0

BufferLen(b) == IF buffer[b] = 0 THEN 0 ELSE Len(memory[buffer[b]])

Remaining == BufferLen(writeBuffer) - bufferPos[writeBuffer]

\* The write buffer has no room for len bytes: a new array replaces it.
Grows(len) == len > Remaining
GrownLen(len) == IF 2 * BufferLen(writeBuffer) > len THEN 2 * BufferLen(writeBuffer) ELSE len

\* The message CreateMessageValue() returns for len bytes
NewItem(len) ==
  [ array |-> IF Grows(len) THEN Len(memory) + 1 ELSE buffer[writeBuffer],
    start |-> IF Grows(len) THEN 0 ELSE bufferPos[writeBuffer],
    len   |-> len,
    meta  |-> adds + 1 ]

\* CreateMessageValue() allocates the array if it must and copies the bytes.
Write(m) ==
  /\ memory' = IF Grows(m.len)
               THEN Append(memory, [i \in 1 .. GrownLen(m.len) |-> IF i \in Bytes(m) THEN m.meta ELSE 0])
               ELSE [memory EXCEPT ![m.array] = [i \in DOMAIN memory[m.array] |->
                       IF i \in Bytes(m) THEN m.meta ELSE memory[m.array][i]]]
  /\ buffer' = [buffer EXCEPT ![writeBuffer] = m.array]
  /\ bufferPos' = [bufferPos EXCEPT ![writeBuffer] = m.start + m.len]
  /\ adds' = adds + 1
  /\ batchBytes' = batchBytes + m.len
  /\ largestBatch' = IF batchBytes' > largestBatch THEN batchBytes' ELSE largestBatch

\* A closed queue refuses these three with an exception.
AddTailMessage(len) ==
  /\ ~closed /\ adds < MaxAdds
  /\ Write(NewItem(len))
  /\ deque' = AddTail(deque, NewItem(len))
  /\ UNCHANGED <<writeBuffer, closed, messages>>

AddHeadMessage(len) ==
  /\ ~closed /\ adds < MaxAdds
  /\ Write(NewItem(len))
  /\ deque' = AddHead(deque, NewItem(len))
  /\ UNCHANGED <<writeBuffer, closed, messages>>

RemoveHeadMessage ==
  /\ ~closed /\ deque.count > 0
  /\ deque' = RemoveHead(deque)
  /\ UNCHANGED <<buffer, bufferPos, writeBuffer, closed, messages, memory, adds,
                 batchBytes, largestBatch>>

OtherBuffer_Same == writeBuffer
OtherBuffer      == 1 - writeBuffer

\* SetBufferPos(0) for the buffer w: new messages are written to its start.
ResetBufferPos_Not(w) == bufferPos' = bufferPos /\ batchBytes' = 0
ResetBufferPos(w)     == bufferPos' = [bufferPos EXCEPT ![w] = 0] /\ batchBytes' = 0

\* DequeMessageValues() and DequeMessages(): also possible once closed
DequeMessages ==
  /\ writeBuffer' = OtherBuffer
  /\ ResetBufferPos(OtherBuffer)
  /\ messages' = ToArray(deque)
  /\ deque' = Clear(deque)
  /\ UNCHANGED <<buffer, closed, memory, adds, largestBatch>>

ClearMessages ==
  /\ ResetBufferPos(writeBuffer)
  /\ deque' = Clear(deque)
  /\ UNCHANGED <<buffer, writeBuffer, closed, messages, memory, adds, largestBatch>>

Close ==
  /\ closed' = TRUE
  /\ UNCHANGED <<buffer, bufferPos, writeBuffer, deque, messages, memory, adds,
                 batchBytes, largestBatch>>

Next ==
  \/ \E len \in Lengths : AddTailMessage(len) \/ AddHeadMessage(len)
  \/ RemoveHeadMessage
  \/ DequeMessages
  \/ ClearMessages
  \/ Close

Spec == Init /\ [][Next]_vars

-----------------------------------------------------------------------------
Queued == ToArray(deque)

TypeOK ==
  /\ memory \in Seq(Seq(Nat))
  /\ buffer \in [0 .. 1 -> 0 .. Len(memory)]
  /\ bufferPos \in [0 .. 1 -> Nat]
  /\ writeBuffer \in 0 .. 1
  /\ IsDeque(deque, Items)
  /\ closed \in BOOLEAN
  /\ messages \in Seq(Items)
  /\ adds \in 0 .. MaxAdds
  /\ batchBytes \in Nat
  /\ largestBatch \in Nat

\* Every message that is queued, and every one handed out by the last dequeue,
\* reads the bytes that were added, however the buffers were swapped, reset,
\* replaced and written since ("messages are valid until the next
\* DequeMessageValues() call").
Intact ==
  /\ \A i \in 1 .. Len(Queued) : Reads(memory, Queued[i])
  /\ \A i \in 1 .. Len(messages) : Reads(memory, messages[i])

\* Why Intact holds: queued messages lie in the write buffer below its write
\* position or in an array that was replaced; messages handed out are in neither
\* the write buffer nor an array that becomes the write buffer before they expire.
BufferInv ==
  /\ \A b \in 0 .. 1 : bufferPos[b] <= BufferLen(b)
  /\ buffer[0] # 0 => buffer[0] # buffer[1]
  /\ \A i \in 1 .. Len(Queued) :
       /\ Queued[i].array = buffer[writeBuffer] => Queued[i].start + Queued[i].len <= bufferPos[writeBuffer]
       /\ Queued[i].array # buffer[1 - writeBuffer]
  /\ \A i \in 1 .. Len(messages) : messages[i].array # buffer[writeBuffer]

\* The buffers are no larger than twice the most bytes ever added between two
\* resets of the write position: they stop growing once they fit the load.
BuffersFitLoad == \A b \in 0 .. 1 : BufferLen(b) <= 2 * largestBatch

\* Read from memory, the messages form a FIFO queue with a batch that stays
\* valid until the next dequeue.
Content(s) == [i \in 1 .. Len(s) |-> memory[s[i].array][s[i].start + 1]]

Fifo == INSTANCE MessageFifo WITH Messages <- 1 .. MaxAdds,
                                  queue <- Content(Queued), batch <- Content(messages)
ImplementsFifo == Fifo!Spec
=============================================================================
