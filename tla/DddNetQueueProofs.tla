------------------------- MODULE DddNetQueueProofs -------------------------
(* Proofs about DddNetQueue, for every number of threads and every size of    *)
(* the ring.                                                                  *)
EXTENDS DddNetQueue, FiniteSetTheorems, SequenceTheorems, TLAPS

-----------------------------------------------------------------------------
(* Arithmetic of the ring. Every index the code computes is below twice the   *)
(* size, where % subtracts the size at most once.                             *)

LEMMA ModBelow ==
    ASSUME NEW n \in Nat \ {0}, NEW x \in 0 .. n - 1
    PROVE  x % n = x
  OBVIOUS

LEMMA ModAbove ==
    ASSUME NEW n \in Nat \ {0}, NEW x \in n .. 2 * n - 1
    PROVE  x % n = x - n
  OBVIOUS

LEMMA ModRange ==
    ASSUME NEW n \in Nat \ {0}, NEW x \in 0 .. 2 * n - 1
    PROVE  x % n \in 0 .. n - 1
  <1>1. CASE x < n  BY <1>1, ModBelow
  <1>2. CASE x >= n  BY <1>2, ModAbove
  <1> QED  BY <1>1, <1>2

\* The slots read, read + 1, ... of a ring are distinct.
LEMMA SlotsDistinct ==
    ASSUME NEW n \in Nat \ {0}, NEW r \in 0 .. n - 1,
           NEW i \in 0 .. n - 1, NEW j \in 0 .. n - 1,
           (r + i) % n = (r + j) % n
    PROVE  i = j
  <1>1. (r + i) % n = IF r + i < n THEN r + i ELSE r + i - n
    BY ModBelow, ModAbove
  <1>2. (r + j) % n = IF r + j < n THEN r + j ELSE r + j - n
    BY ModBelow, ModAbove
  <1> QED  BY <1>1, <1>2

\* Counting k slots from the slot after r is counting k + 1 from r.
LEMMA NextSlot ==
    ASSUME NEW n \in Nat \ {0}, NEW r \in 0 .. n - 1, NEW k \in 0 .. n - 1
    PROVE  (((r + 1) % n) + k) % n = (r + k + 1) % n
  <1>1. CASE r + 1 < n
    BY <1>1, ModBelow
  <1>2. CASE r + 1 = n
    <2>1. (r + 1) % n = 0  BY <1>2, ModAbove
    <2>2. (((r + 1) % n) + k) % n = k  BY <2>1, ModBelow
    <2>3. (r + k + 1) % n = k  BY <1>2, ModAbove
    <2> QED  BY <2>2, <2>3
  <1> QED  BY <1>1, <1>2

\* While clear advances read and counts, the slot it started from stays.
LEMMA StartStays ==
    ASSUME NEW n \in Nat \ {0}, NEW r \in 0 .. n - 1, NEW c \in 0 .. n - 1
    PROVE  (((r + 1) % n) + n - (c + 1)) % n = (r + n - c) % n
  <1>1. CASE r + 1 < n
    BY <1>1, ModBelow
  <1>2. CASE r + 1 = n
    <2>1. (r + 1) % n = 0  BY <1>2, ModAbove
    <2>2. (((r + 1) % n) + n - (c + 1)) % n = n - (c + 1)  BY <2>1, ModBelow
    <2>3. (r + n - c) % n = n - (c + 1)  BY <1>2, ModAbove
    <2> QED  BY <2>2, <2>3
  <1> QED  BY <1>1, <1>2

LEMMA FullTurn ==
    ASSUME NEW n \in Nat \ {0}, NEW r \in 0 .. n - 1
    PROVE  (r + n) % n = r
  BY ModAbove

-----------------------------------------------------------------------------
(* The inductive invariant.                                                   *)

\* Which call a thread is in, who may make it, and where it can be in it.
CallOK ==
    \A t \in Threads :
        /\ op[t].name = "idle" <=> pc[t] = "idle"
        /\ op[t].name = "enqueue" =>
              t \in Producers /\ pc[t] \notin {"asleep", "woken", "awake"}
        /\ op[t].name = "dequeue" => t \in Consumers /\ pc[t] # "notify"
        /\ op[t].name = "clear" =>
              t \in Consumers /\ pc[t] \notin {"asleep", "woken", "awake", "notify"}
        /\ pc[t] \notin {"leave", "notify"} => answer[t] = Fifo!NoAnswer

IInv == TypeOK /\ RingOK /\ LockOK /\ CallOK

\* The requests as values: a name tells the calls apart.
LEMMA RequestNames ==
    /\ Fifo!Idle.name = "idle"
    /\ Fifo!Clear.name = "clear"
    /\ \A b : Fifo!Enqueue(b).name = "enqueue" /\ Fifo!Enqueue(b).buffer = b
    /\ \A timed : Fifo!Dequeue(timed).name = "dequeue"
  BY DEF Fifo!Idle, Fifo!Clear, Fifo!Enqueue, Fifo!Dequeue

LEMMA AnswerTypes ==
    /\ Fifo!NoAnswer \in Answers
    /\ Fifo!Answer(TRUE, NoBuffer, 0) \in Answers
    /\ Fifo!Answer(FALSE, NoBuffer, 0) \in Answers
    /\ \A b \in Buffers \cup {NoBuffer} : Fifo!Answer(TRUE, b, 0) \in Answers
    /\ \A n \in 0 .. Size : Fifo!Answer(TRUE, NoBuffer, n) \in Answers
  BY SizeAssumption DEF Answers, Fifo!NoAnswer, Fifo!Answer

\* An enqueue in progress carries a buffer.
LEMMA EnqueueCarriesBuffer ==
    ASSUME NEW r \in Requests, r.name = "enqueue"
    PROVE  r.buffer \in Buffers
  BY RequestNames DEF Requests

LEMMA NameCases ==
    ASSUME NEW r \in Requests
    PROVE  r.name \in {"idle", "enqueue", "dequeue", "clear"}
  BY RequestNames DEF Requests

\* The steps of the queue, one disjunct per action.
LEMMA NextCases ==
    ASSUME [Next]_vars
    PROVE  \/ \E t \in Producers, b \in Buffers : Call(t, Fifo!Enqueue(b))
           \/ \E t \in Consumers, timed \in BOOLEAN : Call(t, Fifo!Dequeue(timed))
           \/ \E t \in Consumers : Call(t, Fifo!Clear)
           \/ \E t \in Threads : EnterCriticalSection(t)
           \/ \E t \in Threads : ReenterCriticalSection(t)
           \/ \E t \in Threads : EnqueueItem(t)
           \/ \E t \in Threads : EnqueueFull(t)
           \/ \E t \in Threads : DequeueSleep(t)
           \/ \E t \in Threads : TimeOut(t)
           \/ \E t \in Threads : DequeueItem(t)
           \/ \E t \in Threads : DequeueNothing(t)
           \/ \E t \in Threads : ClearItem(t)
           \/ \E t \in Threads : ClearDone(t)
           \/ \E t \in Threads : LeaveToNotify(t)
           \/ \E t \in Threads : LeaveAndReturn(t)
           \/ \E t \in Threads : WakeConditionVariable(t)
           \/ UNCHANGED vars
  BY DEF Next, CallEnqueue, CallDequeue, CallClear, Acquire, Work, EnqueueStep,
         DequeueStep, ClearStep, LeaveStep

LEMMA CallTypes ==
    /\ \A t \in Producers : t \in Threads
    /\ \A t \in Consumers : t \in Threads
    /\ \A b \in Buffers : Fifo!Enqueue(b) \in Requests
    /\ \A timed \in BOOLEAN : Fifo!Dequeue(timed) \in Requests
    /\ Fifo!Clear \in Requests
    /\ Fifo!Idle \in Requests
  BY DEF Threads, Requests

LEMMA TypeStep ==
    ASSUME IInv, [Next]_vars
    PROVE  TypeOK'
  <1> USE SizeAssumption DEF IInv, TypeOK, ring, Goto, Reply, Places
  <1>1. ASSUME NEW t \in Threads, NEW r \in Requests, Call(t, r)
        PROVE  TypeOK'
    BY <1>1 DEF Call
  <1>2. ASSUME NEW t \in Threads, EnterCriticalSection(t)
        PROVE  TypeOK'
    BY <1>2 DEF EnterCriticalSection
  <1>3. ASSUME NEW t \in Threads, ReenterCriticalSection(t)
        PROVE  TypeOK'
    BY <1>3 DEF ReenterCriticalSection
  <1>4. ASSUME NEW t \in Threads, EnqueueItem(t)
        PROVE  TypeOK'
    <2>1. op[t].buffer \in Buffers
      BY <1>4, EnqueueCarriesBuffer DEF EnqueueItem, Inside
    <2>2. write' \in 0 .. Size - 1
      BY <1>4, ModRange DEF EnqueueItem
    <2>3. /\ items' = [items EXCEPT ![write] = op[t].buffer]
          /\ use < Size /\ use' = use + 1
          /\ Reply(t, Fifo!Answer(TRUE, NoBuffer, 0))
          /\ Goto(t, "leave")
          /\ UNCHANGED <<read, thread_lock, op, count>>
      BY <1>4 DEF EnqueueItem
    <2>4. use' \in 0 .. Size
      BY <2>3
    <2>5. pc' \in [Threads -> Places]
      BY <2>3
    <2>6. answer' \in [Threads -> Answers]
      BY <2>3, AnswerTypes
    <2>7. items' \in [0 .. Size - 1 -> Buffers \cup {NoBuffer}]
      BY <2>1, <2>3
    <2> QED  BY <2>2, <2>3, <2>4, <2>5, <2>6, <2>7
  <1>5. ASSUME NEW t \in Threads, EnqueueFull(t)
        PROVE  TypeOK'
    BY <1>5, AnswerTypes DEF EnqueueFull
  <1>6. ASSUME NEW t \in Threads, DequeueSleep(t)
        PROVE  TypeOK'
    BY <1>6 DEF DequeueSleep
  <1>7. ASSUME NEW t \in Threads, TimeOut(t)
        PROVE  TypeOK'
    BY <1>7 DEF TimeOut
  <1>8. ASSUME NEW t \in Threads, DequeueItem(t)
        PROVE  TypeOK'
    <2>1. read' \in 0 .. Size - 1
      BY <1>8, ModRange DEF DequeueItem
    <2>2. /\ use > 0 /\ use' = use - 1
          /\ Reply(t, Fifo!Answer(TRUE, items[read], 0))
          /\ Goto(t, "leave")
          /\ UNCHANGED <<items, write, thread_lock, op, count>>
      BY <1>8 DEF DequeueItem
    <2>3. Fifo!Answer(TRUE, items[read], 0) \in Answers
      BY AnswerTypes
    <2>4. use' \in 0 .. Size
      BY <2>2
    <2>5. pc' \in [Threads -> Places]
      BY <2>2
    <2>6. answer' \in [Threads -> Answers]
      BY <2>2, <2>3
    <2>7. items' \in [0 .. Size - 1 -> Buffers \cup {NoBuffer}]
      BY <2>2
    <2> QED  BY <2>1, <2>2, <2>4, <2>5, <2>6, <2>7
  <1>9. ASSUME NEW t \in Threads, DequeueNothing(t)
        PROVE  TypeOK'
    BY <1>9, AnswerTypes DEF DequeueNothing
  <1>10. ASSUME NEW t \in Threads, ClearItem(t)
         PROVE  TypeOK'
    <2>1. (read + 1) % Size \in 0 .. Size - 1
      BY ModRange
    <2> QED  BY <1>10, <2>1 DEF ClearItem, RingOK
  <1>11. ASSUME NEW t \in Threads, ClearDone(t)
         PROVE  TypeOK'
    BY <1>11, AnswerTypes DEF ClearDone
  <1>12. ASSUME NEW t \in Threads, LeaveToNotify(t)
         PROVE  TypeOK'
    BY <1>12 DEF LeaveToNotify
  <1>13. ASSUME NEW t \in Threads, LeaveAndReturn(t)
         PROVE  TypeOK'
    BY <1>13, AnswerTypes DEF LeaveAndReturn, Return, Requests
  <1>14. ASSUME NEW t \in Threads, WakeConditionVariable(t)
         PROVE  TypeOK'
    BY <1>14, AnswerTypes DEF WakeConditionVariable, Requests
  <1>15. CASE UNCHANGED vars
    BY <1>15 DEF vars
  <1> QED
    BY <1>1, <1>2, <1>3, <1>4, <1>5, <1>6, <1>7, <1>8, <1>9, <1>10, <1>11,
       <1>12, <1>13, <1>14, <1>15, NextCases, CallTypes

\* The threads take turns: a thread inside the critical section owns it.
LEMMA LockStep ==
    ASSUME IInv, [Next]_vars
    PROVE  LockOK'
  <1> USE ThreadAssumption DEF IInv, TypeOK, LockOK, Inside, ring, Goto, Reply
  <1>1. ASSUME NEW t \in Threads, NEW r \in Requests, Call(t, r)
        PROVE  LockOK'
    BY <1>1 DEF Call
  <1>2. ASSUME NEW t \in Threads, EnterCriticalSection(t)
        PROVE  LockOK'
    BY <1>2 DEF EnterCriticalSection
  <1>3. ASSUME NEW t \in Threads, ReenterCriticalSection(t)
        PROVE  LockOK'
    BY <1>3 DEF ReenterCriticalSection
  <1>4. ASSUME NEW t \in Threads, EnqueueItem(t)
        PROVE  LockOK'
    BY <1>4 DEF EnqueueItem
  <1>5. ASSUME NEW t \in Threads, EnqueueFull(t)
        PROVE  LockOK'
    BY <1>5 DEF EnqueueFull
  <1>6. ASSUME NEW t \in Threads, DequeueSleep(t)
        PROVE  LockOK'
    BY <1>6 DEF DequeueSleep
  <1>7. ASSUME NEW t \in Threads, TimeOut(t)
        PROVE  LockOK'
    BY <1>7 DEF TimeOut
  <1>8. ASSUME NEW t \in Threads, DequeueItem(t)
        PROVE  LockOK'
    BY <1>8 DEF DequeueItem, PastWait, CallOK
  <1>9. ASSUME NEW t \in Threads, DequeueNothing(t)
        PROVE  LockOK'
    BY <1>9 DEF DequeueNothing, PastWait, CallOK
  <1>10. ASSUME NEW t \in Threads, ClearItem(t)
         PROVE  LockOK'
    BY <1>10 DEF ClearItem
  <1>11. ASSUME NEW t \in Threads, ClearDone(t)
         PROVE  LockOK'
    BY <1>11 DEF ClearDone
  <1>12. ASSUME NEW t \in Threads, LeaveToNotify(t)
         PROVE  LockOK'
    BY <1>12 DEF LeaveToNotify
  <1>13. ASSUME NEW t \in Threads, LeaveAndReturn(t)
         PROVE  LockOK'
    BY <1>13 DEF LeaveAndReturn, Return
  <1>14. ASSUME NEW t \in Threads, WakeConditionVariable(t)
         PROVE  LockOK'
    BY <1>14 DEF WakeConditionVariable, Asleep
  <1>15. CASE UNCHANGED vars
    BY <1>15 DEF vars
  <1> QED
    BY <1>1, <1>2, <1>3, <1>4, <1>5, <1>6, <1>7, <1>8, <1>9, <1>10, <1>11,
       <1>12, <1>13, <1>14, <1>15, NextCases, CallTypes

LEMMA CallStep ==
    ASSUME IInv, [Next]_vars
    PROVE  CallOK'
  <1> USE DEF IInv, TypeOK, CallOK, Inside, ring, Goto, Reply
  <1>1. ASSUME NEW t \in Threads, NEW r, Call(t, r), r.name # "idle",
               r.name = "enqueue" => t \in Producers,
               r.name \in {"dequeue", "clear"} => t \in Consumers
        PROVE  CallOK'
    BY <1>1 DEF Call
  <1>2. ASSUME NEW t \in Threads, EnterCriticalSection(t)
        PROVE  CallOK'
    BY <1>2 DEF EnterCriticalSection
  <1>3. ASSUME NEW t \in Threads, ReenterCriticalSection(t)
        PROVE  CallOK'
    BY <1>3 DEF ReenterCriticalSection
  <1>4. ASSUME NEW t \in Threads, EnqueueItem(t)
        PROVE  CallOK'
    BY <1>4 DEF EnqueueItem
  <1>5. ASSUME NEW t \in Threads, EnqueueFull(t)
        PROVE  CallOK'
    BY <1>5 DEF EnqueueFull
  <1>6. ASSUME NEW t \in Threads, DequeueSleep(t)
        PROVE  CallOK'
    BY <1>6 DEF DequeueSleep
  <1>7. ASSUME NEW t \in Threads, TimeOut(t)
        PROVE  CallOK'
    BY <1>7 DEF TimeOut
  <1>8. ASSUME NEW t \in Threads, DequeueItem(t)
        PROVE  CallOK'
    BY <1>8 DEF DequeueItem, PastWait
  <1>9. ASSUME NEW t \in Threads, DequeueNothing(t)
        PROVE  CallOK'
    BY <1>9 DEF DequeueNothing, PastWait
  <1>10. ASSUME NEW t \in Threads, ClearItem(t)
         PROVE  CallOK'
    BY <1>10 DEF ClearItem
  <1>11. ASSUME NEW t \in Threads, ClearDone(t)
         PROVE  CallOK'
    BY <1>11 DEF ClearDone
  <1>12. ASSUME NEW t \in Threads, LeaveToNotify(t)
         PROVE  CallOK'
    BY <1>12 DEF LeaveToNotify
  <1>13. ASSUME NEW t \in Threads, LeaveAndReturn(t)
         PROVE  CallOK'
    BY <1>13, RequestNames DEF LeaveAndReturn, Return
  <1>14. ASSUME NEW t \in Threads, WakeConditionVariable(t)
         PROVE  CallOK'
    BY <1>14, RequestNames DEF WakeConditionVariable, Asleep
  <1>15. CASE UNCHANGED vars
    BY <1>15 DEF vars
  <1>16. ASSUME NEW t \in Producers, NEW b \in Buffers, Call(t, Fifo!Enqueue(b))
         PROVE  CallOK'
    BY <1>1, <1>16, RequestNames, CallTypes
  <1>17. ASSUME NEW t \in Consumers, NEW timed \in BOOLEAN,
                Call(t, Fifo!Dequeue(timed))
         PROVE  CallOK'
    BY <1>1, <1>17, RequestNames, CallTypes
  <1>18. ASSUME NEW t \in Consumers, Call(t, Fifo!Clear)
         PROVE  CallOK'
    BY <1>1, <1>18, RequestNames, CallTypes
  <1> QED
    BY <1>2, <1>3, <1>4, <1>5, <1>6, <1>7, <1>8, <1>9, <1>10, <1>11, <1>12,
       <1>13, <1>14, <1>15, <1>16, <1>17, <1>18, NextCases

\* Only clear counts, and it holds the lock while it does.
LEMMA CountIsClears ==
    ASSUME IInv, NEW t \in Threads, pc[t] \in {"inside", "awake", "leave"},
           op[t].name # "clear" \/ pc[t] # "inside"
    PROVE  count = 0
  BY DEF IInv, TypeOK, LockOK, Inside

\* Outside clear, the abstract queue starts at read.
LEMMA FirstIsRead ==
    ASSUME TypeOK, count = 0
    PROVE  first = read
  <1>1. Size \in Nat \ {0} /\ read \in 0 .. Size - 1
    BY SizeAssumption DEF TypeOK
  <1>2. first = (read + Size) % Size
    BY <1>1 DEF first
  <1> QED  BY <1>1, <1>2, FullTurn

LEMMA ContentAt ==
    ASSUME TypeOK, count = 0, NEW i \in 1 .. use
    PROVE  content[i] = items[(read + i - 1) % Size]
  <1>1. first = read
    BY FirstIsRead
  <1>2. use \in Nat
    BY SizeAssumption DEF TypeOK
  <1> QED  BY <1>1, <1>2 DEF content

\* The slot after the last one in use, one item later.
LEMMA NextWrite ==
    ASSUME NEW n \in Nat \ {0}, NEW r \in 0 .. n - 1, NEW u \in 0 .. n - 1
    PROVE  (((r + u) % n) + 1) % n = (r + (u + 1)) % n
  <1>1. CASE r + u + 1 < n
    <2>1. (r + u) % n = r + u  BY <1>1, ModBelow
    <2> QED  BY <2>1
  <1>2. CASE r + u + 1 = n
    <2>1. (r + u) % n = r + u  BY <1>2, ModBelow
    <2> QED  BY <2>1
  <1>3. CASE r + u + 1 > n
    <2>1. (r + u) % n = r + u - n  BY <1>3, ModAbove
    <2>2. ((r + u - n) + 1) % n = r + u - n + 1  BY <1>3, ModBelow
    <2>3. (r + (u + 1)) % n = r + (u + 1) - n  BY <1>3, ModAbove
    <2> QED  BY <2>1, <2>2, <2>3
  <1> QED  BY <1>1, <1>2, <1>3

LEMMA EnqueueContent ==
    ASSUME IInv, TypeOK', NEW t \in Threads, EnqueueItem(t)
    PROVE  /\ use < Size /\ use' = use + 1 /\ count = 0 /\ count' = 0
           /\ write' = (read' + use') % Size
           /\ \A i \in 1 .. use : content'[i] = content[i]
           /\ content'[use + 1] = op[t].buffer
  <1>1. /\ Size \in Nat \ {0} /\ use \in 0 .. Size - 1
        /\ read \in 0 .. Size - 1 /\ write \in 0 .. Size - 1
    BY SizeAssumption DEF IInv, TypeOK, EnqueueItem
  <1>2. /\ use' = use + 1 /\ read' = read /\ write' = (write + 1) % Size
        /\ items' = [items EXCEPT ![write] = op[t].buffer]
        /\ items \in [0 .. Size - 1 -> Buffers \cup {NoBuffer}]
    BY DEF EnqueueItem, IInv, TypeOK
  <1>3. count = 0 /\ count' = 0
    BY CountIsClears DEF EnqueueItem, Inside
  <1>4. write = (read + use) % Size
    BY DEF IInv, RingOK
  <1>5. write' = (read' + use') % Size
    BY <1>1, <1>2, <1>4, NextWrite
  <1>6. \A i \in 1 .. use + 1 : content'[i] = items'[(read + i - 1) % Size]
    <2>1. first' = read'
      <3>1. first' = (read' + Size) % Size
        BY <1>1, <1>2, <1>3 DEF first
      <3> QED  BY <1>1, <1>2, <3>1, FullTurn
    <2> QED  BY <1>1, <1>2, <1>3, <2>1 DEF content
  <1>7. ASSUME NEW i \in 1 .. use
        PROVE  content'[i] = content[i]
    <2>1. (read + i - 1) % Size \in 0 .. Size - 1
      BY <1>1, ModRange
    <2>2. (read + i - 1) % Size # write
      <3>1. i - 1 \in 0 .. Size - 1 /\ use \in 0 .. Size - 1 /\ i - 1 # use
        BY <1>1
      <3>2. (read + (i - 1)) % Size # (read + use) % Size
        BY <1>1, <3>1, SlotsDistinct
      <3>3. read + (i - 1) = read + i - 1
        BY <1>1
      <3> QED  BY <1>4, <3>2, <3>3
    <2>3. items'[(read + i - 1) % Size] = items[(read + i - 1) % Size]
      BY <1>2, <2>1, <2>2
    <2>4. content[i] = items[(read + i - 1) % Size]
      BY <1>3, ContentAt DEF IInv
    <2>5. content'[i] = items'[(read + i - 1) % Size]
      BY <1>1, <1>6
    <2> QED  BY <2>3, <2>4, <2>5
  <1>8. content'[use + 1] = op[t].buffer
    <2>1. read + (use + 1) - 1 = read + use /\ use + 1 \in 1 .. use + 1
      BY <1>1
    <2>2. content'[use + 1] = items'[(read + (use + 1) - 1) % Size]
      BY <1>6, <2>1
    <2>3. items'[write] = op[t].buffer
      BY <1>1, <1>2
    <2> QED  BY <1>4, <2>1, <2>2, <2>3
  <1> QED  BY <1>1, <1>2, <1>3, <1>5, <1>7, <1>8

LEMMA DequeueContent ==
    ASSUME IInv, TypeOK', NEW t \in Threads, DequeueItem(t)
    PROVE  /\ use > 0 /\ use' = use - 1 /\ count = 0 /\ count' = 0
           /\ write' = (read' + use') % Size
           /\ items[read] = content[1]
           /\ \A i \in 1 .. use - 1 : content'[i] = content[i + 1]
  <1>1. /\ Size \in Nat \ {0} /\ use \in 1 .. Size
        /\ read \in 0 .. Size - 1 /\ read' \in 0 .. Size - 1
    BY SizeAssumption DEF IInv, TypeOK, DequeueItem
  <1>2. /\ use' = use - 1 /\ items' = items /\ write' = write
        /\ read' = (read + 1) % Size
    BY DEF DequeueItem
  <1>3. count = 0 /\ count' = 0
    BY CountIsClears DEF DequeueItem, PastWait, Inside, IInv, CallOK
  <1>4. ASSUME NEW k \in 0 .. Size - 1
        PROVE  (read' + k) % Size = (read + k + 1) % Size
    BY <1>1, <1>2, NextSlot
  <1>5. write' = (read' + use') % Size
    <2>1. (read' + (use - 1)) % Size = (read + (use - 1) + 1) % Size
      BY <1>1, <1>4
    <2>2. read + (use - 1) + 1 = read + use
      BY <1>1
    <2> QED  BY <1>2, <2>1, <2>2 DEF IInv, RingOK
  <1>6. items[read] = content[1]
    <2>1. read + 1 - 1 = read /\ read % Size = read /\ 1 \in 1 .. use
      BY <1>1, ModBelow
    <2>2. content[1] = items[(read + 1 - 1) % Size]
      BY <1>3, <2>1, ContentAt DEF IInv
    <2> QED  BY <2>1, <2>2
  <1>7. ASSUME NEW i \in 1 .. use - 1
        PROVE  content'[i] = content[i + 1]
    <2>1. first' = read'
      <3>1. first' = (read' + Size) % Size
        BY <1>1, <1>2, <1>3 DEF first
      <3> QED  BY <1>1, <1>2, <3>1, FullTurn
    <2>2. content'[i] = items[(read' + i - 1) % Size]
      BY <1>1, <1>2, <1>3, <2>1 DEF content
    <2>3. (read' + (i - 1)) % Size = (read + (i - 1) + 1) % Size
      <3>1. i - 1 \in 0 .. Size - 1
        BY <1>1
      <3> QED  BY <1>4, <3>1
    <2>4. read' + (i - 1) = read' + i - 1 /\ read + (i - 1) + 1 = read + (i + 1) - 1
      BY <1>1
    <2>5. content[i + 1] = items[(read + (i + 1) - 1) % Size]
      <3>1. i + 1 \in 1 .. use
        BY <1>1
      <3> QED  BY <1>3, <3>1, ContentAt DEF IInv
    <2> QED  BY <2>2, <2>3, <2>4, <2>5
  <1> QED  BY <1>1, <1>2, <1>3, <1>5, <1>6, <1>7

\* clear's loop moves nothing in the abstract queue.
LEMMA ClearItemContent ==
    ASSUME IInv, NEW t \in Threads, ClearItem(t)
    PROVE  /\ use' + count' = use + count
           /\ write' = (read' + use') % Size
           /\ content' = content
  <1>1. /\ Size \in Nat \ {0} /\ use \in 1 .. Size
        /\ read \in 0 .. Size - 1 /\ count \in 0 .. Size - 1
    BY SizeAssumption DEF IInv, TypeOK, RingOK, ClearItem
  <1>2. /\ use' = use - 1 /\ count' = count + 1 /\ items' = items
        /\ write' = write /\ read' = (read + 1) % Size
    BY DEF ClearItem
  <1>3. use' + count' = use + count
    BY <1>1, <1>2
  <1>4. first' = first
    BY <1>1, <1>2, StartStays DEF first
  <1>5. content' = content
    BY <1>2, <1>3, <1>4 DEF content
  <1>6. write' = (read' + use') % Size
    <2>1. (((read + 1) % Size) + (use - 1)) % Size = (read + (use - 1) + 1) % Size
      BY <1>1, NextSlot
    <2>2. read + (use - 1) + 1 = read + use
      BY <1>1
    <2> QED  BY <1>2, <2>1, <2>2 DEF IInv, RingOK
  <1> QED  BY <1>3, <1>5, <1>6

LEMMA RingStep ==
    ASSUME IInv, TypeOK', [Next]_vars
    PROVE  RingOK'
  <1>1. ASSUME UNCHANGED <<ring, count>>
        PROVE  RingOK'
    BY <1>1 DEF IInv, RingOK, content, first, ring
  <1>2. ASSUME NEW t \in Threads, EnqueueItem(t)
        PROVE  RingOK'
    <2>1. use \in 0 .. Size - 1 /\ Size \in Nat \ {0} /\ count = 0
      BY <1>2, EnqueueContent, SizeAssumption DEF IInv, TypeOK
    <2>2. /\ use' = use + 1 /\ count' = 0 /\ write' = (read' + use') % Size
          /\ \A i \in 1 .. use : content'[i] = content[i]
          /\ content'[use + 1] = op[t].buffer
      BY <1>2, EnqueueContent
    <2>3. op[t].buffer \in Buffers
      BY <1>2, EnqueueCarriesBuffer DEF EnqueueItem, Inside, IInv, TypeOK
    <2>4. \A i \in 1 .. use : content[i] \in Buffers
      BY <2>1 DEF IInv, RingOK
    <2>5. \A i \in 1 .. use' + count' : content'[i] \in Buffers
      BY <2>1, <2>2, <2>3, <2>4
    <2> QED  BY <2>1, <2>2, <2>5 DEF RingOK
  <1>3. ASSUME NEW t \in Threads, DequeueItem(t)
        PROVE  RingOK'
    <2>1. use \in 1 .. Size /\ Size \in Nat \ {0} /\ count = 0
      <3>1. use \in 0 .. Size /\ Size \in Nat \ {0}
        BY SizeAssumption DEF IInv, TypeOK
      <3> QED  BY <1>3, <3>1, DequeueContent
    <2>2. /\ use' = use - 1 /\ count' = 0 /\ write' = (read' + use') % Size
          /\ \A i \in 1 .. use - 1 : content'[i] = content[i + 1]
      BY <1>3, DequeueContent
    <2>3. \A i \in 1 .. use : content[i] \in Buffers
      BY <2>1 DEF IInv, RingOK
    <2>4. \A i \in 1 .. use' + count' : content'[i] \in Buffers
      BY <2>1, <2>2, <2>3
    <2> QED  BY <2>1, <2>2, <2>4 DEF RingOK
  <1>4. ASSUME NEW t \in Threads, ClearItem(t)
        PROVE  RingOK'
    BY <1>4, ClearItemContent DEF IInv, RingOK
  <1>5. ASSUME NEW t \in Threads, ClearDone(t)
        PROVE  RingOK'
    BY <1>5, SizeAssumption DEF ClearDone, IInv, RingOK, TypeOK, ring
  <1>6. CASE UNCHANGED vars
    BY <1>1, <1>6 DEF vars, ring
  <1> QED
    BY <1>1, <1>2, <1>3, <1>4, <1>5, <1>6, NextCases
       DEF Call, EnterCriticalSection, ReenterCriticalSection, EnqueueFull,
           DequeueSleep, TimeOut, DequeueNothing, LeaveToNotify,
           LeaveAndReturn, Return, WakeConditionVariable, ring

-----------------------------------------------------------------------------
(* The theorems.                                                              *)

LEMMA Initial == Init => IInv
  <1> SUFFICES ASSUME Init PROVE IInv
    OBVIOUS
  <1>1. TypeOK
    BY SizeAssumption, ThreadAssumption, AnswerTypes, CallTypes
       DEF Init, TypeOK, Places
  <1>2. RingOK
    <2>1. (0 + 0) % Size = 0
      BY SizeAssumption, ModBelow
    <2> QED  BY SizeAssumption, <2>1 DEF Init, RingOK
  <1>3. LockOK
    BY ThreadAssumption DEF Init, LockOK
  <1>4. CallOK
    BY RequestNames DEF Init, CallOK
  <1> QED  BY <1>1, <1>2, <1>3, <1>4 DEF IInv

LEMMA Inductive == IInv /\ [Next]_vars => IInv'
  BY TypeStep, RingStep, LockStep, CallStep DEF IInv

LEMMA AlwaysIInv == Spec => []IInv
  BY Initial, Inductive, PTL DEF Spec

\* The fields and locals of queue.cpp keep their types in every execution: the
\* two indexes stay within the ring.
THEOREM TypeCorrect == Spec => []TypeOK
  BY AlwaysIInv, PTL DEF IInv

\* The slots in use are the ones written and not yet read, in every execution
\* of any number of threads over a ring of any size (queue.cpp:31-108).
THEOREM RingCorrect == Spec => []RingOK
  BY AlwaysIInv, PTL DEF IInv

\* The critical section excludes: two threads are never both inside it, with a
\* sleeper leaving it and entering it again (queue.cpp:61-65).
THEOREM LockCorrect == Spec => []LockOK
  BY AlwaysIInv, PTL DEF IInv

-----------------------------------------------------------------------------
(* No wake-up is lost.                                                        *)

\* The counts of NoLostWakeup exist: there are finitely many threads.
LEMMA FiniteCounts ==
    /\ IsFiniteSet(Notifying) /\ Cardinality(Notifying) \in Nat
    /\ IsFiniteSet(Woken) /\ Cardinality(Woken) \in Nat
  <1>1. Notifying \subseteq Threads /\ Woken \subseteq Threads
    BY DEF Notifying, Woken, Threads
  <1> QED  BY <1>1, ThreadAssumption, FS_Subset, FS_CardinalityType

LEMMA FiniteCountsNext ==
    /\ IsFiniteSet(Notifying') /\ Cardinality(Notifying') \in Nat
    /\ IsFiniteSet(Woken') /\ Cardinality(Woken') \in Nat
  <1>1. Notifying' \subseteq Threads /\ Woken' \subseteq Threads
    BY DEF Notifying, Woken, Threads
  <1> QED  BY <1>1, ThreadAssumption, FS_Subset, FS_CardinalityType

LEMMA CardinalityGrows ==
    ASSUME NEW S, NEW T, IsFiniteSet(T), S \subseteq T
    PROVE  Cardinality(S) <= Cardinality(T)
  BY FS_Subset

LEMMA CardinalityPlus ==
    ASSUME NEW S, NEW T, NEW x, IsFiniteSet(S), x \notin S, S \cup {x} \subseteq T,
           IsFiniteSet(T)
    PROVE  Cardinality(T) >= Cardinality(S) + 1
  <1>1. Cardinality(S \cup {x}) = Cardinality(S) + 1
    BY FS_AddElement
  <1>2. Cardinality(S \cup {x}) <= Cardinality(T)
    BY FS_Subset
  <1> QED  BY <1>1, <1>2, FS_CardinalityType, FS_AddElement

\* Losing at most x costs at most one.
LEMMA CardinalityMinus ==
    ASSUME NEW S, NEW T, NEW x, IsFiniteSet(S), IsFiniteSet(T), S \ {x} \subseteq T
    PROVE  Cardinality(S) <= Cardinality(T) + 1
  <1>1. CASE x \in S
    <2>1. Cardinality(S \ {x}) = Cardinality(S) - 1 /\ IsFiniteSet(S \ {x})
      BY <1>1, FS_RemoveElement
    <2>2. Cardinality(S \ {x}) <= Cardinality(T)
      BY FS_Subset
    <2> QED  BY <2>1, <2>2, FS_CardinalityType
  <1>2. CASE x \notin S
    <2>1. S \subseteq T
      BY <1>2
    <2>2. Cardinality(S) <= Cardinality(T)
      BY <2>1, FS_Subset
    <2> QED  BY <2>2, FS_CardinalityType
  <1> QED  BY <1>1, <1>2

LEMMA WakeupStep ==
    ASSUME IInv, IInv', NoLostWakeup, [Next]_vars
    PROVE  NoLostWakeup'
  <1> DEFINE N == Cardinality(Notifying)
             W == Cardinality(Woken)
  <1>0. /\ N \in Nat /\ W \in Nat /\ N' \in Nat /\ W' \in Nat /\ use \in Nat
        /\ IsFiniteSet(Notifying) /\ IsFiniteSet(Woken)
        /\ IsFiniteSet(Notifying') /\ IsFiniteSet(Woken')
    BY FiniteCounts, FiniteCountsNext, SizeAssumption DEF IInv, TypeOK
  \* Nobody new falls asleep, and the counts do not go down.
  <1>1. ASSUME Asleep' \subseteq Asleep, use' <= use, use' \in Nat,
               Notifying \subseteq Notifying', Woken \subseteq Woken'
        PROVE  NoLostWakeup'
    <2>1. N <= N' /\ W <= W'
      BY <1>0, <1>1, FS_Subset
    <2> QED  BY <1>0, <1>1, <2>1 DEF NoLostWakeup
  <1>2. ASSUME use' = 0
        PROVE  NoLostWakeup'
    BY <1>0, <1>2 DEF NoLostWakeup
  <1>3. ASSUME NEW t \in Threads, EnqueueItem(t)
        PROVE  NoLostWakeup'
    <2>1. Asleep' \subseteq Asleep /\ use' = use + 1
      BY <1>3 DEF EnqueueItem, Asleep, Goto, IInv, TypeOK
    <2>2. Woken \subseteq Woken'
      BY <1>3 DEF EnqueueItem, Woken, Goto, IInv, TypeOK, Inside
    <2>3. t \notin Notifying /\ Notifying \cup {t} \subseteq Notifying'
      BY <1>3 DEF EnqueueItem, Notifying, Goto, IInv, TypeOK, Inside, CallOK
    <2>4. N' >= N + 1 /\ W' >= W
      BY <1>0, <2>2, <2>3, CardinalityPlus, FS_Subset
    <2> QED  BY <1>0, <2>1, <2>4 DEF NoLostWakeup
  <1>4. ASSUME NEW t \in Threads, DequeueItem(t)
        PROVE  NoLostWakeup'
    <2>1. Asleep' \subseteq Asleep /\ use > 0 /\ use' = use - 1
      BY <1>4 DEF DequeueItem, Asleep, Goto, IInv, TypeOK
    <2>2. Woken \ {t} \subseteq Woken'
      BY <1>4 DEF DequeueItem, Woken, Goto, IInv, TypeOK
    <2>3. Notifying \subseteq Notifying'
      BY <1>4 DEF DequeueItem, Notifying, Goto, IInv, TypeOK
    <2>4. N' >= N /\ W <= W' + 1
      BY <1>0, <2>2, <2>3, CardinalityMinus, FS_Subset
    <2> QED  BY <1>0, <2>1, <2>4 DEF NoLostWakeup
  <1>5. ASSUME NEW t \in Threads, WakeConditionVariable(t)
        PROVE  NoLostWakeup'
    <2>1. CASE Asleep = {}
      <3>1. pc' = [pc EXCEPT ![t] = "idle"]
        BY <1>5, <2>1 DEF WakeConditionVariable, Goto
      <3>2. Asleep' = {}
        BY <2>1, <3>1, CallTypes DEF Asleep, IInv, TypeOK
      <3> QED  BY <3>2 DEF NoLostWakeup
    <2>2. CASE Asleep # {}
      <3>1. PICK s \in Asleep : pc' = [pc EXCEPT ![t] = "idle", ![s] = "woken"]
        BY <1>5, <2>2 DEF WakeConditionVariable
      <3>2. use' = use /\ s # t /\ pc[t] = "notify" /\ pc[s] = "asleep"
        BY <1>5, <3>1 DEF WakeConditionVariable, Asleep, ring
      <3>3. s \notin Woken /\ Woken \cup {s} \subseteq Woken'
        BY <3>1, <3>2, CallTypes DEF Woken, Asleep, IInv, TypeOK
      <3>4. Notifying \ {t} \subseteq Notifying'
        BY <1>5, <3>1, <3>2, CallTypes
           DEF Notifying, Asleep, WakeConditionVariable, IInv, TypeOK
      <3>5. N <= N' + 1 /\ W' >= W + 1
        BY <1>0, <3>3, <3>4, CardinalityMinus, CardinalityPlus
      <3> QED  BY <1>0, <2>2, <3>2, <3>5 DEF NoLostWakeup
    <2> QED  BY <2>1, <2>2
  <1>6. ASSUME NEW t \in Threads, DequeueSleep(t) \/ DequeueNothing(t) \/ ClearDone(t)
        PROVE  use' = 0
    BY <1>6 DEF DequeueSleep, MustWait, DequeueNothing, ClearDone, ring
  <1>7. ASSUME NEW t \in Threads, NEW r, Call(t, r)
        PROVE  NoLostWakeup'
    BY <1>0, <1>1, <1>7
       DEF Call, Asleep, Notifying, Woken, Goto, IInv, TypeOK, ring, CallOK
  \* A step of one thread that neither falls asleep nor enqueues.
  <1>8. ASSUME NEW t \in Threads, \A u \in Threads \ {t} : pc'[u] = pc[u],
               UNCHANGED <<op, use>>,
               pc'[t] # "asleep",
               pc[t] \in {"woken", "awake"} => pc'[t] \in {"woken", "awake"},
               pc[t] = "leave" => pc'[t] = "notify",
               pc[t] # "notify"
        PROVE  NoLostWakeup'
    <2>1. Asleep' \subseteq Asleep
      BY <1>8, CallTypes DEF Asleep, IInv, TypeOK
    <2>2. Notifying \subseteq Notifying'
      BY <1>8, CallTypes DEF Notifying, IInv, TypeOK
    <2>3. Woken \subseteq Woken'
      BY <1>8, CallTypes DEF Woken, IInv, TypeOK
    <2> QED  BY <1>0, <1>1, <1>8, <2>1, <2>2, <2>3
  <1>9. ASSUME NEW t \in Threads, EnterCriticalSection(t)
        PROVE  NoLostWakeup'
    <2>1. /\ pc[t] = "enter" /\ pc'[t] = "inside"
          /\ \A u \in Threads \ {t} : pc'[u] = pc[u]
          /\ UNCHANGED <<op, use>>
      BY <1>9 DEF EnterCriticalSection, Goto, ring, IInv, TypeOK
    <2> QED  BY <1>0, <1>8, <2>1
  <1>11. ASSUME NEW t \in Threads, ReenterCriticalSection(t)
         PROVE  NoLostWakeup'
    <2>1. /\ pc[t] = "woken" /\ pc'[t] = "awake"
          /\ \A u \in Threads \ {t} : pc'[u] = pc[u]
          /\ UNCHANGED <<op, use>>
      BY <1>11 DEF ReenterCriticalSection, Goto, ring, IInv, TypeOK
    <2> QED  BY <1>0, <1>8, <2>1
  <1>12. ASSUME NEW t \in Threads, EnqueueFull(t)
         PROVE  NoLostWakeup'
    <2>1. /\ pc[t] = "inside" /\ pc'[t] = "leave"
          /\ \A u \in Threads \ {t} : pc'[u] = pc[u]
          /\ UNCHANGED <<op, use>>
      BY <1>12 DEF EnqueueFull, Inside, Goto, ring, IInv, TypeOK
    <2> QED  BY <1>0, <1>8, <2>1
  <1>13. ASSUME NEW t \in Threads, TimeOut(t)
         PROVE  NoLostWakeup'
    <2>1. /\ pc[t] = "asleep" /\ pc'[t] = "woken"
          /\ \A u \in Threads \ {t} : pc'[u] = pc[u]
          /\ UNCHANGED <<op, use>>
      BY <1>13 DEF TimeOut, Goto, ring, IInv, TypeOK
    <2> QED  BY <1>0, <1>8, <2>1
  <1>14. ASSUME NEW t \in Threads, ClearItem(t)
         PROVE  NoLostWakeup'
    <2>1. Asleep' = Asleep /\ Notifying' = Notifying /\ Woken' = Woken
      BY <1>14 DEF ClearItem, Asleep, Notifying, Woken
    <2>2. use' <= use /\ use' \in Nat
      BY <1>0, <1>14 DEF ClearItem
    <2> QED  BY <1>1, <2>1, <2>2
  <1>15. ASSUME NEW t \in Threads, LeaveToNotify(t)
         PROVE  NoLostWakeup'
    <2>1. /\ pc[t] = "leave" /\ pc'[t] = "notify"
          /\ \A u \in Threads \ {t} : pc'[u] = pc[u]
          /\ UNCHANGED <<op, use>>
      BY <1>15 DEF LeaveToNotify, Goto, ring, IInv, TypeOK
    <2> QED  BY <1>0, <1>8, <2>1
  <1>16. ASSUME NEW t \in Threads, LeaveAndReturn(t)
         PROVE  NoLostWakeup'
    <2>1. /\ pc' = [pc EXCEPT ![t] = "idle"] /\ use' = use
          /\ pc[t] = "leave" /\ op[t].name # "enqueue"
          /\ op' = [op EXCEPT ![t] = Fifo!Idle]
      BY <1>16 DEF LeaveAndReturn, Return, Goto, ring
    <2>2. Asleep' \subseteq Asleep
      BY <2>1, CallTypes DEF Asleep, IInv, TypeOK
    <2>3. Notifying \subseteq Notifying'
      BY <2>1, CallTypes DEF Notifying, IInv, TypeOK
    <2>4. Woken \subseteq Woken'
      BY <2>1, CallTypes DEF Woken, IInv, TypeOK
    <2> QED  BY <1>0, <1>1, <2>1, <2>2, <2>3, <2>4
  <1>10. CASE UNCHANGED vars
    BY <1>0, <1>1, <1>10 DEF vars, Asleep, Notifying, Woken
  <1> QED
    BY <1>2, <1>3, <1>4, <1>5, <1>6, <1>7, <1>9, <1>10, <1>11, <1>12, <1>13,
       <1>14, <1>15, <1>16, NextCases, CallTypes

\* An item never lies in the queue beside a sleeping dequeue unless a
\* notification or a woken thread is on its way, however many threads there
\* are (queue.cpp:48-53 and 61-65).
THEOREM WakeupsCorrect == Spec => []NoLostWakeup
  <1>1. Init => NoLostWakeup
    BY CallTypes DEF Init, NoLostWakeup, Asleep
  <1> QED
    BY <1>1, AlwaysIInv, WakeupStep, PTL DEF Spec

-----------------------------------------------------------------------------
(* The queue implements the abstract one.                                     *)

LEMMA ContentIsSequence ==
    ASSUME TypeOK, RingOK
    PROVE  content \in Seq(Buffers) /\ Len(content) = use + count
  <1>1. use + count \in Nat
    BY SizeAssumption DEF TypeOK
  <1>2. \A i \in 1 .. use + count : content[i] \in Buffers
    BY DEF RingOK
  <1>3. content = [i \in 1 .. use + count |-> content[i]]
    BY DEF content
  <1> QED  BY <1>1, <1>2, <1>3

LEMMA ContentIsSequenceNext ==
    ASSUME TypeOK', RingOK'
    PROVE  content' \in Seq(Buffers) /\ Len(content') = use' + count'
  <1>1. use' + count' \in Nat
    <2>1. use' \in Nat /\ count' \in Nat
      BY SizeAssumption DEF TypeOK
    <2>2. \A m, n \in Nat : m + n \in Nat
      OBVIOUS
    <2> QED  BY <2>1, <2>2
  <1>2. \A i \in 1 .. use' + count' : content'[i] \in Buffers
    BY DEF RingOK
  <1>3. content' = [i \in 1 .. use' + count' |-> content'[i]]
    BY DEF content
  <1> QED  BY <1>1, <1>2, <1>3

LEMMA EnqueueAppends ==
    ASSUME IInv, IInv', NEW t \in Threads, EnqueueItem(t)
    PROVE  Len(content) < Size /\ content' = Append(content, op[t].buffer)
  <1>0. /\ use \in Nat /\ use < Size /\ use' = use + 1 /\ count = 0 /\ count' = 0
    <2>1. use \in Nat
      BY SizeAssumption DEF IInv, TypeOK
    <2> QED  BY <2>1, EnqueueContent DEF IInv
  <1>1. /\ content \in Seq(Buffers) /\ Len(content) = use
        /\ content' \in Seq(Buffers) /\ Len(content') = use + 1
        /\ use \in Nat /\ use < Size
    BY <1>0, ContentIsSequence, ContentIsSequenceNext DEF IInv
  <1>2. /\ \A i \in 1 .. use : content'[i] = content[i]
        /\ content'[use + 1] = op[t].buffer
    BY EnqueueContent DEF IInv
  <1>3. op[t].buffer \in Buffers
    BY EnqueueCarriesBuffer DEF EnqueueItem, Inside, IInv, TypeOK
  <1> DEFINE longer == Append(content, op[t].buffer)
  <1>4. /\ longer \in Seq(Buffers) /\ Len(longer) = use + 1
        /\ \A i \in 1 .. use : longer[i] = content[i]
        /\ longer[use + 1] = op[t].buffer
    BY <1>1, <1>3, AppendProperties
  <1>5. \A i \in 1 .. use + 1 : content'[i] = longer[i]
    BY <1>1, <1>2, <1>4
  <1> HIDE DEF longer
  <1>6. content' = longer
    BY <1>1, <1>4, <1>5, SeqEqual
  <1> QED  BY <1>1, <1>6 DEF longer

LEMMA DequeueTakesHead ==
    ASSUME IInv, IInv', NEW t \in Threads, DequeueItem(t)
    PROVE  /\ content # <<>> /\ content' = Tail(content)
           /\ items[read] = Head(content)
  <1>1. /\ use > 0 /\ count = 0 /\ use' = use - 1 /\ count' = 0
        /\ items[read] = content[1]
        /\ \A i \in 1 .. use - 1 : content'[i] = content[i + 1]
    BY DequeueContent DEF IInv
  <1>2. use \in Nat
    BY SizeAssumption DEF IInv, TypeOK
  <1>3. /\ content \in Seq(Buffers) /\ Len(content) = use
        /\ content' \in Seq(Buffers) /\ Len(content') = use - 1
    BY <1>1, <1>2, ContentIsSequence, ContentIsSequenceNext DEF IInv
  <1>4. content # <<>>
    BY <1>1, <1>3
  <1>5. /\ Tail(content) \in Seq(Buffers) /\ Len(Tail(content)) = use - 1
        /\ \A i \in 1 .. use - 1 : Tail(content)[i] = content[i + 1]
    BY <1>3, <1>4, HeadTailProperties
  <1>6. content' = Tail(content)
    BY <1>1, <1>3, <1>5, SeqEqual
  <1>7. Head(content) = content[1]
    BY <1>3, <1>4
  <1> QED  BY <1>1, <1>4, <1>6, <1>7

LEMMA ContentEmpty ==
    ASSUME TypeOK, RingOK, use + count = 0
    PROVE  content = <<>>
  BY ContentIsSequence

\* A step that moves no item and finishes no call is a stutter of Fifo.
LEMMA FifoStutter ==
    ASSUME content' = content, UNCHANGED <<op, answer>>,
           NEW t \in Threads, \A u \in Threads \ {t} : pc'[u] = pc[u],
           pc[t] \in {"leave", "notify"} <=> pc'[t] \in {"leave", "notify"}
    PROVE  UNCHANGED Fifo!vars
  <1>1. effective' = effective
    BY DEF effective
  <1> QED  BY <1>1 DEF Fifo!vars

\* A step that finishes a call makes it take effect in Fifo.
LEMMA FifoTakesEffect ==
    ASSUME IInv, NEW t \in Threads, NEW result, Reply(t, result), Goto(t, "leave"),
           UNCHANGED op
    PROVE  Fifo!TakeEffect(t, result)
  BY DEF IInv, TypeOK, Reply, Goto, Fifo!TakeEffect, effective

\* A step that returns ends the call's effect.
LEMMA FifoEnds ==
    ASSUME NEW t \in Threads, pc'[t] = "idle",
           \A u \in Threads \ {t} :
               pc'[u] \in {"leave", "notify"} <=> pc[u] \in {"leave", "notify"}
    PROVE  effective' = [effective EXCEPT ![t] = FALSE]
  <1> DEFINE places == {"leave", "notify"}
  <1>1. ASSUME NEW u \in Threads
        PROVE  (pc'[u] \in places) = (IF u = t THEN FALSE ELSE pc[u] \in places)
    <2>1. CASE u = t \/ pc[u] \notin places
      <3>1. ~(pc'[u] \in places)
        BY <2>1
      <3>2. (pc'[u] \in places) = FALSE
        BY <3>1
      <3>3. u # t => (pc[u] \in places) = FALSE
        BY <2>1
      <3> QED  BY <3>2, <3>3
    <2>2. CASE u # t /\ pc[u] \in places
      <3>1. pc'[u] \in places
        BY <2>2
      <3> QED  BY <2>2, <3>1
    <2> QED  BY <2>1, <2>2
  <1>2. [effective EXCEPT ![t] = FALSE]
            = [u \in Threads |-> IF u = t THEN FALSE ELSE pc[u] \in places]
    BY DEF effective
  <1>3. effective' = [u \in Threads |-> pc'[u] \in places]
    BY DEF effective
  <1> QED  BY <1>1, <1>2, <1>3

LEMMA FifoStep ==
    ASSUME IInv, IInv', [Next]_vars
    PROVE  [Fifo!Next]_Fifo!vars
  <1>1. ASSUME NEW t \in Threads, NEW r, Call(t, r)
        PROVE  Fifo!Call(t, r)
    <2>1. op[t] = Fifo!Idle
      BY <1>1, RequestNames DEF Call, IInv, CallOK, TypeOK, Requests
    <2>2. content' = content
      BY <1>1 DEF Call, ring, content, first
    <2>3. effective' = effective
      BY <1>1 DEF Call, Goto, effective, IInv, TypeOK
    <2> QED  BY <1>1, <2>1, <2>2, <2>3 DEF Call, Fifo!Call
  <1>2. ASSUME NEW t \in Threads, EnqueueItem(t)
        PROVE  Fifo!Put(t)
    BY <1>2, EnqueueAppends, FifoTakesEffect
       DEF EnqueueItem, Inside, Fifo!Put, Fifo!Pending, effective
  <1>3. ASSUME NEW t \in Threads, EnqueueFull(t)
        PROVE  Fifo!Refuse(t)
    <2>1. count = 0 /\ use >= Size
      BY <1>3, CountIsClears DEF EnqueueFull, Inside
    <2>2. Len(content) = Size
      BY <2>1, ContentIsSequence, SizeAssumption DEF IInv, TypeOK
    <2>3. content' = content
      BY <1>3 DEF EnqueueFull, ring, content, first
    <2> QED
      BY <1>3, <2>2, <2>3, FifoTakesEffect
         DEF EnqueueFull, Inside, Fifo!Refuse, Fifo!Pending, effective
  <1>4. ASSUME NEW t \in Threads, PastWait(t)
        PROVE  Fifo!Pending(t, "dequeue")
    <2>1. op[t].name \in {"idle", "enqueue", "dequeue", "clear"}
      BY NameCases DEF IInv, TypeOK
    <2>2. op[t].name = "dequeue" /\ pc[t] \in {"awake", "inside"}
      BY <1>4, <2>1 DEF PastWait, Inside, IInv, CallOK
    <2> QED  BY <2>2 DEF Fifo!Pending, effective
  <1>5. ASSUME NEW t \in Threads, DequeueItem(t)
        PROVE  Fifo!Take(t)
    BY <1>4, <1>5, DequeueTakesHead, FifoTakesEffect DEF DequeueItem, Fifo!Take
  <1>6. ASSUME NEW t \in Threads, DequeueNothing(t)
        PROVE  Fifo!TakeNothing(t)
    <2>1. count = 0 /\ use = 0
      BY <1>6, CountIsClears DEF DequeueNothing, PastWait, Inside, IInv, CallOK
    <2>2. content = <<>>
      BY <2>1, ContentEmpty DEF IInv
    <2>3. content' = content
      BY <1>6 DEF DequeueNothing, ring, content, first
    <2> QED
      BY <1>4, <1>6, <2>2, <2>3, FifoTakesEffect
         DEF DequeueNothing, Fifo!TakeNothing
  <1>7. ASSUME NEW t \in Threads, ClearItem(t)
        PROVE  UNCHANGED Fifo!vars
    BY <1>7, ClearItemContent, FifoStutter DEF ClearItem
  <1>8. ASSUME NEW t \in Threads, ClearDone(t)
        PROVE  Fifo!Empty(t)
    <2>1. use = 0 /\ use' = 0 /\ count' = 0
      BY <1>8 DEF ClearDone, ring
    <2>2. Len(content) = count
      BY <2>1, ContentIsSequence, SizeAssumption DEF IInv, TypeOK
    <2>3. content' = <<>>
      BY <2>1, ContentIsSequenceNext DEF IInv
    <2>4. Fifo!TakeEffect(t, Fifo!Answer(TRUE, NoBuffer, Len(content)))
      BY <1>8, <2>2, FifoTakesEffect DEF ClearDone
    <2>5. Fifo!Pending(t, "clear")
      BY <1>8 DEF ClearDone, Inside, Fifo!Pending, effective
    <2> QED  BY <2>3, <2>4, <2>5 DEF Fifo!Empty
  <1>9. ASSUME NEW t \in Threads,
               EnterCriticalSection(t) \/ ReenterCriticalSection(t)
                  \/ DequeueSleep(t) \/ TimeOut(t) \/ LeaveToNotify(t)
        PROVE  UNCHANGED Fifo!vars
    <2>1. content' = content /\ UNCHANGED <<op, answer>>
      BY <1>9 DEF EnterCriticalSection, ReenterCriticalSection, DequeueSleep, TimeOut,
                  LeaveToNotify, ring, content, first
    <2>2. /\ \A u \in Threads \ {t} : pc'[u] = pc[u]
          /\ pc[t] \in {"leave", "notify"} <=> pc'[t] \in {"leave", "notify"}
      BY <1>9 DEF EnterCriticalSection, ReenterCriticalSection, DequeueSleep, TimeOut,
                  LeaveToNotify, Goto, Inside, IInv, TypeOK
    <2> QED  BY <2>1, <2>2, FifoStutter
  <1>10. ASSUME NEW t \in Threads, LeaveAndReturn(t)
         PROVE  Fifo!Return(t)
    <2>1. content' = content
      BY <1>10 DEF LeaveAndReturn, Return, ring, content, first
    <2>2. effective[t] /\ effective' = [effective EXCEPT ![t] = FALSE]
      <3>1. pc[t] = "leave" /\ pc' = [pc EXCEPT ![t] = "idle"]
        BY <1>10 DEF LeaveAndReturn, Return, Goto
      <3>2. effective' = [effective EXCEPT ![t] = FALSE]
        BY <3>1, FifoEnds DEF IInv, TypeOK
      <3> QED  BY <3>1, <3>2 DEF effective
    <2> QED  BY <1>10, <2>1, <2>2 DEF LeaveAndReturn, Return, Fifo!Return
  <1>11. ASSUME NEW t \in Threads, WakeConditionVariable(t)
         PROVE  Fifo!Return(t)
    <2>1. content' = content
      BY <1>11 DEF WakeConditionVariable, ring, content, first
    <2>2. effective[t]
      BY <1>11 DEF WakeConditionVariable, effective
    <2>3. effective' = [effective EXCEPT ![t] = FALSE]
      <3>1. CASE Asleep = {}
        <4>1. pc' = [pc EXCEPT ![t] = "idle"]
          BY <1>11, <3>1 DEF WakeConditionVariable, Goto
        <4> QED  BY <4>1, FifoEnds DEF IInv, TypeOK
      <3>2. CASE Asleep # {}
        <4>1. PICK s \in Asleep : pc' = [pc EXCEPT ![t] = "idle", ![s] = "woken"]
          BY <1>11, <3>2 DEF WakeConditionVariable
        <4>2. pc[s] = "asleep" /\ s \in Threads /\ pc[t] = "notify"
          BY <1>11, CallTypes DEF Asleep, WakeConditionVariable
        <4> QED  BY <4>1, <4>2, FifoEnds DEF IInv, TypeOK
      <3> QED  BY <3>1, <3>2
    <2> QED  BY <1>11, <2>1, <2>2, <2>3 DEF WakeConditionVariable, Fifo!Return
  <1>12. CASE UNCHANGED vars
    BY <1>12 DEF vars, Fifo!vars, content, first, effective
  <1>13. ASSUME NEW t \in Threads
         PROVE  /\ EnqueueItem(t) \/ EnqueueFull(t) => t \in Producers
                /\ DequeueItem(t) \/ DequeueNothing(t) \/ ClearDone(t) => t \in Consumers
    BY <1>4, <1>13 DEF EnqueueItem, EnqueueFull, DequeueItem, DequeueNothing, ClearDone,
                Inside, Fifo!Pending, IInv, CallOK
  <1> QED
    BY <1>1, <1>2, <1>3, <1>5, <1>6, <1>7, <1>8, <1>9, <1>10, <1>11, <1>12, <1>13,
       NextCases, CallTypes DEF Fifo!Next, Fifo!Threads, Threads

\* Whatever the threads do, enqueue, dequeue and clear are those of a bounded
\* first-in first-out queue, each taking effect at one instant: a buffer that
\* enqueue accepted is handed to one dequeue or freed by one clear, in order.
THEOREM Refinement == Spec => ImplementsFifo
  <1>1. Init => Fifo!Init
    <2> SUFFICES ASSUME Init PROVE Fifo!Init
      OBVIOUS
    <2>1. IInv
      BY Initial
    <2>2. content = <<>>
      BY <2>1, ContentEmpty DEF Init, IInv
    <2>3. effective = [t \in Threads |-> FALSE]
      <3>1. ASSUME NEW t \in Threads
            PROVE  (pc[t] \in {"leave", "notify"}) = FALSE
        <4>1. ~(pc[t] \in {"leave", "notify"})
          BY <3>1 DEF Init
        <4> QED  BY <4>1
      <3> QED  BY <3>1 DEF effective
    <2> QED  BY <2>2, <2>3 DEF Init, Fifo!Init, Fifo!Threads, Threads
  <1> QED
    BY <1>1, AlwaysIInv, FifoStep, PTL DEF Spec, Fifo!Spec, ImplementsFifo
=============================================================================
