---------------------------- MODULE BoundedFifo ----------------------------
(* What DddNetQueue promises the threads that share it: a bounded first-in    *)
(* first-out queue whose three operations each take effect at one instant     *)
(* between their call and their return. No lock, no condition variable and no *)
(* ring of slots appear here: DddNetQueue has them and implements this        *)
(* specification.                                                             *)
EXTENDS Naturals, Sequences

CONSTANTS
    Producers,   \* the threads that call enqueue
    Consumers,   \* the threads that call dequeue and clear
    Buffers,     \* the buffers the queue carries (pointer and length together)
    NoBuffer,    \* the answer of a dequeue that found nothing
    Size         \* how many buffers the queue holds

VARIABLES
    fifo,        \* the buffers in the queue, oldest first
    op,          \* op[t]: the call thread t is in, Idle outside one
    done,        \* done[t]: that call has taken effect
    answer       \* answer[t]: what the call returns once it has

vars == <<fifo, op, done, answer>>

Threads == Producers \cup Consumers

Idle == [name |-> "idle", buffer |-> NoBuffer, timed |-> FALSE]
Enqueue(b) == [name |-> "enqueue", buffer |-> b, timed |-> FALSE]
Dequeue(timed) == [name |-> "dequeue", buffer |-> NoBuffer, timed |-> timed]
Clear == [name |-> "clear", buffer |-> NoBuffer, timed |-> FALSE]

\* The return values: enqueue's success, dequeue's success and buffer, the
\* number of items clear removed.
Answer(ok, b, n) == [ok |-> ok, buffer |-> b, count |-> n]
NoAnswer == Answer(FALSE, NoBuffer, 0)

Init ==
    /\ fifo = <<>>
    /\ op = [t \in Threads |-> Idle]
    /\ done = [t \in Threads |-> FALSE]
    /\ answer = [t \in Threads |-> NoAnswer]

Call(t, request) ==
    /\ op[t] = Idle
    /\ op' = [op EXCEPT ![t] = request]
    /\ UNCHANGED <<fifo, done, answer>>

Pending(t, name) == op[t].name = name /\ ~done[t]

TakeEffect(t, result) ==
    /\ done' = [done EXCEPT ![t] = TRUE]
    /\ answer' = [answer EXCEPT ![t] = result]
    /\ UNCHANGED op

\* enqueue with room left.
Put(t) ==
    /\ Pending(t, "enqueue")
    /\ Len(fifo) < Size
    /\ fifo' = Append(fifo, op[t].buffer)
    /\ TakeEffect(t, Answer(TRUE, NoBuffer, 0))

\* enqueue into a full queue: the buffer stays the caller's.
Refuse(t) ==
    /\ Pending(t, "enqueue")
    /\ Len(fifo) = Size
    /\ TakeEffect(t, Answer(FALSE, NoBuffer, 0))
    /\ UNCHANGED fifo

Take(t) ==
    /\ Pending(t, "dequeue")
    /\ fifo # <<>>
    /\ fifo' = Tail(fifo)
    /\ TakeEffect(t, Answer(TRUE, Head(fifo), 0))

\* dequeue that gives up, possibly after waiting.
TakeNothing(t) ==
    /\ Pending(t, "dequeue")
    /\ fifo = <<>>
    /\ TakeEffect(t, Answer(FALSE, NoBuffer, 0))
    /\ UNCHANGED fifo

Empty(t) ==
    /\ Pending(t, "clear")
    /\ fifo' = <<>>
    /\ TakeEffect(t, Answer(TRUE, NoBuffer, Len(fifo)))

Return(t) ==
    /\ done[t]
    /\ op' = [op EXCEPT ![t] = Idle]
    /\ done' = [done EXCEPT ![t] = FALSE]
    /\ answer' = [answer EXCEPT ![t] = NoAnswer]
    /\ UNCHANGED fifo

Next ==
    \/ \E t \in Producers :
          \/ \E b \in Buffers : Call(t, Enqueue(b))
          \/ Put(t) \/ Refuse(t)
    \/ \E t \in Consumers :
          \/ \E timed \in BOOLEAN : Call(t, Dequeue(timed))
          \/ Call(t, Clear)
          \/ Take(t) \/ TakeNothing(t) \/ Empty(t)
    \/ \E t \in Threads : Return(t)

Spec == Init /\ [][Next]_vars
=============================================================================
