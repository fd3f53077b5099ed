---------------------------- MODULE DddNetQueue ----------------------------
(* ddd_net/queue.cpp: the ring of buffers between the game's main thread and  *)
(* the network worker, guarded by a critical section, with a condition        *)
(* variable on which a dequeue with a timeout waits. A buffer is its pointer  *)
(* and its length; both travel together.                                      *)
EXTENDS Naturals, Sequences, FiniteSets

CONSTANTS
    Producers,   \* threads that call enqueue
    Consumers,   \* threads that call dequeue and clear
    Buffers,     \* what is enqueued
    NoBuffer,    \* stands for the garbage of a slot never written
    NoThread,    \* the owner of a free critical section
    Size         \* size: the slots of the ring

Threads == Producers \cup Consumers

ASSUME SizeAssumption == Size \in Nat \ {0}
ASSUME BufferAssumption == NoBuffer \notin Buffers
ASSUME ThreadAssumption == NoThread \notin Threads /\ IsFiniteSet(Threads)

VARIABLES
    items,       \* items[i]: slot i of the ring, written or not
    use,         \* the number of slots in use
    read,        \* the slot of the oldest item
    write,       \* the slot of the next item
    thread_lock, \* the owner of the critical section
    pc,          \* pc[t]: where thread t is in its call
    op,          \* op[t]: its call and the arguments
    answer,      \* answer[t]: what it is about to return
    count        \* clear's local: how many items it has freed so far

vars == <<items, use, read, write, thread_lock, pc, op, answer, count>>

ring == <<items, use, read, write>>

-----------------------------------------------------------------------------
(* The abstract queue this one implements. clear frees under the lock, one    *)
(* item a step: its items leave the abstract queue together, at the end.      *)
first == (read + Size - count) % Size

content == [i \in 1 .. use + count |-> items[(first + i - 1) % Size]]

effective == [t \in Threads |-> pc[t] \in {"leave", "notify"}]

Fifo == INSTANCE BoundedFifo WITH fifo <- content, done <- effective

Init ==
    /\ items \in [0 .. Size - 1 -> Buffers \cup {NoBuffer}]
    /\ use = 0
    /\ read = 0
    /\ write = 0
    /\ thread_lock = NoThread
    /\ pc = [t \in Threads |-> "idle"]
    /\ op = [t \in Threads |-> Fifo!Idle]
    /\ answer = [t \in Threads |-> Fifo!NoAnswer]
    /\ count = 0

Goto(t, place) == pc' = [pc EXCEPT ![t] = place]

Reply(t, result) == answer' = [answer EXCEPT ![t] = result]

Call(t, request) ==
    /\ pc[t] = "idle"
    /\ op' = [op EXCEPT ![t] = request]
    /\ Goto(t, "enter")
    /\ UNCHANGED <<ring, thread_lock, answer, count>>

CallEnqueue(t) == \E b \in Buffers : Call(t, Fifo!Enqueue(b))

\* timeoutMs is 500 on the worker and 0 on the main thread.
CallDequeue(t) == \E timed \in BOOLEAN : Call(t, Fifo!Dequeue(timed))

CallClear(t) == Call(t, Fifo!Clear)

EnterCriticalSection(t) ==
    /\ pc[t] = "enter"
    /\ thread_lock = NoThread
    /\ thread_lock' = t
    /\ Goto(t, "inside")
    /\ UNCHANGED <<ring, op, answer, count>>

Inside(t, name) == pc[t] = "inside" /\ op[t].name = name

\* Mistake: write never wraps.
EnqueueItemNoWrap(t) ==
    /\ Inside(t, "enqueue")
    /\ use < Size
    /\ items' = [items EXCEPT ![write] = op[t].buffer]
    /\ use' = use + 1
    /\ write' = write + 1
    /\ Reply(t, Fifo!Answer(TRUE, NoBuffer, 0))
    /\ Goto(t, "leave")
    /\ UNCHANGED <<read, thread_lock, op, count>>

EnqueueItem(t) ==
    /\ Inside(t, "enqueue")
    /\ use < Size
    /\ items' = [items EXCEPT ![write] = op[t].buffer]
    /\ use' = use + 1
    /\ write' = (write + 1) % Size
    /\ Reply(t, Fifo!Answer(TRUE, NoBuffer, 0))
    /\ Goto(t, "leave")
    /\ UNCHANGED <<read, thread_lock, op, count>>

\* Mistake: success is reported for an item that found no room.
EnqueueFullAccepts(t) ==
    /\ Inside(t, "enqueue")
    /\ use >= Size
    /\ Reply(t, Fifo!Answer(TRUE, NoBuffer, 0))
    /\ Goto(t, "leave")
    /\ UNCHANGED <<ring, thread_lock, op, count>>

\* Mistake: an early return that does not leave the critical section.
EnqueueFullKeepsLock(t) ==
    /\ Inside(t, "enqueue")
    /\ use >= Size
    /\ Reply(t, Fifo!Answer(FALSE, NoBuffer, 0))
    /\ Goto(t, "notify")
    /\ UNCHANGED <<ring, thread_lock, op, count>>

EnqueueFull(t) ==
    /\ Inside(t, "enqueue")
    /\ use >= Size
    /\ Reply(t, Fifo!Answer(FALSE, NoBuffer, 0))
    /\ Goto(t, "leave")
    /\ UNCHANGED <<ring, thread_lock, op, count>>

\* SleepConditionVariableCS leaves the critical section and sleeps at once.
MustWait(t) == use = 0 /\ op[t].timed

DequeueSleep(t) ==
    /\ Inside(t, "dequeue")
    /\ MustWait(t)
    /\ thread_lock' = NoThread
    /\ Goto(t, "asleep")
    /\ UNCHANGED <<ring, op, answer, count>>

\* The timeout elapses, or the wake-up is spurious: the code treats both alike.
TimeOut(t) ==
    /\ pc[t] = "asleep"
    /\ Goto(t, "woken")
    /\ UNCHANGED <<ring, thread_lock, op, answer, count>>

\* Mistake: the wait ends without the critical section being entered again.
ReenterUnlocked(t) ==
    /\ pc[t] = "woken"
    /\ Goto(t, "awake")
    /\ UNCHANGED <<ring, thread_lock, op, answer, count>>

\* A woken sleeper queues for the critical section with everyone else.
ReenterCriticalSection(t) ==
    /\ pc[t] = "woken"
    /\ thread_lock = NoThread
    /\ thread_lock' = t
    /\ Goto(t, "awake")
    /\ UNCHANGED <<ring, op, answer, count>>

\* The wait is an if, not a loop: whoever comes out of it looks once.
PastWait(t) == pc[t] = "awake" \/ (Inside(t, "dequeue") /\ ~MustWait(t))

\* Mistake: read is not advanced.
DequeueItemNoAdvance(t) ==
    /\ PastWait(t)
    /\ use > 0
    /\ use' = use - 1
    /\ Reply(t, Fifo!Answer(TRUE, items[read], 0))
    /\ Goto(t, "leave")
    /\ UNCHANGED <<items, read, write, thread_lock, op, count>>

DequeueItem(t) ==
    /\ PastWait(t)
    /\ use > 0
    /\ use' = use - 1
    /\ read' = (read + 1) % Size
    /\ Reply(t, Fifo!Answer(TRUE, items[read], 0))
    /\ Goto(t, "leave")
    /\ UNCHANGED <<items, write, thread_lock, op, count>>

DequeueNothing(t) ==
    /\ PastWait(t)
    /\ use = 0
    /\ Reply(t, Fifo!Answer(FALSE, NoBuffer, 0))
    /\ Goto(t, "leave")
    /\ UNCHANGED <<ring, thread_lock, op, count>>

ClearItem(t) ==
    /\ Inside(t, "clear")
    /\ use > 0
    /\ use' = use - 1
    /\ read' = (read + 1) % Size
    /\ count' = count + 1
    /\ UNCHANGED <<items, write, thread_lock, pc, op, answer>>

ClearDone(t) ==
    /\ Inside(t, "clear")
    /\ use = 0
    /\ Reply(t, Fifo!Answer(TRUE, NoBuffer, count))
    /\ count' = 0
    /\ Goto(t, "leave")
    /\ UNCHANGED <<ring, thread_lock, op>>

Return(t) ==
    /\ Goto(t, "idle")
    /\ op' = [op EXCEPT ![t] = Fifo!Idle]
    /\ answer' = [answer EXCEPT ![t] = Fifo!NoAnswer]
    /\ UNCHANGED <<ring, count>>

\* Mistake: only the enqueue that finds the queue empty notifies.
LeaveToNotifyFirst(t) ==
    /\ pc[t] = "leave"
    /\ op[t].name = "enqueue"
    /\ thread_lock' = NoThread
    /\ IF use = 1
       THEN Goto(t, "notify") /\ UNCHANGED <<ring, op, answer, count>>
       ELSE Return(t)

\* enqueue has its notification still to do, the others return from here.
LeaveToNotify(t) ==
    /\ pc[t] = "leave"
    /\ op[t].name = "enqueue"
    /\ thread_lock' = NoThread
    /\ Goto(t, "notify")
    /\ UNCHANGED <<ring, op, answer, count>>

LeaveAndReturn(t) ==
    /\ pc[t] = "leave"
    /\ op[t].name # "enqueue"
    /\ thread_lock' = NoThread
    /\ Return(t)

Asleep == {t \in Consumers : pc[t] = "asleep"}

\* WakeConditionVariable, outside the critical section and after every
\* enqueue, failed ones too: one sleeper wakes, if there is one.
WakeConditionVariable(t) ==
    /\ pc[t] = "notify"
    /\ op' = [op EXCEPT ![t] = Fifo!Idle]
    /\ answer' = [answer EXCEPT ![t] = Fifo!NoAnswer]
    /\ IF Asleep = {}
       THEN Goto(t, "idle")
       ELSE \E s \in Asleep : pc' = [pc EXCEPT ![t] = "idle", ![s] = "woken"]
    /\ UNCHANGED <<ring, thread_lock, count>>

Acquire(t) == EnterCriticalSection(t) \/ ReenterCriticalSection(t)

EnqueueStep(t) == EnqueueItem(t) \/ EnqueueFull(t)

DequeueStep(t) == DequeueSleep(t) \/ TimeOut(t) \/ DequeueItem(t) \/ DequeueNothing(t)

ClearStep(t) == ClearItem(t) \/ ClearDone(t)

LeaveStep(t) == LeaveToNotify(t) \/ LeaveAndReturn(t) \/ WakeConditionVariable(t)

\* What thread t does once it has called, the acquisitions of the lock apart.
Work(t) == EnqueueStep(t) \/ DequeueStep(t) \/ ClearStep(t) \/ LeaveStep(t)

Next ==
    \/ \E t \in Producers : CallEnqueue(t)
    \/ \E t \in Consumers : CallDequeue(t) \/ CallClear(t)
    \/ \E t \in Threads : Acquire(t) \/ Work(t)

Spec == Init /\ [][Next]_vars

\* The scheduler runs every thread, a timeout elapses in the end, and a thread
\* that finds the critical section free again and again gets it once.
Fairness == \A t \in Threads : WF_vars(Work(t)) /\ SF_vars(Acquire(t))

FairSpec == Spec /\ Fairness

-----------------------------------------------------------------------------
(* Properties.                                                                *)

Requests ==
    {Fifo!Idle, Fifo!Clear} \cup {Fifo!Enqueue(b) : b \in Buffers}
        \cup {Fifo!Dequeue(timed) : timed \in BOOLEAN}

Answers ==
    [ok : BOOLEAN, buffer : Buffers \cup {NoBuffer}, count : 0 .. Size]

Places == {"idle", "enter", "inside", "asleep", "woken", "awake", "leave", "notify"}

\* The types of the class's fields and of the threads' locals (queue.cpp:5-24).
TypeOK ==
    /\ items \in [0 .. Size - 1 -> Buffers \cup {NoBuffer}]
    /\ use \in 0 .. Size
    /\ read \in 0 .. Size - 1
    /\ write \in 0 .. Size - 1
    /\ thread_lock \in Threads \cup {NoThread}
    /\ pc \in [Threads -> Places]
    /\ op \in [Threads -> Requests]
    /\ answer \in [Threads -> Answers]
    /\ count \in 0 .. Size

\* read, write and use stay in step, so the use slots from read on are those
\* written and not yet read: none of them is a slot malloc left unwritten.
RingOK ==
    /\ write = (read + use) % Size
    /\ use + count <= Size
    /\ \A i \in 1 .. use + count : content[i] \in Buffers

\* The critical section is held by exactly the thread whose place is inside
\* it, and clear's partial work is never visible to another holder.
LockOK ==
    /\ \A t \in Threads :
          pc[t] \in {"inside", "awake", "leave"} <=> thread_lock = t
    /\ count > 0 => \E t \in Threads : Inside(t, "clear")

Notifying == {t \in Producers : op[t].name = "enqueue" /\ pc[t] \in {"leave", "notify"}}

Woken == {t \in Consumers : pc[t] \in {"woken", "awake"}}

\* No lost wake-up: an item may lie in the queue while a thread sleeps in
\* dequeue only if a notification is still to come or a woken thread is still
\* to look. Without it an item enqueued just before the sleep would wait for
\* the timeout. enqueue notifies after it has left the lock (queue.cpp:48-53).
NoLostWakeup ==
    Asleep # {} => use <= Cardinality(Notifying) + Cardinality(Woken)

\* Seen by its callers the queue is the abstract one: every call takes effect
\* at one instant, in first-in first-out order, whatever the threads do.
ImplementsFifo == Fifo!Spec

\* "will not hang for very long" (ddd_net_client.h:33): every call of enqueue,
\* dequeue and clear returns.
CallsReturn == \A t \in Threads : pc[t] # "idle" ~> pc[t] = "idle"
=============================================================================
