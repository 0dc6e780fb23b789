------------------------------ MODULE PCQueue ------------------------------
(***************************************************************************)
(* The queue of Exercise2/producer-consumer: a ring of pointers filled by  *)
(* the threads that call pcq_enqueue and emptied by those that call        *)
(* pcq_dequeue.  The producers hold one mutex and the consumers another,   *)
(* so the two sides run at the same time, and pcq_current_size is read and *)
(* written by both: an increment, or a decrement, is a load and a store.   *)
(***************************************************************************)
EXTENDS Integers, Sequences

CONSTANTS
  Producers, Consumers,  \* the threads on each side
  NoThread,              \* owner of a mutex that is not held
  Elems, NoElem,         \* the pointers put in the queue, and none
  Capacity,              \* pcq_capacity
  SizeT                  \* 2^w for the w bits of size_t

Threads == Producers \cup Consumers

ASSUME ThreadsAssumption == Producers \cap Consumers = {} /\ NoThread \notin Threads
ASSUME CapacityAssumption ==
  Capacity \in Nat \ {0} /\ SizeT \in Nat /\ Capacity < SizeT
ASSUME ElemsAssumption == NoElem \notin Elems

VARIABLES
  pcq_buffer, pcq_head, pcq_tail, pcq_current_size,
  condvar_lock,  \* the owner of each side's mutex
  pc,            \* "asleep": waiting on the condition variable of its side
  size,          \* the pcq_current_size a thread has loaded and will update
  elem,          \* what each consumer took last
  raced          \* some update of pcq_current_size has undone another

ring == <<pcq_buffer, pcq_head, pcq_tail, elem>>
vars == <<ring, pcq_current_size, condvar_lock, pc, size, raced>>

Cells == 0 .. Capacity - 1
Sides == {"pusher", "popper"}
Side(t) == IF t \in Producers THEN "pusher" ELSE "popper"

Init ==
  /\ pcq_buffer = [c \in Cells |-> NoElem]
  /\ pcq_head = 0 /\ pcq_tail = 0 /\ pcq_current_size = 0
  /\ condvar_lock = [s \in Sides |-> NoThread]
  /\ pc = [t \in Threads |-> "idle"]
  /\ size = [t \in Threads |-> 0]
  /\ elem = [t \in Consumers |-> NoElem]
  /\ raced = FALSE

-----------------------------------------------------------------------------
Move(t, from, to) == pc[t] = from /\ pc' = [pc EXCEPT ![t] = to]

Blocked(t) == pcq_current_size = IF t \in Producers THEN Capacity ELSE 0

Lock(t, from) ==
  /\ Move(t, from, "test") /\ condvar_lock[Side(t)] = NoThread
  /\ condvar_lock' = [condvar_lock EXCEPT ![Side(t)] = t]
  /\ UNCHANGED <<ring, pcq_current_size, size, raced>>

\* Mutant: an if in the place of the while.
RelockUntested(t) ==
  /\ Move(t, "woken", "move") /\ condvar_lock[Side(t)] = NoThread
  /\ condvar_lock' = [condvar_lock EXCEPT ![Side(t)] = t]
  /\ UNCHANGED <<ring, pcq_current_size, size, raced>>

\* pcq_enqueue and pcq_dequeue begin; a thread that was woken tests again.
Enter(t) == Lock(t, "idle")
Relock(t) == Lock(t, "woken")

Test(t) ==
  /\ Move(t, "test", IF Blocked(t) THEN "wait" ELSE "move")
  /\ UNCHANGED <<ring, pcq_current_size, condvar_lock, size, raced>>

\* pthread_cond_wait: the mutex is released and the thread sleeps, at once.
Wait(t) ==
  /\ Move(t, "wait", "asleep")
  /\ condvar_lock' = [condvar_lock EXCEPT ![Side(t)] = NoThread]
  /\ UNCHANGED <<ring, pcq_current_size, size, raced>>

\* POSIX allows a wait to end with no signal.
WakeSpuriously(t) ==
  /\ Move(t, "asleep", "woken")
  /\ UNCHANGED <<ring, pcq_current_size, condvar_lock, size, raced>>

\* Mutant: the tail does not wrap around.
PutUnwrapped(t) ==
  /\ t \in Producers /\ Move(t, "move", "load")
  /\ \E e \in Elems : pcq_buffer' = [pcq_buffer EXCEPT ![pcq_tail] = e]
  /\ pcq_tail' = pcq_tail + 1
  /\ UNCHANGED <<pcq_head, elem, pcq_current_size, condvar_lock, size, raced>>

Put(t) ==
  /\ t \in Producers /\ Move(t, "move", "load")
  /\ \E e \in Elems : pcq_buffer' = [pcq_buffer EXCEPT ![pcq_tail] = e]
  /\ pcq_tail' = (pcq_tail + 1) % Capacity
  /\ UNCHANGED <<pcq_head, elem, pcq_current_size, condvar_lock, size, raced>>

\* Mutant: the head is advanced before the element is read.
TakeNext(t) ==
  /\ t \in Consumers /\ Move(t, "move", "load")
  /\ elem' = [elem EXCEPT ![t] = pcq_buffer[(pcq_head + 1) % Capacity]]
  /\ pcq_head' = (pcq_head + 1) % Capacity
  /\ UNCHANGED <<pcq_buffer, pcq_tail, pcq_current_size, condvar_lock, size, raced>>

Take(t) ==
  /\ t \in Consumers /\ Move(t, "move", "load")
  /\ elem' = [elem EXCEPT ![t] = pcq_buffer[pcq_head]]
  /\ pcq_head' = (pcq_head + 1) % Capacity
  /\ UNCHANGED <<pcq_buffer, pcq_tail, pcq_current_size, condvar_lock, size, raced>>

\* The load and the store of pcq_current_size++ or pcq_current_size--.
Load(t) ==
  /\ Move(t, "load", "store")
  /\ size' = [size EXCEPT ![t] = pcq_current_size]
  /\ UNCHANGED <<ring, pcq_current_size, condvar_lock, raced>>

Store(t) ==
  /\ Move(t, "store", "signal")
  /\ pcq_current_size' = (IF t \in Producers THEN size[t] + 1 ELSE size[t] - 1) % SizeT
  /\ raced' = (raced \/ pcq_current_size # size[t])
  /\ size' = [size EXCEPT ![t] = 0]
  /\ UNCHANGED <<ring, condvar_lock>>

\* One sleeper of the other side is woken, if there is one, and the mutex of
\* this side is released.
Signal(t) ==
  LET sleepers == {u \in Threads : Side(u) # Side(t) /\ pc[u] = "asleep"} IN
  /\ pc[t] = "signal"
  /\ \/ /\ sleepers = {}
        /\ pc' = [pc EXCEPT ![t] = "idle"]
     \/ \E u \in sleepers : pc' = [pc EXCEPT ![t] = "idle", ![u] = "woken"]
  /\ condvar_lock' = [condvar_lock EXCEPT ![Side(t)] = NoThread]
  /\ UNCHANGED <<ring, pcq_current_size, size, raced>>

\* A call that has begun goes on; calls and spurious wakeups just happen.
Continue(t) ==
  \/ Relock(t) \/ Test(t) \/ Wait(t) \/ Put(t) \/ Take(t)
  \/ Load(t) \/ Store(t) \/ Signal(t)

Next == \E t \in Threads : Enter(t) \/ WakeSpuriously(t) \/ Continue(t)

Spec == Init /\ [][Next]_vars
FairSpec == Spec /\ \A t \in Threads : WF_vars(Continue(t))

-----------------------------------------------------------------------------
(* Properties.                                                             *)

Section == {"test", "wait", "move", "load", "store", "signal"}
Labels == Section \cup {"idle", "asleep", "woken"}

\* The types of the variables.
TypeOK ==
  /\ pcq_buffer \in [Cells -> Elems \cup {NoElem}]
  /\ pcq_head \in Cells /\ pcq_tail \in Cells
  /\ pcq_current_size \in 0 .. SizeT - 1
  /\ condvar_lock \in [Sides -> Threads \cup {NoThread}]
  /\ pc \in [Threads -> Labels]
  /\ size \in [Threads -> 0 .. SizeT - 1]
  /\ elem \in [Consumers -> Elems \cup {NoElem}]
  /\ raced \in BOOLEAN

\* Even when updates of pcq_current_size undo one another, it stays between 0 and
\* the capacity: the decrement of pcq_dequeue never wraps around, which would
\* let the consumers run for ever, and no producer passes a full queue's test.
SizeWithin == pcq_current_size <= Capacity

Stored(t) == pc[t] \in {"load", "store"}

\* The elements put and not taken: the size does not count yet the element of
\* a producer, or of a consumer, that has still to update it.
Contents ==
  LET puts  == IF \E t \in Producers : Stored(t) THEN 1 ELSE 0
      takes == IF \E t \in Consumers : Stored(t) THEN 1 ELSE 0
  IN  [i \in 1 .. pcq_current_size + puts - takes |->
         pcq_buffer[(pcq_head + i - 1) % Capacity]]

Queue == INSTANCE BoundedQueue WITH queue <- Contents, taken <- elem

\* As long as no update of pcq_current_size has undone another, the ring is a
\* bounded FIFO queue: a step of a thread puts one element at the end, takes the
\* first into its own elem, or changes nothing a caller can see.
FifoUnlessRaced ==
  /\ Queue!Init
  /\ [][~raced' => Queue!Next]_<<Contents, elem>>

\* "If the queue is full, sleep until the queue has space" (producer-consumer.h:44):
\* a producer does not sleep on while there is space.
SleepEnds ==
  \A t \in Producers :
    pc[t] = "asleep" /\ pcq_current_size < Capacity
      ~> pc[t] # "asleep" \/ pcq_current_size = Capacity
=============================================================================
