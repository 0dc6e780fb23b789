--------------------------- MODULE PCQueueProofs ---------------------------
(* The counter of PCQueue never leaves its range, for every capacity and   *)
(* every number of threads, although its updates can undo one another.     *)
EXTENDS PCQueue, SequenceTheorems, TLAPS

\* At most one thread of each side is between its lock and its unlock.
Exclusive == \A t \in Threads : condvar_lock[Side(t)] = t <=> pc[t] \in Section

\* What a thread tested stays true until it updates the counter: only the other
\* side updates it meanwhile, and in the other direction.
TestHolds ==
  /\ \A t \in Producers :
       /\ pc[t] \in {"move", "load"} => pcq_current_size < Capacity
       /\ pc[t] = "store" => size[t] < Capacity
  /\ \A t \in Consumers :
       /\ pc[t] \in {"move", "load"} => pcq_current_size > 0
       /\ pc[t] = "store" => size[t] > 0 /\ size[t] <= Capacity

SizeInv == TypeOK /\ Exclusive /\ TestHolds /\ SizeWithin

LEMMA ModCell == ASSUME NEW n \in Int PROVE n % Capacity \in Cells
BY CapacityAssumption DEF Cells

LEMMA SideType == \A t : Side(t) \in Sides
BY DEF Side, Sides

LEMMA SizeInit == Init => SizeInv
<1> SUFFICES ASSUME Init PROVE SizeInv
  OBVIOUS
<1>1. TypeOK
  <2>1. 0 \in Cells /\ 0 \in 0 .. SizeT - 1
    BY CapacityAssumption DEF Cells
  <2> QED
    BY <2>1 DEF Init, TypeOK, Labels
<1>2. ASSUME NEW t \in Threads PROVE condvar_lock[Side(t)] # t /\ pc[t] = "idle"
  <2>1. Side(t) \in Sides
    BY SideType
  <2>2. condvar_lock[Side(t)] = NoThread /\ pc[t] = "idle"
    BY <2>1 DEF Init
  <2>3. t # NoThread
    BY ThreadsAssumption
  <2> QED
    BY <2>2, <2>3
<1>3. TestHolds /\ SizeWithin
  BY CapacityAssumption DEF Init, TestHolds, SizeWithin, Threads
<1> QED
  BY <1>1, <1>2, <1>3 DEF SizeInv, Exclusive, Section

LEMMA TypeStep ==
  ASSUME TypeOK, NEW t \in Threads, Enter(t) \/ WakeSpuriously(t) \/ Continue(t)
  PROVE  TypeOK'
<1> USE SideType DEF TypeOK, Move, Labels, Section
<1>1. CASE Enter(t) \/ Relock(t)
  BY <1>1 DEF Enter, Relock, Lock, ring
<1>2. CASE Test(t) \/ Wait(t) \/ WakeSpuriously(t)
  BY <1>2 DEF Test, Wait, WakeSpuriously, ring
<1>3. CASE Put(t)
  <2>1. pcq_tail' \in Cells
    BY <1>3, ModCell DEF Put, Cells
  <2> QED
    BY <1>3, <2>1 DEF Put
<1>4. CASE Take(t)
  <2>1. pcq_head' \in Cells
    BY <1>4, ModCell DEF Take, Cells
  <2> QED
    BY <1>4, <2>1 DEF Take
<1>5. CASE Load(t)
  BY <1>5 DEF Load, ring
<1>6. CASE Store(t)
  <2>1. \A n \in Int : n % SizeT \in 0 .. SizeT - 1
    BY CapacityAssumption
  <2>2. pcq_current_size' \in 0 .. SizeT - 1
    BY <1>6, <2>1 DEF Store
  <2> QED
    BY <1>6, <2>2, CapacityAssumption DEF Store, ring
<1>7. CASE Signal(t)
  BY <1>7 DEF Signal, ring
<1> QED
  BY <1>1, <1>2, <1>3, <1>4, <1>5, <1>6, <1>7 DEF Continue

LEMMA ExclusiveStep ==
  ASSUME TypeOK, Exclusive, NEW t \in Threads,
         Enter(t) \/ WakeSpuriously(t) \/ Continue(t)
  PROVE  Exclusive'
<1> USE SideType, ThreadsAssumption DEF TypeOK, Move, Section, Exclusive
<1>1. CASE Enter(t) \/ Relock(t)
  BY <1>1 DEF Enter, Relock, Lock
<1>2. CASE Test(t) \/ Wait(t) \/ WakeSpuriously(t)
  BY <1>2 DEF Test, Wait, WakeSpuriously
<1>3. CASE Put(t) \/ Take(t) \/ Load(t) \/ Store(t)
  BY <1>3 DEF Put, Take, Load, Store
<1>4. CASE Signal(t)
  BY <1>4 DEF Signal
<1> QED
  BY <1>1, <1>2, <1>3, <1>4 DEF Continue

\* The threads between their lock and their unlock are alone on their side.
LEMMA OnePerSide ==
  ASSUME Exclusive, NEW t \in Threads, NEW u \in Threads \ {t},
         pc[t] \in Section, Side(t) = Side(u)
  PROVE  pc[u] \notin Section
BY DEF Exclusive

LEMMA SizeStep ==
  ASSUME SizeInv, NEW t \in Threads, Enter(t) \/ WakeSpuriously(t) \/ Continue(t)
  PROVE  TestHolds' /\ SizeWithin'
<1> USE ThreadsAssumption, CapacityAssumption DEF SizeInv, TypeOK, Move, TestHolds, SizeWithin
<1>1. CASE Enter(t) \/ Relock(t)
  BY <1>1 DEF Enter, Relock, Lock, Threads
<1>2. CASE Test(t)
  BY <1>2 DEF Test, Blocked, Threads
<1>3. CASE Wait(t) \/ WakeSpuriously(t)
  BY <1>3 DEF Wait, WakeSpuriously, Threads
<1>4. CASE Put(t) \/ Take(t)
  BY <1>4 DEF Put, Take, Threads
<1>5. CASE Load(t)
  BY <1>5 DEF Load, Threads
<1>6. CASE Store(t) /\ t \in Producers
  <2>1. pcq_current_size' = size[t] + 1 /\ size[t] < Capacity /\ size[t] >= 0
    BY <1>6 DEF Store, Threads
  <2>2. \A u \in Producers \ {t} : pc[u] \notin Section
    BY <1>6, OnePerSide DEF Store, Side, Section, Threads
  <2> QED
    BY <1>6, <2>1, <2>2 DEF Store, Threads, Section
<1>7. CASE Store(t) /\ t \in Consumers
  <2>1. pcq_current_size' = size[t] - 1 /\ size[t] > 0 /\ size[t] <= Capacity
    BY <1>7 DEF Store, Threads
  <2>2. \A u \in Consumers \ {t} : pc[u] \notin Section
    BY <1>7, OnePerSide DEF Store, Side, Section, Threads
  <2> QED
    BY <1>7, <2>1, <2>2 DEF Store, Threads, Section
<1>8. CASE Signal(t)
  BY <1>8 DEF Signal, Threads
<1> QED
  BY <1>1, <1>2, <1>3, <1>4, <1>5, <1>6, <1>7, <1>8 DEF Continue, Threads

\* The type invariant, the exclusion on each side and the counter, together.
THEOREM SizeInvCorrect == Spec => []SizeInv
<1>1. SizeInv /\ [Next]_vars => SizeInv'
  <2> SUFFICES ASSUME SizeInv, [Next]_vars PROVE SizeInv'
    OBVIOUS
  <2>1. CASE UNCHANGED vars
    BY <2>1 DEF vars, ring, SizeInv, TypeOK, Exclusive, TestHolds, SizeWithin
  <2>2. ASSUME NEW t \in Threads, Enter(t) \/ WakeSpuriously(t) \/ Continue(t)
        PROVE  SizeInv'
    BY <2>2, TypeStep, ExclusiveStep, SizeStep DEF SizeInv
  <2> QED
    BY <2>1, <2>2 DEF Next
<1> QED
  BY <1>1, SizeInit, PTL DEF Spec

\* The types of the queue's variables.
THEOREM QueueTypeCorrect == Spec => []TypeOK
<1>1. SizeInv => TypeOK
  BY DEF SizeInv
<1> QED
  BY <1>1, SizeInvCorrect, PTL

\* pcq_current_size stays between 0 and pcq_capacity, and the decrement never
\* wraps around, however the two sides race on it.
THEOREM SizeCorrect == Spec => []SizeWithin
<1>1. SizeInv => SizeWithin
  BY DEF SizeInv
<1> QED
  BY <1>1, SizeInvCorrect, PTL

-----------------------------------------------------------------------------
(* The ring is a FIFO queue until two updates of the counter overlap.      *)

Puts  == IF \E t \in Producers : Stored(t) THEN 1 ELSE 0
Takes == IF \E t \in Consumers : Stored(t) THEN 1 ELSE 0
Count == pcq_current_size + Puts - Takes

\* Until an update undoes another, what a thread tested stays true until it has
\* stored its own, and the tail is Count cells after the head.
RingInv ==
  ~raced =>
    /\ \A t \in Producers : pc[t] \in {"move", "load", "store"} => pcq_current_size < Capacity
    /\ \A t \in Consumers : pc[t] \in {"move", "load", "store"} => pcq_current_size > 0
    /\ pcq_tail = (pcq_head + Count) % Capacity

\* Twice the capacity is as far as the indices go before they wrap.
LEMMA Wrap ==
  ASSUME NEW n \in 0 .. 2 * Capacity - 1
  PROVE  n % Capacity = IF n < Capacity THEN n ELSE n - Capacity
<1>1. CASE n < Capacity
  BY <1>1, CapacityAssumption
<1>2. CASE n >= Capacity
  BY <1>2, CapacityAssumption
<1> QED
  BY <1>1, <1>2, CapacityAssumption

LEMMA CountRange ==
  ASSUME SizeInv, RingInv, ~raced
  PROVE  /\ Puts \in 0 .. 1 /\ Takes \in 0 .. 1
         /\ Count \in 0 .. Capacity
BY CapacityAssumption DEF SizeInv, TypeOK, SizeWithin, RingInv, Count, Puts, Takes, Stored

\* The cells from the head on.
LEMMA CellsFrom ==
  ASSUME NEW head \in Cells, NEW n \in Nat
  PROVE  \A i \in 1 .. n : (head + i - 1) % Capacity \in Cells
<1>1. ASSUME NEW i \in 1 .. n PROVE head + i - 1 \in Int
  BY CapacityAssumption DEF Cells
<1> QED
  BY <1>1, ModCell

\* The contents are a sequence of elements, one for each count.
LEMMA ContentsType ==
  ASSUME TypeOK, Count \in Nat
  PROVE  /\ Contents \in Seq(Elems \cup {NoElem}) /\ Len(Contents) = Count
         /\ \A i \in 1 .. Count : Contents[i] = pcq_buffer[(pcq_head + i - 1) % Capacity]
<1>1. Contents = [i \in 1 .. Count |-> pcq_buffer[(pcq_head + i - 1) % Capacity]]
  BY DEF Contents, Count, Puts, Takes
<1>2. \A i \in 1 .. Count : (pcq_head + i - 1) % Capacity \in Cells
  BY CellsFrom DEF TypeOK
<1>3. Contents \in [1 .. Count -> Elems \cup {NoElem}]
  BY <1>1, <1>2 DEF TypeOK
<1>4. Contents \in Seq(Elems \cup {NoElem}) /\ Len(Contents) = Count
  BY <1>3
<1> QED
  BY <1>1, <1>4

\* The same of the state a step leads to.
LEMMA ContentsTypeNext ==
  ASSUME TypeOK', Count' \in Nat
  PROVE  /\ Contents' \in Seq(Elems \cup {NoElem}) /\ Len(Contents') = Count'
         /\ \A i \in 1 .. Count' : Contents'[i] = pcq_buffer'[(pcq_head' + i - 1) % Capacity]
<1>1. Contents' = [i \in 1 .. Count' |-> pcq_buffer'[(pcq_head' + i - 1) % Capacity]]
  BY DEF Contents, Count, Puts, Takes
<1>2. \A i \in 1 .. Count' : (pcq_head' + i - 1) % Capacity \in Cells
  <2>1. PICK head \in Cells, n \in Nat : head = pcq_head' /\ n = Count'
    BY DEF TypeOK
  <2> QED
    BY <2>1, CellsFrom
<1>3. Contents' \in [1 .. Count' -> Elems \cup {NoElem}]
  BY <1>1, <1>2 DEF TypeOK
<1>4. Contents' \in Seq(Elems \cup {NoElem}) /\ Len(Contents') = Count'
  BY <1>3
<1> QED
  BY <1>1, <1>4

LEMMA ContentsKept ==
  ASSUME UNCHANGED <<pcq_buffer, pcq_head>>, Count' = Count
  PROVE  Contents' = Contents
<1>1. Contents = [i \in 1 .. Count |-> pcq_buffer[(pcq_head + i - 1) % Capacity]]
  BY DEF Contents, Count, Puts, Takes
<1>2. Contents' = [i \in 1 .. Count' |-> pcq_buffer'[(pcq_head' + i - 1) % Capacity]]
  BY DEF Contents, Count, Puts, Takes
<1> QED
  BY <1>1, <1>2

\* The steps that move no element: the count stays as it was, and so do the
\* contents.
LEMMA QuietStep ==
  ASSUME SizeInv, RingInv, NEW t \in Threads, ~raced',
         Enter(t) \/ WakeSpuriously(t) \/ Continue(t), ~Put(t), ~Take(t)
  PROVE  RingInv' /\ Count' = Count /\ UNCHANGED ring
<1> USE DEF SizeInv, TypeOK, Move, Stored, Puts, Takes, Count, RingInv
<1>1. CASE Enter(t) \/ Relock(t)
  BY <1>1 DEF Enter, Relock, Lock, Threads, ring
<1>2. CASE Test(t)
  <2>1. UNCHANGED <<ring, raced, pcq_current_size, Puts, Takes>>
    BY <1>2 DEF Test, Threads
  <2>2. \A u \in Threads : pc'[u] = pc[u] \/ u = t
    BY <1>2 DEF Test
  <2>3. pc'[t] = "move" => ~Blocked(t)
    BY <1>2 DEF Test
  <2>4. pc'[t] \in {"wait", "move"}
    BY <1>2 DEF Test
  <2>5. pc'[t] = "move" => IF t \in Producers THEN pcq_current_size < Capacity
                           ELSE pcq_current_size > 0
    BY <2>3, CapacityAssumption DEF Blocked, SizeWithin
  <2> QED
    BY <2>1, <2>2, <2>4, <2>5, ThreadsAssumption DEF ring, Threads
<1>3. CASE Wait(t) \/ WakeSpuriously(t)
  BY <1>3 DEF Wait, WakeSpuriously, Threads, ring
<1>4. CASE Load(t)
  BY <1>4 DEF Load, Threads, ring
<1>5. CASE Store(t) /\ t \in Producers
  <2>1. /\ pc[t] = "store" /\ pc' = [pc EXCEPT ![t] = "signal"] /\ t \notin Consumers
        /\ UNCHANGED ring /\ ~raced /\ pcq_current_size = size[t]
    BY <1>5, ThreadsAssumption DEF Store
  <2>2. pcq_current_size < Capacity
    BY <1>5, <2>1
  <2>3. pcq_current_size' = pcq_current_size + 1
    BY <1>5, <2>1, <2>2, CapacityAssumption DEF Store
  <2>4. \A u \in Producers \ {t} : pc[u] \notin Section
    BY <1>5, <2>1, OnePerSide DEF Side, Section, Threads
  <2>5. Puts = 1 /\ Puts' = 0 /\ Takes' = Takes
    BY <1>5, <2>1, <2>4 DEF Section, Threads
  <2>6. Count' = Count
    BY <2>3, <2>5
  <2> QED
    BY <1>5, <2>1, <2>3, <2>4, <2>6 DEF ring, Section, Threads
<1>6. CASE Store(t) /\ t \in Consumers
  <2>1. /\ pc[t] = "store" /\ pc' = [pc EXCEPT ![t] = "signal"] /\ t \notin Producers
        /\ UNCHANGED ring /\ ~raced /\ pcq_current_size = size[t]
    BY <1>6, ThreadsAssumption DEF Store
  <2>2. pcq_current_size > 0
    BY <1>6, <2>1
  <2>3. pcq_current_size' = pcq_current_size - 1
    BY <1>6, <2>1, <2>2, CapacityAssumption DEF Store
  <2>4. \A u \in Consumers \ {t} : pc[u] \notin Section
    BY <1>6, <2>1, OnePerSide, ThreadsAssumption DEF Side, Section, Threads
  <2>5. Takes = 1 /\ Takes' = 0 /\ Puts' = Puts
    BY <1>6, <2>1, <2>4 DEF Section, Threads
  <2>6. Count' = Count
    BY <2>3, <2>5
  <2> QED
    BY <1>6, <2>1, <2>3, <2>4, <2>6, CapacityAssumption DEF ring, Section, Threads
<1>7. CASE Signal(t)
  BY <1>7 DEF Signal, Threads, ring
<1> QED
  BY <1>1, <1>2, <1>3, <1>4, <1>5, <1>6, <1>7 DEF Continue, Threads

\* pcq_enqueue puts its element at the end of a queue that has space.
LEMMA PutStep ==
  ASSUME SizeInv, RingInv, NEW t \in Producers, Put(t), ~raced'
  PROVE  RingInv' /\ \E e \in Elems : Queue!Put(e)
<1>1. PICK e \in Elems : pcq_buffer' = [pcq_buffer EXCEPT ![pcq_tail] = e]
  BY DEF Put
<1>2. /\ pc[t] = "move" /\ pc' = [pc EXCEPT ![t] = "load"] /\ t \notin Consumers
      /\ pcq_tail' = (pcq_tail + 1) % Capacity
      /\ UNCHANGED <<pcq_head, elem, pcq_current_size>> /\ ~raced
  BY ThreadsAssumption DEF Put, Move
<1>3. \A u \in Producers \ {t} : pc[u] \notin Section
  BY <1>2, OnePerSide DEF SizeInv, Side, Section, Threads
<1>4. /\ pc \in [Threads -> Labels] /\ pcq_current_size \in Nat
      /\ pcq_head \in 0 .. Capacity - 1 /\ pcq_tail \in 0 .. Capacity - 1
      /\ pcq_buffer \in [Cells -> Elems \cup {NoElem}]
  BY DEF SizeInv, TypeOK, Cells
<1>5. Puts = 0 /\ Puts' = 1 /\ Takes' = Takes /\ Takes \in 0 .. 1
  BY <1>2, <1>3, <1>4 DEF Puts, Takes, Stored, Section, Threads
<1>6. Count' = Count + 1 /\ Count \in 0 .. Capacity /\ Count < Capacity
  <2>1. Count \in 0 .. Capacity
    BY <1>2, CountRange
  <2>2. pcq_current_size < Capacity
    BY <1>2 DEF RingInv
  <2> QED
    BY <1>2, <1>4, <1>5, <2>1, <2>2, CapacityAssumption DEF Count
<1>7. pcq_tail = (pcq_head + Count) % Capacity
  BY <1>2 DEF RingInv
<1>8. Capacity \in Nat /\ Capacity > 0
  BY CapacityAssumption
<1>9. pcq_tail' = (pcq_head' + Count') % Capacity
  <2>1. pcq_tail = IF pcq_head + Count < Capacity THEN pcq_head + Count
                   ELSE pcq_head + Count - Capacity
    BY <1>4, <1>6, <1>7, <1>8, Wrap
  <2>2. (pcq_tail + 1) % Capacity = IF pcq_tail + 1 < Capacity THEN pcq_tail + 1 ELSE 0
    BY <1>4, <1>8, Wrap
  <2>3. (pcq_head + Count + 1) % Capacity =
          IF pcq_head + Count + 1 < Capacity THEN pcq_head + Count + 1
          ELSE pcq_head + Count + 1 - Capacity
    BY <1>4, <1>6, <1>8, Wrap
  <2>4. pcq_head' + Count' = pcq_head + Count + 1
    BY <1>2, <1>4, <1>6
  <2> QED
    BY <1>2, <1>4, <1>6, <1>8, <2>1, <2>2, <2>3, <2>4
<1>10. RingInv'
  <2>1. \A u \in Producers : pc'[u] \in {"move", "load", "store"} => u = t
    BY <1>2, <1>3, <1>4 DEF Section, Threads
  <2>2. \A u \in Consumers : pc'[u] = pc[u]
    BY <1>2, <1>4 DEF Threads
  <2> QED
    BY <1>2, <1>9, <2>1, <2>2 DEF RingInv
<1>11. /\ Contents \in Seq(Elems \cup {NoElem}) /\ Len(Contents) = Count
       /\ \A i \in 1 .. Count : Contents[i] = pcq_buffer[(pcq_head + i - 1) % Capacity]
  BY <1>6, ContentsType DEF SizeInv
<1>12. /\ Contents' \in Seq(Elems \cup {NoElem}) /\ Len(Contents') = Count + 1
       /\ \A i \in 1 .. Count + 1 : Contents'[i] = pcq_buffer'[(pcq_head + i - 1) % Capacity]
  <2>1. TypeOK'
    BY TypeStep DEF SizeInv, Continue, Threads
  <2>2. Count' \in Nat /\ Count' = Count + 1 /\ pcq_head' = pcq_head
    BY <1>2, <1>6, <1>8
  <2> QED
    BY <2>1, <2>2, ContentsTypeNext
<1>13. \A i \in 1 .. Count : Contents'[i] = Contents[i]
  <2> SUFFICES ASSUME NEW i \in 1 .. Count PROVE Contents'[i] = Contents[i]
    OBVIOUS
  <2>1. (pcq_head + i - 1) % Capacity # (pcq_head + Count) % Capacity
    <3>1. (pcq_head + i - 1) % Capacity =
            IF pcq_head + i - 1 < Capacity THEN pcq_head + i - 1
            ELSE pcq_head + i - 1 - Capacity
      BY <1>4, <1>6, <1>8, Wrap
    <3>2. (pcq_head + Count) % Capacity =
            IF pcq_head + Count < Capacity THEN pcq_head + Count
            ELSE pcq_head + Count - Capacity
      BY <1>4, <1>6, <1>8, Wrap
    <3> QED
      BY <1>4, <1>6, <1>8, <3>1, <3>2
  <2>2. pcq_buffer'[(pcq_head + i - 1) % Capacity] = pcq_buffer[(pcq_head + i - 1) % Capacity]
    BY <1>1, <1>4, <1>7, <2>1
  <2> QED
    BY <1>6, <1>11, <1>12, <2>2
<1>14. Contents'[Count + 1] = e
  <2>1. pcq_buffer'[pcq_tail] = e
    BY <1>1, <1>4 DEF Cells
  <2>2. pcq_head + (Count + 1) - 1 = pcq_head + Count
    BY <1>4, <1>6
  <2> QED
    BY <1>6, <1>7, <1>12, <2>1, <2>2
<1>15. Contents' = Append(Contents, e)
  <2>1. /\ Append(Contents, e) \in Seq(Elems \cup {NoElem})
        /\ Len(Append(Contents, e)) = Count + 1
        /\ \A i \in 1 .. Count : Append(Contents, e)[i] = Contents[i]
        /\ Append(Contents, e)[Count + 1] = e
    BY <1>1, <1>6, <1>11, AppendProperties
  <2>2. \A i \in 1 .. Count + 1 : Contents'[i] = Append(Contents, e)[i]
    BY <1>6, <1>13, <1>14, <2>1
  <2> QED
    BY <1>12, <2>1, <2>2, SeqEqual
<1> QED
  BY <1>1, <1>2, <1>6, <1>10, <1>11, <1>15 DEF Queue!Put

\* pcq_dequeue takes the first element of a queue that has one.
LEMMA TakeStep ==
  ASSUME SizeInv, RingInv, NEW t \in Consumers, Take(t), ~raced'
  PROVE  RingInv' /\ Queue!Take(t)
<1>1. /\ pc[t] = "move" /\ pc' = [pc EXCEPT ![t] = "load"] /\ t \notin Producers
      /\ elem' = [elem EXCEPT ![t] = pcq_buffer[pcq_head]]
      /\ pcq_head' = (pcq_head + 1) % Capacity
      /\ UNCHANGED <<pcq_buffer, pcq_tail, pcq_current_size>> /\ ~raced
  BY ThreadsAssumption DEF Take, Move
<1>2. \A u \in Consumers \ {t} : pc[u] \notin Section
  BY <1>1, OnePerSide, ThreadsAssumption DEF SizeInv, Side, Section, Threads
<1>3. /\ pc \in [Threads -> Labels] /\ pcq_current_size \in Nat
      /\ pcq_head \in 0 .. Capacity - 1 /\ pcq_tail \in 0 .. Capacity - 1
  BY DEF SizeInv, TypeOK, Cells
<1>4. Takes = 0 /\ Takes' = 1 /\ Puts' = Puts /\ Puts \in 0 .. 1
  BY <1>1, <1>2, <1>3 DEF Puts, Takes, Stored, Section, Threads
<1>5. Count' = Count - 1 /\ Count \in 1 .. Capacity
  <2>1. Count \in 0 .. Capacity
    BY <1>1, CountRange
  <2>2. pcq_current_size > 0
    BY <1>1 DEF RingInv
  <2> QED
    BY <1>1, <1>3, <1>4, <2>1, <2>2, CapacityAssumption DEF Count
<1>6. pcq_tail = (pcq_head + Count) % Capacity
  BY <1>1 DEF RingInv
<1>7. Capacity \in Nat /\ Capacity > 0
  BY CapacityAssumption
<1>8. pcq_head' = IF pcq_head + 1 < Capacity THEN pcq_head + 1 ELSE 0
  BY <1>1, <1>3, <1>7, Wrap
<1>9. pcq_tail' = (pcq_head' + Count') % Capacity
  <2>1. pcq_tail = IF pcq_head + Count < Capacity THEN pcq_head + Count
                   ELSE pcq_head + Count - Capacity
    BY <1>3, <1>5, <1>6, <1>7, Wrap
  <2>2. PICK n \in 0 .. 2 * Capacity - 1 : n = pcq_head' + Count'
    BY <1>3, <1>5, <1>7, <1>8
  <2>3. n % Capacity = IF n < Capacity THEN n ELSE n - Capacity
    BY Wrap
  <2> QED
    BY <1>1, <1>3, <1>5, <1>7, <1>8, <2>1, <2>2, <2>3
<1>10. RingInv'
  <2>1. \A u \in Consumers : pc'[u] \in {"move", "load", "store"} => u = t
    BY <1>1, <1>2, <1>3 DEF Section, Threads
  <2>2. \A u \in Producers : pc'[u] = pc[u]
    BY <1>1, <1>3 DEF Threads
  <2> QED
    BY <1>1, <1>9, <2>1, <2>2 DEF RingInv
<1>11. /\ Contents \in Seq(Elems \cup {NoElem}) /\ Len(Contents) = Count
       /\ \A i \in 1 .. Count : Contents[i] = pcq_buffer[(pcq_head + i - 1) % Capacity]
  BY <1>5, ContentsType DEF SizeInv
<1>12. /\ Contents' \in Seq(Elems \cup {NoElem}) /\ Len(Contents') = Count - 1
       /\ \A i \in 1 .. Count - 1 : Contents'[i] = pcq_buffer[(pcq_head' + i - 1) % Capacity]
  <2>1. TypeOK'
    BY TypeStep DEF SizeInv, Continue, Threads
  <2> QED
    BY <1>1, <1>5, <2>1, ContentsTypeNext
<1>13. Contents # <<>> /\ Head(Contents) = pcq_buffer[pcq_head]
  <2>1. (pcq_head + 1 - 1) % Capacity = pcq_head
    BY <1>3, <1>7
  <2> QED
    BY <1>5, <1>11, <2>1
<1>14. Contents' = Tail(Contents)
  <2>1. /\ Tail(Contents) \in Seq(Elems \cup {NoElem}) /\ Len(Tail(Contents)) = Count - 1
        /\ \A i \in 1 .. Count - 1 : Tail(Contents)[i] = Contents[i + 1]
    BY <1>5, <1>11, <1>13, HeadTailProperties
  <2>2. ASSUME NEW i \in 1 .. Count - 1 PROVE Contents'[i] = Contents[i + 1]
    <3>1. (pcq_head' + i - 1) % Capacity = (pcq_head + (i + 1) - 1) % Capacity
      <4>1. (pcq_head' + i - 1) % Capacity =
              IF pcq_head' + i - 1 < Capacity THEN pcq_head' + i - 1
              ELSE pcq_head' + i - 1 - Capacity
        BY <1>3, <1>5, <1>7, <1>8, Wrap
      <4>2. (pcq_head + (i + 1) - 1) % Capacity =
              IF pcq_head + i < Capacity THEN pcq_head + i ELSE pcq_head + i - Capacity
        BY <1>3, <1>5, <1>7, Wrap
      <4> QED
        BY <1>3, <1>5, <1>7, <1>8, <4>1, <4>2
    <3>2. Contents'[i] = pcq_buffer[(pcq_head' + i - 1) % Capacity]
      BY <1>12
    <3>3. Contents[i + 1] = pcq_buffer[(pcq_head + (i + 1) - 1) % Capacity]
      <4>1. i + 1 \in 1 .. Count
        BY <1>5
      <4> QED
        BY <1>11, <4>1
    <3> QED
      BY <3>1, <3>2, <3>3
  <2> QED
    BY <1>12, <2>1, <2>2, SeqEqual
<1> QED
  BY <1>1, <1>10, <1>13, <1>14 DEF Queue!Take

LEMMA RingInit == Init => RingInv /\ Queue!Init
<1> SUFFICES ASSUME Init PROVE RingInv /\ Queue!Init
  OBVIOUS
<1>1. Count = 0
  BY DEF Init, Count, Puts, Takes, Stored, Threads
<1>2. RingInv
  BY <1>1, CapacityAssumption DEF Init, RingInv, Threads
<1>3. Contents = <<>>
  BY <1>1, SizeInit, ContentsType, EmptySeq DEF SizeInv
<1> QED
  BY <1>2, <1>3 DEF Init, Queue!Init

\* Whatever the capacity and the number of threads, the ring loses, repeats and
\* reorders no element, until a store of pcq_current_size undoes another one.
THEOREM FifoCorrect == Spec => FifoUnlessRaced
<1> DEFINE step == ~raced' => Queue!Next
<1>1. SizeInv /\ RingInv /\ [Next]_vars => RingInv' /\ [step]_<<Contents, elem>>
  <2> SUFFICES ASSUME SizeInv, RingInv, [Next]_vars
               PROVE  RingInv' /\ (step \/ UNCHANGED <<Contents, elem>>)
    OBVIOUS
  <2>1. CASE raced'
    BY <2>1 DEF RingInv
  <2>2. CASE UNCHANGED vars /\ ~raced'
    <3>1. Count' = Count
      BY <2>2 DEF vars, ring, Count, Puts, Takes, Stored
    <3>2. RingInv'
      BY <2>2, <3>1 DEF RingInv, vars, ring
    <3> QED
      BY <2>2, <3>1, <3>2, ContentsKept DEF vars, ring
  <2>3. ASSUME NEW t \in Threads, Enter(t) \/ WakeSpuriously(t) \/ Continue(t), ~raced'
        PROVE  RingInv' /\ (Queue!Next \/ UNCHANGED <<Contents, elem>>)
    <3>1. CASE Put(t)
      BY <2>3, <3>1, PutStep DEF Put, Queue!Next
    <3>2. CASE Take(t)
      BY <2>3, <3>2, TakeStep DEF Take, Queue!Next
    <3>3. CASE ~Put(t) /\ ~Take(t)
      <4>1. RingInv' /\ Count' = Count /\ UNCHANGED ring
        BY <2>3, <3>3, QuietStep
      <4> QED
        BY <4>1, ContentsKept DEF ring
    <3> QED
      BY <3>1, <3>2, <3>3
  <2> QED
    BY <2>1, <2>2, <2>3 DEF Next
<1> QED
  BY <1>1, RingInit, SizeInvCorrect, PTL DEF Spec, FifoUnlessRaced
=============================================================================
