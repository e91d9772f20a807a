---------------------------- MODULE QueueProofs -----------------------------
(***************************************************************************)
(* Proofs about the two users of ioqueue.c, pipes and the keyboard, for    *)
(* any readers, writers, characters, keys and size of the ring buffer: it  *)
(* implements a bounded FIFO queue, a reader of a pipe never blocks, and   *)
(* the state of the control keys follows the keys.                         *)
(***************************************************************************)
EXTENDS Pipe, KbdInput, SchedulerProofs

-----------------------------------------------------------------------------
(* The ring buffer. *)

RingOK ==
    /\ head \in 0..buffer_size - 1
    /\ tail \in 0..buffer_size - 1
    /\ buffer \in [0..buffer_size - 1 -> Bytes]
    /\ out \in Bytes

\* The remainder of a number below twice the size.
LEMMA Wrap ==
    ASSUME NEW n \in 0..2 * buffer_size - 1
    PROVE  n % buffer_size = IF n < buffer_size THEN n ELSE n - buffer_size
<1>1. buffer_size \in Nat /\ buffer_size > 1 /\ n \in Nat
  BY QueueAssumption
<1>2. CASE n < buffer_size
  BY <1>1, <1>2
<1>3. CASE n >= buffer_size
  BY <1>1, <1>3
<1> QED
  BY <1>1, <1>2, <1>3

\* The indices and the length, without remainders.
LEMMA RingIndex ==
    ASSUME RingOK
    PROVE  /\ buffer_size \in Nat /\ buffer_size > 1
           /\ next_pos(head) = IF head = buffer_size - 1 THEN 0 ELSE head + 1
           /\ next_pos(tail) = IF tail = buffer_size - 1 THEN 0 ELSE tail + 1
           /\ ioq_length \in 0..buffer_size - 1
           /\ ioq_length = IF head >= tail THEN head - tail ELSE head + buffer_size - tail
           /\ ioq_empty <=> ioq_length = 0
           /\ ioq_full <=> ioq_length = buffer_size - 1
<1>1. /\ buffer_size \in Nat /\ buffer_size > 1
      /\ head \in 0..buffer_size - 1 /\ tail \in 0..buffer_size - 1
  BY QueueAssumption DEF RingOK
<1>2. /\ next_pos(head) = IF head = buffer_size - 1 THEN 0 ELSE head + 1
      /\ next_pos(tail) = IF tail = buffer_size - 1 THEN 0 ELSE tail + 1
  BY <1>1, Wrap DEF next_pos
<1> QED
  BY <1>1, <1>2 DEF ioq_length, ioq_empty, ioq_full

\* An index that moves on stays inside.
LEMMA NextInside ==
    ASSUME RingOK
    PROVE  next_pos(head) \in 0..buffer_size - 1 /\ next_pos(tail) \in 0..buffer_size - 1
<1>1. /\ buffer_size \in Nat /\ buffer_size > 1
      /\ head \in 0..buffer_size - 1 /\ tail \in 0..buffer_size - 1
  BY QueueAssumption DEF RingOK
<1>2. /\ next_pos(head) = IF head = buffer_size - 1 THEN 0 ELSE head + 1
      /\ next_pos(tail) = IF tail = buffer_size - 1 THEN 0 ELSE tail + 1
  BY RingIndex
<1> HIDE DEF next_pos
<1> QED
  BY <1>1, <1>2

\* The place of the i-th character.
Place(i) == IF tail + i - 1 < buffer_size THEN tail + i - 1 ELSE tail + i - 1 - buffer_size

\* The characters inside are those from tail up to head.
LEMMA RingContent ==
    ASSUME RingOK
    PROVE  /\ Content \in Seq(Bytes)
           /\ Len(Content) = ioq_length
           /\ \A i \in 1..ioq_length : Content[i] = buffer[Place(i)]
<1>1. /\ ioq_length \in 0..buffer_size - 1 /\ buffer_size \in Nat /\ buffer_size > 1
      /\ tail \in 0..buffer_size - 1 /\ buffer \in [0..buffer_size - 1 -> Bytes]
  BY RingIndex DEF RingOK
<1>2. ASSUME NEW i \in 1..ioq_length
      PROVE  /\ (tail + i - 1) % buffer_size = Place(i)
             /\ Place(i) \in 0..buffer_size - 1
  <2> DEFINE n == tail + i - 1
  <2>1. n \in 0..2 * buffer_size - 1
    BY <1>1
  <2>2. n % buffer_size = IF n < buffer_size THEN n ELSE n - buffer_size
    <3> HIDE DEF n
    <3> QED
      BY <2>1, Wrap
  <2>3. Place(i) = IF n < buffer_size THEN n ELSE n - buffer_size
    BY <1>1 DEF Place
  <2>4. Place(i) \in 0..buffer_size - 1
    BY <1>1, <2>3
  <2> QED
    BY <2>2, <2>3, <2>4
<1>3. Content = [i \in 1..ioq_length |-> buffer[Place(i)]]
  BY <1>2 DEF Content
<1>4. Content \in [1..ioq_length -> Bytes]
  BY <1>1, <1>2, <1>3
<1>5. Content \in Seq(Bytes) /\ Len(Content) = ioq_length
  BY <1>1, <1>4
<1> QED
  BY <1>3, <1>5

\* Storing a character where head points appends it.
LEMMA RingPut ==
    ASSUME RingOK, RingOK', NEW b \in Bytes, ~ioq_full,
           buffer' = [buffer EXCEPT ![head] = b], head' = next_pos(head),
           tail' = tail, out' = out
    PROVE  F!Put(b)
<1>1. /\ buffer_size \in Nat /\ buffer_size > 1
      /\ head \in 0..buffer_size - 1 /\ tail \in 0..buffer_size - 1
      /\ buffer \in [0..buffer_size - 1 -> Bytes]
      /\ head' = IF head = buffer_size - 1 THEN 0 ELSE head + 1
      /\ ioq_length \in 0..buffer_size - 2
      /\ ioq_length = IF head >= tail THEN head - tail ELSE head + buffer_size - tail
  BY RingIndex DEF RingOK
<1>2. ioq_length' = ioq_length + 1
  BY <1>1 DEF ioq_length
<1>3. /\ Content \in Seq(Bytes) /\ Len(Content) = ioq_length
      /\ \A i \in 1..ioq_length : Content[i] = buffer[Place(i)]
  BY RingContent
<1>4. /\ Content' \in Seq(Bytes) /\ Len(Content') = ioq_length'
      /\ \A i \in 1..ioq_length' : Content'[i] = buffer'[Place(i)']
  <2>1. (RingOK => /\ Content \in Seq(Bytes) /\ Len(Content) = ioq_length
                   /\ \A i \in 1..ioq_length : Content[i] = buffer[Place(i)])'
    BY RingContent, PTL
  <2> QED
    BY <2>1
<1>5. \A i \in 1..ioq_length + 1 : Place(i)' = Place(i)
  BY DEF Place
<1>6. \A i \in 1..ioq_length : Place(i) # head /\ Place(i) \in 0..buffer_size - 1
  BY <1>1 DEF Place
<1>7. Place(ioq_length + 1) = head
  BY <1>1 DEF Place
<1>8. Content' = Append(Content, b)
  <2>1. /\ Append(Content, b) \in Seq(Bytes) /\ Len(Append(Content, b)) = ioq_length + 1
        /\ \A i \in 1..ioq_length : Append(Content, b)[i] = Content[i]
        /\ Append(Content, b)[ioq_length + 1] = b
    BY <1>3, AppendProperties
  <2>2. ASSUME NEW i \in 1..ioq_length + 1 PROVE Content'[i] = Append(Content, b)[i]
    <3>1. Content'[i] = buffer'[Place(i)]
      BY <1>2, <1>4, <1>5
    <3>2. CASE i = ioq_length + 1
      BY <1>1, <1>7, <2>1, <3>1, <3>2
    <3>3. CASE i \in 1..ioq_length
      BY <1>1, <1>3, <1>6, <2>1, <3>1, <3>3
    <3>4. i = ioq_length + 1 \/ i \in 1..ioq_length
      BY <1>1
    <3> QED
      BY <3>2, <3>3, <3>4
  <2> QED
    BY <1>2, <1>4, <2>1, <2>2, SeqEqual
<1> QED
  BY <1>1, <1>3, <1>8 DEF F!Put

\* Taking the character that tail points to removes the oldest.
LEMMA RingGet ==
    ASSUME RingOK, RingOK', ~ioq_empty,
           out' = buffer[tail], tail' = next_pos(tail), head' = head, buffer' = buffer
    PROVE  F!Get /\ ioq_length' = ioq_length - 1
<1>1. /\ buffer_size \in Nat /\ buffer_size > 1
      /\ head \in 0..buffer_size - 1 /\ tail \in 0..buffer_size - 1
      /\ tail' = IF tail = buffer_size - 1 THEN 0 ELSE tail + 1
      /\ ioq_length \in 1..buffer_size - 1
      /\ ioq_length = IF head >= tail THEN head - tail ELSE head + buffer_size - tail
  BY RingIndex DEF RingOK
<1>2. ioq_length' = ioq_length - 1
  BY <1>1 DEF ioq_length
<1>3. /\ Content \in Seq(Bytes) /\ Len(Content) = ioq_length
      /\ \A i \in 1..ioq_length : Content[i] = buffer[Place(i)]
  BY RingContent
<1>4. /\ Content' \in Seq(Bytes) /\ Len(Content') = ioq_length'
      /\ \A i \in 1..ioq_length' : Content'[i] = buffer'[Place(i)']
  <2>1. (RingOK => /\ Content \in Seq(Bytes) /\ Len(Content) = ioq_length
                   /\ \A i \in 1..ioq_length : Content[i] = buffer[Place(i)])'
    BY RingContent, PTL
  <2> QED
    BY <2>1
<1>5. \A i \in 1..ioq_length - 1 : Place(i)' = Place(i + 1)
  BY <1>1 DEF Place
<1>6. Place(1) = tail
  BY <1>1 DEF Place
<1>7. Content # <<>> /\ Head(Content) = buffer[tail]
  BY <1>1, <1>3, <1>6, EmptySeq
<1>8. Content' = Tail(Content)
  <2>1. /\ Tail(Content) \in Seq(Bytes) /\ Len(Tail(Content)) = ioq_length - 1
        /\ \A i \in 1..Len(Tail(Content)) : Tail(Content)[i] = Content[i + 1]
    BY <1>3, <1>7, HeadTailProperties
  <2>2. ASSUME NEW i \in 1..ioq_length - 1 PROVE Content'[i] = Tail(Content)[i]
    <3>1. i \in 1..ioq_length' /\ i + 1 \in 1..ioq_length
      BY <1>1, <1>2
    <3>2. Content'[i] = buffer[Place(i + 1)]
      BY <1>4, <1>5, <3>1
    <3> QED
      BY <1>3, <2>1, <3>1, <3>2
  <2> QED
    BY <1>2, <1>4, <2>1, <2>2, SeqEqual
<1> QED
  BY <1>2, <1>7, <1>8 DEF F!Get
-----------------------------------------------------------------------------
(***************************************************************************)
(* What both users of the queue rely on: a thread inside the queue's code  *)
(* is a reader or a writer with characters still to move.                  *)
(***************************************************************************)
CallInv ==
    /\ ThreadTypeOK /\ QueueTypeOK
    /\ \A t \in Threads : pc[t] # "user" => t \in Consumers \cup Producers /\ left[t] > 0

\* The parts of the types that the steps below use.
LEMMA CallTypes ==
    ASSUME CallInv
    PROVE  /\ ThreadTypeOK /\ RingOK /\ cur \in Threads /\ Idle \in Threads
           /\ Consumers \subseteq Threads /\ Producers \subseteq Threads
           /\ Consumers \cap Producers = {} /\ Idle \notin Consumers \cup Producers
           /\ None \notin Threads
           /\ producer \in Producers \cup {None} /\ consumer \in Consumers \cup {None}
           /\ holder \in Threads \cup {None} /\ waiters \in Seq(Threads)
           /\ pc \in [Threads -> {"user", "test", "lock", "lockwait", "slept"}]
           /\ left \in [Threads -> Nat]
           /\ buffer_size \in Nat /\ ioq_length \in Nat
<1>1. RingOK
  BY DEF CallInv, QueueTypeOK, RingOK
<1>2. buffer_size \in Nat /\ ioq_length \in Nat
  BY <1>1, RingIndex
<1> QED
  BY <1>1, <1>2, BootAssumption, QueueAssumption DEF CallInv, ThreadTypeOK, QueueTypeOK

\* ioq_wakeup keeps the scheduler's types.
LEMMA WakeupType ==
    ASSUME ThreadTypeOK, NEW sleeper, sleeper \in Threads \/ sleeper = None,
           ioq_wakeup(sleeper), cur' = cur, ticks' = ticks, halted' \in BOOLEAN
    PROVE  ThreadTypeOK'
<1>1. CASE sleeper # None
  BY <1>1, UnlockType DEF ioq_wakeup, ThreadTypeOK
<1>2. CASE sleeper = None
  BY <1>2 DEF ioq_wakeup, ThreadTypeOK
<1> QED
  BY <1>1, <1>2

\* One character of a call is moved.
LEMMA MovedStep ==
    ASSUME CallInv, NEW t \in Threads, At(t, {"test"}), Moved(t)
    PROVE  /\ pc' \in [Threads -> {"user", "test", "lock", "lockwait", "slept"}]
           /\ left' \in [Threads -> Nat]
           /\ \A u \in Threads : pc'[u] # "user" =>
                 u \in Consumers \cup Producers /\ left'[u] > 0
<1> USE CallTypes
<1>1. t = cur /\ pc[t] = "test" /\ left[t] \in Nat \ {0}
  BY DEF At, CallInv
<1>2. /\ left' = [left EXCEPT ![t] = @ - 1]
      /\ pc' = [pc EXCEPT ![t] = IF left[t] = 1 THEN "user" ELSE "test"]
  BY DEF Moved
<1>3. ASSUME NEW u \in Threads, pc'[u] # "user"
      PROVE  u \in Consumers \cup Producers /\ left'[u] > 0
  BY <1>1, <1>2, <1>3 DEF CallInv
<1> QED
  BY <1>1, <1>2, <1>3

\* Taking a character.
LEMMA GetStep ==
    ASSUME CallInv, NEW t \in Threads, ioq_getchar(t)
    PROVE  CallInv' /\ F!Get /\ ioq_length' = ioq_length - 1
<1> USE CallTypes
<1>1. /\ At(t, {"test"}) /\ ~ioq_empty
      /\ out' = buffer[tail] /\ tail' = next_pos(tail) /\ UNCHANGED <<head, buffer>>
      /\ ioq_wakeup(producer) /\ producer' = None /\ Moved(t)
      /\ UNCHANGED <<cur, ticks, halted, consumer, holder, waiters>>
  BY DEF ioq_getchar
<1>2. RingOK'
  <2>1. next_pos(tail) \in 0..buffer_size - 1
    BY NextInside
  <2> QED
    BY <1>1, <2>1 DEF RingOK
<1>3. F!Get /\ ioq_length' = ioq_length - 1
  BY <1>1, <1>2, RingGet
<1>4. ThreadTypeOK'
  BY <1>1, WakeupType DEF ThreadTypeOK
<1>5. /\ pc' \in [Threads -> {"user", "test", "lock", "lockwait", "slept"}]
      /\ left' \in [Threads -> Nat]
      /\ \A u \in Threads : pc'[u] # "user" => u \in Consumers \cup Producers /\ left'[u] > 0
  BY <1>1, MovedStep
<1>6. QueueTypeOK'
  BY <1>1, <1>2, <1>5 DEF QueueTypeOK, RingOK
<1> QED
  BY <1>3, <1>4, <1>5, <1>6 DEF CallInv

\* A character is stored, by a writer or by the keyboard's interrupt.
LEMMA PutByteStep ==
    ASSUME CallInv, ~ioq_full, NEW b \in Bytes, PutByte(b), halted' \in BOOLEAN
    PROVE  ThreadTypeOK' /\ RingOK' /\ F!Put(b) /\ consumer' = None
<1> USE CallTypes
<1>1. /\ buffer' = [buffer EXCEPT ![head] = b] /\ head' = next_pos(head)
      /\ ioq_wakeup(consumer) /\ consumer' = None
      /\ UNCHANGED <<cur, ticks, tail, out, producer, holder, waiters>>
  BY DEF PutByte
<1>2. RingOK'
  <2>1. next_pos(head) \in 0..buffer_size - 1
    BY NextInside
  <2> QED
    BY <1>1, <2>1 DEF RingOK
<1>3. F!Put(b)
  BY <1>1, <1>2, RingPut
<1>4. ThreadTypeOK'
  BY <1>1, WakeupType
<1> QED
  BY <1>1, <1>2, <1>3, <1>4

LEMMA PutStep ==
    ASSUME CallInv, NEW t \in Threads, ioq_putchar(t)
    PROVE  CallInv' /\ \E b \in Bytes : F!Put(b)
<1> USE CallTypes
<1>1. /\ At(t, {"test"}) /\ t \in Producers /\ ~ioq_full /\ Moved(t) /\ halted' = halted
      /\ \E b \in Bytes : PutByte(b)
  BY DEF ioq_putchar
<1>2. PICK b \in Bytes : PutByte(b)
  BY <1>1
<1>3. ThreadTypeOK' /\ RingOK' /\ F!Put(b) /\ consumer' = None
  BY <1>1, <1>2, PutByteStep DEF ThreadTypeOK
<1>4. UNCHANGED <<producer, holder, waiters>>
  BY <1>2 DEF PutByte
<1>5. /\ pc' \in [Threads -> {"user", "test", "lock", "lockwait", "slept"}]
      /\ left' \in [Threads -> Nat]
      /\ \A u \in Threads : pc'[u] # "user" => u \in Consumers \cup Producers /\ left'[u] > 0
  BY <1>1, MovedStep
<1>6. QueueTypeOK'
  BY <1>3, <1>4, <1>5 DEF QueueTypeOK, RingOK
<1> QED
  BY <1>3, <1>5, <1>6 DEF CallInv

\* A step that leaves the ring alone leaves the abstract queue alone.
LEMMA StillRing ==
    ASSUME UNCHANGED ringVars
    PROVE  UNCHANGED F!vars /\ ioq_length' = ioq_length
<1>1. head' = head /\ tail' = tail /\ buffer' = buffer /\ out' = out
  BY DEF ringVars
<1>2. ioq_length' = ioq_length
  BY <1>1 DEF ioq_length
<1>3. Content' = Content
  BY <1>1, <1>2 DEF Content
<1> QED
  BY <1>1, <1>2, <1>3 DEF F!vars

\* The running thread goes on to another label of the queue code.
LEMMA LabelStep ==
    ASSUME CallInv, UNCHANGED ringVars, left' = left, ThreadTypeOK',
           producer' \in Producers \cup {None}, consumer' \in Consumers \cup {None},
           holder' \in Threads \cup {None}, waiters' \in Seq(Threads), pc[cur] # "user",
           NEW l \in {"test", "lock", "lockwait", "slept"}, pc' = [pc EXCEPT ![cur] = l]
    PROVE  CallInv'
<1> USE CallTypes
<1>1. QueueTypeOK'
  BY DEF CallInv, QueueTypeOK, ringVars
<1>2. \A u \in Threads : pc'[u] # "user" => u \in Consumers \cup Producers /\ left'[u] > 0
  BY DEF CallInv
<1> QED
  BY <1>1, <1>2 DEF CallInv

\* Waiting for the lock or for a character, and going on afterwards.
LEMMA WaitStep ==
    ASSUME CallInv, NEW t \in Threads,
           MustWait(t) \/ ioq_wait(t) \/ LockWait(t) \/ LockRelease(t)
    PROVE  CallInv' /\ UNCHANGED ringVars
<1> USE CallTypes
<1>1. t = cur /\ pc[t] # "user" /\ t \in Consumers \cup Producers
  <2>1. t = cur /\ pc[t] \in {"test", "lock", "lockwait", "slept"}
    BY DEF MustWait, ioq_wait, LockWait, LockRelease, At
  <2> QED
    BY <2>1 DEF CallInv
<1>2. CASE MustWait(t)
  <2>1. /\ pc' = [pc EXCEPT ![cur] = "lock"]
        /\ UNCHANGED <<threadVars, ringVars, waitVars, left>>
    BY <1>1, <1>2 DEF MustWait
  <2>2. /\ ThreadTypeOK' /\ UNCHANGED ringVars /\ left' = left
        /\ UNCHANGED <<producer, consumer, holder, waiters>>
    BY <2>1 DEF threadVars, waitVars, ThreadTypeOK
  <2> QED
    BY <1>1, <2>1, <2>2, LabelStep
<1>3. CASE ioq_wait(t)
  <2>1. /\ pc' = [pc EXCEPT ![cur] = "slept"] /\ holder' = cur
        /\ thread_block("BLOCKED")
        /\ UNCHANGED <<halted, ringVars, waiters, left>>
    BY <1>1, <1>3 DEF ioq_wait
  <2>2. producer' \in Producers \cup {None} /\ consumer' \in Consumers \cup {None}
    BY <1>1, <1>3 DEF ioq_wait
  <2>3. ThreadTypeOK'
    BY <2>1, BlockType DEF ThreadTypeOK, TaskStatus
  <2> QED
    BY <1>1, <2>1, <2>2, <2>3, LabelStep
<1>4. CASE LockWait(t)
  <2>1. /\ pc' = [pc EXCEPT ![cur] = "lockwait"] /\ waiters' = Append(waiters, cur)
        /\ thread_block("BLOCKED")
        /\ UNCHANGED <<halted, ringVars, producer, consumer, holder, left>>
    BY <1>1, <1>4 DEF LockWait
  <2>2. ThreadTypeOK'
    BY <2>1, BlockType DEF ThreadTypeOK, TaskStatus
  <2>3. waiters' \in Seq(Threads)
    BY <2>1
  <2> QED
    BY <1>1, <2>1, <2>2, <2>3, LabelStep
<1>5. CASE LockRelease(t)
  <2>1. /\ pc' = [pc EXCEPT ![cur] = "test"] /\ holder' = None
        /\ UNCHANGED <<cur, ticks, halted, ringVars, producer, consumer, left>>
    BY <1>1, <1>5 DEF LockRelease
  <2>2. /\ waiters' \in Seq(Threads)
        /\ ready' \in Seq(Threads) /\ status' \in [Threads -> TaskStatus]
    <3>1. CASE waiters # <<>>
      <4>1. /\ Head(waiters) \in Threads /\ Tail(waiters) \in Seq(Threads)
            /\ thread_unlock(Head(waiters)) /\ waiters' = Tail(waiters)
        BY <1>5, <3>1 DEF LockRelease
      <4> QED
        BY <4>1, UnlockType
    <3>2. CASE waiters = <<>>
      BY <1>5, <3>2 DEF LockRelease, ThreadTypeOK
    <3> QED
      BY <3>1, <3>2
  <2>3. ThreadTypeOK'
    BY <2>1, <2>2 DEF ThreadTypeOK
  <2> QED
    BY <1>1, <2>1, <2>2, <2>3, LabelStep
<1> QED
  BY <1>2, <1>3, <1>4, <1>5

\* Every step of the queue's code is a step of the abstract queue or none.
LEMMA QueueStep ==
    ASSUME CallInv, NEW t \in Threads, QueueCode(t)
    PROVE  CallInv' /\ [F!Next]_F!vars
BY GetStep, PutStep, WaitStep, StillRing DEF QueueCode, F!Next

\* A call begins.
LEMMA EnterCall ==
    ASSUME CallInv, NEW t \in Consumers \cup Producers, NEW n \in Nat, Enter(t, n)
    PROVE  CallInv' /\ UNCHANGED ringVars
<1> USE CallTypes
<1>1. /\ t = cur /\ n > 0
      /\ left' = [left EXCEPT ![t] = n] /\ pc' = [pc EXCEPT ![t] = "test"]
      /\ UNCHANGED <<threadVars, ringVars, waitVars>>
  BY DEF Enter, At
<1>2. ThreadTypeOK' /\ QueueTypeOK'
  BY <1>1 DEF CallInv, ThreadTypeOK, threadVars, QueueTypeOK, ringVars, waitVars
<1>3. \A u \in Threads : pc'[u] # "user" => u \in Consumers \cup Producers /\ left'[u] > 0
  BY <1>1 DEF CallInv
<1> QED
  BY <1>1, <1>2, <1>3 DEF CallInv

\* The timer and the idle thread leave the queue alone.
LEMMA SchedulerStep ==
    ASSUME CallInv, Timer \/ IdleLoop
    PROVE  CallInv' /\ UNCHANGED queueVars
<1>1. UNCHANGED queueVars
  BY DEF Timer, IdleLoop
<1>2. /\ UNCHANGED ringVars
      /\ UNCHANGED <<producer, consumer, holder, waiters, pc, left>>
  BY <1>1 DEF queueVars, waitVars, callVars
<1>3. ThreadTypeOK'
  <2>1. CASE Timer
    BY <2>1, TimerType DEF Timer, CallInv
  <2>2. CASE IdleLoop
    <3>1. thread_block("BLOCKED") /\ halted' = TRUE
      BY <2>2 DEF IdleLoop, idle
    <3> QED
      BY <3>1, BlockType DEF CallInv, ThreadTypeOK, TaskStatus
  <2> QED
    BY <2>1, <2>2
<1>4. QueueTypeOK'
  BY <1>2 DEF CallInv, QueueTypeOK, ringVars
<1> QED
  BY <1>1, <1>2, <1>3, <1>4 DEF CallInv

\* The queue is empty and nobody is inside at boot.
LEMMA QueueBoot ==
    ASSUME ThreadInit, ioqueue_init
    PROVE  CallInv /\ F!Init /\ \A t \in Threads : pc[t] = "user"
<1>1. ThreadTypeOK
  <2>1. BootReady \in Seq(Threads)
    BY BootAssumption
  <2> QED
    BY <2>1, BootAssumption, PriorityAssumption DEF ThreadInit, ThreadTypeOK, TaskStatus
<1>2. out \in Bytes
  BY QueueAssumption DEF ioqueue_init
<1>3. QueueTypeOK
  BY <1>2, QueueAssumption DEF ioqueue_init, QueueTypeOK
<1>4. RingOK /\ head = tail
  BY <1>3 DEF QueueTypeOK, RingOK, ioqueue_init
<1>5. Content = <<>>
  <2>1. Content \in Seq(Bytes) /\ Len(Content) = ioq_length
    BY <1>4, RingContent
  <2>2. ioq_length = 0
    BY <1>4, RingIndex DEF ioq_empty
  <2> QED
    BY <2>1, <2>2, EmptySeq
<1>6. \A t \in Threads : pc[t] = "user"
  BY DEF ioqueue_init
<1> QED
  BY <1>1, <1>2, <1>3, <1>5, <1>6 DEF CallInv, F!Init

-----------------------------------------------------------------------------
(***************************************************************************)
(* The inductive invariant of pipes.  A reader inside pipe_read is the     *)
(* running thread, for it neither blocks nor is interrupted; so the        *)
(* characters it has counted stay there, and it has no reason to block.    *)
(***************************************************************************)
PipeInv ==
    /\ CallInv
    /\ \A t \in Consumers : /\ pc[t] \in {"user", "test"}
                            /\ pc[t] = "test" => t = cur /\ left[t] <= ioq_length

\* A reader counts what it takes; a writer finds no reader inside.
LEMMA PipeMoved ==
    ASSUME PipeInv, NEW t \in Threads, ioq_getchar(t) \/ ioq_putchar(t)
    PROVE  PipeInv' /\ [F!Next]_F!vars
<1> USE CallTypes
<1>1. CallInv /\ CallInv' /\ [F!Next]_F!vars
  BY QueueStep DEF PipeInv, QueueCode
<1>2. /\ t = cur /\ pc[t] = "test" /\ left[t] \in Nat \ {0} /\ cur' = cur
      /\ left' = [left EXCEPT ![t] = @ - 1]
      /\ pc' = [pc EXCEPT ![t] = IF left[t] = 1 THEN "user" ELSE "test"]
  BY <1>1 DEF ioq_getchar, ioq_putchar, PutByte, At, Moved, CallInv
<1>3. t \in Consumers => ioq_length' = ioq_length - 1
  BY <1>1, GetStep DEF ioq_putchar
<1>4. ASSUME NEW u \in Consumers
      PROVE  /\ pc'[u] \in {"user", "test"}
             /\ pc'[u] = "test" => u = cur' /\ left'[u] <= ioq_length'
  <2>1. CASE u = t
    BY <1>1, <1>2, <1>3, <2>1 DEF PipeInv
  <2>2. CASE u # t
    BY <1>1, <1>2, <2>2 DEF PipeInv
  <2> QED
    BY <2>1, <2>2
<1> QED
  BY <1>1, <1>4 DEF PipeInv

\* A thread that has to wait, waits or has waited is a writer: a reader finds
\* the characters that it counted.
LEMMA PipeWait ==
    ASSUME PipeInv, NEW t \in Threads,
           MustWait(t) \/ ioq_wait(t) \/ LockWait(t) \/ LockRelease(t)
    PROVE  PipeInv' /\ UNCHANGED F!vars
<1> USE CallTypes
<1>1. CallInv /\ CallInv' /\ UNCHANGED F!vars
  BY WaitStep, StillRing DEF PipeInv
<1>2. t = cur /\ pc[t] \in {"test", "lock", "lockwait", "slept"}
  BY DEF MustWait, ioq_wait, LockWait, LockRelease, At
<1>3. t \in Consumers \cup Producers /\ left[t] \in Nat \ {0}
  BY <1>1, <1>2 DEF CallInv
<1>4. t \notin Consumers
  <2> SUFFICES ASSUME t \in Consumers PROVE FALSE
    OBVIOUS
  <2>1. pc[t] = "test" /\ left[t] <= ioq_length
    BY <1>2 DEF PipeInv
  <2>2. ~ioq_empty
    BY <1>1, <1>3, <2>1, RingIndex
  <2> QED
    BY <2>1, <2>2 DEF MustWait, ioq_wait, LockWait, LockRelease, At
<1>5. \A u \in Consumers : pc'[u] = pc[u] /\ pc[u] = "user"
  <2>1. PICK l : pc' = [pc EXCEPT ![t] = l]
    BY DEF MustWait, ioq_wait, LockWait, LockRelease
  <2> QED
    BY <1>1, <1>2, <1>4, <2>1 DEF PipeInv
<1> QED
  BY <1>1, <1>5 DEF PipeInv

\* The smaller of two numbers.
LEMMA MinOfTwo ==
    ASSUME NEW a \in Nat, NEW b \in Nat
    PROVE  Min({a, b}) \in Nat /\ Min({a, b}) <= a /\ Min({a, b}) <= b
<1>1. \E x \in {a, b} : \A y \in {a, b} : x <= y
  OBVIOUS
<1> QED
  BY <1>1 DEF Min

\* A call moves at most what it found; a reader counts the characters there.
LEMMA PipeEnter ==
    ASSUME PipeInv, NEW t \in Threads, pipe_write(t) \/ pipe_read(t)
    PROVE  PipeInv' /\ UNCHANGED F!vars
<1> USE CallTypes
<1>0. CallInv
  BY DEF PipeInv
<1>1. PICK n \in Nat : /\ t \in Consumers \cup Producers
                       /\ Enter(t, n)
                       /\ t \in Consumers => n <= ioq_length
  <2>1. CASE pipe_write(t)
    <3>1. PICK count \in 1..MaxCount : Enter(t, Min({buffer_size - ioq_length, count}))
      BY <2>1 DEF pipe_write
    <3>2. buffer_size - ioq_length \in Nat /\ count \in Nat
      BY <1>0, RingIndex
    <3> QED
      BY <1>0, <2>1, <3>1, <3>2, MinOfTwo DEF pipe_write
  <2>2. CASE pipe_read(t)
    <3>1. PICK count \in 1..MaxCount : Enter(t, Min({ioq_length, count}))
      BY <2>2 DEF pipe_read
    <3>2. count \in Nat
      OBVIOUS
    <3> QED
      BY <1>0, <2>2, <3>1, <3>2, MinOfTwo DEF pipe_read
  <2> QED
    BY <2>1, <2>2
<1>2. CallInv' /\ UNCHANGED F!vars /\ ioq_length' = ioq_length
  BY <1>0, <1>1, EnterCall, StillRing
<1>3. /\ t = cur /\ cur' = cur
      /\ left' = [left EXCEPT ![t] = n] /\ pc' = [pc EXCEPT ![t] = "test"]
  BY <1>1 DEF Enter, At, threadVars
<1>4. \A u \in Consumers : /\ pc'[u] \in {"user", "test"}
                           /\ pc'[u] = "test" => u = cur' /\ left'[u] <= ioq_length'
  BY <1>0, <1>1, <1>2, <1>3 DEF PipeInv
<1> QED
  BY <1>2, <1>4 DEF PipeInv

\* The timer and the idle thread run only while no reader is inside.
LEMMA PipeScheduler ==
    ASSUME PipeInv, Timer \/ IdleLoop
    PROVE  PipeInv' /\ UNCHANGED F!vars
<1> USE CallTypes
<1>1. CallInv /\ CallInv' /\ UNCHANGED queueVars
  BY SchedulerStep DEF PipeInv
<1>2. UNCHANGED ringVars /\ pc' = pc /\ left' = left
  BY <1>1 DEF queueVars, callVars
<1>3. \A u \in Consumers : pc[u] # "test"
  <2>1. CASE Timer
    BY <1>1, <2>1 DEF Timer, IntrOn, PipeInv
  <2>2. CASE IdleLoop
    BY <1>1, <2>2 DEF IdleLoop, idle, PipeInv
  <2> QED
    BY <2>1, <2>2
<1> QED
  BY <1>1, <1>2, <1>3, StillRing DEF PipeInv

\* Every step keeps the invariant, and is a step of the abstract queue or
\* none.
LEMMA PipeStep ==
    ASSUME PipeInv, [Next]_vars
    PROVE  PipeInv' /\ [F!Next]_F!vars
<1>1. ASSUME NEW t \in Threads, QueueCode(t)
      PROVE  PipeInv' /\ [F!Next]_F!vars
  BY <1>1, PipeMoved, PipeWait DEF QueueCode
<1>2. ASSUME NEW t \in Threads, pipe_write(t) \/ pipe_read(t)
      PROVE  PipeInv' /\ [F!Next]_F!vars
  BY <1>2, PipeEnter
<1>3. CASE UNCHANGED vars
  <2>1. UNCHANGED <<threadVars, ringVars, waitVars, callVars>>
    BY <1>3 DEF vars, queueVars
  <2>2. UNCHANGED F!vars /\ ioq_length' = ioq_length
    BY <2>1, StillRing
  <2> QED
    BY <2>1, <2>2 DEF PipeInv, CallInv, ThreadTypeOK, QueueTypeOK, threadVars, ringVars,
                      waitVars, callVars
<1> QED
  BY <1>1, <1>2, <1>3, PipeScheduler DEF Next

\* The inductive invariant of the pipe code.
THEOREM PipeInvariant == Spec => []PipeInv
<1>1. Init => PipeInv
  BY QueueBoot, CallTypes DEF Init, PipeInv
<1>2. PipeInv /\ [Next]_vars => PipeInv'
  BY PipeStep
<1> QED
  BY <1>1, <1>2, PTL DEF Spec

\* pipe_read never blocks, for any readers, writers and size of the buffer:
\* what it counted is still there when it calls ioq_getchar.
THEOREM ReadersNeverBlock == Spec => []ReadNeverBlocks
<1>1. PipeInv => ReadNeverBlocks
  BY DEF PipeInv, ReadNeverBlocks, Blocked
<1> QED
  BY <1>1, PipeInvariant, PTL

\* The ring buffer of ioqueue.c, as pipes use it, implements a bounded FIFO
\* queue: ioq_putchar appends, ioq_getchar removes the oldest, and blocking,
\* waking and interrupts change nothing.
THEOREM PipeImplementsFifo == Spec => ImplementsFifo
<1>1. Init => F!Init
  BY QueueBoot DEF Init
<1>2. PipeInv /\ [Next]_vars => [F!Next]_F!vars
  BY PipeStep
<1> QED
  BY <1>1, <1>2, PipeInvariant, PTL DEF Spec, ImplementsFifo, F!Spec

-----------------------------------------------------------------------------
(***************************************************************************)
(* The inductive invariant of the keyboard.  The status of a control key   *)
(* is on only while a key that sets it is down: the two keys that set ctrl *)
(* (alt) are the two whose release clears it.                              *)
(***************************************************************************)
KbdInv == CallInv /\ KbdTypeOK /\ ControlKeysReleased

\* What a key types is a character.
LEMMA KeyTypes ==
    ASSUME NEW k \in Keys \ ControlKeys, KbdTypeOK
    PROVE  cur_char(k) \in Bytes
<1> DEFINE temp == IF caps_lock_status = 1 THEN ~shift_status ELSE shift_status
           down == IF k \in Letters THEN temp ELSE shift_status
<1>1. down \in BOOLEAN
  BY DEF KbdTypeOK
<1>2. keymap[k][down] \in Bytes /\ "ctrl+l" \in Bytes /\ "ctrl+u" \in Bytes
  BY <1>1, KeyAssumption
<1>3. cur_char(k) \in {keymap[k][down], "ctrl+l", "ctrl+u"}
  BY DEF cur_char
<1> QED
  BY <1>2, <1>3

\* The interrupt handler stores a character or drops it.
LEMMA PutKeyStep ==
    ASSUME CallInv, NEW c \in Bytes, PutKey(c), Interrupted
    PROVE  CallInv' /\ [F!Next]_F!vars
<1> USE CallTypes
<1>0. halted' \in BOOLEAN
  BY DEF Interrupted, ThreadTypeOK
<1>1. CASE ~ioq_full
  <2>1. PutByte(c) /\ pc' = pc /\ left' = left
    BY <1>1 DEF PutKey, callVars
  <2>2. ThreadTypeOK' /\ RingOK' /\ F!Put(c) /\ consumer' = None
    BY <1>0, <1>1, <2>1, PutByteStep
  <2>3. UNCHANGED <<producer, holder, waiters>>
    BY <2>1 DEF PutByte
  <2>4. QueueTypeOK'
    BY <2>1, <2>2, <2>3 DEF QueueTypeOK, RingOK
  <2> QED
    BY <2>1, <2>2, <2>4 DEF CallInv, F!Next
<1>2. CASE ioq_full
  <2>1. UNCHANGED <<cur, ready, status, ticks, queueVars>>
    BY <1>2 DEF PutKey
  <2>2. UNCHANGED <<ringVars, waitVars, callVars>>
    BY <2>1 DEF queueVars
  <2>3. UNCHANGED F!vars
    BY <2>2, StillRing
  <2> QED
    BY <1>0, <2>1, <2>2, <2>3 DEF CallInv, ThreadTypeOK, QueueTypeOK, ringVars, waitVars, callVars
<1> QED
  BY <1>1, <1>2

\* The interrupt handler leaves the queue alone.
LEMMA NoKey ==
    ASSUME CallInv, UNCHANGED <<cur, ready, status, ticks, queueVars>>, Interrupted
    PROVE  CallInv' /\ [F!Next]_F!vars
<1>1. UNCHANGED <<ringVars, waitVars, callVars>>
  BY DEF queueVars
<1>2. UNCHANGED F!vars
  BY <1>1, StillRing
<1>3. halted' \in BOOLEAN
  BY DEF Interrupted, CallInv, ThreadTypeOK
<1> QED
  BY <1>1, <1>2, <1>3 DEF CallInv, ThreadTypeOK, QueueTypeOK, ringVars, waitVars, callVars

\* The control keys' part of the types.
KeyState ==
    /\ shift_status \in BOOLEAN /\ alt_status \in BOOLEAN
    /\ ctrl_status \in BOOLEAN /\ ext_scancode \in BOOLEAN
    /\ caps_lock_status \in {0, -1}
    /\ held \subseteq Keys \cap ControlKeys
    /\ sending \in (Keys \cap E0Keys) \cup {None}

\* One interrupt of the keyboard.
LEMMA HandlerStep ==
    ASSUME KbdInv, NEW k \in Keys, intr_keyboard_handler(k)
    PROVE  KbdInv' /\ [F!Next]_F!vars
<1>0. CallInv /\ KeyState /\ KbdTypeOK /\ ControlKeysReleased
  BY DEF KbdInv, KbdTypeOK, KeyState
<1>1. SUFFICES CallInv' /\ KeyState' /\ ControlKeysReleased' /\ [F!Next]_F!vars
  BY DEF KbdInv, KbdTypeOK, KeyState, CallInv
<1>2. Interrupted
  BY DEF intr_keyboard_handler
<1>3. CASE k \in E0Keys /\ sending = None
  <2>1. /\ ext_scancode' = TRUE /\ sending' = k
        /\ UNCHANGED <<cur, ready, status, ticks, queueVars, modVars, held>>
    BY <1>3 DEF intr_keyboard_handler
  <2>2. KeyState' /\ ControlKeysReleased'
    BY <1>0, <1>3, <2>1 DEF KeyState, ControlKeysReleased, modVars
  <2> QED
    BY <1>0, <1>2, <2>1, <2>2, NoKey
<1>4. CASE ~(k \in E0Keys /\ sending = None)
  <2>1. /\ sending' = None /\ ext_scancode' = FALSE
        /\ (k \in held /\ break_code(k)) \/ control_code(k) \/ char_code(k)
    BY <1>4 DEF intr_keyboard_handler
  <2>2. CASE k \in held /\ break_code(k)
    <3>1. /\ alt_status' = (alt_status /\ make_code(k) # "alt_l")
          /\ ctrl_status' = (ctrl_status /\ make_code(k) # "ctrl_l")
          /\ shift_status' \in BOOLEAN
          /\ held' = held \ {k}
          /\ UNCHANGED <<cur, ready, status, ticks, queueVars, caps_lock_status>>
      BY <2>2 DEF break_code
    <3>2. /\ k \in {"ctrl_l", "ctrl_r"} => make_code(k) = "ctrl_l"
          /\ k \in {"alt_l", "alt_r"} => make_code(k) = "alt_l"
      BY DEF make_code
    <3>3. KeyState'
      BY <1>0, <2>1, <3>1 DEF KeyState
    <3>4. ControlKeysReleased'
      BY <1>0, <3>1, <3>2 DEF ControlKeysReleased, KeyState
    <3> QED
      BY <1>0, <1>2, <3>1, <3>3, <3>4, NoKey
  <2>3. CASE control_code(k)
    <3>1. /\ k \in ControlKeys
          /\ shift_status' \in BOOLEAN
          /\ alt_status' = (alt_status \/ k \in {"alt_l", "alt_r"})
          /\ ctrl_status' = (ctrl_status \/ k \in {"ctrl_l", "ctrl_r"})
          /\ caps_lock_status' = IF k = "caps_lock" THEN -1 - caps_lock_status
                                                    ELSE caps_lock_status
          /\ held' = held \cup {k}
          /\ UNCHANGED <<cur, ready, status, ticks, queueVars>>
      BY <2>3 DEF control_code
    <3>2. caps_lock_status' \in {0, -1}
      BY <1>0, <3>1 DEF KeyState
    <3>3. KeyState'
      BY <1>0, <2>1, <3>1, <3>2 DEF KeyState
    <3>4. ControlKeysReleased'
      BY <1>0, <3>1 DEF ControlKeysReleased
    <3> QED
      BY <1>0, <1>2, <3>1, <3>3, <3>4, NoKey
  <2>4. CASE char_code(k)
    <3>1. k \in Keys \ ControlKeys /\ PutKey(cur_char(k)) /\ UNCHANGED <<modVars, held>>
      BY <2>4 DEF char_code
    <3>2. CallInv' /\ [F!Next]_F!vars
      BY <1>0, <1>2, <3>1, KeyTypes, PutKeyStep
    <3>3. KeyState' /\ ControlKeysReleased'
      BY <1>0, <2>1, <3>1 DEF KeyState, ControlKeysReleased, modVars
    <3> QED
      BY <3>2, <3>3
  <2> QED
    BY <2>1, <2>2, <2>3, <2>4
<1> QED
  BY <1>3, <1>4

\* Every step keeps the invariant, and is a step of the abstract queue or
\* none.
LEMMA KbdStep ==
    ASSUME KbdInv, [KbdNext]_kbdVars
    PROVE  KbdInv' /\ [F!Next]_F!vars
<1> USE CallTypes
<1>0. CallInv
  BY DEF KbdInv
<1>1. ASSUME UNCHANGED keyVars, CallInv', [F!Next]_F!vars
      PROVE  KbdInv' /\ [F!Next]_F!vars
  BY <1>1 DEF KbdInv, KbdTypeOK, CallInv, ControlKeysReleased, keyVars, modVars
<1>2. ASSUME NEW t \in Threads, sys_read(t)
      PROVE  KbdInv' /\ [F!Next]_F!vars
  <2>1. PICK n \in 1..MaxRead : Enter(t, n)
    BY <1>2 DEF sys_read
  <2>2. t \in Consumers /\ UNCHANGED keyVars /\ n \in Nat
    BY <1>2 DEF sys_read
  <2> QED
    BY <1>0, <1>1, <2>1, <2>2, EnterCall, StillRing
<1>3. ASSUME NEW t \in Threads, ReadCode(t)
      PROVE  KbdInv' /\ [F!Next]_F!vars
  BY <1>0, <1>1, <1>3, QueueStep DEF ReadCode
<1>4. CASE KbdTimer \/ KbdIdleLoop
  <2>1. CallInv' /\ UNCHANGED queueVars /\ UNCHANGED keyVars
    BY <1>0, <1>4, SchedulerStep DEF KbdTimer, KbdIdleLoop
  <2>2. UNCHANGED ringVars
    BY <2>1 DEF queueVars
  <2> QED
    BY <1>1, <2>1, <2>2, StillRing
<1>5. CASE UNCHANGED kbdVars
  <2>1. UNCHANGED <<threadVars, ringVars, waitVars, callVars, keyVars>>
    BY <1>5 DEF kbdVars, queueVars
  <2>2. CallInv'
    BY <1>0, <2>1 DEF CallInv, ThreadTypeOK, QueueTypeOK, threadVars, ringVars, waitVars, callVars
  <2> QED
    BY <1>1, <2>1, <2>2, StillRing
<1> QED
  BY <1>2, <1>3, <1>4, <1>5, HandlerStep DEF KbdNext

\* The inductive invariant of the keyboard driver and its readers.
THEOREM KbdInvariant == KbdSpec => []KbdInv
<1>1. KbdInit => KbdInv
  BY QueueBoot DEF KbdInit, KbdInv, KbdTypeOK, CallInv, ControlKeysReleased
<1>2. KbdInv /\ [KbdNext]_kbdVars => KbdInv'
  BY KbdStep
<1> QED
  BY <1>1, <1>2, PTL DEF KbdSpec

\* No ctrl or alt key sticks, whatever keys are pressed together: their
\* status is off when none of their keys is down.
THEOREM NoKeySticks == KbdSpec => []ControlKeysReleased
<1>1. KbdInv => ControlKeysReleased
  BY DEF KbdInv
<1> QED
  BY <1>1, KbdInvariant, PTL

\* The buffer between the keyboard's interrupt and the readers is a bounded
\* FIFO queue: characters that find it full are dropped, and no other.
THEOREM KbdImplementsFifo == KbdSpec => ImplementsFifo
<1>1. KbdInit => F!Init
  BY QueueBoot DEF KbdInit
<1>2. KbdInv /\ [KbdNext]_kbdVars => [F!Next]_F!vars
  BY KbdStep
<1> QED
  BY <1>1, <1>2, KbdInvariant, PTL DEF KbdSpec, ImplementsFifo, F!Spec
=============================================================================
