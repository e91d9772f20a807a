-------------------------- MODULE SchedulerProofs --------------------------
(***************************************************************************)
(* What the functions of thread.c do to the ready list, for any threads,   *)
(* priorities and boot list.  A list without duplicates is described by    *)
(* the set of its elements: that is all the proofs about the clients of    *)
(* the scheduler, which extend this module, need to know.  The theorems    *)
(* are about the scheduler under all its clients: no thread is lost from   *)
(* the ready list or linked twice, and there is always an idle thread to   *)
(* fall back on.                                                           *)
(***************************************************************************)
EXTENDS Scheduler, SequenceTheorems, TLAPS

\* A list of threads in which no general_tag is linked twice.
Linked(rd) == rd \in Seq(Threads) /\ IsInjective(rd)

\* list_push puts its element in front and moves the others up by one.
LEMMA PushProperties ==
    ASSUME NEW S, NEW s \in Seq(S), NEW e \in S
    PROVE  /\ list_push(s, e) \in Seq(S)
           /\ list_push(s, e) # <<>>
           /\ Len(list_push(s, e)) = Len(s) + 1
           /\ list_push(s, e)[1] = e
           /\ \A i \in 1..Len(s) : list_push(s, e)[i + 1] = s[i]
<1>1. <<e>> \in Seq(S) /\ Len(<<e>>) = 1 /\ <<e>>[1] = e
  OBVIOUS
<1>2. /\ <<e>> \o s \in Seq(S)
      /\ Len(<<e>> \o s) = 1 + Len(s)
      /\ \A i \in 1..(1 + Len(s)) :
            (<<e>> \o s)[i] = IF i <= 1 THEN <<e>>[i] ELSE s[i - 1]
  BY <1>1, ConcatProperties
<1>3. Len(s) \in Nat
  OBVIOUS
<1>4. <<e>> \o s # <<>>
  BY <1>2, <1>3
<1> QED
  BY <1>1, <1>2, <1>3, <1>4 DEF list_push, Cons

\* A call of schedule with well-typed arguments leaves well-typed state.
LEMMA ScheduleType ==
    ASSUME ThreadTypeOK,
           NEW st \in [Threads -> TaskStatus], NEW rd \in Seq(Threads),
           schedule(st, rd)
    PROVE  /\ cur' \in Threads
           /\ ready' \in Seq(Threads)
           /\ status' \in [Threads -> TaskStatus]
           /\ ticks' \in [Threads -> Nat]
<1> DEFINE preempted == st[cur] = "RUNNING"
           rd1 == IF preempted THEN Append(rd, cur) ELSE rd
           st1 == IF preempted THEN [st EXCEPT ![cur] = "READY"] ELSE st
           rd2 == IF rd1 = <<>> THEN list_push(rd1, Idle) ELSE rd1
<1>1. rd1 \in Seq(Threads)
  BY DEF ThreadTypeOK
<1>2. rd2 \in Seq(Threads) /\ rd2 # <<>>
  <2>1. Idle \in Threads
    BY BootAssumption
  <2>2. list_push(rd1, Idle) \in Seq(Threads) /\ list_push(rd1, Idle) # <<>>
    BY <1>1, <2>1, PushProperties, ZenonT(60)
  <2> QED
    BY <1>1, <2>2
<1>3. Head(rd2) \in Threads /\ Tail(rd2) \in Seq(Threads)
  BY <1>2
<1>4. st1 \in [Threads -> TaskStatus]
  BY DEF TaskStatus
<1>5. /\ ticks' = IF preempted THEN [ticks EXCEPT ![cur] = Priority[cur]]
                               ELSE ticks
      /\ ready' = Tail(rd2)
      /\ status' = [st1 EXCEPT ![Head(rd2)] = "RUNNING"]
      /\ cur' = Head(rd2)
  BY DEF schedule, TimeSlice
<1> QED
  BY <1>3, <1>4, <1>5, PriorityAssumption DEF ThreadTypeOK, TaskStatus

\* Waking a thread keeps the scheduler's types.
LEMMA UnlockType ==
    ASSUME ThreadTypeOK, NEW t \in Threads, thread_unlock(t)
    PROVE  /\ ready' \in Seq(Threads)
           /\ status' \in [Threads -> TaskStatus]
<1>1. list_push(ready, t) \in Seq(Threads)
  BY PushProperties DEF ThreadTypeOK
<1> QED
  BY <1>1 DEF ThreadTypeOK, TaskStatus, thread_unlock, Unlocked

\* The timer keeps the scheduler's types.
LEMMA TimerType ==
    ASSUME ThreadTypeOK, intr_timer_handler
    PROVE  ThreadTypeOK'
<1>1. halted' \in BOOLEAN
  BY Zenon DEF intr_timer_handler, Interrupted
<1>2. CASE ticks[cur] = 0
  <2>1. schedule(status, ready)
    BY <1>2 DEF intr_timer_handler
  <2> QED
    BY <1>1, <2>1, ScheduleType DEF ThreadTypeOK
<1>3. CASE ticks[cur] # 0
  BY <1>1, <1>3 DEF ThreadTypeOK, intr_timer_handler
<1> QED
  BY <1>2, <1>3

\* A running thread that blocks keeps the scheduler's types.
LEMMA BlockType ==
    ASSUME ThreadTypeOK, NEW state \in TaskStatus, thread_block(state)
    PROVE  /\ cur' \in Threads
           /\ ready' \in Seq(Threads)
           /\ status' \in [Threads -> TaskStatus]
           /\ ticks' \in [Threads -> Nat]
BY ScheduleType DEF thread_block, ThreadTypeOK, TaskStatus

-----------------------------------------------------------------------------
\* The elements of a sequence, by index.
LEMMA RangeIndex ==
    ASSUME NEW S, NEW s \in Seq(S)
    PROVE  /\ \A e : e \in Range(s) <=> \E i \in 1..Len(s) : s[i] = e
           /\ IsInjective(s) <=> \A i, j \in 1..Len(s) : s[i] = s[j] => i = j
           /\ Range(s) \subseteq S
           /\ s = <<>> <=> Range(s) = {}
<1>1. DOMAIN s = 1..Len(s) /\ Len(s) \in Nat /\ s \in [1..Len(s) -> S]
  BY LenProperties
<1>2. s = <<>> <=> Len(s) = 0
  BY EmptySeq
<1>3. \A e : e \in Range(s) <=> \E i \in 1..Len(s) : s[i] = e
  BY <1>1 DEF Range
<1>4. IsInjective(s) <=> \A i, j \in 1..Len(s) : s[i] = s[j] => i = j
  BY <1>1 DEF IsInjective
<1>5. Range(s) \subseteq S
  BY <1>1, <1>3
<1>6. s = <<>> <=> Range(s) = {}
  <2>1. CASE Len(s) = 0
    BY <1>2, <1>3, <2>1
  <2>2. CASE Len(s) # 0
    <3>1. 1 \in 1..Len(s)
      BY <1>1, <2>2
    <3>2. s[1] \in Range(s)
      BY <1>3, <3>1
    <3> QED
      BY <1>2, <2>2, <3>2
  <2> QED
    BY <2>1, <2>2
<1> QED
  BY <1>3, <1>4, <1>5, <1>6

\* list_append adds one element at the end.
LEMMA AppendLinked ==
    ASSUME NEW rd, Linked(rd), NEW t \in Threads
    PROVE  /\ Append(rd, t) \in Seq(Threads)
           /\ Range(Append(rd, t)) = Range(rd) \cup {t}
           /\ t \notin Range(rd) => Linked(Append(rd, t))
<1> DEFINE s == Append(rd, t)
<1>1. /\ rd \in Seq(Threads) /\ Len(rd) \in Nat
      /\ s \in Seq(Threads) /\ Len(s) = Len(rd) + 1
      /\ \A i \in 1..Len(rd) : s[i] = rd[i]
      /\ s[Len(rd) + 1] = t
  BY AppendProperties, LenProperties DEF Linked
<1> HIDE DEF s
<1>2. Range(s) = Range(rd) \cup {t}
  <2>1. ASSUME NEW e \in Range(s) PROVE e \in Range(rd) \cup {t}
    <3>1. PICK i \in 1..Len(s) : s[i] = e
      BY <1>1, RangeIndex
    <3>2. i \in 1..Len(rd) \/ i = Len(rd) + 1
      BY <1>1
    <3> QED
      BY <1>1, <3>1, <3>2, RangeIndex
  <2>2. ASSUME NEW e \in Range(rd) PROVE e \in Range(s)
    <3>1. PICK i \in 1..Len(rd) : rd[i] = e
      BY <1>1, RangeIndex
    <3>2. i \in 1..Len(s) /\ s[i] = e
      BY <1>1, <3>1
    <3> QED
      BY <1>1, <3>2, RangeIndex
  <2>3. t \in Range(s)
    <3>1. Len(rd) + 1 \in 1..Len(s)
      BY <1>1
    <3> QED
      BY <1>1, <3>1, RangeIndex
  <2> QED
    BY <2>1, <2>2, <2>3
<1>3. ASSUME t \notin Range(rd) PROVE IsInjective(s)
  <2>1. \A i \in 1..Len(rd) : rd[i] # t
    BY <1>1, <1>3, RangeIndex
  <2>2. \A i, j \in 1..Len(rd) : rd[i] = rd[j] => i = j
    BY <1>1, RangeIndex DEF Linked
  <2>3. ASSUME NEW i \in 1..Len(s), NEW j \in 1..Len(s), s[i] = s[j] PROVE i = j
    BY <1>1, <2>1, <2>2, <2>3
  <2> QED
    BY <1>1, <2>3, RangeIndex
<1> QED
  BY <1>1, <1>2, <1>3 DEF Linked, s

\* list_push adds one element in front.
LEMMA PushLinked ==
    ASSUME NEW rd, Linked(rd), NEW t \in Threads
    PROVE  /\ list_push(rd, t) \in Seq(Threads)
           /\ Range(list_push(rd, t)) = Range(rd) \cup {t}
           /\ t \notin Range(rd) => Linked(list_push(rd, t))
<1> DEFINE s == list_push(rd, t)
<1>1. /\ rd \in Seq(Threads) /\ Len(rd) \in Nat
      /\ s \in Seq(Threads) /\ Len(s) = Len(rd) + 1
      /\ s[1] = t
      /\ \A i \in 1..Len(rd) : s[i + 1] = rd[i]
  BY PushProperties, LenProperties DEF Linked
<1>2. \A i \in 1..Len(s) : i = 1 \/ (i - 1 \in 1..Len(rd) /\ s[i] = rd[i - 1])
  BY <1>1
<1> HIDE DEF s
<1>3. Range(s) = Range(rd) \cup {t}
  <2>1. ASSUME NEW e \in Range(s) PROVE e \in Range(rd) \cup {t}
    <3>1. PICK i \in 1..Len(s) : s[i] = e
      BY <1>1, RangeIndex
    <3> QED
      BY <1>1, <1>2, <3>1, RangeIndex
  <2>2. ASSUME NEW e \in Range(rd) PROVE e \in Range(s)
    <3>1. PICK i \in 1..Len(rd) : rd[i] = e
      BY <1>1, RangeIndex
    <3>2. i + 1 \in 1..Len(s) /\ s[i + 1] = e
      BY <1>1, <3>1
    <3> QED
      BY <1>1, <3>2, RangeIndex
  <2>3. t \in Range(s)
    <3>1. 1 \in 1..Len(s)
      BY <1>1
    <3> QED
      BY <1>1, <3>1, RangeIndex
  <2> QED
    BY <2>1, <2>2, <2>3
<1>4. ASSUME t \notin Range(rd) PROVE IsInjective(s)
  <2>1. \A i \in 1..Len(rd) : rd[i] # t
    BY <1>1, <1>4, RangeIndex
  <2>2. \A i, j \in 1..Len(rd) : rd[i] = rd[j] => i = j
    BY <1>1, RangeIndex DEF Linked
  <2>3. ASSUME NEW i \in 1..Len(s), NEW j \in 1..Len(s), s[i] = s[j] PROVE i = j
    BY <1>1, <1>2, <2>1, <2>2, <2>3
  <2> QED
    BY <1>1, <2>3, RangeIndex
<1> QED
  BY <1>1, <1>3, <1>4 DEF Linked, s

\* list_pop takes the first element away.
LEMMA PopLinked ==
    ASSUME NEW rd, Linked(rd), rd # <<>>
    PROVE  /\ Head(rd) \in Range(rd)
           /\ Linked(Tail(rd))
           /\ Range(Tail(rd)) = Range(rd) \ {Head(rd)}
<1>1. /\ rd \in Seq(Threads) /\ Len(rd) \in Nat \ {0}
      /\ Head(rd) = rd[1]
      /\ Tail(rd) \in Seq(Threads) /\ Len(Tail(rd)) = Len(rd) - 1
      /\ \A i \in 1..Len(Tail(rd)) : Tail(rd)[i] = rd[i + 1]
  BY HeadTailProperties, EmptySeq DEF Linked
<1>2. \A i, j \in 1..Len(rd) : rd[i] = rd[j] => i = j
  BY <1>1, RangeIndex DEF Linked
<1>3. Head(rd) \in Range(rd)
  BY <1>1, RangeIndex
<1> DEFINE s == Tail(rd)
<1>4. s \in Seq(Threads) /\ Len(s) = Len(rd) - 1 /\ \A i \in 1..Len(s) : s[i] = rd[i + 1]
  BY <1>1
<1> HIDE DEF s
<1>5. IsInjective(s)
  <2>1. ASSUME NEW i \in 1..Len(s), NEW j \in 1..Len(s), s[i] = s[j] PROVE i = j
    BY <1>1, <1>2, <1>4, <2>1
  <2> QED
    BY <1>4, <2>1, RangeIndex
<1>6. Range(s) = Range(rd) \ {rd[1]}
  <2>1. ASSUME NEW e \in Range(s) PROVE e \in Range(rd) /\ e # rd[1]
    BY <1>1, <1>2, <1>4, RangeIndex
  <2>2. ASSUME NEW e \in Range(rd), e # rd[1] PROVE e \in Range(s)
    <3>1. PICK i \in 1..Len(rd) : rd[i] = e
      BY <1>1, RangeIndex
    <3>2. i - 1 \in 1..Len(s) /\ s[i - 1] = e
      BY <1>1, <1>4, <2>2, <3>1
    <3> QED
      BY <1>4, <3>2, RangeIndex
  <2> QED
    BY <2>1, <2>2
<1> QED
  BY <1>1, <1>3, <1>4, <1>5, <1>6 DEF Linked, s

\* list_remove takes one element away, wherever it is.
LEMMA RemoveLinked ==
    ASSUME NEW rd, Linked(rd), NEW t \in Threads
    PROVE  /\ Linked(RemoveFirst(rd, t))
           /\ Range(RemoveFirst(rd, t)) = Range(rd) \ {t}
<1>1. /\ rd \in Seq(Threads) /\ Len(rd) \in Nat
      /\ \A i, j \in 1..Len(rd) : rd[i] = rd[j] => i = j
  BY RangeIndex, LenProperties DEF Linked
<1>2. CASE t \notin Range(rd)
  <2>1. RemoveFirst(rd, t) = rd
    BY <1>1, <1>2, RangeIndex DEF RemoveFirst
  <2> QED
    BY <1>2, <2>1
<1>3. CASE t \in Range(rd)
  <2>1. PICK n \in 1..Len(rd) : rd[n] = t
    BY <1>1, <1>3, RangeIndex
  <2>2. {i \in 1..Len(rd) : rd[i] = t} = {n}
    BY <1>1, <2>1
  <2>3. Min({n}) = n
    BY <2>1 DEF Min
  <2>4. SelectInSeq(rd, LAMBDA v : v = t) = n
    BY <2>2, <2>3 DEF SelectInSeq
  <2> DEFINE a == SubSeq(rd, 1, n - 1)
             b == SubSeq(rd, n + 1, Len(rd))
             s == a \o b
  <2>5. RemoveFirst(rd, t) = s
    BY <2>1, <2>4 DEF RemoveFirst, RemoveAt
  <2>6. /\ a \in Seq(Threads) /\ Len(a) = n - 1
        /\ \A i \in 1..n - 1 : a[i] = rd[i]
    <3>1. \A i \in 1..n - 1 : rd[i] \in Threads
      BY <1>1, <2>1, ElementOfSeq
    <3> QED
      BY <1>1, <2>1, <3>1, SubSeqProperties
  <2>7. /\ b \in Seq(Threads) /\ Len(b) = Len(rd) - n
        /\ \A i \in 1..Len(rd) - n : b[i] = rd[n + i]
    <3>1. \A i \in n + 1..Len(rd) : rd[i] \in Threads
      BY <1>1, <2>1, ElementOfSeq
    <3>2. /\ b \in Seq(Threads)
          /\ Len(b) = IF n + 1 <= Len(rd) THEN Len(rd) - (n + 1) + 1 ELSE 0
          /\ \A i \in 1..Len(rd) - (n + 1) + 1 : b[i] = rd[(n + 1) + i - 1]
      BY <1>1, <2>1, <3>1, SubSeqProperties
    <3> QED
      BY <1>1, <2>1, <3>2
  <2>8. /\ s \in Seq(Threads) /\ Len(s) = Len(rd) - 1
        /\ \A i \in 1..Len(s) : s[i] = IF i < n THEN rd[i] ELSE rd[i + 1]
    <3> HIDE DEF a, b
    <3>1. /\ a \o b \in Seq(Threads) /\ Len(a \o b) = Len(a) + Len(b)
          /\ \A i \in 1..Len(a) + Len(b) :
                (a \o b)[i] = IF i <= Len(a) THEN a[i] ELSE b[i - Len(a)]
      BY <2>6, <2>7, ConcatProperties
    <3>2. Len(s) = Len(rd) - 1
      BY <1>1, <2>1, <2>6, <2>7, <3>1
    <3>3. ASSUME NEW i \in 1..Len(s)
          PROVE  s[i] = IF i < n THEN rd[i] ELSE rd[i + 1]
      BY <1>1, <2>1, <2>6, <2>7, <3>1, <3>2
    <3> QED
      BY <3>1, <3>2, <3>3
  <2> HIDE DEF s
  <2>9. IsInjective(s)
    <3>1. ASSUME NEW i \in 1..Len(s), NEW j \in 1..Len(s), s[i] = s[j] PROVE i = j
      BY <1>1, <2>1, <2>8, <3>1
    <3> QED
      BY <2>8, <3>1, RangeIndex
  <2>10. Range(s) = Range(rd) \ {t}
    <3>1. ASSUME NEW e \in Range(s) PROVE e \in Range(rd) /\ e # t
      <4>1. PICK i \in 1..Len(s) : s[i] = e
        BY <2>8, RangeIndex
      <4>2. PICK j \in 1..Len(rd) : rd[j] = e /\ j # n
        BY <1>1, <2>1, <2>8, <4>1
      <4> QED
        BY <1>1, <2>1, <4>2, RangeIndex
    <3>2. ASSUME NEW e \in Range(rd), e # t PROVE e \in Range(s)
      <4>1. PICK i \in 1..Len(rd) : rd[i] = e /\ i # n
        BY <1>1, <2>1, <3>2, RangeIndex
      <4>2. \E j \in 1..Len(s) : s[j] = e
        <5>1. CASE i < n
          BY <1>1, <2>1, <2>8, <4>1, <5>1
        <5>2. CASE i > n
          <6>1. i - 1 \in 1..Len(s) /\ ~(i - 1 < n) /\ (i - 1) + 1 = i
            BY <1>1, <2>1, <2>8, <4>1, <5>2
          <6> QED
            BY <2>8, <4>1, <6>1
        <5> QED
          BY <4>1, <5>1, <5>2
      <4> QED
        BY <2>8, <4>2, RangeIndex
    <3> QED
      BY <3>1, <3>2
  <2> QED
    BY <2>5, <2>8, <2>9, <2>10 DEF Linked
<1> QED
  BY <1>2, <1>3

-----------------------------------------------------------------------------
\* schedule: the caller, if it could run on, joins the threads in rd; one of
\* them runs and leaves the list, or idle when there are none.
LEMMA ScheduleLinked ==
    ASSUME ThreadTypeOK,
           NEW st \in [Threads -> TaskStatus], NEW rd, Linked(rd),
           st[cur] = "RUNNING" => cur \notin Range(rd),
           schedule(st, rd)
    PROVE  LET preempted == st[cur] = "RUNNING"
               Q == IF preempted THEN Range(rd) \cup {cur} ELSE Range(rd)
           IN  /\ cur' \in (IF Q = {} THEN {Idle} ELSE Q)
               /\ Linked(ready')
               /\ Range(ready') = Q \ {cur'}
               /\ status' = [t \in Threads |->
                              IF t = cur' THEN "RUNNING"
                              ELSE IF t = cur /\ preempted THEN "READY" ELSE st[t]]
<1> DEFINE preempted == st[cur] = "RUNNING"
           Q == IF preempted THEN Range(rd) \cup {cur} ELSE Range(rd)
           rd1 == IF preempted THEN Append(rd, cur) ELSE rd
           st1 == IF preempted THEN [st EXCEPT ![cur] = "READY"] ELSE st
           rd2 == IF rd1 = <<>> THEN list_push(rd1, Idle) ELSE rd1
<1>0. cur \in Threads /\ Idle \in Threads
  BY BootAssumption DEF ThreadTypeOK
<1>1. Linked(rd1) /\ Range(rd1) = Q
  BY <1>0, AppendLinked
<1>2. rd1 = <<>> <=> Q = {}
  BY <1>1, RangeIndex DEF Linked
<1>3. Linked(rd2) /\ rd2 # <<>> /\ Range(rd2) = IF Q = {} THEN {Idle} ELSE Q
  <2> HIDE DEF rd1, Q
  <2>1. CASE Q = {}
    <3>1. Linked(list_push(rd1, Idle)) /\ Range(list_push(rd1, Idle)) = {Idle}
      BY <1>0, <1>1, <2>1, PushLinked
    <3>2. list_push(rd1, Idle) # <<>>
      BY <1>0, <1>1, PushProperties DEF Linked
    <3> QED
      BY <1>2, <2>1, <3>1, <3>2
  <2>2. CASE Q # {}
    BY <1>1, <1>2, <2>2
  <2> QED
    BY <2>1, <2>2
<1>4. /\ ready' = Tail(rd2)
      /\ status' = [st1 EXCEPT ![Head(rd2)] = "RUNNING"]
      /\ cur' = Head(rd2)
  BY DEF schedule
<1>5. cur' \in Range(rd2) /\ Linked(ready') /\ Range(ready') = Range(rd2) \ {cur'}
  <2> HIDE DEF rd2
  <2> QED
    BY <1>3, <1>4, PopLinked
<1>6. Range(ready') = Q \ {cur'}
  <2> HIDE DEF rd2, Q
  <2> QED
    BY <1>3, <1>5
<1>7. status' = [t \in Threads |->
                   IF t = cur' THEN "RUNNING"
                   ELSE IF t = cur /\ preempted THEN "READY" ELSE st[t]]
  <2> HIDE DEF rd2
  <2>1. status' = [st1 EXCEPT ![cur'] = "RUNNING"]
    BY <1>4
  <2> QED
    BY <1>0, <2>1
<1> QED
  BY <1>3, <1>5, <1>6, <1>7

\* thread_unlock adds one thread to the list and marks it.
LEMMA UnlockLinked ==
    ASSUME ThreadTypeOK, Linked(ready), NEW t \in Threads, t \notin Range(ready),
           thread_unlock(t)
    PROVE  /\ Linked(ready')
           /\ Range(ready') = Range(ready) \cup {t}
           /\ status' = [status EXCEPT ![t] = "RUNNING"]
BY PushLinked DEF thread_unlock, Unlocked

\* The list when interrupts are first switched on.
LEMMA BootLinked ==
    ThreadInit => ThreadTypeOK /\ Linked(ready) /\ cur \notin Range(ready)
<1> SUFFICES ASSUME ThreadInit PROVE ThreadTypeOK /\ Linked(ready) /\ cur \notin Range(ready)
  OBVIOUS
<1>1. BootReady \in Seq(Threads \ {Main}) /\ Threads \ {Main} \subseteq Threads
  BY BootAssumption
<1>2. BootReady \in Seq(Threads)
  BY <1>1, SeqMonotonic
<1>3. Range(BootReady) \subseteq Threads \ {Main}
  BY <1>1, RangeIndex
<1> QED
  BY <1>2, <1>3, BootAssumption, PriorityAssumption
     DEF ThreadInit, ThreadTypeOK, TaskStatus, Linked
-----------------------------------------------------------------------------
(***************************************************************************)
(* The threads in the ready list are, the running one aside, those whose   *)
(* status says that they may run.  thread_unlock leaves RUNNING there.     *)
(***************************************************************************)
Runnable == {"READY", "RUNNING"}
QueueInv ==
    /\ Linked(ready)
    /\ cur \notin Range(ready)
    /\ status[cur] = "RUNNING"
    /\ \A t \in Threads \ {cur} : t \in Range(ready) <=> status[t] \in Runnable

\* schedule, called with a list that agrees with the statuses, leaves one, and
\* changes the status of no thread but its caller, the next one and idle in a
\* way that matters.
LEMMA ScheduleQueue ==
    ASSUME ThreadTypeOK,
           NEW st \in [Threads -> TaskStatus], NEW rd, Linked(rd),
           \A t \in Threads \ {cur} : t \in Range(rd) <=> st[t] \in Runnable,
           cur \in Range(rd) <=> st[cur] = "READY",
           schedule(st, rd)
    PROVE  /\ QueueInv'
           /\ \A t \in Threads : st[t] \in Runnable => status'[t] \in Runnable
           /\ \A t \in Threads \ {Idle} : st[t] \notin Runnable => status'[t] = st[t]
           /\ status'[Idle] \in Runnable \cup {st[Idle]}
<1> DEFINE preempted == st[cur] = "RUNNING"
           Q == IF preempted THEN Range(rd) \cup {cur} ELSE Range(rd)
<1>1. cur \in Threads /\ Idle \in Threads /\ Range(rd) \subseteq Threads
  BY BootAssumption, RangeIndex DEF ThreadTypeOK, Linked
<1>2. /\ cur' \in (IF Q = {} THEN {Idle} ELSE Q)
      /\ Linked(ready')
      /\ Range(ready') = Q \ {cur'}
      /\ status' = [t \in Threads |->
                     IF t = cur' THEN "RUNNING"
                     ELSE IF t = cur /\ preempted THEN "READY" ELSE st[t]]
  BY ScheduleLinked
<1>3. \A t \in Threads : t \in Q <=> st[t] \in Runnable
  BY <1>1 DEF Runnable
<1>4. cur' \in Threads
  BY <1>1, <1>2
<1> HIDE DEF Q
<1>5. QueueInv'
  <2>1. ASSUME NEW t \in Threads, t # cur'
        PROVE  t \in Range(ready') <=> status'[t] \in Runnable
    BY <1>2, <1>3, <2>1 DEF Runnable
  <2> QED
    BY <1>2, <1>4, <2>1 DEF QueueInv
<1>6. \A t \in Threads : st[t] \in Runnable => status'[t] \in Runnable
  BY <1>2 DEF Runnable
<1>7. \A t \in Threads \ {Idle} : st[t] \notin Runnable => status'[t] = st[t]
  BY <1>2, <1>3 DEF Runnable
<1>8. status'[Idle] \in Runnable \cup {st[Idle]}
  BY <1>1, <1>2 DEF Runnable
<1> QED
  BY <1>5, <1>6, <1>7, <1>8

\* A running thread that blocks.
LEMMA BlockQueue ==
    ASSUME ThreadTypeOK, QueueInv, NEW state \in TaskStatus \ Runnable,
           thread_block(state)
    PROVE  /\ QueueInv'
           /\ \A t \in Threads \ {cur} : status[t] \in Runnable => status'[t] \in Runnable
           /\ \A t \in Threads \ {cur, Idle} :
                 status[t] \notin Runnable => status'[t] = status[t]
           /\ cur # Idle => status'[cur] = state
           /\ status'[Idle] \in Runnable \cup {IF cur = Idle THEN state ELSE status[Idle]}
<1> DEFINE st == [status EXCEPT ![cur] = state]
<1>1. st \in [Threads -> TaskStatus] /\ cur \in Threads /\ Idle \in Threads
  BY BootAssumption DEF ThreadTypeOK
<1>2. /\ st[cur] = state /\ \A t \in Threads \ {cur} : st[t] = status[t]
  BY DEF ThreadTypeOK
<1>3. schedule(st, ready)
  BY DEF thread_block
<1> HIDE DEF st
<1>4. /\ \A t \in Threads \ {cur} : t \in Range(ready) <=> st[t] \in Runnable
      /\ cur \in Range(ready) <=> st[cur] = "READY"
      /\ Linked(ready)
  BY <1>2 DEF QueueInv, Runnable
<1>5. /\ QueueInv'
      /\ \A t \in Threads : st[t] \in Runnable => status'[t] \in Runnable
      /\ \A t \in Threads \ {Idle} : st[t] \notin Runnable => status'[t] = st[t]
      /\ status'[Idle] \in Runnable \cup {st[Idle]}
  BY <1>1, <1>3, <1>4, ScheduleQueue
<1> QED
  BY <1>1, <1>2, <1>5

\* The timer: nobody stops being runnable or becomes so, idle perhaps.
LEMMA TimerQueue ==
    ASSUME ThreadTypeOK, QueueInv, intr_timer_handler
    PROVE  /\ QueueInv'
           /\ \A t \in Threads : status[t] \in Runnable => status'[t] \in Runnable
           /\ \A t \in Threads \ {Idle} : status[t] \notin Runnable => status'[t] = status[t]
           /\ status'[Idle] \in Runnable \cup {status[Idle]}
<1>1. CASE ticks[cur] = 0
  <2>1. schedule(status, ready)
    BY <1>1 DEF intr_timer_handler
  <2> QED
    BY <2>1, ScheduleQueue DEF QueueInv, ThreadTypeOK
<1>2. CASE ticks[cur] # 0
  <2>1. UNCHANGED <<cur, ready, status>>
    BY <1>2 DEF intr_timer_handler
  <2>2. Idle \in Threads
    BY BootAssumption
  <2> QED
    BY <2>1, <2>2 DEF QueueInv, Linked
<1> QED
  BY <1>1, <1>2

\* A thread wakes another.
LEMMA WakeQueue ==
    ASSUME ThreadTypeOK, QueueInv, NEW t \in Threads, status[t] \notin Runnable,
           thread_unlock(t), cur' = cur
    PROVE  /\ QueueInv'
           /\ status' = [status EXCEPT ![t] = "RUNNING"]
<1>1. t # cur /\ t \notin Range(ready) /\ cur \in Threads /\ status \in [Threads -> TaskStatus]
  BY DEF QueueInv, Runnable, ThreadTypeOK
<1>2. /\ Linked(ready') /\ Range(ready') = Range(ready) \cup {t}
      /\ status' = [status EXCEPT ![t] = "RUNNING"]
  BY <1>1, UnlockLinked DEF QueueInv
<1> QED
  BY <1>1, <1>2 DEF QueueInv, Runnable

\* A thread is made and queued.
LEMMA StartQueue ==
    ASSUME ThreadTypeOK, QueueInv, NEW t \in Threads, status[t] \notin Runnable,
           thread_start(t)
    PROVE  QueueInv' /\ status' = [status EXCEPT ![t] = "READY"]
<1>1. t # cur /\ t \notin Range(ready) /\ cur \in Threads /\ status \in [Threads -> TaskStatus]
  BY DEF QueueInv, Runnable, ThreadTypeOK
<1>2. /\ Linked(ready') /\ Range(ready') = Range(ready) \cup {t}
      /\ status' = [status EXCEPT ![t] = "READY"] /\ cur' = cur
  BY <1>1, AppendLinked DEF QueueInv, thread_start
<1> QED
  BY <1>1, <1>2 DEF QueueInv, Runnable

-----------------------------------------------------------------------------
(***************************************************************************)
(* The inductive invariant.  That the ready list holds the runnable        *)
(* threads is kept only if no thread is in it twice, for a switch takes    *)
(* one node out, and if the running thread is not in it; that idle can be  *)
(* woken needs that nobody blocks it but itself.                           *)
(***************************************************************************)
SchedInv ==
    /\ ThreadTypeOK
    /\ Linked(ready)
    /\ cur \notin Range(ready)
    /\ ReadyIffRunnable
    /\ status[Idle] \in {"RUNNING", "READY", "BLOCKED"}

\* A call of schedule keeps the invariant, if its caller left the statuses of
\* the other threads alone and the list as it was, with or without itself.
LEMMA ScheduleStep ==
    ASSUME SchedInv, NEW state \in TaskStatus, NEW rd, Linked(rd),
           cur = Idle => state \in {"RUNNING", "READY", "BLOCKED"},
           \/ state = "RUNNING" /\ rd = ready
           \/ state = "READY" /\ Range(rd) = Range(ready) \cup {cur}
           \/ state \notin {"READY", "RUNNING"} /\ rd = ready,
           schedule([status EXCEPT ![cur] = state], rd),
           halted' \in BOOLEAN
    PROVE  SchedInv'
<1> DEFINE st == [status EXCEPT ![cur] = state]
           preempted == st[cur] = "RUNNING"
           Q == IF preempted THEN Range(rd) \cup {cur} ELSE Range(rd)
<1>1. /\ ThreadTypeOK /\ cur \in Threads /\ Idle \in Threads
      /\ status \in [Threads -> TaskStatus]
      /\ st \in [Threads -> TaskStatus] /\ st[cur] = state
      /\ rd \in Seq(Threads) /\ Range(ready) \subseteq Threads
  BY BootAssumption, RangeIndex DEF SchedInv, ThreadTypeOK, Linked
<1>2. preempted => cur \notin Range(rd)
  BY <1>1 DEF SchedInv
<1>3. /\ cur' \in (IF Q = {} THEN {Idle} ELSE Q)
      /\ Linked(ready')
      /\ Range(ready') = Q \ {cur'}
      /\ status' = [t \in Threads |->
                     IF t = cur' THEN "RUNNING"
                     ELSE IF t = cur /\ preempted THEN "READY" ELSE st[t]]
  BY <1>1, <1>2, ScheduleLinked
<1>4. ThreadTypeOK'
  BY <1>1, ScheduleType DEF ThreadTypeOK
<1>5. Q = IF state \in {"READY", "RUNNING"} THEN Range(ready) \cup {cur} ELSE Range(ready)
  BY <1>1
<1> HIDE DEF Q
<1>6. cur' \in Threads
  BY <1>4 DEF ThreadTypeOK
<1>7. ReadyIffRunnable'
  <2>1. status'[cur'] = "RUNNING"
    BY <1>3, <1>6
  <2>2. ASSUME NEW t \in Threads, t # cur'
        PROVE  t \in Range(ready') <=> status'[t] \in {"READY", "RUNNING"}
    <3>1. CASE t = cur
      BY <1>1, <1>3, <1>5, <2>2, <3>1 DEF SchedInv
    <3>2. CASE t # cur
      BY <1>1, <1>3, <1>5, <2>2, <3>2 DEF SchedInv, ReadyIffRunnable
    <3> QED
      BY <3>1, <3>2
  <2> QED
    BY <2>1, <2>2 DEF ReadyIffRunnable
<1>8. status'[Idle] \in {"RUNNING", "READY", "BLOCKED"}
  BY <1>1, <1>3 DEF SchedInv
<1> QED
  BY <1>3, <1>4, <1>7, <1>8 DEF SchedInv

\* Waking a blocked thread keeps the invariant.
LEMMA WakeStep ==
    ASSUME SchedInv, NEW t \in Threads, t # Idle,
           status[t] \in {"BLOCKED", "WAITING"}, thread_unlock(t),
           cur' = cur, ticks' = ticks, halted' \in BOOLEAN
    PROVE  SchedInv'
<1>1. /\ ThreadTypeOK /\ cur \in Threads /\ Idle \in Threads
      /\ status \in [Threads -> TaskStatus]
  BY BootAssumption DEF SchedInv, ThreadTypeOK
<1>2. t # cur /\ t \notin Range(ready)
  BY <1>1 DEF SchedInv, ReadyIffRunnable
<1>3. /\ Linked(ready')
      /\ Range(ready') = Range(ready) \cup {t}
      /\ status' = [status EXCEPT ![t] = "RUNNING"]
  BY <1>1, <1>2, UnlockLinked DEF SchedInv
<1>4. ThreadTypeOK'
  BY <1>1, <1>3 DEF SchedInv, ThreadTypeOK, TaskStatus, Linked
<1>5. ReadyIffRunnable'
  BY <1>1, <1>2, <1>3 DEF SchedInv, ReadyIffRunnable
<1>6. cur' \notin Range(ready') /\ status'[Idle] \in {"RUNNING", "READY", "BLOCKED"}
  BY <1>1, <1>2, <1>3 DEF SchedInv
<1> QED
  BY <1>3, <1>4, <1>5, <1>6 DEF SchedInv

\* Starting a thread puts a PCB that was in no list at the end of one.
LEMMA StartStep ==
    ASSUME SchedInv, NEW t \in Threads, Start(t)
    PROVE  SchedInv'
<1>1. /\ ThreadTypeOK /\ cur \in Threads /\ Idle \in Threads
      /\ status \in [Threads -> TaskStatus]
  BY BootAssumption DEF SchedInv, ThreadTypeOK
<1>2. t # cur /\ t \notin Range(ready) /\ t # Idle
  BY <1>1 DEF SchedInv, ReadyIffRunnable, Start
<1>3. /\ Linked(ready')
      /\ Range(ready') = Range(ready) \cup {t}
      /\ status' = [status EXCEPT ![t] = "READY"]
      /\ cur' = cur
  BY <1>2, AppendLinked DEF SchedInv, Start, thread_start
<1>4. ThreadTypeOK'
  BY <1>1, <1>3, PriorityAssumption
     DEF ThreadTypeOK, TaskStatus, Linked, Start, thread_start
<1>5. ReadyIffRunnable'
  BY <1>1, <1>2, <1>3 DEF SchedInv, ReadyIffRunnable
<1>6. cur' \notin Range(ready') /\ status'[Idle] \in {"RUNNING", "READY", "BLOCKED"}
  BY <1>1, <1>2, <1>3 DEF SchedInv
<1> QED
  BY <1>3, <1>4, <1>5, <1>6 DEF SchedInv

\* Reaping frees a PCB that was in no list.
LEMMA SchedReap ==
    ASSUME SchedInv, NEW t \in Threads, Reap(t)
    PROVE  SchedInv'
<1>1. /\ ThreadTypeOK /\ cur \in Threads /\ Idle \in Threads
      /\ status \in [Threads -> TaskStatus]
  BY BootAssumption DEF SchedInv, ThreadTypeOK
<1>2. t # cur /\ t \notin Range(ready) /\ t # Idle
  BY <1>1 DEF SchedInv, ReadyIffRunnable, Reap
<1>3. /\ Linked(ready')
      /\ Range(ready') = Range(ready)
      /\ status' = [status EXCEPT ![t] = "DIED"]
      /\ cur' = cur /\ ticks' = ticks
  <2>1. /\ ready' = RemoveFirst(ready, t) /\ status' = [status EXCEPT ![t] = "DIED"]
        /\ cur' = cur /\ ticks' = ticks
    BY DEF Reap, thread_exit
  <2>2. Linked(ready)
    BY DEF SchedInv
  <2>3. /\ Linked(RemoveFirst(ready, t))
        /\ Range(RemoveFirst(ready, t)) = Range(ready) \ {t}
    BY <2>2, RemoveLinked
  <2>4. Range(ready) \ {t} = Range(ready)
    BY <1>2
  <2> QED
    BY <2>1, <2>3, <2>4
<1>4. ThreadTypeOK'
  BY <1>1, <1>3 DEF ThreadTypeOK, TaskStatus, Linked, Reap
<1>5. ReadyIffRunnable'
  BY <1>1, <1>2, <1>3 DEF SchedInv, ReadyIffRunnable
<1>6. cur' \notin Range(ready') /\ status'[Idle] \in {"RUNNING", "READY", "BLOCKED"}
  BY <1>1, <1>2, <1>3 DEF SchedInv
<1> QED
  BY <1>3, <1>4, <1>5, <1>6 DEF SchedInv

\* The timer counts down, or requeues the running thread.
LEMMA TimerStep ==
    ASSUME SchedInv, SchedTimer
    PROVE  SchedInv'
<1>1. halted' \in BOOLEAN
  BY Zenon DEF SchedTimer, intr_timer_handler, Interrupted
<1>2. CASE ticks[cur] = 0
  <2>1. schedule(status, ready)
    BY <1>2 DEF SchedTimer, intr_timer_handler
  <2>2. status \in [Threads -> TaskStatus] /\ cur \in Threads /\ status[cur] = "RUNNING"
    BY DEF SchedInv, ThreadTypeOK, ReadyIffRunnable
  <2>3. status = [status EXCEPT ![cur] = "RUNNING"]
    BY <2>2
  <2>4. schedule([status EXCEPT ![cur] = "RUNNING"], ready)
    BY <2>1, <2>3, Zenon
  <2> QED
    BY <1>1, <2>4, ScheduleStep DEF SchedInv, TaskStatus
<1>3. CASE ticks[cur] # 0
  <2>1. ticks' = [ticks EXCEPT ![cur] = @ - 1] /\ UNCHANGED <<cur, ready, status>>
    BY <1>3 DEF SchedTimer, intr_timer_handler
  <2>2. ThreadTypeOK'
    BY <1>1, <1>3, <2>1 DEF SchedInv, ThreadTypeOK
  <2> QED
    BY <2>1, <2>2 DEF SchedInv, ReadyIffRunnable
<1> QED
  BY <1>2, <1>3

\* The scheduler's invariant, for every instance.
THEOREM SchedInvariant == SchedSpec => []SchedInv
<1>1. SchedInit => SchedInv
  <2> SUFFICES ASSUME SchedInit PROVE SchedInv
    OBVIOUS
  <2>1. ThreadTypeOK /\ Linked(ready) /\ cur \notin Range(ready)
    BY BootLinked DEF SchedInit, ThreadTypeOK
  <2>2. ReadyIffRunnable /\ status[Idle] = "READY"
    BY BootAssumption DEF SchedInit, ThreadInit, ReadyIffRunnable
  <2> QED
    BY <2>1, <2>2 DEF SchedInv
<1>2. SchedInv /\ [SchedNext]_threadVars => SchedInv'
  <2> SUFFICES ASSUME SchedInv, [SchedNext]_threadVars PROVE SchedInv'
    OBVIOUS
  <2>0. halted \in BOOLEAN /\ cur \in Threads /\ Linked(ready)
    BY DEF SchedInv, ThreadTypeOK
  <2>1. ASSUME NEW state \in {"BLOCKED", "WAITING", "HANGING"}, Block(state) PROVE SchedInv'
    BY <2>0, <2>1, ScheduleStep DEF Block, thread_block, TaskStatus
  <2>2. ASSUME NEW t \in Threads, Wake(t) PROVE SchedInv'
    BY <2>0, <2>2, WakeStep DEF Wake
  <2>3. ASSUME NEW t \in Threads, WakeFromInterrupt(t) PROVE SchedInv'
    <3>1. halted' \in BOOLEAN
      BY <2>3, Zenon DEF WakeFromInterrupt, Interrupted
    <3> QED
      BY <2>3, <3>1, WakeStep DEF WakeFromInterrupt
  <2>4. CASE Yield
    <3>1. Linked(Append(ready, cur)) /\ Range(Append(ready, cur)) = Range(ready) \cup {cur}
      BY <2>0, AppendLinked DEF SchedInv
    <3> QED
      BY <2>0, <2>4, <3>1, ScheduleStep DEF Yield, thread_yield, TaskStatus
  <2>5. CASE ExitSelf
    <3>1. /\ Linked(RemoveFirst(ready, cur))
          /\ Range(RemoveFirst(ready, cur)) = Range(ready) \ {cur}
      BY <2>0, RemoveLinked
    <3>2. RemoveFirst(ready, cur) = ready
      BY <2>0, RangeIndex DEF SchedInv, RemoveFirst, Linked
    <3>3. schedule([status EXCEPT ![cur] = "DIED"], ready)
      BY <2>5, <3>2 DEF ExitSelf, thread_exit
    <3> QED
      BY <2>0, <2>5, <3>3, ScheduleStep DEF ExitSelf, TaskStatus
  <2>6. CASE idle
    BY <2>0, <2>6, ScheduleStep DEF idle, thread_block, TaskStatus
  <2>7. CASE UNCHANGED threadVars
    BY <2>7 DEF threadVars, SchedInv, ThreadTypeOK, ReadyIffRunnable, Linked
  <2> QED
    BY <2>1, <2>2, <2>3, <2>4, <2>5, <2>6, <2>7, StartStep, SchedReap, TimerStep DEF SchedNext
<1> QED
  BY <1>1, <1>2, PTL DEF SchedSpec

\* The state of the scheduler is always well typed.
THEOREM SchedulerTyped == SchedSpec => []ThreadTypeOK
<1>1. SchedInv => ThreadTypeOK
  BY DEF SchedInv
<1> QED
  BY <1>1, SchedInvariant, PTL

\* No runnable thread is lost and no other is queued, whatever calls of block,
\* unlock, yield, start, exit and the timer are made in whatever order.
THEOREM NoThreadLost == SchedSpec => []ReadyIffRunnable
<1>1. SchedInv => ReadyIffRunnable
  BY DEF SchedInv
<1> QED
  BY <1>1, SchedInvariant, PTL

\* schedule can always fall back on the idle thread: the assert of
\* thread_unlock does not fail there.
THEOREM IdleReady == SchedSpec => []IdleAvailable
<1>1. SchedInv => IdleAvailable
  <2> SUFFICES ASSUME SchedInv, ready = <<>>, cur # Idle PROVE status[Idle] = "BLOCKED"
    BY DEF IdleAvailable
  <2>1. Idle \in Threads \ {cur} /\ Idle \notin Range(ready)
    BY BootAssumption, RangeIndex DEF SchedInv, Linked
  <2> QED
    BY <2>1 DEF SchedInv, ReadyIffRunnable
<1> QED
  BY <1>1, SchedInvariant, PTL
=============================================================================
