----------------------------- MODULE AlarmProofs -----------------------------
(***************************************************************************)
(* The alarms of alarm.c are not forgotten: proofs for any alarms, expiry  *)
(* times and settings of the clock.  The first part is about the queues,   *)
(* sequences here, the second about the invariants of Alarm.               *)
(***************************************************************************)
EXTENDS Alarm, LoopLemmas, SequenceTheorems, TLAPS

-----------------------------------------------------------------------------
(***************************************************************************)
(* The queues.                                                             *)
(***************************************************************************)
LEMMA NodeTimes ==
  ASSUME AlarmAssumption, NEW e \in Nodes
  PROVE  e.expires \in Int /\ e.alarm \in Alarms
<1>1. e.expires \in Times /\ e.alarm \in Alarms
  BY DEF Nodes
<1>2. Times \subseteq Int
  BY DEF AlarmAssumption
<1> QED BY <1>1, <1>2

\* A queue holds nodes with their expiry times, the first at its head.
LEMMA QueueElements ==
  ASSUME AlarmAssumption, NEW q \in Seq(Nodes)
  PROVE  /\ Len(q) \in Nat /\ DOMAIN q = 1 .. Len(q)
         /\ \A k \in 1 .. Len(q) : q[k] \in Nodes /\ q[k].expires \in Int
         /\ q # <<>> => Len(q) >= 1 /\ Head(q) = q[1]
<1>1. Len(q) \in Nat /\ DOMAIN q = 1 .. Len(q) /\ \A k \in 1 .. Len(q) : q[k] \in Nodes
  BY ElementInSet
<1>2. \A e \in Nodes : e.expires \in Int
  BY NodeTimes
<1>3. q # <<>> => Len(q) >= 1 /\ Head(q) = q[1]
  OBVIOUS
<1> QED BY <1>1, <1>2, <1>3

\* There is a first alarm after a time, or all are before it.
LEMMA FirstAfterExact ==
  ASSUME AlarmAssumption, NEW q \in Seq(Nodes), NEW time \in Int
  PROVE  /\ FirstAfter(q, time) \in 1 .. Len(q) + 1
         /\ \A j \in 1 .. FirstAfter(q, time) - 1 : q[j].expires <= time
         /\ FirstAfter(q, time) <= Len(q) => q[FirstAfter(q, time)].expires > time
<1> DEFINE Later == {i \in 1 .. Len(q) : q[i].expires > time} \cup {Len(q) + 1}
<1>1. Len(q) \in Nat /\ \A k \in 1 .. Len(q) : q[k].expires \in Int
  BY QueueElements
<1>2. Later \in SUBSET Nat /\ Later # {}
  BY <1>1
<1>3. PICK x \in Later : \A y \in Later : x <= y
  BY <1>2, LeastElement
<1>4. x \in 1 .. Len(q) + 1 /\ (x <= Len(q) => q[x].expires > time)
  BY <1>1, <1>3
<1>5. ASSUME NEW j \in 1 .. x - 1
      PROVE  q[j].expires <= time
  <2>1. j \in 1 .. Len(q) /\ j < x
    BY <1>1, <1>4
  <2>2. j \notin Later
    BY <1>1, <1>3, <1>4, <2>1
  <2>3. ~ (q[j].expires > time)
    BY <2>1, <2>2
  <2> QED BY <1>1, <2>1, <2>3
<1> QED BY <1>4, <1>5, Zenon DEF FirstAfter

\* An alarm leaves its queue: the first one is none that is earlier.
LEMMA WithoutExact ==
  ASSUME AlarmAssumption, NEW q \in Seq(Nodes), Sorted(q), NEW a
  PROVE  /\ Without(q, a) \in Seq(Nodes) /\ Sorted(Without(q, a))
         /\ Without(q, a) # <<>> =>
              q # <<>> /\ Head(q).expires <= Head(Without(q, a)).expires
         /\ q # <<>> /\ Head(q).alarm # a => Without(q, a) # <<>> /\ Head(Without(q, a)) = Head(q)
<1>1. CASE ~ \E i \in DOMAIN q : q[i].alarm = a
  <2>1. Without(q, a) = q
    BY <1>1 DEF Without
  <2>2. q # <<>> => Head(q).expires <= Head(q).expires
    BY QueueElements
  <2> QED BY <2>1, <2>2
<1>2. CASE \E i \in DOMAIN q : q[i].alarm = a
  <2>1. PICK i \in DOMAIN q : q[i].alarm = a /\ Without(q, a) = RemoveAt(q, i)
    BY <1>2 DEF Without
  <2>2. Len(q) \in Nat /\ i \in 1 .. Len(q) /\ DOMAIN q = 1 .. Len(q)
    BY <2>1, QueueElements
  <2>3. PICK p : p = Without(q, a)
    OBVIOUS
  <2>4. /\ p \in Seq(Nodes) /\ Len(p) = Len(q) - 1
        /\ \A k \in 1 .. Len(q) - 1 : p[k] = IF k < i THEN q[k] ELSE q[k + 1]
    BY <2>1, <2>2, <2>3, Removed
  <2>5. DOMAIN p = 1 .. Len(q) - 1 /\ (p # <<>> => Len(p) >= 1 /\ Head(p) = p[1])
    BY <2>4, QueueElements
  <2>6. Sorted(p)
    <3>1. ASSUME NEW k \in 1 .. Len(q) - 1, NEW l \in 1 .. Len(q) - 1, k <= l
          PROVE  p[k].expires <= p[l].expires
      <4>1. PICK k2 \in 1 .. Len(q), l2 \in 1 .. Len(q) : p[k] = q[k2] /\ p[l] = q[l2] /\ k2 <= l2
        <5>1. k \in 1 .. Len(q) /\ k + 1 \in 1 .. Len(q) /\ l \in 1 .. Len(q) /\ l + 1 \in 1 .. Len(q)
          BY <2>2
        <5>2. CASE k < i /\ l < i
          BY <2>4, <3>1, <5>1, <5>2
        <5>3. CASE k < i /\ ~ (l < i)
          BY <2>2, <2>4, <3>1, <5>1, <5>3
        <5>4. CASE ~ (k < i) /\ ~ (l < i)
          BY <2>2, <2>4, <3>1, <5>1, <5>4
        <5> QED BY <2>2, <3>1, <5>2, <5>3, <5>4
      <4> QED BY <2>2, <4>1 DEF Sorted
    <3> QED BY <2>5, <3>1 DEF Sorted
  <2>7. p # <<>> => q # <<>> /\ Head(q).expires <= Head(p).expires
    <3> HAVE p # <<>>
    <3>1. 1 \in 1 .. Len(q) - 1 /\ 1 \in 1 .. Len(q) /\ 2 \in 1 .. Len(q) /\ q # <<>>
      BY <2>2, <2>4, <2>5
    <3>2. p[1] = q[1] \/ p[1] = q[2]
      BY <2>2, <2>4, <3>1
    <3>3. q[1].expires <= q[2].expires /\ q[1].expires <= q[1].expires
      BY <2>2, <3>1 DEF Sorted
    <3> QED BY <2>5, <3>1, <3>2, <3>3, QueueElements
  <2>8. q # <<>> /\ Head(q).alarm # a => p # <<>> /\ Head(p) = Head(q)
    <3> HAVE q # <<>> /\ Head(q).alarm # a
    <3>1. Head(q) = q[1] /\ i # 1
      BY <2>1, QueueElements
    <3>2. 1 \in 1 .. Len(q) - 1 /\ 1 < i
      BY <2>2, <3>1
    <3>3. p[1] = q[1] /\ p # <<>>
      BY <2>2, <2>4, <3>2
    <3> QED BY <2>5, <3>1, <3>3
  <2> QED BY <2>3, <2>4, <2>6, <2>7, <2>8
<1> QED BY <1>1, <1>2

\* An alarm is put in its place: the first one is the new one or stays.
LEMMA PlaceExact ==
  ASSUME AlarmAssumption, NEW q \in Seq(Nodes), Sorted(q), NEW e \in Nodes
  PROVE  /\ Place(q, e) \in Seq(Nodes) /\ Sorted(Place(q, e)) /\ Place(q, e) # <<>>
         /\ Head(Place(q, e)) # e => q # <<>> /\ Head(Place(q, e)) = Head(q)
<1>1. Len(q) \in Nat /\ DOMAIN q = 1 .. Len(q) /\ e.expires \in Int
      /\ \A k \in 1 .. Len(q) : q[k].expires \in Int
  BY QueueElements, NodeTimes
<1>2. PICK i \in 1 .. Len(q) + 1 :
        /\ i = FirstAfter(q, e.expires)
        /\ \A j \in 1 .. i - 1 : q[j].expires <= e.expires
        /\ i <= Len(q) => q[i].expires > e.expires
  BY <1>1, FirstAfterExact
<1>3. PICK p : p = Place(q, e)
  OBVIOUS
<1>4. /\ p \in Seq(Nodes) /\ Len(p) = Len(q) + 1
      /\ \A k \in 1 .. Len(q) + 1 : p[k] = IF k < i THEN q[k] ELSE IF k = i THEN e ELSE q[k - 1]
  <2>1. p = InsertAt(q, i, e)
    BY <1>2, <1>3 DEF Place
  <2>2. i \in 1 .. Len(q) + 1
    BY <1>2
  <2>3. InsertAt(q, i, e) \in Seq(Nodes)
    BY <2>2, Inserted
  <2>4. Len(InsertAt(q, i, e)) = Len(q) + 1
    BY <2>2, Inserted
  <2>5. ASSUME NEW k \in 1 .. Len(q) + 1
        PROVE  InsertAt(q, i, e)[k] = IF k < i THEN q[k] ELSE IF k = i THEN e ELSE q[k - 1]
    BY <2>2, Inserted
  <2> QED BY <2>1, <2>3, <2>4, <2>5
<1>5. DOMAIN p = 1 .. Len(q) + 1 /\ p # <<>> /\ Head(p) = p[1]
  BY <1>1, <1>4, QueueElements
<1>6. \A j \in 1 .. Len(q) : /\ j < i => q[j].expires <= e.expires
                             /\ j >= i => q[j].expires > e.expires
  <2> TAKE j \in 1 .. Len(q)
  <2>1. j < i => q[j].expires <= e.expires
    BY <1>1, <1>2
  <2>2. ASSUME j >= i PROVE q[j].expires > e.expires
    <3>1. i \in 1 .. Len(q) /\ i <= j
      BY <1>1, <1>2, <2>2
    <3>2. q[i].expires <= q[j].expires
      BY <1>1, <3>1 DEF Sorted
    <3> QED BY <1>1, <1>2, <3>1, <3>2
  <2> QED BY <2>1, <2>2
<1>7. Sorted(p)
  <2>1. ASSUME NEW k \in 1 .. Len(q) + 1, NEW l \in 1 .. Len(q) + 1, k < l
        PROVE  p[k].expires <= p[l].expires
    <3>1. CASE k < i /\ l < i
      <4>1. k \in 1 .. Len(q) /\ l \in 1 .. Len(q) /\ k <= l /\ p[k] = q[k] /\ p[l] = q[l]
        BY <1>1, <1>2, <1>4, <2>1, <3>1
      <4> QED BY <1>1, <4>1 DEF Sorted
    <3>2. CASE k < i /\ l = i
      <4>1. k \in 1 .. Len(q) /\ p[k] = q[k] /\ p[l] = e
        BY <1>1, <1>2, <1>4, <3>2
      <4> QED BY <1>6, <3>2, <4>1
    <3>3. CASE k < i /\ l > i
      <4>1. k \in 1 .. Len(q) /\ l - 1 \in 1 .. Len(q) /\ k <= l - 1 /\ p[k] = q[k] /\ p[l] = q[l - 1]
        BY <1>1, <1>2, <1>4, <2>1, <3>3
      <4> QED BY <1>1, <4>1 DEF Sorted
    <3>4. CASE k = i
      <4>1. l - 1 \in 1 .. Len(q) /\ l - 1 >= i /\ p[k] = e /\ p[l] = q[l - 1]
        BY <1>1, <1>2, <1>4, <2>1, <3>4
      <4> QED BY <1>1, <1>6, <4>1
    <3>5. CASE k > i
      <4>1. k - 1 \in 1 .. Len(q) /\ l - 1 \in 1 .. Len(q) /\ k - 1 <= l - 1
            /\ p[k] = q[k - 1] /\ p[l] = q[l - 1]
        BY <1>1, <1>2, <1>4, <2>1, <3>5
      <4> QED BY <1>1, <4>1 DEF Sorted
    <3> QED BY <1>1, <1>2, <2>1, <3>1, <3>2, <3>3, <3>4, <3>5
  <2>2. ASSUME NEW k \in 1 .. Len(q) + 1
        PROVE  p[k].expires <= p[k].expires
    <3>1. k \in 1 .. Len(p)
      BY <1>4
    <3>2. p[k].expires \in Int
      BY <1>4, <3>1, QueueElements
    <3> QED BY <3>2
  <2>3. \A k, l \in 1 .. Len(q) + 1 : k <= l => k < l \/ k = l
    BY <1>1
  <2> QED BY <1>5, <2>1, <2>2, <2>3 DEF Sorted
<1>8. Head(p) # e => q # <<>> /\ Head(p) = Head(q)
  <2> HAVE Head(p) # e
  <2>1. 1 \in 1 .. Len(q) + 1 /\ i # 1
    BY <1>1, <1>2, <1>4, <1>5
  <2>2. 1 < i /\ Len(q) >= 1
    BY <1>1, <1>2, <2>1
  <2>3. p[1] = q[1] /\ q # <<>>
    BY <1>1, <1>4, <2>1, <2>2
  <2> QED BY <1>5, <2>3, QueueElements
<1> QED BY <1>3, <1>4, <1>5, <1>7, <1>8

\* The alarms that are due leave the queue.
LEMMA DueGone ==
  ASSUME AlarmAssumption, NEW q \in Seq(Nodes), Sorted(q), NEW time \in Int
  PROVE  LET p == SubSeq(q, FirstAfter(q, time), Len(q)) IN p \in Seq(Nodes) /\ Sorted(p)
<1>1. Len(q) \in Nat /\ DOMAIN q = 1 .. Len(q)
  BY QueueElements
<1>2. PICK i \in 1 .. Len(q) + 1 : i = FirstAfter(q, time)
  BY FirstAfterExact
<1>3. PICK p : p = SubSeq(q, i, Len(q))
  OBVIOUS
<1>4. /\ p \in Seq(Nodes) /\ Len(p) = Len(q) - i + 1
      /\ \A k \in 1 .. Len(q) - i + 1 : p[k] = q[i + k - 1]
  BY <1>2, <1>3, Suffix
<1>5. DOMAIN p = 1 .. Len(q) - i + 1
  BY <1>4, QueueElements
<1>6. ASSUME NEW k \in 1 .. Len(q) - i + 1, NEW l \in 1 .. Len(q) - i + 1, k <= l
      PROVE  p[k].expires <= p[l].expires
  <2>1. i + k - 1 \in 1 .. Len(q) /\ i + l - 1 \in 1 .. Len(q) /\ i + k - 1 <= i + l - 1
    BY <1>1, <1>2, <1>6
  <2> QED BY <1>1, <1>4, <2>1 DEF Sorted
<1> QED BY <1>2, <1>3, <1>4, <1>5, <1>6 DEF Sorted
-----------------------------------------------------------------------------
(***************************************************************************)
(* Types and order of the queues.                                          *)
(***************************************************************************)
LEMMA TypeSets ==
  /\ WakeupTypes \subseteq Types /\ WallTypes \subseteq Types /\ ElapsedTypes \subseteq Types
  /\ SYSTEMTIME \in Types /\ SYSTEMTIME \notin WakeupTypes
  /\ SYSTEMTIME \notin WallTypes /\ SYSTEMTIME \notin ElapsedTypes
  /\ \A t \in WallTypes : t \notin ElapsedTypes
  /\ RTC_WAKEUP \in WakeupTypes /\ ELAPSED_REALTIME_WAKEUP \in WakeupTypes
  /\ RTC_WAKEUP # ELAPSED_REALTIME_WAKEUP
  /\ \A t \in WakeupTypes : t = RTC_WAKEUP \/ t = ELAPSED_REALTIME_WAKEUP
  /\ ELAPSED_REALTIME \in ElapsedTypes /\ WallTypes \subseteq StoppedTypes
  /\ \A t \in StoppedTypes : t \in Types /\ t # SYSTEMTIME
  /\ \A t \in Types : t \in StoppedTypes \/ t = SYSTEMTIME
BY DEF Types, StoppedTypes, WakeupTypes, WallTypes, ElapsedTypes, RTC_WAKEUP, RTC, ELAPSED_REALTIME_WAKEUP,
   ELAPSED_REALTIME, SYSTEMTIME

\* Switching a timer on or off leaves its time.
LEMMA TimerOff ==
  ASSUME NEW x \in Timers, NEW b \in BOOLEAN
  PROVE  /\ [x EXCEPT !.set = b] \in Timers
         /\ [x EXCEPT !.set = b].at = x.at /\ x.at \in Int /\ [x EXCEPT !.set = b].set = b
BY DEF Timers

\* The delta of a type is a number.
LEMMA DeltaNumber ==
  ASSUME NEW t, NEW d \in Int
  PROVE  DeltaOf(t, d) \in Int
BY DEF DeltaOf

\* update_timer_locked sets the timer for the first alarm, or skips the type.
LEMMA TimerUpdated ==
  ASSUME AlarmAssumption, NEW t, NEW x \in Timers, NEW q, q[t] \in Seq(Nodes),
         NEW d \in Int, NEW st, NEW susp
  PROVE  /\ TimerAfter(t, x, q, d, st, susp) \in Timers
         /\ ~ Skipped(t, q, st, susp) =>
              /\ TimerAfter(t, x, q, d, st, susp).set
              /\ TimerAfter(t, x, q, d, st, susp).at = DeltaOf(t, d) + Head(q[t]).expires
         /\ Skipped(t, q, st, susp) => TimerAfter(t, x, q, d, st, susp) = x
<1>1. CASE Skipped(t, q, st, susp)
  BY <1>1 DEF TimerAfter
<1>2. CASE ~ Skipped(t, q, st, susp)
  <2>1. TimerAfter(t, x, q, d, st, susp) = [set |-> TRUE, at |-> DeltaOf(t, d) + Head(q[t]).expires]
    BY <1>2 DEF TimerAfter
  <2>2. q[t] # <<>>
    BY <1>2 DEF Skipped
  <2>3. PICK n : n = DeltaOf(t, d) + Head(q[t]).expires
    OBVIOUS
  <2>4. n \in Int
    <3>1. Head(q[t]).expires \in Int
      BY <2>2, QueueElements
    <3> QED BY <2>3, <3>1, DeltaNumber
  <2>5. [set |-> TRUE, at |-> n] \in Timers
    BY <2>4 DEF Timers
  <2> QED BY <1>2, <2>1, <2>3, <2>5
<1> QED BY <1>1, <1>2

\* What alarm_start, alarm_try_to_cancel and a timer interrupt have in common: one
\* queue changes, and either update_timer_locked runs or the first alarm is none
\* that is earlier.
QueueStep(t) ==
  \E p \in Seq(Nodes), x \in Timers :
    /\ pm # "asleep" /\ Sorted(p) /\ queue' = [queue EXCEPT ![t] = p]
    /\ \/ /\ timer' = [timer EXCEPT ![t] = TimerAfter(t, x, queue', delta, stopped, suspended)]
          /\ \E h \in BOOLEAN : rtc_lock' = LockAfter(t, queue', stopped, suspended, h)
       \/ /\ UNCHANGED <<timer, rtc_lock>>
          /\ p # <<>> => queue[t] # <<>> /\ Head(queue[t]).expires <= Head(p).expires
    /\ UNCHANGED <<clocks, delta, stopped, pmVars, setting, IS_SYNC_NETWORK>>

\* What the invariants say of one type.
LEMMA OneType ==
  ASSUME AlarmTypeOK, QueuesSorted, NEW t \in Types
  PROVE  queue[t] \in Seq(Nodes) /\ Sorted(queue[t]) /\ timer[t] \in Timers
BY DEF AlarmTypeOK, QueuesSorted

\* alarm_start enqueues the alarm and re-arms the timer of its type only.
LEMMA StartIsQueueStep ==
  ASSUME AlarmAssumption, AlarmTypeOK, QueuesSorted,
         NEW a \in Alarms, NEW e \in Times, alarm_start(a, e)
  PROVE  QueueStep(Type[a])
<1>1. PICK t \in Types : t = Type[a]
  BY DEF AlarmAssumption
<1>2. PICK n \in Nodes : n = [alarm |-> a, expires |-> e]
  BY DEF Nodes
<1>3. PICK o : o = Without(queue[t], a)
  OBVIOUS
<1>4. /\ queue[t] \in Seq(Nodes) /\ Sorted(queue[t]) /\ timer[t] \in Timers
      /\ o \in Seq(Nodes) /\ Sorted(o)
      /\ o # <<>> => queue[t] # <<>> /\ Head(queue[t]).expires <= Head(o).expires
  BY <1>1, <1>3, OneType, WithoutExact
<1>5. PICK p : p = Place(o, n)
  OBVIOUS
<1>6. /\ p \in Seq(Nodes) /\ Sorted(p) /\ p # <<>>
      /\ Head(p) # n => o # <<>> /\ Head(p) = Head(o)
  BY <1>2, <1>4, <1>5, PlaceExact
<1>7. queue' = [queue EXCEPT ![t] = p] /\ queue'[t] = p
  BY <1>1, <1>2, <1>3, <1>5 DEF alarm_start, AlarmTypeOK
<1>8. pm # "asleep" /\ UNCHANGED <<clocks, delta, stopped, pmVars, setting, IS_SYNC_NETWORK>>
  BY DEF alarm_start
<1>9. CASE Head(p).alarm = a
  <2>1. /\ timer' = [timer EXCEPT ![t] = TimerAfter(t, timer[t], queue', delta, stopped, suspended)]
        /\ rtc_lock' = LockAfter(t, queue', stopped, suspended, FALSE)
    BY <1>1, <1>7, <1>9 DEF alarm_start
  <2> QED BY <1>1, <1>4, <1>6, <1>7, <1>8, <2>1, Zenon DEF QueueStep
<1>10. CASE Head(p).alarm # a
  <2>1. UNCHANGED <<timer, rtc_lock>>
    BY <1>1, <1>7, <1>10 DEF alarm_start
  <2>2. Head(p) # n
    BY <1>2, <1>10
  <2>3. queue[t] # <<>> /\ Head(queue[t]).expires <= Head(p).expires
    BY <1>4, <1>6, <2>2
  <2> QED BY <1>1, <1>4, <1>6, <1>7, <1>8, <2>1, <2>3, Zenon DEF QueueStep
<1> QED BY <1>9, <1>10

\* alarm_try_to_cancel takes the alarm out and re-arms the timer of its type only.
LEMMA CancelIsQueueStep ==
  ASSUME AlarmAssumption, AlarmTypeOK, QueuesSorted, NEW a \in Alarms, alarm_try_to_cancel(a)
  PROVE  QueueStep(Type[a])
<1>1. PICK t \in Types : t = Type[a]
  BY DEF AlarmAssumption
<1>2. PICK p : p = Without(queue[t], a)
  OBVIOUS
<1>3. /\ queue[t] \in Seq(Nodes) /\ Sorted(queue[t]) /\ timer[t] \in Timers
      /\ p \in Seq(Nodes) /\ Sorted(p)
      /\ p # <<>> => queue[t] # <<>> /\ Head(queue[t]).expires <= Head(p).expires
  BY <1>1, <1>2, OneType, WithoutExact
<1>4. queue' = [queue EXCEPT ![t] = p]
  BY <1>1, <1>2 DEF alarm_try_to_cancel
<1>5. pm # "asleep" /\ UNCHANGED <<clocks, delta, stopped, pmVars, setting, IS_SYNC_NETWORK>>
  BY DEF alarm_try_to_cancel
<1>6. CASE Head(queue[t]).alarm = a
  <2>1. /\ timer' = [timer EXCEPT ![t] = TimerAfter(t, timer[t], queue', delta, stopped, suspended)]
        /\ rtc_lock' = LockAfter(t, queue', stopped, suspended, TRUE)
    BY <1>1, <1>6 DEF alarm_try_to_cancel
  <2> QED BY <1>1, <1>3, <1>4, <1>5, <2>1, Zenon DEF QueueStep
<1>7. CASE Head(queue[t]).alarm # a
  <2>1. UNCHANGED <<timer, rtc_lock>>
    BY <1>1, <1>7 DEF alarm_try_to_cancel
  <2> QED BY <1>1, <1>3, <1>4, <1>5, <2>1, Zenon DEF QueueStep
<1> QED BY <1>6, <1>7

\* alarm_timer_triggered takes the alarms that are due and re-arms the timer of its
\* type only.
LEMMA TriggerIsQueueStep ==
  ASSUME AlarmAssumption, AlarmTypeOK, QueuesSorted, NEW t \in Types, alarm_timer_triggered(t)
  PROVE  QueueStep(t)
<1>1. PICK p : p = SubSeq(queue[t], FirstAfter(queue[t], Now(t)), Len(queue[t]))
  OBVIOUS
<1>2. Now(t) \in Int
  BY DeltaNumber DEF Now, Clock, AlarmTypeOK, Settings
<1>3. queue[t] \in Seq(Nodes) /\ Sorted(queue[t]) /\ timer[t] \in Timers
  BY OneType
<1>4. p \in Seq(Nodes) /\ Sorted(p)
  BY <1>1, <1>2, <1>3, DueGone
<1>5. PICK x \in Timers : x = [timer[t] EXCEPT !.set = FALSE]
  BY <1>3, TimerOff
<1>6. queue' = [queue EXCEPT ![t] = p]
  BY <1>1 DEF alarm_timer_triggered
<1>7. /\ timer' = [timer EXCEPT ![t] = TimerAfter(t, x, queue', delta, stopped, suspended)]
      /\ rtc_lock' = LockAfter(t, queue', stopped, suspended, TRUE)
  BY <1>5 DEF alarm_timer_triggered
<1>8. pm # "asleep" /\ UNCHANGED <<clocks, delta, stopped, pmVars, setting, IS_SYNC_NETWORK>>
  BY DEF alarm_timer_triggered
<1> QED BY <1>4, <1>5, <1>6, <1>7, <1>8, Zenon DEF QueueStep

\* A step on one queue keeps the types, and the queues in the order of their expiry.
LEMMA QueueStepTypes ==
  ASSUME AlarmAssumption, AlarmTypeOK, QueuesSorted, NEW t \in Types, QueueStep(t)
  PROVE  AlarmTypeOK' /\ QueuesSorted'
<1>1. PICK p \in Seq(Nodes), x \in Timers :
        /\ Sorted(p) /\ queue' = [queue EXCEPT ![t] = p]
        /\ \/ /\ timer' = [timer EXCEPT ![t] = TimerAfter(t, x, queue', delta, stopped, suspended)]
              /\ \E h \in BOOLEAN : rtc_lock' = LockAfter(t, queue', stopped, suspended, h)
           \/ UNCHANGED <<timer, rtc_lock>>
        /\ UNCHANGED <<clocks, delta, stopped, pmVars, setting, IS_SYNC_NETWORK>>
  BY DEF QueueStep
<1>2. queue' \in [Types -> Seq(Nodes)] /\ queue'[t] = p
  BY <1>1 DEF AlarmTypeOK
<1>3. \A u \in Types : u # t => queue'[u] = queue[u]
  BY <1>1 DEF AlarmTypeOK
<1>4. QueuesSorted'
  BY <1>1, <1>2, <1>3 DEF QueuesSorted
<1>5. TimerAfter(t, x, queue', delta, stopped, suspended) \in Timers
  <2>1. delta \in Int /\ queue'[t] \in Seq(Nodes)
    BY <1>2 DEF AlarmTypeOK
  <2>2. \A q : q[t] \in Seq(Nodes) => TimerAfter(t, x, q, delta, stopped, suspended) \in Timers
    BY <1>1, <2>1, TimerUpdated
  <2> QED BY <2>1, <2>2
<1>6. timer' \in [Types -> Timers]
  BY <1>1, <1>5 DEF AlarmTypeOK
<1>7. rtc_lock' \in {"free", "held", "timed"}
  BY <1>1 DEF AlarmTypeOK, LockAfter
<1> QED BY <1>1, <1>2, <1>4, <1>6, <1>7 DEF AlarmTypeOK, clocks, pmVars

\* The timers of a stop, of a restart and of a suspend.
LEMMA StoppedTimers ==
  ASSUME AlarmTypeOK
  PROVE  [t \in Types |-> IF t = SYSTEMTIME THEN timer[t] ELSE [timer[t] EXCEPT !.set = FALSE]]
           \in [Types -> Timers]
BY TimerOff DEF AlarmTypeOK

\* update_timer_locked leaves a timer.
LEMMA UpdatedTimer ==
  ASSUME AlarmAssumption, AlarmTypeOK, NEW t \in Types, NEW d \in Int, NEW st, NEW susp
  PROVE  TimerAfter(t, timer[t], queue, d, st, susp) \in Timers /\ timer[t] \in Timers
<1>1. queue[t] \in Seq(Nodes) /\ timer[t] \in Timers
  BY DEF AlarmTypeOK
<1> QED BY <1>1, TimerUpdated

\* A setting of the clock moves on.
LEMMA SettingMoves ==
  ASSUME NEW x \in Settings,
         NEW v \in {"idle", "stopped", "set", "failed", "rtc", "err", "auto"}
  PROVE  LET y == [x EXCEPT !.pc = v] IN
         y \in Settings /\ y.pc = v /\ y.by = x.by /\ y.new = x.new /\ y.old = x.old
BY DEF Settings

\* The start of alarm_set_rtc: the timers of the wall clock are cancelled and the delta
\* is moved by the jump the clock is about to make.
LEMMA StopTypes ==
  ASSUME AlarmTypeOK, NEW new \in Int, NEW by \in {"user", "tod", "suspend", "auto"},
         StopQueues(new, by)
  PROVE  /\ setting' \in Settings /\ rtc_lock' = "held" /\ stopped' = TRUE
         /\ timer' \in [Types -> Timers] /\ delta' \in Int /\ delta' = delta - (wall - new)
         /\ setting'.pc = "stopped" /\ setting'.by = by /\ setting'.new = new
         /\ timer'[SYSTEMTIME] = timer[SYSTEMTIME]
<1>1. wall \in Int /\ delta \in Int
  BY DEF AlarmTypeOK
<1>2. setting' \in Settings
  BY <1>1 DEF StopQueues, Settings
<1>3. timer' \in [Types -> Timers]
  BY StoppedTimers DEF StopQueues
<1>4. timer'[SYSTEMTIME] = timer[SYSTEMTIME]
  BY TypeSets DEF StopQueues
<1>5. /\ rtc_lock' = "held" /\ stopped' = TRUE
      /\ setting'.pc = "stopped" /\ setting'.by = by /\ setting'.new = new
  BY DEF StopQueues
<1>6. delta' \in Int /\ delta' = delta - (wall - new)
  BY <1>1 DEF StopQueues
<1> QED BY <1>2, <1>3, <1>4, <1>5, <1>6

\* The steps that are not on one queue keep the types.
LEMMA OtherTypes ==
  ASSUME AlarmAssumption, AlarmTypeOK,
         \/ \E new \in Times : alarm_set_rtc(new) \/ tod_update(new)
         \/ set_auto \/ set_manual \/ SettingStep \/ alarm_suspend \/ SuspendStep
         \/ sleep \/ (\E by_rtc \in BOOLEAN : wakeup(by_rtc))
         \/ rtc_lock_expires \/ Tick
  PROVE  AlarmTypeOK'
<1> USE DEF clocks, queues, pmVars
<1>1. Times \subseteq Int /\ MaxElapsed \in Nat
  BY DEF AlarmAssumption
<1>2. ASSUME NEW new \in Times, alarm_set_rtc(new) PROVE AlarmTypeOK'
  <2>1. StopQueues(new, "user")
    BY <1>2 DEF alarm_set_rtc
  <2> QED BY <1>1, <1>2, <2>1, StopTypes DEF alarm_set_rtc, AlarmTypeOK
<1>3. ASSUME NEW new \in Times, tod_update(new) PROVE AlarmTypeOK'
  <2>1. CASE StopQueues(new, "tod") /\ UNCHANGED wall
    BY <1>1, <1>3, <2>1, StopTypes DEF tod_update, AlarmTypeOK
  <2>2. CASE wall' = new /\ UNCHANGED <<setting, delta, stopped, timer, rtc_lock>>
    BY <1>1, <1>3, <2>2 DEF tod_update, AlarmTypeOK
  <2> QED BY <1>3, <2>1, <2>2 DEF tod_update
<1>4. ASSUME NEW by \in {"suspend", "auto"}, rtc_hctosys(by)
      PROVE  /\ setting' \in Settings /\ rtc_lock' \in {"free", "held", "timed"}
             /\ stopped' \in BOOLEAN /\ timer' \in [Types -> Timers] /\ delta' \in Int /\ wall' \in Int
  <2>1. CASE StopQueues(rtc, by) /\ UNCHANGED wall
    BY <2>1, StopTypes DEF AlarmTypeOK
  <2>2. CASE /\ wall' = rtc /\ UNCHANGED <<delta, stopped, timer, rtc_lock>>
             /\ setting' = IF by = "auto" THEN [pc |-> "auto", new |-> rtc, by |-> by, old |-> wall]
                           ELSE NoSetting
    <3>1. setting' \in Settings
      BY <2>2 DEF AlarmTypeOK, Settings, NoSetting
    <3> QED BY <2>2, <3>1 DEF AlarmTypeOK
  <2> QED BY <1>4, <2>1, <2>2 DEF rtc_hctosys
<1>5. CASE set_auto
  BY <1>4, <1>5 DEF set_auto, AlarmTypeOK
<1>6. CASE set_manual
  BY <1>6 DEF set_manual, AlarmTypeOK
<1>7. ASSUME NEW fails \in BOOLEAN, do_settimeofday(fails) PROVE AlarmTypeOK'
  <2>1. setting \in Settings /\ setting.new \in Int
    BY DEF AlarmTypeOK, Settings
  <2>2. setting' \in Settings
    BY <1>7, <2>1, SettingMoves DEF do_settimeofday
  <2> QED BY <1>7, <2>1, <2>2 DEF do_settimeofday, AlarmTypeOK
<1>8. CASE restart_queues
  <2>1. setting' \in Settings
    BY <1>8, SettingMoves DEF restart_queues, AlarmTypeOK
  <2>2. timer' \in [Types -> Timers]
    <3>1. delta \in Int
      BY DEF AlarmTypeOK
    <3>2. \A t \in Types : /\ TimerAfter(t, timer[t], queue, delta, FALSE, suspended) \in Timers
                           /\ timer[t] \in Timers
      BY <3>1, UpdatedTimer
    <3> QED BY <1>8, <3>2 DEF restart_queues
  <2>3. rtc_lock' \in {"free", "held", "timed"}
    BY <1>8 DEF restart_queues, LockAfterAll, AlarmTypeOK
  <2> QED BY <1>8, <2>1, <2>2, <2>3 DEF restart_queues, AlarmTypeOK
<1>9. CASE set_auto_update
  <2>1. setting \in Settings /\ setting.old \in Int
    BY DEF AlarmTypeOK, Settings
  <2>2. delta' \in Int /\ setting' \in Settings
    BY <1>9, <2>1 DEF set_auto_update, update_elapsed_rtc, NoSetting, Settings, AlarmTypeOK
  <2> QED BY <1>9, <2>2 DEF set_auto_update, AlarmTypeOK
<1>10. ASSUME NEW fails \in BOOLEAN, set_rtc_end(fails) PROVE AlarmTypeOK'
  <2>1. setting \in Settings /\ setting.new \in Int
    BY DEF AlarmTypeOK, Settings
  <2>2. NoSetting \in Settings
    BY DEF NoSetting, Settings
  <2>3. IS_SYNC_NETWORK' \in BOOLEAN
    BY <1>10, Zenon DEF set_rtc_end, AlarmTypeOK
  <2> QED BY <1>10, <2>1, <2>2, <2>3 DEF set_rtc_end, AlarmTypeOK
<1>11. CASE alarm_suspend
  BY <1>4, <1>11 DEF alarm_suspend, AlarmTypeOK
<1>12. CASE alarm_suspend_stop
  <2>1. ASSUME NEW t \in Types
        PROVE  [timer[t] EXCEPT !.set = @ /\ t \notin Cancelled] \in Timers
    <3>1. timer[t] \in Timers
      BY DEF AlarmTypeOK
    <3>2. (timer[t].set /\ t \notin Cancelled) \in BOOLEAN
      BY Zenon
    <3> QED BY <3>1, <3>2, TimerOff
  <2>2. timer' \in [Types -> Timers]
    BY <1>12, <2>1 DEF alarm_suspend_stop
  <2> QED BY <1>12, <2>2 DEF alarm_suspend_stop, AlarmTypeOK
<1>13. ASSUME NEW d \in Int, RestartWakeups(d) PROVE timer' \in [Types -> Timers]
  <2>1. \A t \in Types : /\ TimerAfter(t, timer[t], queue, d, stopped, FALSE) \in Timers
                         /\ timer[t] \in Timers
    BY UpdatedTimer
  <2> QED BY <1>13, <2>1 DEF RestartWakeups
<1>14. CASE alarm_suspend_rtc
  <2>1. timer' \in [Types -> Timers]
    BY <1>13, <1>14 DEF alarm_suspend_rtc, AlarmTypeOK
  <2>2. rtc_alarm' \in Timers
    <3>1. wakeup_queue \in Types
      BY TypeSets DEF wakeup_queue
    <3>2. timer[wakeup_queue].at \in Int
      BY <3>1, TimerOff DEF AlarmTypeOK
    <3>3. PICK n \in Int : n = timer[wakeup_queue].at - (wall - rtc)
      BY <3>2 DEF AlarmTypeOK
    <3>4. [set |-> TRUE, at |-> n] \in Timers /\ NoTime \in Timers
      BY <3>3 DEF Timers, NoTime
    <3> QED BY <1>14, <3>3, <3>4 DEF alarm_suspend_rtc, AlarmTypeOK
  <2> QED BY <1>14, <2>1, <2>2 DEF alarm_suspend_rtc, AlarmTypeOK
<1>15. CASE alarm_resume
  <2>1. delta' \in Int
    BY <1>15 DEF alarm_resume, update_elapsed_rtc, AlarmTypeOK
  <2>2. timer' \in [Types -> Timers]
    BY <1>13, <1>15, <2>1 DEF alarm_resume
  <2>3. NoTime \in Timers
    BY DEF NoTime, Timers
  <2> QED BY <1>15, <2>1, <2>2, <2>3 DEF alarm_resume, AlarmTypeOK
<1>16. CASE sleep \/ rtc_lock_expires \/ \E by_rtc \in BOOLEAN : wakeup(by_rtc)
  BY <1>16 DEF sleep, wakeup, rtc_lock_expires, AlarmTypeOK
<1>17. CASE Tick
  BY <1>1, <1>17 DEF Tick, AlarmTypeOK
<1>18. (SetFails /\ setting.by = "user") \in BOOLEAN
  BY Zenon
<1> QED BY <1>2, <1>3, <1>5, <1>6, <1>7, <1>8, <1>9, <1>10, <1>11, <1>12, <1>14, <1>15, <1>16,
           <1>17, <1>18 DEF SettingStep, SuspendStep
\* What does not touch the queues.
OtherStep ==
  \/ \E new \in Times : alarm_set_rtc(new) \/ tod_update(new)
  \/ set_auto \/ set_manual \/ SettingStep \/ alarm_suspend \/ SuspendStep
  \/ sleep \/ (\E by_rtc \in BOOLEAN : wakeup(by_rtc))
  \/ rtc_lock_expires \/ Tick

\* They leave every queue as it is.
LEMMA OtherQueues ==
  ASSUME OtherStep
  PROVE  queue' = queue
BY DEF OtherStep, alarm_set_rtc, tod_update, set_auto, set_manual, SettingStep, alarm_suspend,
       SuspendStep, sleep, wakeup, rtc_lock_expires, Tick, do_settimeofday, restart_queues,
       set_auto_update, set_rtc_end, alarm_suspend_stop, alarm_suspend_rtc, alarm_resume, queues

\* A step is one of a queue, another one, or none.
LEMMA StepKinds ==
  ASSUME AlarmAssumption, AlarmTypeOK, QueuesSorted, [AlarmNext]_alarmVars
  PROVE  \/ \E a \in Alarms : QueueStep(Type[a])
         \/ \E t \in Types : alarm_timer_triggered(t) /\ QueueStep(t)
         \/ OtherStep
         \/ UNCHANGED alarmVars
<1>1. CASE \E a \in Alarms : alarm_try_to_cancel(a) \/ \E e \in Times : alarm_start(a, e)
  BY <1>1, CancelIsQueueStep, StartIsQueueStep
<1>2. CASE \E t \in Types : alarm_timer_triggered(t)
  BY <1>2, TriggerIsQueueStep
<1> QED BY <1>1, <1>2, Zenon DEF AlarmNext, OtherStep

\* At first the queues are empty.
LEMMA TypesInit ==
  ASSUME AlarmAssumption, AlarmInit
  PROVE  AlarmTypeOK /\ QueuesSorted
<1>1. wall \in Int /\ 0 \in 0 .. MaxElapsed
  BY DEF AlarmInit, AlarmAssumption
<1>2. NoTime \in Timers /\ NoSetting \in Settings
  BY DEF NoTime, Timers, NoSetting, Settings
<1>3. queue \in [Types -> Seq(Nodes)] /\ timer \in [Types -> Timers]
  BY <1>2 DEF AlarmInit
<1>4. QueuesSorted
  BY DEF AlarmInit, QueuesSorted, Sorted
<1>5. elapsed \in 0 .. MaxElapsed
  BY <1>1 DEF AlarmInit
<1>6. /\ stopped \in BOOLEAN /\ suspended \in BOOLEAN /\ IS_SYNC_NETWORK \in BOOLEAN
      /\ rtc_alarm \in Timers /\ setting \in Settings
  BY <1>2 DEF AlarmInit
<1> QED BY <1>1, <1>3, <1>4, <1>5, <1>6 DEF AlarmInit, AlarmTypeOK

\* Every step keeps the types and the order of the queues.
LEMMA TypesNext ==
  ASSUME AlarmAssumption, AlarmTypeOK, QueuesSorted, [AlarmNext]_alarmVars
  PROVE  AlarmTypeOK' /\ QueuesSorted'
<1>1. CASE \E t \in Types : QueueStep(t)
  BY <1>1, QueueStepTypes
<1>2. CASE OtherStep
  <2>1. AlarmTypeOK'
    BY <1>2, OtherTypes DEF OtherStep
  <2> QED BY <1>2, <2>1, OtherQueues DEF QueuesSorted
<1>3. CASE UNCHANGED alarmVars
  BY <1>3 DEF alarmVars, clocks, queues, pmVars, AlarmTypeOK, QueuesSorted
<1>4. \A a \in Alarms : Type[a] \in Types
  BY DEF AlarmAssumption
<1> QED BY <1>1, <1>2, <1>3, <1>4, StepKinds

-----------------------------------------------------------------------------
(***************************************************************************)
(* The timers.                                                             *)
(***************************************************************************)
\* The timer of a type need not be set.
Excused(t) == Skipped(t, queue, stopped, suspended)

\* Armed(t), unfolded now and after a step.
LEMMA ArmedMeans ==
  ASSUME NEW t \in Types
  PROVE  /\ Armed(t) <=> (~ Excused(t) => timer[t].set /\ NotLate(t))
         /\ Armed(t)' <=> (~ Excused(t)' => timer'[t].set /\ NotLate(t)')
BY DEF Armed, Excused, Skipped, NotLate

\* A step that leaves the timer, the queue and the delta of a type alone.
LEMMA ArmedStays ==
  ASSUME NEW t \in Types, Armed(t), queue' = queue, timer'[t] = timer[t],
         DeltaOf(t, delta') = DeltaOf(t, delta), Excused(t) => Excused(t)'
  PROVE  Armed(t)'
<1>1. NotLate(t)' <=> NotLate(t)
  BY DEF NotLate, DeltaOf
<1> QED BY <1>1, ArmedMeans

\* A step that updates it.
LEMMA ArmedUpdated ==
  ASSUME AlarmAssumption, AlarmTypeOK, AlarmTypeOK', NEW t \in Types, NEW x \in Timers,
         timer'[t] = TimerAfter(t, x, queue', delta', stopped', suspended')
  PROVE  Armed(t)'
<1>1. PICK q, d, st, susp : q = queue' /\ d = delta' /\ st = stopped' /\ susp = suspended'
  OBVIOUS
<1>2. q[t] \in Seq(Nodes) /\ d \in Int
  BY <1>1 DEF AlarmTypeOK
<1>3. ~ Skipped(t, q, st, susp) =>
        /\ TimerAfter(t, x, q, d, st, susp).set
        /\ TimerAfter(t, x, q, d, st, susp).at = DeltaOf(t, d) + Head(q[t]).expires
  BY <1>2, TimerUpdated
<1>4. q[t] # <<>> => DeltaOf(t, d) + Head(q[t]).expires \in Int
  BY <1>2, QueueElements, DeltaNumber
<1>5. ~ Skipped(t, q, st, susp) => q[t] # <<>>
  BY DEF Skipped
<1>6. Excused(t)' <=> Skipped(t, q, st, susp)
  BY <1>1 DEF Excused, Skipped
<1>7. ASSUME ~ Skipped(t, q, st, susp)
      PROVE  timer'[t].set /\ NotLate(t)'
  <2>1. timer'[t].set /\ timer'[t].at = DeltaOf(t, d) + Head(q[t]).expires
    BY <1>1, <1>3, <1>7
  <2>2. NotLate(t)' <=> timer'[t].at <= DeltaOf(t, d) + Head(q[t]).expires
    BY <1>1 DEF NotLate, DeltaOf
  <2> QED BY <1>4, <1>5, <1>7, <2>1, <2>2
<1> QED BY <1>6, <1>7, ArmedMeans

\* Starting, cancelling and calling alarms.
LEMMA QueueStepArmed ==
  ASSUME AlarmAssumption, AlarmTypeOK, QueuesSorted, NEW t \in Types, QueueStep(t),
         NEW u \in Types, Armed(u)
  PROVE  Armed(u)'
<1>1. PICK p \in Seq(Nodes), x \in Timers :
        /\ Sorted(p) /\ queue' = [queue EXCEPT ![t] = p]
        /\ \/ timer' = [timer EXCEPT ![t] = TimerAfter(t, x, queue', delta, stopped, suspended)]
           \/ /\ UNCHANGED timer
              /\ p # <<>> => queue[t] # <<>> /\ Head(queue[t]).expires <= Head(p).expires
        /\ UNCHANGED <<clocks, delta, stopped, pmVars, setting, IS_SYNC_NETWORK>>
  BY DEF QueueStep
<1>2. delta' = delta /\ stopped' = stopped /\ suspended' = suspended
  BY <1>1 DEF pmVars
<1>3. AlarmTypeOK'
  BY QueueStepTypes
<1>4. CASE u # t
  <2>1. queue'[u] = queue[u] /\ timer'[u] = timer[u]
    BY <1>1, <1>4 DEF AlarmTypeOK
  <2> QED BY <1>2, <2>1 DEF Armed, DeltaOf
<1>5. CASE u = t /\ timer' = [timer EXCEPT ![t] = TimerAfter(t, x, queue', delta, stopped, suspended)]
  <2>1. timer'[t] = TimerAfter(t, x, queue', delta', stopped', suspended')
    BY <1>2, <1>5 DEF AlarmTypeOK
  <2> QED BY <1>1, <1>3, <1>5, <2>1, ArmedUpdated
<1>6. CASE /\ u = t /\ UNCHANGED timer
           /\ p # <<>> => queue[t] # <<>> /\ Head(queue[t]).expires <= Head(p).expires
  <2>1. queue'[t] = p
    BY <1>1 DEF AlarmTypeOK
  <2>2. ASSUME ~ Excused(t)'
        PROVE  timer'[t].set /\ NotLate(t)'
    <3>1. p # <<>> /\ ~ Excused(t)
      BY <1>2, <1>6, <2>1, <2>2 DEF Excused, Skipped
    <3>2. timer[t].set /\ NotLate(t)
      BY <1>6, <3>1, ArmedMeans
    <3>3. PICK d, m, n : d = DeltaOf(t, delta) /\ m = Head(queue[t]).expires /\ n = Head(p).expires
      OBVIOUS
    <3>4. d \in Int /\ m \in Int /\ n \in Int /\ timer[t].at \in Int /\ m <= n
      <4>1. d \in Int
        BY <3>3, DeltaNumber DEF AlarmTypeOK
      <4>2. m \in Int
        BY <1>6, <3>1, <3>3, OneType, QueueElements
      <4>3. n \in Int
        BY <1>1, <3>1, <3>3, QueueElements
      <4>4. timer[t].at \in Int
        BY OneType, TimerOff
      <4> QED BY <1>6, <3>1, <3>3, <4>1, <4>2, <4>3, <4>4
    <3>5. timer[t].at <= d + m
      BY <3>2, <3>3 DEF NotLate
    <3>6. timer[t].at <= d + n
      BY <3>4, <3>5
    <3>7. NotLate(t)' <=> timer[t].at <= d + n
      BY <1>2, <1>6, <2>1, <3>3 DEF NotLate, DeltaOf
    <3> QED BY <1>6, <3>2, <3>6, <3>7
  <2> QED BY <1>6, <2>2, ArmedMeans
<1> QED BY <1>1, <1>4, <1>5, <1>6
\* update_timer_locked for the wakeup types at the end of a suspend.
LEMMA WakeupsArmed ==
  ASSUME AlarmAssumption, AlarmTypeOK, AlarmTypeOK', queue' = queue, stopped' = stopped,
         suspended' = FALSE, RestartWakeups(delta'), NEW u \in StoppedTypes, Armed(u),
         DeltaOf(u, delta') = DeltaOf(u, delta)
  PROVE  Armed(u)'
<1>1. u \in Types
  BY TypeSets
<1>2. CASE u \in WakeupTypes
  <2>1. timer'[u] = TimerAfter(u, timer[u], queue', delta', stopped', suspended')
    BY <1>1, <1>2 DEF RestartWakeups
  <2>2. timer[u] \in Timers
    BY <1>1 DEF AlarmTypeOK
  <2> QED BY <1>1, <2>1, <2>2, ArmedUpdated
<1>3. CASE u \notin WakeupTypes
  <2>1. timer'[u] = timer[u]
    BY <1>1, <1>3 DEF RestartWakeups
  <2>2. Excused(u) => Excused(u)'
    BY <1>3 DEF Excused, Skipped
  <2> QED BY <1>1, <2>1, <2>2, ArmedStays
<1> QED BY <1>2, <1>3

\* Setting the clock and the suspend, for a type on the wall clock whose delta is
\* not corrected after the fact.
LEMMA OtherStepArmed ==
  ASSUME AlarmAssumption, AlarmTypeOK, OtherStep, NEW u \in StoppedTypes, Armed(u),
         set_auto_update \/ alarm_resume => DeltaOf(u, delta') = DeltaOf(u, delta)
  PROVE  Armed(u)'
<1>1. u \in Types /\ u # SYSTEMTIME
  BY TypeSets
<1>2. queue' = queue /\ AlarmTypeOK'
  BY OtherQueues, OtherTypes DEF OtherStep
<1>3. CASE stopped'
  BY <1>1, <1>3 DEF Armed
<1>4. ASSUME UNCHANGED <<stopped, suspended, timer>>, DeltaOf(u, delta') = DeltaOf(u, delta)
      PROVE  Armed(u)'
  <2>1. Excused(u) => Excused(u)'
    BY <1>2, <1>4 DEF Excused, Skipped
  <2> QED BY <1>1, <1>2, <1>4, <2>1, ArmedStays
<1>5. delta' = delta => DeltaOf(u, delta') = DeltaOf(u, delta)
  OBVIOUS
<1> USE DEF clocks, queues, pmVars
<1>6. ASSUME NEW new \in Times, alarm_set_rtc(new) \/ tod_update(new) PROVE Armed(u)'
  BY <1>3, <1>4, <1>5, <1>6 DEF alarm_set_rtc, tod_update, StopQueues
<1>7. CASE set_auto \/ set_manual \/ alarm_suspend
  BY <1>3, <1>4, <1>5, <1>7 DEF set_auto, set_manual, alarm_suspend, rtc_hctosys, StopQueues
<1>8. ASSUME NEW fails, do_settimeofday(fails) PROVE Armed(u)'
  BY <1>4, <1>5, <1>8 DEF do_settimeofday
<1>9. CASE restart_queues
  <2>1. timer'[u] = TimerAfter(u, timer[u], queue', delta', stopped', suspended')
    BY <1>1, <1>2, <1>9 DEF restart_queues
  <2>2. timer[u] \in Timers
    BY <1>1 DEF AlarmTypeOK
  <2> QED BY <1>1, <1>2, <2>1, <2>2, ArmedUpdated
<1>10. CASE set_auto_update
  BY <1>4, <1>10 DEF set_auto_update
<1>11. ASSUME NEW fails, set_rtc_end(fails) PROVE Armed(u)'
  BY <1>4, <1>5, <1>11 DEF set_rtc_end
<1>12. CASE alarm_suspend_stop
  <2>1. CASE u = RTC_WAKEUP
    BY <1>12, <2>1 DEF alarm_suspend_stop, Armed, WakeupTypes
  <2>2. CASE u # RTC_WAKEUP
    <3>1. u \notin Cancelled /\ timer[u] \in Timers
      BY <1>1, <2>2 DEF Cancelled, AlarmTypeOK
    <3>2. timer'[u] = [timer[u] EXCEPT !.set = @ /\ u \notin Cancelled]
      BY <1>1, <1>12 DEF alarm_suspend_stop
    <3>3. timer'[u] = timer[u]
      BY <3>1, <3>2 DEF Timers
    <3>4. Excused(u) => Excused(u)'
      BY <1>12 DEF alarm_suspend_stop, Excused, Skipped
    <3>5. delta' = delta
      BY <1>12 DEF alarm_suspend_stop
    <3> QED BY <1>1, <1>2, <1>5, <3>3, <3>4, <3>5, ArmedStays
  <2> QED BY <2>1, <2>2
<1>13. CASE alarm_suspend_rtc
  <2>1. delta' = delta /\ stopped' = stopped
    BY <1>13 DEF alarm_suspend_rtc
  <2>2. CASE UNCHANGED <<suspended, timer>>
    BY <1>4, <1>5, <2>1, <2>2
  <2>3. CASE suspended' = FALSE /\ RestartWakeups(delta)
    BY <1>2, <1>5, <2>1, <2>3, WakeupsArmed
  <2> QED BY <1>13, <2>2, <2>3 DEF alarm_suspend_rtc
<1>14. CASE alarm_resume
  <2>1. suspended' = FALSE /\ RestartWakeups(delta') /\ stopped' = stopped
    BY <1>14 DEF alarm_resume
  <2> QED BY <1>2, <1>14, <2>1, WakeupsArmed
<1>15. CASE sleep \/ rtc_lock_expires \/ Tick \/ \E by_rtc \in BOOLEAN : wakeup(by_rtc)
  BY <1>4, <1>5, <1>15 DEF sleep, wakeup, rtc_lock_expires, Tick
<1> QED BY <1>6, <1>7, <1>8, <1>9, <1>10, <1>11, <1>12, <1>13, <1>14, <1>15
        DEF OtherStep, SettingStep, SuspendStep

-----------------------------------------------------------------------------
(***************************************************************************)
(* Whoever sets the clock, from whatever source, and whether it succeeds   *)
(* or not: outside the setting, and for RTC_WAKEUP outside suspend, the    *)
(* hrtimer of a type on the wall clock that has alarms is set, and for no  *)
(* later time than its first alarm's (alarm_start_range,                   *)
(* alarm_try_to_cancel, alarm_timer_triggered, alarm_set_rtc,              *)
(* alarm_suspend, alarm_resume).                                           *)
(***************************************************************************)
THEOREM WallTimersAlwaysArmed ==
  ASSUME AlarmAssumption
  PROVE  AlarmSpec => []WallTimersArmed
<1>1. ASSUME AlarmInit PROVE WallInv
  <2>1. WallTimersArmed
    BY <1>1, TypeSets DEF AlarmInit, WallTimersArmed, Armed
  <2> QED BY <1>1, <2>1, TypesInit DEF WallInv
<1>2. ASSUME WallInv, [AlarmNext]_alarmVars PROVE WallInv'
  <2>1. AlarmTypeOK /\ QueuesSorted /\ WallTimersArmed
    BY <1>2 DEF WallInv
  <2>2. AlarmTypeOK' /\ QueuesSorted'
    BY <1>2, <2>1, TypesNext
  <2>3. ASSUME NEW u \in WallTypes PROVE Armed(u)'
    <3>1. Armed(u) /\ u \in StoppedTypes /\ u \in Types /\ u \notin ElapsedTypes
      BY <2>1, TypeSets DEF WallTimersArmed
    <3>2. DeltaOf(u, delta') = DeltaOf(u, delta)
      BY <3>1 DEF DeltaOf
    <3>3. CASE \E t \in Types : QueueStep(t)
      BY <2>1, <3>1, <3>3, QueueStepArmed
    <3>4. CASE OtherStep
      BY <2>1, <3>1, <3>2, <3>4, OtherStepArmed
    <3>5. CASE UNCHANGED alarmVars
      BY <3>1, <3>5 DEF alarmVars, queues, pmVars, Armed
    <3>6. \A a \in Alarms : Type[a] \in Types
      BY DEF AlarmAssumption
    <3> QED BY <1>2, <2>1, <3>3, <3>4, <3>5, <3>6, StepKinds
  <2> QED BY <2>2, <2>3 DEF WallInv, WallTimersArmed
<1>3. WallInv => WallTimersArmed
  BY DEF WallInv
<1> QED BY <1>1, <1>2, <1>3, PTL DEF AlarmSpec
-----------------------------------------------------------------------------
(***************************************************************************)
(* The settings of the clock.                                              *)
(***************************************************************************)
\* Outside the two states in which the clock may be set, nobody sets it.
LEMMA NoSettingNow ==
  ASSUME AlarmTypeOK, SettingInv
  PROVE  /\ pm \notin {"on", "hctosys"} => setting = NoSetting
         /\ setting = NoSetting => ~ stopped /\ setting.pc = "idle" /\ elapsed = wall - delta
         /\ setting # NoSetting => pm = IF setting.by = "suspend" THEN "hctosys" ELSE "on"
<1>1. pm \notin {"on", "hctosys"} => setting = NoSetting
  BY DEF SettingInv
<1>2. setting = NoSetting => ~ stopped /\ setting.pc = "idle" /\ elapsed = wall - delta
  BY DEF SettingInv, NoSetting, AlarmTypeOK
<1>3. setting # NoSetting => pm = IF setting.by = "suspend" THEN "hctosys" ELSE "on"
  BY DEF SettingInv
<1> QED BY <1>1, <1>2, <1>3

\* Nothing corrects the delta after the fact.
LEMMA DeltaKept ==
  ASSUME AlarmAssumption, Undisturbed, AlarmTypeOK, SettingInv, SuspendInv,
         set_auto_update \/ alarm_resume
  PROVE  delta' = delta /\ alarm_resume
<1>1. ~ set_auto_update
  BY DEF set_auto_update, SettingInv
<1>2. suspended
  BY <1>1 DEF alarm_resume, SuspendInv
<1>3. wall - rtc_suspend_time <= elapsed
  BY <1>2 DEF SuspendInv
<1>4. /\ wall \in Int /\ rtc_suspend_time \in Int /\ elapsed \in Int /\ elapsed <= MaxElapsed
      /\ JumpLimit \in Int /\ MaxElapsed \in Int /\ MaxElapsed <= JumpLimit
  BY DEF AlarmTypeOK, AlarmAssumption, Undisturbed
<1>5. ~ (wall - rtc_suspend_time > JumpLimit)
  BY <1>3, <1>4
<1> QED BY <1>1, <1>5 DEF alarm_resume

\* The beginning of a setting.
LEMMA StopSetting ==
  ASSUME AlarmTypeOK, SettingInv, NEW new \in Int, NEW by \in {"user", "tod", "suspend"},
         setting = NoSetting, StopQueues(new, by), UNCHANGED <<wall, elapsed, IS_SYNC_NETWORK>>,
         pm' = IF by = "suspend" THEN "hctosys" ELSE "on"
  PROVE  SettingInv'
<1>1. /\ wall \in Int /\ delta \in Int /\ elapsed = wall - delta
      /\ ~ IS_SYNC_NETWORK
  BY NoSettingNow DEF AlarmTypeOK, SettingInv
<1>2. PICK d : d = delta - (wall - new)
  OBVIOUS
<1>3. delta' = d /\ elapsed' = elapsed /\ elapsed = new - d
  BY <1>1, <1>2 DEF StopQueues
<1>4. /\ setting'.pc = "stopped" /\ setting'.by = by /\ setting'.new = new
  BY DEF StopQueues
<1>5. stopped' = TRUE
  BY DEF StopQueues
<1> QED BY <1>1, <1>3, <1>4, <1>5 DEF SettingInv

\* A setting of the clock moves the delta with it, through all of its steps, and nothing
\* else moves either.
LEMMA SettingNext ==
  ASSUME AlarmAssumption, Undisturbed, AlarmTypeOK, SettingInv, SuspendInv, OtherStep
  PROVE  SettingInv'
<1>1. Times \subseteq Int /\ ~ SetFails /\ ~ AutoTime /\ ~ TodInSuspend
  BY DEF AlarmAssumption, Undisturbed
<1>2. /\ wall \in Int /\ rtc \in Int /\ delta \in Int /\ elapsed \in Int
      /\ setting \in Settings /\ ~ IS_SYNC_NETWORK
  BY DEF AlarmTypeOK, SettingInv
<1> USE DEF clocks, queues, pmVars
<1>3. ASSUME setting = NoSetting, UNCHANGED <<delta, setting, stopped, IS_SYNC_NETWORK>>,
             wall' - elapsed' = wall - elapsed, wall' \in Int, elapsed' \in Int
      PROVE  SettingInv'
  <2>1. ~ stopped /\ setting.pc = "idle" /\ elapsed = wall - delta /\ setting.by # "auto"
    BY <1>3, NoSettingNow DEF SettingInv
  <2>2. PICK w \in Int, e \in Int : w = wall' /\ e = elapsed'
    BY <1>3
  <2>3. e = w - delta
    <3>1. w - e = wall - elapsed
      BY <1>3, <2>2
    <3>2. wall - elapsed = delta
      BY <1>2, <2>1
    <3> QED BY <1>2, <3>1, <3>2
  <2> QED BY <1>2, <1>3, <2>1, <2>2, <2>3 DEF SettingInv
<1>4. ASSUME NEW new \in Times, alarm_set_rtc(new) PROVE SettingInv'
  <2>1. StopQueues(new, "user") /\ setting = NoSetting /\ pm' = "on"
        /\ UNCHANGED <<wall, elapsed, IS_SYNC_NETWORK>>
    BY <1>4 DEF alarm_set_rtc
  <2> QED BY <1>1, <2>1, StopSetting
<1>5. ASSUME NEW new \in Times, tod_update(new) PROVE SettingInv'
  <2>1. StopQueues(new, "tod") /\ setting = NoSetting /\ pm' = "on"
        /\ UNCHANGED <<wall, elapsed, IS_SYNC_NETWORK>>
    BY <1>1, <1>2, <1>5 DEF tod_update
  <2> QED BY <1>1, <2>1, StopSetting
<1>6. CASE set_auto \/ set_manual
  BY <1>1, <1>6 DEF set_auto, set_manual
<1>7. CASE alarm_suspend
  <2>1. StopQueues(rtc, "suspend") /\ setting = NoSetting /\ pm' = "hctosys"
        /\ UNCHANGED <<wall, elapsed, IS_SYNC_NETWORK>>
    BY <1>2, <1>7 DEF alarm_suspend, rtc_hctosys
  <2> QED BY <1>2, <2>1, StopSetting
<1>8. CASE do_settimeofday(FALSE)
  <2>1. /\ setting'.pc = "set" /\ setting'.by = setting.by /\ setting.pc = "stopped"
        /\ setting.new \in Int
    BY <1>2, <1>8, SettingMoves DEF do_settimeofday, Settings
  <2>2. wall' = setting.new /\ delta' = delta /\ elapsed' = elapsed /\ stopped' = stopped /\ pm' = pm
        /\ IS_SYNC_NETWORK' = IS_SYNC_NETWORK
    BY <1>8 DEF do_settimeofday
  <2> QED BY <1>2, <2>1, <2>2 DEF SettingInv
<1>9. CASE restart_queues
  <2>1. /\ setting'.pc = "rtc" /\ setting'.by = setting.by /\ setting.pc = "set"
    BY <1>2, <1>9, SettingMoves DEF restart_queues, SettingInv
  <2>2. wall' = wall /\ delta' = delta /\ elapsed' = elapsed /\ stopped' = FALSE /\ pm' = pm
        /\ IS_SYNC_NETWORK' = IS_SYNC_NETWORK
    BY <1>9 DEF restart_queues
  <2>3. /\ setting'.pc # "stopped" /\ setting'.pc # "set" /\ setting'.pc # "idle"
        /\ elapsed = wall - delta /\ setting.by # "auto"
        /\ pm = IF setting.by = "suspend" THEN "hctosys" ELSE "on"
    BY <2>1 DEF SettingInv
  <2>4. stopped' = (setting'.pc \in {"stopped", "set"})
    <3>1. setting'.pc \notin {"stopped", "set"}
      BY <2>3
    <3>2. ~ stopped' /\ stopped' \in BOOLEAN
      BY <2>2
    <3> QED BY <3>1, <3>2
  <2>5. elapsed' = (IF setting'.pc = "stopped" THEN setting'.new ELSE wall') - delta'
    BY <2>2, <2>3
  <2> QED BY <1>2, <2>1, <2>2, <2>3, <2>4, <2>5 DEF SettingInv
<1>10. ASSUME NEW fails \in BOOLEAN, set_rtc_end(fails) PROVE SettingInv'
  <2>1. setting.pc = "rtc" /\ setting' = NoSetting /\ setting.by # "auto"
    BY <1>10 DEF set_rtc_end, SettingInv
  <2>2. wall' = wall /\ delta' = delta /\ elapsed' = elapsed /\ stopped' = stopped
    BY <1>10 DEF set_rtc_end
  <2>3. ~ IS_SYNC_NETWORK'
    BY <1>2, <1>10, <2>1 DEF set_rtc_end
  <2> QED BY <1>2, <2>1, <2>2, <2>3 DEF SettingInv, NoSetting
<1>11. CASE set_auto_update
  BY <1>11, DeltaKept DEF alarm_resume, set_auto_update, SettingInv
<1>12. CASE alarm_suspend_stop \/ alarm_suspend_rtc
  <2>1. setting = NoSetting
    BY <1>12, NoSettingNow DEF alarm_suspend_stop, alarm_suspend_rtc
  <2>2. UNCHANGED <<wall, elapsed, delta, setting, stopped, IS_SYNC_NETWORK>>
    BY <1>12 DEF alarm_suspend_stop, alarm_suspend_rtc
  <2> QED BY <1>2, <1>3, <2>1, <2>2
<1>13. CASE alarm_resume
  BY <1>2, <1>3, <1>13, DeltaKept DEF alarm_resume
<1>14. CASE sleep \/ \E by_rtc \in BOOLEAN : wakeup(by_rtc)
  <2>1. setting = NoSetting
    BY <1>14, NoSettingNow DEF sleep, wakeup
  <2>2. UNCHANGED <<wall, elapsed, delta, setting, stopped, IS_SYNC_NETWORK>>
    BY <1>14 DEF sleep, wakeup
  <2> QED BY <1>2, <1>3, <2>1, <2>2
<1>15. CASE rtc_lock_expires
  BY <1>15 DEF rtc_lock_expires, SettingInv
<1>16. CASE Tick
  BY <1>2, <1>3, <1>16 DEF Tick
<1>17. (SetFails /\ setting.by = "user") = FALSE
  BY <1>1
<1> QED BY <1>4, <1>5, <1>6, <1>7, <1>8, <1>9, <1>10, <1>11, <1>12, <1>13, <1>14, <1>15, <1>16,
           <1>17 DEF OtherStep, SettingStep, SuspendStep
-----------------------------------------------------------------------------
(***************************************************************************)
(* The suspend.                                                            *)
(***************************************************************************)
\* The RTC wakes the system in time for the first alarm of a type.
WokenFor(t) ==
  rtc_alarm.set /\ rtc_alarm.at <= DeltaOf(t, delta) + Head(queue[t]).expires - (wall - rtc)

\* SuspendInv, unfolded now and after a step.
LEMMA SuspendMeans ==
  /\ SuspendInv <=>
       /\ suspended = (pm \in {"suspend_rtc", "suspended", "asleep", "waking"})
       /\ suspended => wall - rtc_suspend_time <= elapsed
       /\ pm = "asleep" => rtc_lock = "free"
       /\ \A t \in WakeupTypes : suspended /\ rtc_lock # "timed" /\ queue[t] # <<>> => NotLate(t)
       /\ \A t \in WakeupTypes :
            pm \in {"suspended", "asleep"} /\ rtc_lock # "timed" /\ queue[t] # <<>> => WokenFor(t)
  /\ SuspendInv' <=>
       /\ suspended' = (pm' \in {"suspend_rtc", "suspended", "asleep", "waking"})
       /\ suspended' => wall' - rtc_suspend_time' <= elapsed'
       /\ pm' = "asleep" => rtc_lock' = "free"
       /\ \A t \in WakeupTypes : suspended' /\ rtc_lock' # "timed" /\ queue'[t] # <<>> => NotLate(t)'
       /\ \A t \in WakeupTypes :
            pm' \in {"suspended", "asleep"} /\ rtc_lock' # "timed" /\ queue'[t] # <<>> => WokenFor(t)'
BY DEF SuspendInv, WakeupQueues, WokenFor

\* A later first alarm of a type makes its timer and the RTC no later than they may be.
LEMMA LaterHead ==
  ASSUME AlarmAssumption, AlarmTypeOK, NEW t \in Types, NEW p \in Seq(Nodes), p # <<>>,
         queue[t] # <<>>, Head(queue[t]).expires <= Head(p).expires,
         queue'[t] = p, UNCHANGED <<clocks, delta, timer, pmVars>>
  PROVE  /\ NotLate(t) => NotLate(t)'
         /\ WokenFor(t) => WokenFor(t)'
<1>1. PICK d, m, n, k : /\ d = DeltaOf(t, delta) /\ m = Head(queue[t]).expires
                        /\ n = Head(p).expires /\ k = wall - rtc
  OBVIOUS
<1>2. queue[t] \in Seq(Nodes) /\ timer[t] \in Timers /\ rtc_alarm \in Timers
  BY DEF AlarmTypeOK
<1>3. /\ d \in Int /\ m \in Int /\ n \in Int /\ k \in Int
      /\ timer[t].at \in Int /\ rtc_alarm.at \in Int
  <2>1. d \in Int /\ k \in Int
    BY <1>1, DeltaNumber DEF AlarmTypeOK
  <2>2. m \in Int
    BY <1>1, <1>2, QueueElements
  <2>3. n \in Int
    BY <1>1, QueueElements
  <2>4. timer[t].at \in Int /\ rtc_alarm.at \in Int
    BY <1>2, TimerOff
  <2> QED BY <2>1, <2>2, <2>3, <2>4
<1>4. m <= n
  BY <1>1
<1>5. NotLate(t) => NotLate(t)'
  <2>1. (NotLate(t) <=> timer[t].at <= d + m) /\ (NotLate(t)' <=> timer[t].at <= d + n)
    BY <1>1 DEF NotLate, DeltaOf
  <2> QED BY <1>3, <1>4, <2>1
<1>6. WokenFor(t) => WokenFor(t)'
  <2>1. /\ WokenFor(t) <=> rtc_alarm.set /\ rtc_alarm.at <= d + m - k
        /\ WokenFor(t)' <=> rtc_alarm.set /\ rtc_alarm.at <= d + n - k
    BY <1>1 DEF WokenFor, DeltaOf, clocks, pmVars
  <2>2. rtc_alarm.at <= d + m - k => rtc_alarm.at <= d + n - k
    BY <1>3, <1>4
  <2> QED BY <2>1, <2>2
<1> QED BY <1>5, <1>6

\* In suspend a new first alarm of a wakeup type takes the wake lock.
LEMMA SuspendedQueueStep ==
  ASSUME AlarmAssumption, AlarmTypeOK, QueuesSorted, SettingInv, SuspendInv,
         NEW t \in Types, QueueStep(t)
  PROVE  SuspendInv'
<1>1. PICK p \in Seq(Nodes), x \in Timers :
        /\ pm # "asleep" /\ queue' = [queue EXCEPT ![t] = p]
        /\ \/ /\ timer' = [timer EXCEPT ![t] = TimerAfter(t, x, queue', delta, stopped, suspended)]
              /\ \E h \in BOOLEAN : rtc_lock' = LockAfter(t, queue', stopped, suspended, h)
           \/ /\ UNCHANGED <<timer, rtc_lock>>
              /\ p # <<>> => queue[t] # <<>> /\ Head(queue[t]).expires <= Head(p).expires
        /\ UNCHANGED <<clocks, delta, stopped, pmVars, setting, IS_SYNC_NETWORK>>
  BY DEF QueueStep
<1>2. UNCHANGED <<wall, rtc, elapsed, delta, suspended, pm, rtc_alarm, rtc_suspend_time>>
  BY <1>1 DEF clocks, pmVars
<1>3. suspended => ~ stopped /\ pm \in {"suspend_rtc", "suspended", "asleep", "waking"}
  BY NoSettingNow DEF SuspendInv
<1>4. pm \in {"suspended", "asleep"} => suspended
  BY DEF SuspendInv, AlarmTypeOK
<1>5. ASSUME NEW u \in WakeupTypes, suspended, rtc_lock' # "timed", queue'[u] # <<>>
      PROVE  /\ NotLate(u)'
             /\ pm \in {"suspended", "asleep"} => WokenFor(u)'
  <2>1. u \in Types
    BY TypeSets
  <2>2. CASE u = t
    <3>1. queue'[t] = p /\ p # <<>>
      BY <1>1, <1>5, <2>2 DEF AlarmTypeOK
    <3>2. \A h \in BOOLEAN : LockAfter(t, queue', stopped, suspended, h) = "timed"
      BY <1>3, <1>5, <2>2, <3>1 DEF LockAfter
    <3>3. /\ UNCHANGED <<timer, rtc_lock>>
          /\ queue[t] # <<>> /\ Head(queue[t]).expires <= Head(p).expires
      BY <1>1, <1>5, <3>1, <3>2
    <3>4. NotLate(t) /\ (pm \in {"suspended", "asleep"} => WokenFor(t))
      BY <1>5, <2>2, <3>3, SuspendMeans
    <3>5. UNCHANGED <<clocks, delta, timer, pmVars>>
      BY <1>1, <3>3
    <3>6. (NotLate(t) => NotLate(t)') /\ (WokenFor(t) => WokenFor(t)')
      BY <3>1, <3>3, <3>5, LaterHead
    <3> QED BY <2>2, <3>4, <3>6
  <2>3. CASE u # t
    <3>1. queue'[u] = queue[u] /\ timer'[u] = timer[u]
      BY <1>1, <2>1, <2>3 DEF AlarmTypeOK
    <3>2. rtc_lock # "timed"
      <4>1. \A h \in BOOLEAN : suspended => LockAfter(t, queue', stopped, suspended, h) \in {"timed", rtc_lock}
        BY <1>3 DEF LockAfter
      <4> QED BY <1>1, <1>5, <4>1
    <3>3. NotLate(u) /\ (pm \in {"suspended", "asleep"} => WokenFor(u))
      BY <1>5, <3>1, <3>2, SuspendMeans
    <3>4. (NotLate(u)' <=> NotLate(u)) /\ (WokenFor(u)' <=> WokenFor(u))
      BY <1>2, <3>1 DEF NotLate, WokenFor, DeltaOf
    <3> QED BY <3>3, <3>4
  <2> QED BY <2>2, <2>3
<1>6. /\ suspended' = (pm' \in {"suspend_rtc", "suspended", "asleep", "waking"})
      /\ suspended' => wall' - rtc_suspend_time' <= elapsed'
      /\ pm' = "asleep" => rtc_lock' = "free"
  BY <1>1, <1>2 DEF SuspendInv
<1> QED BY <1>2, <1>4, <1>5, <1>6, SuspendMeans
\* A step that ends outside suspend.
LEMMA AwakeAfter ==
  ASSUME suspended' = FALSE, pm' \notin {"suspend_rtc", "suspended", "asleep", "waking"}
  PROVE  SuspendInv'
<1>1. suspended' = (pm' \in {"suspend_rtc", "suspended", "asleep", "waking"})
  <2>1. ~ suspended' /\ suspended' \in BOOLEAN
    OBVIOUS
  <2> QED BY <2>1
<1>2. pm' \notin {"suspended", "asleep"} /\ pm' # "asleep" /\ ~ suspended'
  OBVIOUS
<1> QED BY <1>1, <1>2, SuspendMeans

\* The RTC's alarm is set for the wakeup queue whose timer is first.
LEMMA FirstWakeup ==
  ASSUME AlarmTypeOK, NEW t \in WakeupQueues
  PROVE  timer[wakeup_queue].at <= timer[t].at /\ timer[wakeup_queue].at \in Int
<1>1. t \in WakeupTypes /\ queue[t] # <<>>
  BY DEF WakeupQueues
<1>2. timer[RTC_WAKEUP].at \in Int /\ timer[ELAPSED_REALTIME_WAKEUP].at \in Int
  <2>1. timer[RTC_WAKEUP] \in Timers /\ timer[ELAPSED_REALTIME_WAKEUP] \in Timers
    BY TypeSets DEF AlarmTypeOK
  <2> QED BY <2>1, TimerOff
<1>3. t = RTC_WAKEUP \/ t = ELAPSED_REALTIME_WAKEUP
  BY <1>1, TypeSets
<1> QED BY <1>2, <1>3, TypeSets DEF wakeup_queue

\* alarm_suspend stops the timers when none of them is late.
LEMMA SuspendStop ==
  ASSUME AlarmAssumption, AlarmTypeOK, AlarmTypeOK', TimersArmed, SettingInv, SuspendInv,
         alarm_suspend_stop
  PROVE  SuspendInv'
<1>1. /\ pm = "suspend" /\ pm' = "suspend_rtc" /\ suspended' = TRUE
      /\ UNCHANGED <<delta, queue, wall, elapsed>> /\ ~ IS_SYNC_NETWORK
      /\ rtc_suspend_time' = wall
  BY DEF alarm_suspend_stop, clocks, SettingInv
<1>2. ~ stopped /\ ~ suspended
  BY <1>1, NoSettingNow DEF SuspendInv
<1>3. wall' - rtc_suspend_time' <= elapsed'
  <2>1. wall \in Int /\ elapsed \in Int /\ 0 <= elapsed
    BY DEF AlarmTypeOK, AlarmAssumption
  <2>2. wall - wall <= elapsed
    BY <2>1
  <2> QED BY <1>1, <2>2
<1>4. ASSUME NEW t \in WakeupTypes, queue'[t] # <<>> PROVE NotLate(t)'
  <2>1. t \in Types /\ queue[t] # <<>>
    BY <1>1, <1>4, TypeSets
  <2>2. NotLate(t)
    BY <1>2, <2>1 DEF TimersArmed, Armed, NotLate
  <2>3. timer[t] \in Timers
    BY <2>1 DEF AlarmTypeOK
  <2>4. timer'[t] = [timer[t] EXCEPT !.set = @ /\ t \notin Cancelled]
    BY <2>1 DEF alarm_suspend_stop
  <2>5. timer'[t].at = timer[t].at
    BY <2>3, <2>4 DEF Timers
  <2> QED BY <1>1, <2>2, <2>5 DEF NotLate, DeltaOf
<1>5. suspended' = (pm' \in {"suspend_rtc", "suspended", "asleep", "waking"})
  BY <1>1
<1>6. pm' # "asleep" /\ pm' \notin {"suspended", "asleep"}
  BY <1>1
<1> QED BY <1>3, <1>4, <1>5, <1>6, SuspendMeans

\* alarm_suspend sets the RTC for the first wakeup alarm, or keeps the system awake.
LEMMA SuspendRtc ==
  ASSUME AlarmAssumption, AlarmTypeOK, SettingInv, SuspendInv, alarm_suspend_rtc
  PROVE  SuspendInv'
<1>1. pm = "suspend_rtc" /\ UNCHANGED <<wall, rtc, elapsed, delta, queue, rtc_suspend_time>>
  BY DEF alarm_suspend_rtc, clocks
<1>2. suspended
  BY <1>1 DEF SuspendInv, AlarmTypeOK
<1>3. CASE pm' = "on" /\ suspended' = FALSE
  BY <1>3, AwakeAfter
<1>4. CASE /\ pm' = "suspended"
           /\ rtc_alarm' = IF WakeupQueues = {} THEN rtc_alarm
                           ELSE [set |-> TRUE, at |-> timer[wakeup_queue].at - (wall - rtc)]
           /\ UNCHANGED <<suspended, rtc_lock, timer>>
  <2>1. ASSUME NEW t \in WakeupTypes, queue'[t] # <<>>, rtc_lock' # "timed"
        PROVE  NotLate(t)' /\ WokenFor(t)'
    <3>1. t \in WakeupQueues /\ t \in Types /\ queue[t] # <<>>
      BY <1>1, <2>1, TypeSets DEF WakeupQueues
    <3>2. NotLate(t)
      BY <1>2, <1>4, <2>1, <3>1, SuspendMeans
    <3>3. NotLate(t)'
      BY <1>1, <1>4, <3>2 DEF NotLate, DeltaOf
    <3>4. PICK w, h, k : /\ w = timer[wakeup_queue].at /\ k = wall - rtc
                         /\ h = DeltaOf(t, delta) + Head(queue[t]).expires
      OBVIOUS
    <3>5. w \in Int /\ w <= timer[t].at
      BY <3>1, <3>4, FirstWakeup
    <3>6. timer[t].at \in Int /\ k \in Int /\ h \in Int
      <4>1. timer[t] \in Timers /\ queue[t] \in Seq(Nodes) /\ delta \in Int /\ wall \in Int /\ rtc \in Int
        BY <3>1 DEF AlarmTypeOK
      <4>2. Head(queue[t]).expires \in Int
        BY <3>1, <4>1, QueueElements
      <4>3. h \in Int
        BY <3>4, <4>1, <4>2, DeltaNumber
      <4>4. timer[t].at \in Int
        BY <4>1, TimerOff
      <4> QED BY <3>4, <4>1, <4>3, <4>4
    <3>7. timer[t].at <= h
      BY <3>2, <3>4 DEF NotLate
    <3>8. w - k <= h - k
      BY <3>5, <3>6, <3>7
    <3>9. rtc_alarm'.set /\ rtc_alarm'.at = w - k
      BY <1>4, <3>1, <3>4
    <3>10. rtc_alarm'.at <= DeltaOf(t, delta) + Head(queue[t]).expires - (wall - rtc)
      <4>1. h - k = DeltaOf(t, delta) + Head(queue[t]).expires - (wall - rtc)
        <5>1. queue[t] \in Seq(Nodes) /\ delta \in Int /\ wall \in Int /\ rtc \in Int
          BY <3>1 DEF AlarmTypeOK
        <5>2. Head(queue[t]).expires \in Int /\ DeltaOf(t, delta) \in Int
          BY <3>1, <5>1, QueueElements, DeltaNumber
        <5> QED BY <3>4, <5>1, <5>2
      <4>2. rtc_alarm'.at <= h - k
        BY <3>8, <3>9, Zenon
      <4> QED BY <4>1, <4>2, Zenon
    <3>11. WokenFor(t)'
      BY <1>1, <3>9, <3>10 DEF WokenFor, DeltaOf
    <3> QED BY <3>3, <3>11
  <2>2. suspended' = (pm' \in {"suspend_rtc", "suspended", "asleep", "waking"})
    BY <1>2, <1>4 DEF AlarmTypeOK
  <2>3. wall' - rtc_suspend_time' <= elapsed'
    BY <1>1, <1>2 DEF SuspendInv
  <2>4. pm' # "asleep"
    BY <1>4
  <2> QED BY <2>1, <2>2, <2>3, <2>4, SuspendMeans
<1> QED BY <1>3, <1>4 DEF alarm_suspend_rtc

\* Every step that is not on one queue keeps the suspended system awake or woken in time.
LEMMA SuspendNext ==
  ASSUME AlarmAssumption, Undisturbed, AlarmTypeOK, AlarmTypeOK', TimersArmed, SettingInv,
         SuspendInv, OtherStep
  PROVE  SuspendInv'
<1> USE DEF clocks, queues, pmVars
<1>1. ~ AutoTime /\ ~ TodInSuspend /\ ~ IS_SYNC_NETWORK
  BY DEF Undisturbed, SettingInv
<1>2. pm \in {"on", "hctosys", "suspend"} => suspended = FALSE
  <2>1. suspended \in BOOLEAN
    BY DEF AlarmTypeOK
  <2>2. pm \in {"on", "hctosys", "suspend"} => ~ suspended
    BY DEF SuspendInv
  <2> QED BY <2>1, <2>2
<1>3. ASSUME NEW new \in Times, alarm_set_rtc(new) \/ tod_update(new) PROVE SuspendInv'
  <2>1. pm = "on" /\ pm' = "on" /\ suspended' = suspended
    BY <1>1, <1>3 DEF alarm_set_rtc, tod_update
  <2> QED BY <1>2, <2>1, AwakeAfter
<1>4. CASE set_auto \/ set_manual
  BY <1>1, <1>4 DEF set_auto, set_manual
<1>5. CASE alarm_suspend
  <2>1. pm = "on" /\ pm' = "hctosys" /\ suspended' = suspended
    BY <1>1, <1>5 DEF alarm_suspend
  <2> QED BY <1>2, <2>1, AwakeAfter
<1>6. CASE SettingStep
  <2>1. setting # NoSetting
    <3>1. setting.pc # "idle"
      BY <1>6 DEF SettingStep, do_settimeofday, restart_queues, set_auto_update, set_rtc_end
    <3> QED BY <3>1 DEF NoSetting
  <2>2. pm \in {"on", "hctosys"}
    BY <2>1, NoSettingNow
  <2>3. pm' \in {"on", "hctosys", "suspend"} /\ suspended' = suspended
    BY <1>6, <2>2 DEF SettingStep, do_settimeofday, restart_queues, set_auto_update, set_rtc_end
  <2> QED BY <1>2, <2>2, <2>3, AwakeAfter
<1>7. CASE alarm_suspend_stop \/ alarm_suspend_rtc
  BY <1>7, SuspendStop, SuspendRtc
<1>8. CASE alarm_resume
  BY <1>8, AwakeAfter DEF alarm_resume
<1>9. CASE rtc_lock_expires
  <2>1. pm = "on" /\ pm' = "on" /\ suspended' = suspended
    BY <1>9 DEF rtc_lock_expires, Undisturbed
  <2> QED BY <1>2, <2>1, AwakeAfter
<1>10. CASE Tick /\ pm = "on"
  <2>1. pm = "on" /\ pm' = "on" /\ suspended' = suspended
    BY <1>10 DEF Tick
  <2> QED BY <1>2, <2>1, AwakeAfter
<1>11. CASE sleep \/ (\E by_rtc \in BOOLEAN : wakeup(by_rtc)) \/ (Tick /\ pm = "asleep")
  <2>1. /\ pm \in {"suspended", "asleep"} /\ suspended
        /\ pm' \in {"suspended", "asleep", "waking"}
        /\ UNCHANGED <<delta, queue, timer, suspended, rtc_alarm, rtc_suspend_time>>
    BY <1>11 DEF sleep, wakeup, Tick, SuspendInv, AlarmTypeOK
  <2>2. /\ rtc_lock' # "timed" => rtc_lock # "timed"
        /\ pm' = "asleep" => rtc_lock' = "free"
    BY <1>11 DEF sleep, wakeup, Tick, SuspendInv
  <2>3. PICK n \in {0, 1} : wall' = wall + n /\ rtc' = rtc + n /\ elapsed' = elapsed + n
    <3>1. wall + 0 = wall /\ rtc + 0 = rtc /\ elapsed + 0 = elapsed
      BY DEF AlarmTypeOK
    <3> QED BY <1>11, <3>1 DEF sleep, wakeup, Tick
  <2>4. (wall + n) - (rtc + n) = wall - rtc /\ (wall + n) - rtc_suspend_time <= elapsed + n
    <3>1. wall \in Int /\ rtc \in Int /\ elapsed \in Int /\ rtc_suspend_time \in Int
      BY DEF AlarmTypeOK
    <3>2. wall - rtc_suspend_time <= elapsed
      BY <2>1 DEF SuspendInv
    <3> QED BY <3>1, <3>2
  <2>5. wall' - rtc' = wall - rtc /\ wall' - rtc_suspend_time' <= elapsed'
    BY <2>1, <2>3, <2>4
  <2>6. ASSUME NEW t \in WakeupTypes, queue'[t] # <<>>, rtc_lock' # "timed"
        PROVE  NotLate(t)' /\ WokenFor(t)'
    <3>1. NotLate(t) /\ WokenFor(t)
      BY <2>1, <2>2, <2>6, SuspendMeans
    <3>2. NotLate(t)'
      BY <2>1, <3>1 DEF NotLate, DeltaOf
    <3>3. WokenFor(t)'
      BY <2>1, <2>5, <3>1 DEF WokenFor, DeltaOf
    <3> QED BY <3>2, <3>3
  <2>7. suspended' = (pm' \in {"suspend_rtc", "suspended", "asleep", "waking"})
    BY <2>1 DEF AlarmTypeOK
  <2> QED BY <2>2, <2>5, <2>6, <2>7, SuspendMeans
<1>12. Tick => pm = "on" \/ pm = "asleep"
  BY DEF Tick
<1> QED BY <1>3, <1>4, <1>5, <1>6, <1>7, <1>8, <1>9, <1>10, <1>11, <1>12 DEF OtherStep, SuspendStep
-----------------------------------------------------------------------------
\* The type without alarms.
LEMMA NoSystemtime ==
  ASSUME AlarmAssumption, Undisturbed, AlarmTypeOK, QueuesSorted, queue[SYSTEMTIME] = <<>>,
         [AlarmNext]_alarmVars
  PROVE  queue'[SYSTEMTIME] = <<>>
<1>1. ASSUME NEW a \in Alarms, QueueStep(Type[a]) PROVE queue'[SYSTEMTIME] = <<>>
  <2>1. Type[a] # SYSTEMTIME
    BY DEF Undisturbed
  <2>2. PICK p : queue' = [queue EXCEPT ![Type[a]] = p]
    BY <1>1 DEF QueueStep
  <2> QED BY <2>1, <2>2, TypeSets DEF AlarmTypeOK
<1>2. ASSUME NEW t \in Types, alarm_timer_triggered(t) PROVE queue'[SYSTEMTIME] = <<>>
  <2>1. PICK n : n = Now(t)
    OBVIOUS
  <2>2. queue' = [queue EXCEPT ![t] = SubSeq(queue[t], FirstAfter(queue[t], n), Len(queue[t]))]
    BY <1>2, <2>1 DEF alarm_timer_triggered
  <2>3. CASE t # SYSTEMTIME
    BY <2>2, <2>3, TypeSets DEF AlarmTypeOK
  <2>4. CASE t = SYSTEMTIME
    <3>1. n \in Int
      BY <2>1, DeltaNumber DEF Now, Clock, AlarmTypeOK, Settings
    <3>2. PICK s \in Seq(Nodes) : s = <<>> /\ s = queue[t] /\ Len(s) = 0
      BY <2>4, TypeSets DEF AlarmTypeOK
    <3>3. FirstAfter(s, n) \in 1 .. Len(s) + 1
      BY <3>1, <3>2, FirstAfterExact
    <3>4. PICK i \in 1 .. Len(s) + 1 : i = FirstAfter(s, n)
      BY <3>3
    <3>5. Len(SubSeq(s, i, Len(s))) = Len(s) - i + 1 /\ SubSeq(s, i, Len(s)) \in Seq(Nodes)
      BY <3>4, Suffix
    <3>6. Len(SubSeq(s, i, Len(s))) = 0
      BY <3>2, <3>4, <3>5
    <3>7. SubSeq(s, i, Len(s)) = <<>>
      BY <3>5, <3>6, EmptySeq
    <3> QED BY <2>2, <2>4, <3>2, <3>4, <3>7, TypeSets DEF AlarmTypeOK
  <2> QED BY <2>3, <2>4
<1>3. CASE OtherStep
  BY <1>3, OtherQueues
<1>4. CASE UNCHANGED alarmVars
  BY <1>4 DEF alarmVars, queues
<1> QED BY <1>1, <1>2, <1>3, <1>4, StepKinds

\* The invariant holds when the driver is loaded.
LEMMA AlarmInvInit ==
  ASSUME AlarmAssumption, AlarmInit
  PROVE  AlarmInv
<1>1. AlarmTypeOK /\ QueuesSorted
  BY TypesInit
<1>2. queue[SYSTEMTIME] = <<>> /\ TimersArmed
  BY TypeSets DEF AlarmInit, TimersArmed, Armed
<1>3. setting = NoSetting /\ stopped = FALSE /\ suspended = FALSE /\ pm = "on"
      /\ elapsed = wall - delta /\ ~ IS_SYNC_NETWORK
  <2>1. wall \in Int /\ elapsed = 0 /\ delta = wall
    BY <1>1 DEF AlarmInit, AlarmTypeOK
  <2>2. elapsed = wall - delta
    BY <2>1
  <2> QED BY <2>2 DEF AlarmInit
<1>4. SettingInv
  <2>1. setting.pc = "idle" /\ setting.by = "nobody"
    BY <1>3 DEF NoSetting
  <2>2. stopped = (setting.pc \in {"stopped", "set"})
    <3>1. ~ stopped /\ stopped \in BOOLEAN /\ setting.pc \notin {"stopped", "set"}
      BY <1>3, <2>1
    <3> QED BY <3>1
  <2> QED BY <1>3, <2>1, <2>2 DEF SettingInv
<1>5. SuspendInv
  <2>1. suspended = (pm \in {"suspend_rtc", "suspended", "asleep", "waking"})
    <3>1. /\ ~ suspended /\ suspended \in BOOLEAN
          /\ pm \notin {"suspend_rtc", "suspended", "asleep", "waking"}
      BY <1>3
    <3> QED BY <3>1
  <2> QED BY <1>3, <2>1, SuspendMeans
<1> QED BY <1>1, <1>2, <1>4, <1>5 DEF AlarmInv

\* Every step keeps the invariant on a system whose clock is not disturbed.
LEMMA AlarmInvNext ==
  ASSUME AlarmAssumption, Undisturbed, AlarmInv, [AlarmNext]_alarmVars
  PROVE  AlarmInv'
<1>1. /\ AlarmTypeOK /\ QueuesSorted /\ queue[SYSTEMTIME] = <<>>
      /\ TimersArmed /\ SettingInv /\ SuspendInv
  BY DEF AlarmInv
<1>2. AlarmTypeOK' /\ QueuesSorted' /\ queue'[SYSTEMTIME] = <<>>
  BY <1>1, TypesNext, NoSystemtime
<1>3. ASSUME NEW t \in Types, QueueStep(t)
      PROVE  TimersArmed' /\ SettingInv' /\ SuspendInv'
  <2>1. TimersArmed'
    BY <1>1, <1>3, QueueStepArmed DEF TimersArmed
  <2>2. UNCHANGED <<setting, pm, stopped, elapsed, wall, delta, IS_SYNC_NETWORK>>
    BY <1>3 DEF QueueStep, clocks, pmVars
  <2>3. SettingInv'
    BY <1>1, <2>2 DEF SettingInv
  <2> QED BY <1>1, <1>3, <2>1, <2>3, SuspendedQueueStep
<1>4. CASE OtherStep
  <2>1. ASSUME NEW u \in Types PROVE Armed(u)'
    <3>1. CASE u = SYSTEMTIME
      BY <1>2, <3>1 DEF Armed
    <3>2. CASE u # SYSTEMTIME
      <4>1. u \in StoppedTypes /\ Armed(u)
        BY <1>1, <3>2, TypeSets DEF TimersArmed
      <4>2. set_auto_update \/ alarm_resume => delta' = delta
        BY <1>1, DeltaKept
      <4>3. set_auto_update \/ alarm_resume => DeltaOf(u, delta') = DeltaOf(u, delta)
        BY <4>2
      <4> QED BY <1>1, <1>4, <4>1, <4>3, OtherStepArmed
    <3> QED BY <3>1, <3>2
  <2>2. SettingInv' /\ SuspendInv'
    BY <1>1, <1>2, <1>4, SettingNext, SuspendNext
  <2> QED BY <1>2, <2>1, <2>2 DEF AlarmInv, TimersArmed
<1>5. CASE UNCHANGED alarmVars
  BY <1>1, <1>2, <1>5 DEF alarmVars, clocks, queues, pmVars, AlarmInv, TimersArmed, Armed,
     SettingInv, SuspendInv, NotLate, WakeupQueues
<1>6. \A a \in Alarms : Type[a] \in Types
  BY DEF AlarmAssumption
<1>7. TimersArmed' /\ SettingInv' /\ SuspendInv' => AlarmInv'
  BY <1>2 DEF AlarmInv
<1> QED BY <1>1, <1>3, <1>4, <1>5, <1>6, <1>7, StepKinds

(***************************************************************************)
(* On an undisturbed system no alarm is forgotten, the elapsed realtime    *)
(* clock shows the time since boot however often the wall clock is set,    *)
(* and a system that sleeps with a wakeup alarm has set the RTC in time    *)
(* (alarm_set_rtc and cci_alarm_set_rtc, alarm_suspend, alarm_resume).     *)
(***************************************************************************)
THEOREM AlarmsAlwaysKept ==
  ASSUME AlarmAssumption, Undisturbed
  PROVE  AlarmSpec => []AlarmsKept
<1>1. AlarmInit => AlarmInv
  BY AlarmInvInit
<1>2. AlarmInv /\ [AlarmNext]_alarmVars => AlarmInv'
  BY AlarmInvNext
<1>3. ASSUME AlarmInv PROVE AlarmsKept
  <2>1. AlarmTypeOK /\ TimersArmed /\ SettingInv /\ SuspendInv
    BY <1>3 DEF AlarmInv
  <2>2. ElapsedPreserved
    <3> SUFFICES ASSUME setting = NoSetting PROVE alarm_get_elapsed_realtime = elapsed
      BY DEF ElapsedPreserved
    <3>1. ~ stopped /\ elapsed = wall - delta
      BY <2>1, NoSettingNow
    <3> QED BY <3>1, TypeSets DEF alarm_get_elapsed_realtime, Now, Clock, DeltaOf
  <2>3. SleepHasWakeup
    <3> SUFFICES ASSUME pm = "asleep", NEW t \in WakeupQueues PROVE WokenFor(t)
      BY DEF SleepHasWakeup, WokenFor
    <3>1. rtc_lock = "free" /\ t \in WakeupTypes /\ queue[t] # <<>>
      BY <2>1 DEF SuspendInv, WakeupQueues
    <3> QED BY <2>1, <3>1, SuspendMeans
  <2> QED BY <2>1, <2>2, <2>3 DEF AlarmsKept
<1> QED BY <1>1, <1>2, <1>3, PTL DEF AlarmSpec
=============================================================================
