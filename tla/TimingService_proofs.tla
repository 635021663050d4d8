-------------------------- MODULE TimingService_proofs --------------------------
(* Theorems about TimingService, for every value of its constants.                *)
EXTENDS TimingService, FiniteSetTheorems, SequenceTheorems, TLAPS

-----------------------------------------------------------------------------
(* The queue.                                                                   *)

\* A queue of n timers at most, each once, of which the first is due first.
Queue(q, n) == q \in Seq(1..n) /\ IsInjective(q)
TopIsFirst(q, tm) == \A i \in 1..Len(q) : tm[q[1]].due <= tm[q[i]].due
Dues(tm, n) == \A t \in 1..n : tm[t].due \in Int

\* The timers in a queue are timers.
LEMMA QueueRange ==
  ASSUME NEW n \in Nat, NEW q, Queue(q, n)
  PROVE  ToSet(q) \subseteq 1..n
<1>1. q \in Seq(1..n)
  BY DEF Queue
<1>2. \A i \in DOMAIN q : q[i] \in 1..n
  BY <1>1
<1> QED BY <1>2 DEF ToSet

\* A push adds the timer behind the top or before it.
LEMMA PushElements ==
  ASSUME NEW n \in Nat, NEW q, Queue(q, n), NEW t \in 1..n, t \notin ToSet(q), NEW tm
  PROVE  /\ Queue(Push(q, t, tm), n)
         /\ ToSet(Push(q, t, tm)) = ToSet(q) \cup {t}
<1>0. PICK p : p = Push(q, t, tm)
  OBVIOUS
<1>1. q \in Seq(1..n) /\ Len(q) \in Nat /\ \A i, j \in 1..Len(q) : q[i] = q[j] => i = j
  BY DEF Queue, IsInjective
<1>2. ToSet(q) = {q[i] : i \in 1..Len(q)}
  BY <1>1 DEF ToSet
<1>3. CASE q # <<>> /\ tm[t].due < tm[q[1]].due
  <2>1. p = <<t>> \o Tail(q) \o <<q[1]>> /\ Len(q) >= 1
    BY <1>0, <1>1, <1>3 DEF Push
  <2>2. Tail(q) \in Seq(1..n) /\ Len(Tail(q)) = Len(q) - 1 /\ \A i \in 1..Len(q) - 1 : Tail(q)[i] = q[i + 1]
    BY <1>1, <1>3, <2>1
  <2>3. p \in Seq(1..n) /\ Len(p) = Len(q) + 1 /\ p[1] = t /\ p[Len(q) + 1] = q[1]
    BY <1>1, <2>1, <2>2
  <2>4. \A i \in 2..Len(q) : p[i] = q[i]
    BY <1>1, <2>1, <2>2
  <2>5. DOMAIN p = 1..Len(q) + 1
    BY <2>3
  <2>6. \A i \in 1..Len(q) : q[i] # t
    BY <1>2
  <2>7. IsInjective(p)
    <3> SUFFICES ASSUME NEW i \in 1..Len(q) + 1, NEW j \in 1..Len(q) + 1, p[i] = p[j] PROVE i = j
      BY <2>5 DEF IsInjective
    <3>1. \A k \in 1..Len(q) + 1 : k = 1 \/ k = Len(q) + 1 \/ k \in 2..Len(q)
      BY <1>1
    <3>2. 1 \in 1..Len(q) /\ Len(q) + 1 # 1
      BY <1>1, <2>1
    <3>3. \A k \in 2..Len(q) : k \in 1..Len(q)
      BY <1>1
    <3>4. ASSUME NEW k \in 2..Len(q), q[k] = q[1] PROVE FALSE
      <4>1. k \in 1..Len(q) /\ k # 1
        BY <1>1
      <4> QED BY <1>1, <3>2, <3>4, <4>1
    <3>5. CASE i = 1
      BY <2>3, <2>4, <2>6, <3>1, <3>2, <3>3, <3>5
    <3>6. CASE i = Len(q) + 1
      BY <2>3, <2>4, <2>6, <3>1, <3>2, <3>4, <3>6
    <3>7. CASE i \in 2..Len(q)
      <4>1. CASE j \in 2..Len(q)
        BY <1>1, <2>4, <3>3, <3>7, <4>1
      <4>2. CASE j = 1
        BY <2>3, <2>4, <2>6, <3>3, <3>7, <4>2
      <4>3. CASE j = Len(q) + 1
        BY <2>3, <2>4, <3>4, <3>7, <4>3
      <4> QED BY <3>1, <4>1, <4>2, <4>3
    <3> QED BY <3>1, <3>5, <3>6, <3>7
  <2>8. ToSet(p) = ToSet(q) \cup {t}
    <3>1. ASSUME NEW i \in 1..Len(q) PROVE q[i] \in ToSet(p)
      <4>1. PICK k \in DOMAIN p : p[k] = q[i]
        <5>1. i = 1 \/ i \in 2..Len(q)
          BY <1>1
        <5>2. Len(q) + 1 \in DOMAIN p /\ \A k \in 2..Len(q) : k \in DOMAIN p
          BY <1>1, <2>5
        <5> QED BY <2>3, <2>4, <5>1, <5>2
      <4> QED BY <4>1 DEF ToSet
    <3>2. ASSUME NEW i \in DOMAIN p PROVE p[i] \in ToSet(q) \cup {t}
      <4>1. i = 1 \/ i = Len(q) + 1 \/ i \in 2..Len(q)
        BY <1>1, <2>5
      <4>2. 1 \in 1..Len(q) /\ \A j \in 2..Len(q) : j \in 1..Len(q)
        BY <1>1, <2>1
      <4> QED BY <1>2, <2>3, <2>4, <4>1, <4>2
    <3>3. t \in ToSet(p)
      BY <1>1, <2>3, <2>5 DEF ToSet
    <3> QED BY <1>2, <3>1, <3>2, <3>3 DEF ToSet
  <2> QED BY <1>0, <2>3, <2>7, <2>8 DEF Queue
<1>4. CASE ~(q # <<>> /\ tm[t].due < tm[q[1]].due)
  <2>1. p = Append(q, t)
    BY <1>0, <1>4 DEF Push
  <2>2. p \in Seq(1..n) /\ Len(p) = Len(q) + 1 /\ p[Len(q) + 1] = t
    BY <1>1, <2>1
  <2>3. \A i \in 1..Len(q) : p[i] = q[i]
    BY <1>1, <2>1
  <2>4. DOMAIN p = 1..Len(q) + 1
    BY <2>2
  <2>5. \A i \in 1..Len(q) : q[i] # t
    BY <1>2
  <2>6. IsInjective(p)
    <3> SUFFICES ASSUME NEW i \in 1..Len(q) + 1, NEW j \in 1..Len(q) + 1, p[i] = p[j] PROVE i = j
      BY <2>4 DEF IsInjective
    <3>1. \A k \in 1..Len(q) + 1 : k = Len(q) + 1 \/ k \in 1..Len(q)
      BY <1>1
    <3> QED BY <1>1, <2>2, <2>3, <2>5, <3>1
  <2>7. ToSet(p) = ToSet(q) \cup {t}
    <3>1. ASSUME NEW i \in 1..Len(q) PROVE q[i] \in ToSet(p)
      BY <1>1, <2>3, <2>4 DEF ToSet
    <3>2. ASSUME NEW i \in DOMAIN p PROVE p[i] \in ToSet(q) \cup {t}
      <4>1. i = Len(q) + 1 \/ i \in 1..Len(q)
        BY <1>1, <2>4
      <4> QED BY <1>2, <2>2, <2>3, <4>1
    <3>3. t \in ToSet(p)
      BY <1>1, <2>2, <2>4 DEF ToSet
    <3> QED BY <1>2, <3>1, <3>2, <3>3 DEF ToSet
  <2> QED BY <1>0, <2>2, <2>6, <2>7 DEF Queue
<1> QED BY <1>0, <1>3, <1>4

\* ... so that the first timer stays the one due first.
LEMMA PushTop ==
  ASSUME NEW n \in Nat, NEW q, Queue(q, n), NEW t \in 1..n, t \notin ToSet(q),
         NEW tm, Dues(tm, n), TopIsFirst(q, tm)
  PROVE  TopIsFirst(Push(q, t, tm), tm)
<1>0. PICK p : p = Push(q, t, tm)
  OBVIOUS
<1>1. q \in Seq(1..n) /\ Len(q) \in Nat /\ \A i \in 1..Len(q) : q[i] \in 1..n
  BY DEF Queue
<1>2. \A i \in 1..Len(q) : tm[q[i]].due \in Int /\ tm[q[1]].due <= tm[q[i]].due
  BY <1>1 DEF Dues, TopIsFirst
<1>3. tm[t].due \in Int
  BY DEF Dues
<1>4. CASE q # <<>> /\ tm[t].due < tm[q[1]].due
  <2>1. p = <<t>> \o Tail(q) \o <<q[1]>> /\ Len(q) >= 1
    BY <1>0, <1>1, <1>4 DEF Push
  <2>2. Tail(q) \in Seq(1..n) /\ Len(Tail(q)) = Len(q) - 1 /\ \A i \in 1..Len(q) - 1 : Tail(q)[i] = q[i + 1]
    BY <1>1, <1>4, <2>1
  <2>3. Len(p) = Len(q) + 1 /\ p[1] = t /\ p[Len(q) + 1] = q[1]
    BY <1>1, <2>1, <2>2
  <2>4. \A i \in 2..Len(q) : p[i] = q[i]
    BY <1>1, <2>1, <2>2
  <2>5. ASSUME NEW i \in 1..Len(q) + 1 PROVE tm[t].due <= tm[p[i]].due
    <3>1. i = 1 \/ i = Len(q) + 1 \/ i \in 2..Len(q)
      BY <1>1
    <3>2. CASE i = 1
      BY <1>3, <2>3, <3>2
    <3>3. CASE i = Len(q) + 1
      BY <1>2, <1>3, <1>4, <2>1, <2>3, <3>3
    <3>4. CASE i \in 2..Len(q)
      <4>1. p[i] = q[i] /\ i \in 1..Len(q) /\ 1 \in 1..Len(q)
        BY <1>1, <2>1, <2>4, <3>4
      <4> QED BY <1>2, <1>3, <1>4, <4>1
    <3> QED BY <3>1, <3>2, <3>3, <3>4
  <2> QED BY <1>0, <2>3, <2>5 DEF TopIsFirst
<1>5. CASE ~(q # <<>> /\ tm[t].due < tm[q[1]].due)
  <2>1. p = Append(q, t) /\ Len(p) = Len(q) + 1 /\ p[Len(q) + 1] = t /\ \A i \in 1..Len(q) : p[i] = q[i]
    BY <1>0, <1>1, <1>5 DEF Push
  <2>2. CASE Len(q) = 0
    <3>1. \A i \in 1..Len(p) : i = 1
      BY <1>1, <2>1, <2>2
    <3> QED BY <1>0, <1>3, <2>1, <2>2, <3>1 DEF TopIsFirst
  <2>3. CASE Len(q) # 0
    <3>1. 1 \in 1..Len(q) /\ p[1] = q[1] /\ tm[q[1]].due <= tm[t].due
      BY <1>1, <1>2, <1>3, <1>5, <2>1, <2>3
    <3>2. ASSUME NEW i \in 1..Len(q) + 1 PROVE tm[q[1]].due <= tm[p[i]].due
      <4>1. i = Len(q) + 1 \/ i \in 1..Len(q)
        BY <1>1
      <4> QED BY <1>2, <2>1, <3>1, <4>1
    <3> QED BY <1>0, <2>1, <3>1, <3>2 DEF TopIsFirst
  <2> QED BY <2>2, <2>3
<1> QED BY <1>0, <1>4, <1>5

\* A pop takes the top away; of the two timers behind it the one due first comes up.
LEMMA PopElements ==
  ASSUME NEW n \in Nat, NEW q, Queue(q, n), q # <<>>, NEW tm
  PROVE  /\ Queue(Pop(q, tm), n) /\ Len(Pop(q, tm)) = Len(q) - 1
         /\ q[1] = Head(q) /\ q[1] \in ToSet(q) /\ q[1] \in 1..n
         /\ ToSet(Pop(q, tm)) = ToSet(q) \ {q[1]}
<1>0. PICK p : p = Pop(q, tm)
  OBVIOUS
<1>1. q \in Seq(1..n) /\ Len(q) \in Nat /\ Len(q) >= 1 /\ \A i, j \in 1..Len(q) : q[i] = q[j] => i = j
  BY DEF Queue, IsInjective
<1>2. ToSet(q) = {q[i] : i \in 1..Len(q)}
  BY <1>1 DEF ToSet
<1>3. q[1] = Head(q) /\ q[1] \in ToSet(q) /\ q[1] \in 1..n
  <2>1. 1 \in 1..Len(q)
    BY <1>1
  <2> QED BY <1>1, <1>2, <2>1
<1>4. CASE Len(q) = 3 /\ tm[q[3]].due < tm[q[2]].due
  <2>1. p = <<q[3], q[2]>>
    BY <1>0, <1>4 DEF Pop
  <2>2. q[1] \in 1..n /\ q[2] \in 1..n /\ q[3] \in 1..n
    <3>1. 1 \in 1..Len(q) /\ 2 \in 1..Len(q) /\ 3 \in 1..Len(q)
      BY <1>4
    <3> QED BY <1>1, <3>1
  <2>3. q[1] # q[2] /\ q[1] # q[3] /\ q[2] # q[3]
    BY <1>1, <1>4
  <2>4. p \in Seq(1..n) /\ Len(p) = 2 /\ DOMAIN p = 1..2 /\ p[1] = q[3] /\ p[2] = q[2]
    BY <2>1, <2>2
  <2>5. IsInjective(p)
    BY <2>3, <2>4 DEF IsInjective
  <2>6. ToSet(p) = {q[2], q[3]} /\ ToSet(q) = {q[1], q[2], q[3]}
    <3>1. \A i : i \in 1..2 <=> i = 1 \/ i = 2
      OBVIOUS
    <3>2. \A i : i \in 1..Len(q) <=> i = 1 \/ i = 2 \/ i = 3
      BY <1>4
    <3> QED BY <1>2, <2>4, <3>1, <3>2 DEF ToSet
  <2> QED BY <1>0, <1>3, <1>4, <2>3, <2>4, <2>5, <2>6 DEF Queue
<1>5. CASE ~(Len(q) = 3 /\ tm[q[3]].due < tm[q[2]].due)
  <2>1. p = Tail(q)
    BY <1>0, <1>5 DEF Pop
  <2>2. p \in Seq(1..n) /\ Len(p) = Len(q) - 1 /\ DOMAIN p = 1..Len(q) - 1
    BY <1>1, <2>1
  <2>3. \A i \in 1..Len(q) - 1 : p[i] = q[i + 1] /\ i + 1 \in 1..Len(q) /\ i + 1 # 1
    BY <1>1, <2>1
  <2>4. IsInjective(p)
    <3> SUFFICES ASSUME NEW i \in 1..Len(q) - 1, NEW j \in 1..Len(q) - 1, p[i] = p[j] PROVE i = j
      BY <2>2 DEF IsInjective
    <3>1. i + 1 = j + 1
      BY <1>1, <2>3
    <3> QED BY <3>1
  <2>5. ToSet(p) = ToSet(q) \ {q[1]}
    <3>1. ASSUME NEW i \in DOMAIN p PROVE p[i] \in ToSet(q) \ {q[1]}
      <4>1. p[i] = q[i + 1] /\ i + 1 \in 1..Len(q) /\ i + 1 # 1 /\ 1 \in 1..Len(q)
        BY <1>1, <2>2, <2>3
      <4> QED BY <1>1, <1>2, <4>1
    <3>2. ASSUME NEW j \in 1..Len(q), q[j] # q[1] PROVE q[j] \in ToSet(p)
      <4>1. j - 1 \in 1..Len(q) - 1 /\ (j - 1) + 1 = j
        BY <1>1, <3>2
      <4>2. p[j - 1] = q[j]
        BY <2>3, <4>1
      <4> QED BY <2>2, <4>1, <4>2 DEF ToSet
    <3> QED BY <1>2, <3>1, <3>2 DEF ToSet
  <2> QED BY <1>0, <1>3, <2>2, <2>4, <2>5 DEF Queue
<1> QED BY <1>4, <1>5

\* ... so that the first timer is again the one due first, in a queue of three at most.
LEMMA PopTop ==
  ASSUME NEW n \in Nat, NEW q, Queue(q, n), q # <<>>, Len(q) <= 3, NEW tm, Dues(tm, n)
  PROVE  TopIsFirst(Pop(q, tm), tm)
<1>0. PICK p : p = Pop(q, tm)
  OBVIOUS
<1>1. q \in Seq(1..n) /\ Len(q) \in 1..3 /\ \A i \in 1..Len(q) : q[i] \in 1..n
  <2>1. q \in Seq(1..n)
    BY DEF Queue
  <2>2. Len(q) \in Nat \ {0}
    BY <2>1, EmptySeq
  <2>5. Len(q) <= 3
    OBVIOUS
  <2>6. \A l : l \in Nat \ {0} /\ l <= 3 => l \in 1..3
    OBVIOUS
  <2>4. Len(q) \in 1..3
    BY <2>2, <2>5, <2>6
  <2>3. \A i \in 1..Len(q) : q[i] \in 1..n
    BY <2>1
  <2> QED BY <2>1, <2>3, <2>4
<1>2. \A i \in 1..Len(q) : tm[q[i]].due \in Int
  BY <1>1 DEF Dues
<1>3. CASE Len(q) = 3 /\ tm[q[3]].due < tm[q[2]].due
  <2>1. Len(p) = 2 /\ p[1] = q[3] /\ p[2] = q[2]
    BY <1>0, <1>3 DEF Pop
  <2>2. \A i \in 1..Len(p) : i = 1 \/ i = 2
    BY <2>1
  <2>3. tm[q[3]].due <= tm[q[2]].due /\ tm[q[3]].due <= tm[q[3]].due
    BY <1>2, <1>3
  <2> QED BY <1>0, <2>1, <2>2, <2>3 DEF TopIsFirst
<1>4. CASE ~(Len(q) = 3 /\ tm[q[3]].due < tm[q[2]].due)
  <2>1. p = Tail(q)
    BY <1>0, <1>4 DEF Pop
  <2>2. Len(p) = Len(q) - 1 /\ \A i \in 1..Len(q) - 1 : p[i] = q[i + 1]
    BY <1>1, <2>1
  <2>3. CASE Len(q) = 3
    <3>1. Len(p) = 2 /\ p[1] = q[2] /\ p[2] = q[3]
      BY <2>2, <2>3
    <3>2. \A i \in 1..Len(p) : i = 1 \/ i = 2
      BY <3>1
    <3>3. tm[q[2]].due <= tm[q[3]].due /\ tm[q[2]].due <= tm[q[2]].due
      BY <1>2, <1>4, <2>3
    <3> QED BY <1>0, <3>1, <3>2, <3>3 DEF TopIsFirst
  <2>4. CASE Len(q) # 3
    <3>1. \A i \in 1..Len(p) : i = 1 /\ p[1] = q[2] /\ 2 \in 1..Len(q)
      BY <1>1, <2>2, <2>4
    <3> QED BY <1>0, <1>2, <3>1 DEF TopIsFirst
  <2> QED BY <2>3, <2>4
<1> QED BY <1>3, <1>4

-----------------------------------------------------------------------------
(* Type correctness.  What a step does to the timers matters to every theorem;   *)
(* most steps leave them alone.                                                  *)

Waiting == {"out", "regWait", "conWait", "queue"}

\* The numbers, the flags and what the RTI holds.
ScalarsOK ==
  /\ config \in Configs
  /\ mLogicalTime \in 0..MaxTime /\ mGrantedTime \in 0..MaxTime /\ rtiTime \in 0..MaxTime
  /\ mInitialOffsetTime \in 0..MaxTime /\ mUserRequestedSimTime \in 0..MaxTime
  /\ mLastLogicalTimeValue \in 0..MaxTime
  /\ mProcessUserTimers \in BOOLEAN /\ mIsRegulating \in BOOLEAN /\ mIsConstrained \in BOOLEAN
  /\ mRequestPending \in BOOLEAN /\ mFederateTooFast \in BOOLEAN /\ event \in BOOLEAN
  /\ tpc \in Waiting \cup {"joined", "loop", "sleep", "evoke", "buffers", "timers", "callback", "request"}
  /\ returnTo \in {"request", "sleep"} /\ timeout \in Int
  /\ inbox \in Seq(Message) /\ requested \in Nat

\* The timers are numbered as they are created, and are due no earlier than after their
\* first period.  The queue has each once, is empty until the federate joins, and lacks
\* the one that runs.
TimersOK ==
  LET n == Len(mTimerPersistent)
  IN /\ n \in 0..3 /\ mTimerPersistent = [i \in 1..n |-> i]
     /\ timer \in [1..n -> Timer] /\ \A t \in 1..n : timer[t].due >= timer[t].period
     /\ Queue(mTimerQueue, n) /\ executing \in 0..n /\ executing \notin ToSet(mTimerQueue)
     /\ (tpc \in Waiting => mTimerQueue = <<>>)
     /\ (executing # 0 <=> tpc = "callback") /\ nextTimerDueTime \in Nat
     /\ canceled \subseteq 1..n /\ \A t \in 1..n : timer[t].mCanceled => t \in canceled

\* A step that leaves the timers alone.
Quiet ==
  /\ UNCHANGED <<mTimerQueue, mTimerPersistent, timer, canceled, executing, nextTimerDueTime, leaves>>
  /\ (tpc' \in Waiting <=> tpc \in Waiting) /\ (tpc' = "callback" <=> tpc = "callback")

\* The others.
LEMMA TimerSteps ==
  ASSUME [Next]_vars
  PROVE  \/ Quiet \/ QueueTimers \/ Reset \/ ProcessUserTimers \/ CallbackReturns
         \/ \E offset \in Offsets, period \in Periods, cyclic \in BOOLEAN : CreateTimer(offset, period, cyclic)
         \/ \E t \in Timers : Cancel(t)
         \/ \E t \in Timers, period \in Periods : SetPeriod(t, period)
<1>1. CASE Thread
  <2>1. CASE Join
    BY <2>1 DEF Join, Quiet, timers, Waiting
  <2>2. CASE AwaitPolicy
    BY <2>2 DEF AwaitPolicy, evokeCallback, Quiet, timers, Waiting
  <2>3. CASE GoOnline
    BY <2>3 DEF GoOnline, evokeCallback, Quiet, timers, Waiting
  <2>4. CASE ComputeTimeout
    BY <2>4 DEF ComputeTimeout, Quiet, timers, Waiting
  <2>5. CASE WaitForSingleEvent
    BY <2>5 DEF WaitForSingleEvent, Quiet, timers, Waiting
  <2>6. CASE EvokeCallbacks
    BY <2>6 DEF EvokeCallbacks, evokeCallback, Quiet, timers, Waiting
  <2>7. CASE ProcessBuffers
    BY <2>7 DEF ProcessBuffers, Quiet, timers, Waiting
  <2>8. CASE TimeRequest
    BY <2>8 DEF TimeRequest, Quiet, timers, Waiting
  <2> QED BY <1>1, <2>1, <2>2, <2>3, <2>4, <2>5, <2>6, <2>7, <2>8 DEF Thread
<1>2. CASE Application
  <2>1. ASSUME NEW newTime, RequestSimulationTime(newTime) PROVE Quiet
    BY <2>1 DEF RequestSimulationTime, Quiet, timers, thread
  <2> QED BY <1>2, <2>1 DEF Application
<1>3. CASE EnablePolicy \/ Grant \/ Event
  BY <1>3 DEF EnablePolicy, Grant, Event, Quiet, timers, thread
<1>4. CASE UNCHANGED vars
  BY <1>4 DEF Quiet, vars, timers, thread
<1> QED BY <1>1, <1>2, <1>3, <1>4 DEF Next

\* A queue has no more places than there are timers.
LEMMA QueueLength ==
  ASSUME NEW n \in 0..3, NEW q, Queue(q, n)
  PROVE  Len(q) <= 3
<1>1. q \in Seq(1..n) /\ Len(q) \in Nat /\ \A i, j \in 1..Len(q) : q[i] = q[j] => i = j
  BY DEF Queue, IsInjective
<1>2. SUFFICES ASSUME Len(q) > 3 PROVE FALSE
  BY <1>1
<1>3. 1 \in 1..Len(q) /\ 2 \in 1..Len(q) /\ 3 \in 1..Len(q) /\ 4 \in 1..Len(q)
  BY <1>1, <1>2
<1>4. q[1] \in 1..n /\ q[2] \in 1..n /\ q[3] \in 1..n /\ q[4] \in 1..n
  BY <1>1, <1>3
<1>5. /\ q[1] # q[2] /\ q[1] # q[3] /\ q[1] # q[4]
      /\ q[2] # q[3] /\ q[2] # q[4] /\ q[3] # q[4]
  BY <1>1, <1>3
<1>6. \A i \in 1..n : i = 1 \/ i = 2 \/ i = 3
  OBVIOUS
<1> QED BY <1>4, <1>5, <1>6

\* The first timers of n.
Below(n, k) == {i \in 1..n : i < k}

\* The persistent timers come into the queue one after the other.
LEMMA PushNthElements ==
  ASSUME NEW n \in 0..3, NEW s, s = [i \in 1..n |-> i], NEW tm, Dues(tm, n), NEW k \in 1..3,
         NEW q, Queue(q, n), ToSet(q) = Below(n, k), TopIsFirst(q, tm)
  PROVE  /\ Queue(PushNth(q, s, k, tm), n) /\ TopIsFirst(PushNth(q, s, k, tm), tm)
         /\ ToSet(PushNth(q, s, k, tm)) = Below(n, k + 1)
<1>1. s \in Seq(1..n) /\ Len(s) = n /\ n \in Nat
  OBVIOUS
<1>2. CASE k <= n
  <2>1. k \in 1..n /\ s[k] = k
    BY <1>2
  <2>2. PushNth(q, s, k, tm) = Push(q, k, tm)
    BY <1>1, <1>2, <2>1 DEF PushNth
  <2>3. Below(n, k) \cup {k} = Below(n, k + 1) /\ k \notin Below(n, k)
    BY <2>1 DEF Below
  <2>4. k \notin ToSet(q)
    BY <2>3
  <2>5. Queue(Push(q, k, tm), n) /\ ToSet(Push(q, k, tm)) = ToSet(q) \cup {k}
    BY <1>1, <2>1, <2>4, PushElements
  <2>6. TopIsFirst(Push(q, k, tm), tm)
    BY <1>1, <2>1, <2>4, PushTop
  <2> QED BY <2>2, <2>3, <2>5, <2>6
<1>3. CASE k > n
  <2>1. PushNth(q, s, k, tm) = q
    BY <1>1, <1>3 DEF PushNth
  <2>2. Below(n, k) = Below(n, k + 1)
    BY <1>3 DEF Below
  <2> QED BY <2>1, <2>2
<1> QED BY <1>1, <1>2, <1>3

\* Then all of them are in the queue.
LEMMA PushAllElements ==
  ASSUME NEW n \in 0..3, NEW s, s = [i \in 1..n |-> i], NEW tm, Dues(tm, n)
  PROVE  /\ Queue(PushAll(<<>>, s, tm), n) /\ TopIsFirst(PushAll(<<>>, s, tm), tm)
         /\ ToSet(PushAll(<<>>, s, tm)) = 1..n
<1>0. PICK q1 : q1 = PushNth(<<>>, s, 1, tm)
  OBVIOUS
<1>1. PICK q2 : q2 = PushNth(q1, s, 2, tm)
  OBVIOUS
<1>2. PICK q3 : q3 = PushNth(q2, s, 3, tm)
  OBVIOUS
<1>3. Queue(<<>>, n) /\ TopIsFirst(<<>>, tm) /\ ToSet(<<>>) = Below(n, 1)
  BY DEF Queue, TopIsFirst, ToSet, IsInjective, Below
<1>4. ASSUME NEW k \in 1..3, NEW q, Queue(q, n), ToSet(q) = Below(n, k), TopIsFirst(q, tm),
             NEW p, p = PushNth(q, s, k, tm)
      PROVE  Queue(p, n) /\ ToSet(p) = Below(n, k + 1) /\ TopIsFirst(p, tm)
  BY <1>4, PushNthElements
<1>5. 1 \in 1..3 /\ 2 \in 1..3 /\ 3 \in 1..3 /\ 1 + 1 = 2 /\ 2 + 1 = 3 /\ 3 + 1 = 4
  OBVIOUS
<1>6. Queue(q1, n) /\ ToSet(q1) = Below(n, 2) /\ TopIsFirst(q1, tm)
  <2>1. Queue(q1, n) /\ ToSet(q1) = Below(n, 1 + 1) /\ TopIsFirst(q1, tm)
    BY <1>0, <1>3, <1>4, <1>5
  <2> QED BY <2>1
<1>7. Queue(q2, n) /\ ToSet(q2) = Below(n, 3) /\ TopIsFirst(q2, tm)
  <2>1. Queue(q2, n) /\ ToSet(q2) = Below(n, 2 + 1) /\ TopIsFirst(q2, tm)
    BY <1>1, <1>4, <1>5, <1>6
  <2> QED BY <2>1
<1>8. Queue(q3, n) /\ ToSet(q3) = 1..n /\ TopIsFirst(q3, tm)
  <2>1. Queue(q3, n) /\ ToSet(q3) = Below(n, 3 + 1) /\ TopIsFirst(q3, tm)
    BY <1>2, <1>4, <1>5, <1>7
  <2>2. Below(n, 3 + 1) = 1..n
    BY DEF Below
  <2> QED BY <2>1, <2>2
<1> QED BY <1>0, <1>1, <1>2, <1>8 DEF PushAll

\* Taken out in order and queued again they are a queue as before.
LEMMA RequeuedElements ==
  ASSUME NEW n \in 0..3, NEW q, Queue(q, n), q # <<>>, NEW tm, Dues(tm, n), TopIsFirst(q, tm)
  PROVE  /\ Queue(<<Head(q)>> \o Pop(q, tm), n) /\ ToSet(<<Head(q)>> \o Pop(q, tm)) = ToSet(q)
         /\ TopIsFirst(<<Head(q)>> \o Pop(q, tm), tm)
<1>0. PICK p : p = Pop(q, tm)
  OBVIOUS
<1>1. PICK r : r = <<Head(q)>> \o p
  OBVIOUS
<1>2. /\ p \in Seq(1..n) /\ IsInjective(p) /\ Len(p) = Len(q) - 1 /\ q[1] = Head(q)
      /\ q[1] \in ToSet(q) /\ q[1] \in 1..n /\ ToSet(p) = ToSet(q) \ {q[1]}
  BY <1>0, PopElements DEF Queue
<1>3. r \in Seq(1..n) /\ Len(r) = Len(p) + 1 /\ r[1] = q[1] /\ \A i \in 2..Len(p) + 1 : r[i] = p[i - 1]
  BY <1>1, <1>2
<1>4. \A i \in 2..Len(p) + 1 : i - 1 \in 1..Len(p) /\ r[i] \in ToSet(p)
  <2>1. DOMAIN p = 1..Len(p) /\ Len(p) \in Nat
    BY <1>2
  <2>2. \A i \in 2..Len(p) + 1 : i - 1 \in DOMAIN p
    BY <2>1
  <2>3. \A i \in DOMAIN p : p[i] \in ToSet(p)
    BY DEF ToSet
  <2> QED BY <1>3, <2>1, <2>2, <2>3
<1>5. DOMAIN r = 1..Len(p) + 1 /\ \A i \in DOMAIN r : i = 1 \/ i \in 2..Len(p) + 1
  BY <1>2, <1>3
<1>6. IsInjective(r)
  <2> SUFFICES ASSUME NEW i \in DOMAIN r, NEW j \in DOMAIN r, r[i] = r[j] PROVE i = j
    BY DEF IsInjective
  <2>1. CASE i = 1 \/ j = 1
    BY <1>2, <1>3, <1>4, <1>5, <2>1
  <2>2. CASE i # 1 /\ j # 1
    <3>1. i \in 2..Len(p) + 1 /\ j \in 2..Len(p) + 1 /\ p[i - 1] = p[j - 1]
      BY <1>3, <1>5, <2>2
    <3>2. i - 1 \in DOMAIN p /\ j - 1 \in DOMAIN p
      BY <1>2, <1>4, <3>1
    <3>3. i - 1 = j - 1
      BY <1>2, <3>1, <3>2 DEF IsInjective
    <3> QED BY <3>1, <3>3
  <2> QED BY <2>1, <2>2
<1>7. ToSet(r) = ToSet(q)
  <2>1. \A i \in DOMAIN r : r[i] \in ToSet(q)
    BY <1>2, <1>3, <1>4, <1>5
  <2>2. ASSUME NEW i \in DOMAIN p PROVE p[i] \in ToSet(r)
    <3>1. i + 1 \in DOMAIN r /\ i + 1 \in 2..Len(p) + 1 /\ (i + 1) - 1 = i
      BY <1>2, <1>5
    <3> QED BY <1>3, <3>1 DEF ToSet
  <2>3. q[1] \in ToSet(r)
    <3>1. 1 \in DOMAIN r
      BY <1>2, <1>3
    <3> QED BY <1>3, <3>1 DEF ToSet
  <2>4. ToSet(p) \subseteq ToSet(r)
    BY <2>2 DEF ToSet
  <2>5. ToSet(r) \subseteq ToSet(q)
    BY <2>1 DEF ToSet
  <2> QED BY <1>2, <2>3, <2>4, <2>5
<1>8. TopIsFirst(r, tm)
  <2> SUFFICES ASSUME NEW i \in 1..Len(r) PROVE tm[r[1]].due <= tm[r[i]].due
    BY DEF TopIsFirst
  <2>1. r[i] \in ToSet(q)
    <3>1. i \in DOMAIN r
      BY <1>3
    <3> QED BY <1>7, <3>1 DEF ToSet
  <2>2. PICK j \in DOMAIN q : r[i] = q[j]
    BY <2>1 DEF ToSet
  <2>3. j \in 1..Len(q)
    BY DEF Queue
  <2> QED BY <1>3, <2>2, <2>3 DEF TopIsFirst
<1> QED BY <1>0, <1>1, <1>3, <1>6, <1>7, <1>8 DEF Queue

\* Setting and shifting a timer.
LEMMA SetTimerOK ==
  ASSUME NEW t \in Timer, t.period \in Nat, NEW absoluteTime \in Nat
  PROVE  /\ SetTimer(t, absoluteTime) \in Timer
         /\ SetTimer(t, absoluteTime).due = absoluteTime + t.period
         /\ SetTimer(t, absoluteTime).period = t.period
         /\ SetTimer(t, absoluteTime).cyclic = t.cyclic
         /\ SetTimer(t, absoluteTime).mCanceled = FALSE
         /\ SetTimer(t, absoluteTime).offset = t.offset
<1>1. PICK d : d = absoluteTime + t.period /\ d \in Int
  OBVIOUS
<1>2. SetTimer(t, absoluteTime) = [t EXCEPT !.mCanceled = FALSE, !.due = d]
  BY <1>1 DEF SetTimer
<1>3. ASSUME NEW v, v = [t EXCEPT !.mCanceled = FALSE, !.due = d]
      PROVE  /\ v \in Timer /\ v.due = d /\ v.period = t.period /\ v.cyclic = t.cyclic
             /\ v.mCanceled = FALSE /\ v.offset = t.offset
  BY <1>1, <1>3 DEF Timer
<1> QED BY <1>1, <1>2, <1>3

LEMMA ShiftOK ==
  ASSUME NEW t \in Timer, NEW offsetTime \in Int
  PROVE  /\ Shift(t, offsetTime) \in Timer
         /\ Shift(t, offsetTime).due = t.due + offsetTime
         /\ Shift(t, offsetTime).period = t.period
         /\ Shift(t, offsetTime).cyclic = t.cyclic
         /\ Shift(t, offsetTime).mCanceled = t.mCanceled
  BY DEF Timer, Shift

\* What is known of the timers, one by one.
LEMMA TimersAreTimers ==
  ASSUME TimersOK, NEW n, n = Len(mTimerPersistent)
  PROVE  /\ n \in 0..3 /\ Timers = 1..n
         /\ \A t \in 1..n : /\ timer[t] \in Timer /\ timer[t].due \in Nat /\ timer[t].period \in Nat
                            /\ timer[t].offset \in Nat /\ timer[t].due >= timer[t].period
                            /\ timer[t].cyclic \in BOOLEAN /\ timer[t].mCanceled \in BOOLEAN
         /\ Dues(timer, n)
<1>1. n \in 0..3 /\ Timers = 1..n /\ \A t \in 1..n : timer[t] \in Timer /\ timer[t].due >= timer[t].period
  BY DEF TimersOK, Timers
<1>2. \A t \in Timer : /\ t.due \in Int /\ t.period \in Nat /\ t.offset \in Nat
                       /\ t.cyclic \in BOOLEAN /\ t.mCanceled \in BOOLEAN
  BY DEF Timer
<1>3. \A t \in 1..n : timer[t].due \in Nat
  <2> TAKE t \in 1..n
  <2>1. timer[t].due \in Int /\ timer[t].period \in Nat /\ timer[t].due >= timer[t].period
    BY <1>1, <1>2
  <2> QED BY <2>1
<1> QED BY <1>1, <1>2, <1>3 DEF Dues

\* When the federate has joined all timers are queued, none is canceled any more.
LEMMA QueueTimersStep ==
  ASSUME ScalarsOK, TimersOK, QueueTimers, NEW n, n = Len(mTimerPersistent)
  PROVE  /\ Queue(mTimerQueue', n) /\ ToSet(mTimerQueue') = 1..n /\ TopIsFirst(mTimerQueue', timer')
         /\ timer' \in [1..n -> Timer]
         /\ \A t \in 1..n : /\ timer'[t].due = timer[t].offset + timer[t].period + mInitialOffsetTime
                            /\ timer'[t].due >= timer'[t].period
                            /\ timer'[t].cyclic = timer[t].cyclic /\ timer'[t].period = timer[t].period
                            /\ timer'[t].mCanceled = FALSE
<1>1. PICK restarted : restarted = [t \in 1..n |-> Restart(timer[t])]
  OBVIOUS
<1>2. /\ n \in 0..3 /\ Timers = 1..n /\ n \in Nat
      /\ \A t \in 1..n : timer[t] \in Timer /\ timer[t].period \in Nat /\ timer[t].offset \in Nat
  BY TimersAreTimers
<1>3. mInitialOffsetTime \in Nat
  BY BoundsAssumption DEF ScalarsOK
<1>4. ASSUME NEW t \in 1..n
      PROVE  /\ restarted[t] \in Timer /\ restarted[t].due = timer[t].offset + timer[t].period
             /\ restarted[t].period = timer[t].period /\ restarted[t].cyclic = timer[t].cyclic
             /\ restarted[t].mCanceled = FALSE
  <2>1. restarted[t] = SetTimer(timer[t], timer[t].offset)
    BY <1>1 DEF Restart
  <2>2. PICK u, o : u = timer[t] /\ o = timer[t].offset
    OBVIOUS
  <2>3. u \in Timer /\ u.period \in Nat /\ o \in Nat
    BY <1>2, <2>2
  <2>4. /\ SetTimer(u, o) \in Timer /\ SetTimer(u, o).due = o + u.period
        /\ SetTimer(u, o).period = u.period /\ SetTimer(u, o).cyclic = u.cyclic
        /\ SetTimer(u, o).mCanceled = FALSE
    BY <2>3, SetTimerOK
  <2> QED BY <2>1, <2>2, <2>4
<1>5. PICK queue : queue = PushAll(mTimerQueue, mTimerPersistent, restarted)
  OBVIOUS
<1>6. mTimerQueue = <<>> /\ mTimerPersistent = [i \in 1..n |-> i]
  BY DEF TimersOK, QueueTimers, Waiting
<1>7. Dues(restarted, n)
  <2> SUFFICES ASSUME NEW t \in 1..n PROVE restarted[t].due \in Int
    BY DEF Dues
  <2>1. timer[t].offset + timer[t].period \in Int
    BY <1>2
  <2> QED BY <1>4, <2>1
<1>8. Queue(queue, n) /\ TopIsFirst(queue, restarted) /\ ToSet(queue) = 1..n
  BY <1>2, <1>5, <1>6, <1>7, PushAllElements
<1>9. /\ timer' = [t \in 1..n |-> Shift(restarted[t], mInitialOffsetTime)]
      /\ mTimerQueue' = IF queue = <<>> THEN <<>> ELSE <<Head(queue)>> \o Pop(queue, restarted)
  BY <1>1, <1>2, <1>5 DEF QueueTimers
<1>10. ASSUME NEW t \in 1..n
       PROVE  /\ timer'[t] \in Timer /\ timer'[t].due = restarted[t].due + mInitialOffsetTime
              /\ timer'[t].period = timer[t].period /\ timer'[t].cyclic = timer[t].cyclic
              /\ timer'[t].mCanceled = FALSE
  <2>1. timer'[t] = Shift(restarted[t], mInitialOffsetTime)
    BY <1>9
  <2>2. PICK u, o : u = restarted[t] /\ o = mInitialOffsetTime
    OBVIOUS
  <2>5. o \in Int
    BY <1>3, <2>2
  <2>6. u \in Timer
    BY <1>4, <2>2
  <2>3. u \in Timer /\ o \in Int
    BY <2>5, <2>6
  <2>4. /\ Shift(u, o) \in Timer /\ Shift(u, o).due = u.due + o
        /\ Shift(u, o).period = u.period /\ Shift(u, o).cyclic = u.cyclic
        /\ Shift(u, o).mCanceled = u.mCanceled
    BY <2>3, ShiftOK
  <2> QED BY <1>4, <2>1, <2>2, <2>4
<1>11. \A t \in 1..n : /\ timer'[t].due = timer[t].offset + timer[t].period + mInitialOffsetTime
                       /\ timer'[t].due >= timer'[t].period
  <2> TAKE t \in 1..n
  <2>1. timer[t].offset \in Nat /\ timer[t].period \in Nat
    BY <1>2
  <2>2. timer'[t].due = timer[t].offset + timer[t].period + mInitialOffsetTime /\ timer'[t].period = timer[t].period
    BY <1>4, <1>10
  <2> QED BY <1>3, <2>1, <2>2
<1>12. /\ Queue(mTimerQueue', n) /\ ToSet(mTimerQueue') = 1..n /\ TopIsFirst(mTimerQueue', restarted)
  <2>1. CASE queue = <<>>
    BY <1>8, <1>9, <2>1
  <2>2. CASE queue # <<>>
    BY <1>2, <1>7, <1>8, <1>9, <2>2, RequeuedElements
  <2> QED BY <2>1, <2>2
<1>13. TopIsFirst(mTimerQueue', timer')
  <2> SUFFICES ASSUME NEW i \in 1..Len(mTimerQueue')
               PROVE  timer'[mTimerQueue'[1]].due <= timer'[mTimerQueue'[i]].due
    BY DEF TopIsFirst
  <2>1. mTimerQueue'[1] \in 1..n /\ mTimerQueue'[i] \in 1..n
    <3>1. Len(mTimerQueue') \in Nat /\ mTimerQueue' \in Seq(1..n)
      BY <1>12 DEF Queue
    <3>2. 1 \in 1..Len(mTimerQueue')
      BY <3>1
    <3> QED BY <3>1, <3>2
  <2>2. restarted[mTimerQueue'[1]].due <= restarted[mTimerQueue'[i]].due
    BY <1>12 DEF TopIsFirst
  <2>3. restarted[mTimerQueue'[1]].due \in Int /\ restarted[mTimerQueue'[i]].due \in Int
    BY <1>7, <2>1 DEF Dues
  <2>4. /\ timer'[mTimerQueue'[1]].due = restarted[mTimerQueue'[1]].due + mInitialOffsetTime
        /\ timer'[mTimerQueue'[i]].due = restarted[mTimerQueue'[i]].due + mInitialOffsetTime
    BY <1>10, <2>1
  <2> QED BY <1>3, <2>2, <2>3, <2>4
<1>14. timer' \in [1..n -> Timer]
  BY <1>9, <1>10
<1> QED BY <1>10, <1>11, <1>12, <1>13, <1>14

\* A round of ProcessUserTimers takes the first timer out of the queue or nothing.
LEMMA ProcessUserTimersStep ==
  ASSUME TimersOK, ProcessUserTimers, NEW n, n = Len(mTimerPersistent)
  PROVE  /\ UNCHANGED <<mTimerPersistent, timer, canceled>>
         /\ \/ /\ mTimerQueue' = mTimerQueue /\ tpc' = returnTo
               /\ UNCHANGED <<executing, nextTimerDueTime>>
            \/ /\ mTimerQueue # <<>> /\ mTimerQueue[1] \in 1..n /\ Queue(mTimerQueue', n)
               /\ mTimerQueue[1] \in ToSet(mTimerQueue)
               /\ mTimerQueue' = Pop(mTimerQueue, timer)
               /\ ToSet(mTimerQueue') = ToSet(mTimerQueue) \ {mTimerQueue[1]}
               /\ \/ /\ timer[mTimerQueue[1]].mCanceled
                     /\ UNCHANGED <<tpc, executing, nextTimerDueTime>>
                  \/ /\ ~timer[mTimerQueue[1]].mCanceled
                     /\ timer[mTimerQueue[1]].due <= mLogicalTime
                     /\ tpc' = "callback" /\ executing' = mTimerQueue[1]
                     /\ nextTimerDueTime' = timer[mTimerQueue[1]].due
<1>1. n \in Nat /\ Queue(mTimerQueue, n)
  BY DEF TimersOK
<1>2. CASE mTimerQueue # <<>> /\ (IsCanceled(Head(mTimerQueue)) \/ IsDue(Head(mTimerQueue)))
  <2>1. /\ Queue(Pop(mTimerQueue, timer), n) /\ mTimerQueue[1] = Head(mTimerQueue)
        /\ mTimerQueue[1] \in ToSet(mTimerQueue) /\ mTimerQueue[1] \in 1..n
        /\ ToSet(Pop(mTimerQueue, timer)) = ToSet(mTimerQueue) \ {mTimerQueue[1]}
    BY <1>1, <1>2, PopElements
  <2> QED BY <1>2, <2>1 DEF ProcessUserTimers, IsCanceled, IsDue
<1>3. CASE ~(mTimerQueue # <<>> /\ (IsCanceled(Head(mTimerQueue)) \/ IsDue(Head(mTimerQueue))))
  BY <1>3 DEF ProcessUserTimers
<1> QED BY <1>2, <1>3

\* A cyclic timer goes back into the queue, another never.
LEMMA CallbackReturnsStep ==
  ASSUME TimersOK, CallbackReturns, NEW n, n = Len(mTimerPersistent)
  PROVE  /\ executing \in 1..n /\ executing' = 0
         /\ UNCHANGED <<mTimerPersistent, canceled>> /\ timer' \in [1..n -> Timer]
         /\ \/ /\ timer[executing].cyclic
               /\ Queue(mTimerQueue', n) /\ ToSet(mTimerQueue') = ToSet(mTimerQueue) \cup {executing}
               /\ mTimerQueue' = Push(mTimerQueue, executing, timer') /\ Dues(timer', n)
               /\ timer'[executing].due = nextTimerDueTime + timer[executing].period
               /\ timer'[executing].period = timer[executing].period
               /\ timer'[executing].cyclic = timer[executing].cyclic
               /\ timer'[executing].mCanceled = FALSE
               /\ \A t \in 1..n \ {executing} : timer'[t] = timer[t]
            \/ ~timer[executing].cyclic /\ UNCHANGED <<timer, mTimerQueue>>
<1>1. n \in Nat /\ Queue(mTimerQueue, n) /\ executing \in 1..n /\ executing \notin ToSet(mTimerQueue)
  BY DEF TimersOK, CallbackReturns
<1>2. nextTimerDueTime \in Nat /\ timer \in [1..n -> Timer]
  BY DEF TimersOK
<1>3. CASE timer[executing].cyclic
  <2>1. timer' = [timer EXCEPT ![executing] = SetTimer(timer[executing], nextTimerDueTime)]
    BY <1>3 DEF CallbackReturns
  <2>2. mTimerQueue' = Push(mTimerQueue, executing, timer')
    BY <1>3 DEF CallbackReturns, Rearm
  <2>3. timer[executing] \in Timer /\ timer[executing].period \in Nat
    BY <1>1, TimersAreTimers
  <2>4. timer'[executing] = SetTimer(timer[executing], nextTimerDueTime) /\ \A t \in 1..n \ {executing} : timer'[t] = timer[t]
    BY <1>1, <1>2, <2>1
  <2>5. /\ timer'[executing] \in Timer
        /\ timer'[executing].due = nextTimerDueTime + timer[executing].period
        /\ timer'[executing].period = timer[executing].period
        /\ timer'[executing].cyclic = timer[executing].cyclic
        /\ timer'[executing].mCanceled = FALSE
    <3>1. PICK u, o : u = timer[executing] /\ o = nextTimerDueTime
      OBVIOUS
    <3>2. u \in Timer /\ u.period \in Nat /\ o \in Nat
      BY <1>2, <2>3, <3>1
    <3>3. /\ SetTimer(u, o) \in Timer /\ SetTimer(u, o).due = o + u.period
          /\ SetTimer(u, o).period = u.period /\ SetTimer(u, o).cyclic = u.cyclic
          /\ SetTimer(u, o).mCanceled = FALSE
      BY <3>2, SetTimerOK
    <3> QED BY <2>4, <3>1, <3>3
  <2>6. timer' \in [1..n -> Timer]
    BY <1>1, <1>2, <2>1, <2>4, <2>5
  <2>7. Queue(mTimerQueue', n) /\ ToSet(mTimerQueue') = ToSet(mTimerQueue) \cup {executing}
    BY <1>1, <2>2, PushElements
  <2>8. Dues(timer', n)
    BY <2>6 DEF Dues, Timer
  <2> QED BY <1>1, <1>3, <2>2, <2>4, <2>5, <2>6, <2>7, <2>8 DEF CallbackReturns
<1>4. CASE ~timer[executing].cyclic
  BY <1>1, <1>2, <1>4 DEF CallbackReturns
<1> QED BY <1>3, <1>4

\* A timer created Online goes into the queue.
TimerCreated(n, offset, period) ==
  /\ n + 1 \in 0..3 /\ n + 1 \notin ToSet(mTimerQueue)
  /\ mTimerPersistent' = Append(mTimerPersistent, n + 1)
  /\ timer' \in [1..n + 1 -> Timer] /\ \A t \in 1..n : timer'[t] = timer[t]
  /\ timer'[n + 1].due = offset + period /\ timer'[n + 1].period = period
  /\ timer'[n + 1].mCanceled = FALSE
  /\ Queue(mTimerQueue, n + 1) /\ Queue(mTimerQueue', n + 1)
  /\ IF Online THEN /\ mTimerQueue' = Push(mTimerQueue, n + 1, timer')
                    /\ ToSet(mTimerQueue') = ToSet(mTimerQueue) \cup {n + 1}
               ELSE mTimerQueue' = mTimerQueue
  /\ UNCHANGED <<canceled, executing, nextTimerDueTime, tpc>>

\* ... whatever it is created with.
LEMMA CreateTimerStep ==
  ASSUME TimersOK, NEW offset \in Offsets, NEW period \in Periods, NEW cyclic \in BOOLEAN,
         CreateTimer(offset, period, cyclic), NEW n, n = Len(mTimerPersistent)
  PROVE  TimerCreated(n, offset, period)
<1>1. /\ n \in 0..3 /\ n \in Nat /\ Queue(mTimerQueue, n) /\ timer \in [1..n -> Timer] /\ Timers = 1..n
  BY TimersAreTimers DEF TimersOK
<1>2. n < 3 /\ n + 1 \in 0..3
  <2>1. n < MaxTimers
    BY DEF CreateTimer
  <2>2. MaxTimers \in 0..3 /\ n \in 0..3
    BY <1>1, BoundsAssumption
  <2>3. \A k, max \in 0..3 : k < max => k < 3 /\ k + 1 \in 0..3
    OBVIOUS
  <2> QED BY <2>1, <2>2, <2>3
<1>3. Cardinality(Timers) = n
  <2>0. 1 \in Int /\ n \in Int
    BY <1>1
  <2>1. Cardinality(1..n) = IF 1 > n THEN 0 ELSE n - 1 + 1
    BY <2>0, FS_Interval, Zenon
  <2>2. (IF 1 > n THEN 0 ELSE n - 1 + 1) = n
    BY <1>1
  <2> QED BY <1>1, <2>1, <2>2
<1>4. PICK new : new = SetTimer([offset |-> offset, period |-> period, due |-> 0, cyclic |-> cyclic,
                                 mCanceled |-> FALSE], offset)
  OBVIOUS
<1>5. /\ timer' = [u \in Timers \cup {n + 1} |-> IF u = n + 1 THEN new ELSE timer[u]]
      /\ mTimerPersistent' = Append(mTimerPersistent, n + 1)
      /\ mTimerQueue' = IF Online THEN Push(mTimerQueue, n + 1, timer') ELSE mTimerQueue
      /\ UNCHANGED <<canceled, executing, nextTimerDueTime, tpc>>
  BY <1>3, <1>4 DEF CreateTimer, thread
<1>6. offset \in Nat /\ period \in Nat
  BY BoundsAssumption
<1>7. new \in Timer /\ new.due = offset + period /\ new.period = period /\ new.mCanceled = FALSE
  <2>1. PICK t : t = [offset |-> offset, period |-> period, due |-> 0, cyclic |-> cyclic, mCanceled |-> FALSE]
    OBVIOUS
  <2>2. t \in Timer /\ t.period = period
    BY <1>6, <2>1 DEF Timer
  <2> QED BY <1>4, <1>6, <2>1, <2>2, SetTimerOK
<1>8. Timers \cup {n + 1} = 1..n + 1 /\ n + 1 \notin 1..n /\ n + 1 \in 1..n + 1
  BY <1>1
<1>9. timer'[n + 1] = new /\ \A t \in 1..n : timer'[t] = timer[t]
  BY <1>1, <1>5, <1>8
<1>10. timer' \in [1..n + 1 -> Timer]
  BY <1>1, <1>5, <1>7, <1>8
<1>11. n + 1 \notin ToSet(mTimerQueue)
  <2>1. \A i \in DOMAIN mTimerQueue : mTimerQueue[i] \in 1..n
    BY <1>1 DEF Queue
  <2> QED BY <1>8, <2>1 DEF ToSet
<1>12. Queue(mTimerQueue, n + 1)
  BY <1>1 DEF Queue
<1>13. Queue(Push(mTimerQueue, n + 1, timer'), n + 1)
       /\ ToSet(Push(mTimerQueue, n + 1, timer')) = ToSet(mTimerQueue) \cup {n + 1}
  <2>1. n + 1 \in Nat /\ n + 1 \in 1..n + 1
    BY <1>1
  <2> QED BY <1>11, <1>12, <2>1, PushElements
<1> QED BY <1>2, <1>5, <1>7, <1>9, <1>10, <1>11, <1>12, <1>13 DEF TimerCreated

\* No step makes anything but a queue of the queue.
LEMMA TimersInductive ==
  ASSUME ScalarsOK, TimersOK, [Next]_vars
  PROVE  TimersOK'
<1>0. PICK n : n = Len(mTimerPersistent)
  OBVIOUS
<1>1. /\ n \in 0..3 /\ mTimerPersistent = [i \in 1..n |-> i]
      /\ timer \in [1..n -> Timer] /\ (\A t \in 1..n : timer[t].due >= timer[t].period)
      /\ Queue(mTimerQueue, n) /\ executing \in 0..n /\ executing \notin ToSet(mTimerQueue)
      /\ (tpc \in Waiting => mTimerQueue = <<>>)
      /\ (executing # 0 <=> tpc = "callback") /\ nextTimerDueTime \in Nat
      /\ canceled \subseteq 1..n /\ \A t \in 1..n : timer[t].mCanceled => t \in canceled
  BY <1>0 DEF TimersOK
<1>2. /\ Timers = 1..n
      /\ \A t \in 1..n : timer[t].due \in Nat /\ timer[t].period \in Nat /\ timer[t].mCanceled \in BOOLEAN
  BY <1>0, TimersAreTimers
<1>3. CASE Quiet
  BY <1>0, <1>1, <1>3 DEF TimersOK, Quiet
<1>4. CASE QueueTimers
  <2>1. /\ Queue(mTimerQueue', n) /\ timer' \in [1..n -> Timer]
        /\ \A t \in 1..n : timer'[t].due >= timer'[t].period /\ timer'[t].mCanceled = FALSE
    BY <1>0, <1>4, QueueTimersStep
  <2>2. /\ UNCHANGED <<mTimerPersistent, canceled, executing, nextTimerDueTime>>
        /\ tpc = "queue" /\ tpc' = "joined"
    BY <1>4 DEF QueueTimers
  <2>3. executing = 0 /\ tpc' \notin Waiting /\ tpc' # "callback"
    BY <1>1, <2>2 DEF Waiting
  <2>4. 0 \notin ToSet(mTimerQueue')
    <3>1. 0 \notin 1..n /\ n \in Nat
      BY <1>1
    <3> QED BY <2>1, <3>1, QueueRange
  <2> QED BY <1>0, <1>1, <2>1, <2>2, <2>3, <2>4 DEF TimersOK
<1>5. CASE Reset
  <2>1. /\ UNCHANGED <<mTimerPersistent, timer, canceled, executing, nextTimerDueTime>>
        /\ mTimerQueue' = <<>> /\ tpc # "callback" /\ tpc' # "callback"
    BY <1>5 DEF Reset
  <2>2. Queue(<<>>, n) /\ ToSet(<<>>) = {}
    BY DEF Queue, ToSet, IsInjective
  <2> QED BY <1>0, <1>1, <2>1, <2>2 DEF TimersOK
<1>6. CASE ProcessUserTimers
  <2>1. tpc = "timers" /\ tpc \notin Waiting /\ returnTo \notin Waiting /\ returnTo # "callback" /\ executing = 0
    BY <1>1, <1>6 DEF ProcessUserTimers, ScalarsOK, Waiting
  <2>2. UNCHANGED <<mTimerPersistent, timer, canceled>>
    BY <1>0, <1>6, ProcessUserTimersStep
  <2>3. CASE /\ mTimerQueue' = mTimerQueue /\ tpc' = returnTo
             /\ UNCHANGED <<executing, nextTimerDueTime>>
    BY <1>0, <1>1, <2>1, <2>2, <2>3 DEF TimersOK
  <2>4. CASE ~(/\ mTimerQueue' = mTimerQueue /\ tpc' = returnTo
               /\ UNCHANGED <<executing, nextTimerDueTime>>)
    <3>1. /\ mTimerQueue[1] \in 1..n /\ Queue(mTimerQueue', n)
          /\ ToSet(mTimerQueue') = ToSet(mTimerQueue) \ {mTimerQueue[1]}
          /\ \/ UNCHANGED <<tpc, executing, nextTimerDueTime>>
             \/ /\ tpc' = "callback" /\ executing' = mTimerQueue[1]
                /\ nextTimerDueTime' = timer[mTimerQueue[1]].due
      BY <1>0, <1>6, <2>4, ProcessUserTimersStep
    <3>2. CASE UNCHANGED <<tpc, executing, nextTimerDueTime>>
      BY <1>0, <1>1, <2>1, <2>2, <3>1, <3>2 DEF TimersOK
    <3>3. CASE /\ tpc' = "callback" /\ executing' = mTimerQueue[1]
               /\ nextTimerDueTime' = timer[mTimerQueue[1]].due
      <4>1. nextTimerDueTime' \in Nat /\ executing' \in 0..n /\ executing' # 0 /\ tpc' \notin Waiting
        BY <1>1, <1>2, <3>1, <3>3 DEF Waiting
      <4>2. executing' \notin ToSet(mTimerQueue')
        BY <3>1, <3>3
      <4> QED BY <1>0, <1>1, <2>2, <3>1, <3>3, <4>1, <4>2 DEF TimersOK
    <3> QED BY <3>1, <3>2, <3>3
  <2> QED BY <2>3, <2>4
<1>7. CASE CallbackReturns
  <2>1. tpc' = "timers" /\ nextTimerDueTime' = 0 /\ tpc' \notin Waiting /\ tpc' # "callback"
    BY <1>7 DEF CallbackReturns, Waiting
  <2>2. /\ executing \in 1..n /\ executing' = 0
        /\ UNCHANGED <<mTimerPersistent, canceled>> /\ timer' \in [1..n -> Timer]
        /\ \/ /\ Queue(mTimerQueue', n)
              /\ timer'[executing].due = nextTimerDueTime + timer[executing].period
              /\ timer'[executing].period = timer[executing].period
              /\ timer'[executing].mCanceled = FALSE
              /\ \A t \in 1..n \ {executing} : timer'[t] = timer[t]
           \/ UNCHANGED <<timer, mTimerQueue>>
    BY <1>0, <1>7, CallbackReturnsStep
  <2>3. Queue(mTimerQueue', n)
    BY <1>1, <2>2
  <2>4. 0 \notin ToSet(mTimerQueue')
    <3>1. 0 \notin 1..n /\ n \in Nat
      BY <1>1
    <3> QED BY <2>3, <3>1, QueueRange
  <2>5. \A t \in 1..n : timer'[t].due >= timer'[t].period /\ (timer'[t].mCanceled => t \in canceled)
    <3> SUFFICES ASSUME NEW t \in 1..n
                 PROVE  timer'[t].due >= timer'[t].period /\ (timer'[t].mCanceled => t \in canceled)
      OBVIOUS
    <3>1. CASE timer'[t] = timer[t]
      BY <1>1, <3>1
    <3>2. CASE timer'[t] # timer[t]
      <4>1. /\ timer'[t].due = nextTimerDueTime + timer[t].period /\ timer'[t].period = timer[t].period
            /\ timer'[t].mCanceled = FALSE
        BY <2>2, <3>2
      <4>2. nextTimerDueTime \in Nat /\ timer[t].period \in Nat
        BY <1>1, <1>2
      <4> QED BY <4>1, <4>2
    <3> QED BY <3>1, <3>2
  <2> QED BY <1>0, <1>1, <2>1, <2>2, <2>3, <2>4, <2>5 DEF TimersOK
<1>8. ASSUME NEW offset \in Offsets, NEW period \in Periods, NEW cyclic \in BOOLEAN,
             CreateTimer(offset, period, cyclic)
      PROVE  TimersOK'
  <2>1. /\ n + 1 \in 0..3 /\ n + 1 \notin ToSet(mTimerQueue)
        /\ mTimerPersistent' = Append(mTimerPersistent, n + 1)
        /\ timer' \in [1..n + 1 -> Timer] /\ \A t \in 1..n : timer'[t] = timer[t]
        /\ timer'[n + 1].due = offset + period /\ timer'[n + 1].period = period
        /\ timer'[n + 1].mCanceled = FALSE
        /\ Queue(mTimerQueue, n + 1) /\ Queue(mTimerQueue', n + 1)
        /\ UNCHANGED <<canceled, executing, nextTimerDueTime, tpc>>
        /\ IF Online THEN /\ mTimerQueue' = Push(mTimerQueue, n + 1, timer')
                          /\ ToSet(mTimerQueue') = ToSet(mTimerQueue) \cup {n + 1}
                     ELSE mTimerQueue' = mTimerQueue
    <3>1. TimerCreated(n, offset, period)
      BY <1>0, <1>8, CreateTimerStep
    <3> QED BY <3>1 DEF TimerCreated
  <2>2. PICK k : k = n + 1
    OBVIOUS
  <2>3. k \in 0..3 /\ executing # k /\ executing \in 0..k /\ \A t \in 1..k : t \in 1..n \/ t = k
    BY <1>1, <2>1, <2>2
  <2>4. mTimerPersistent' = [i \in 1..k |-> i] /\ Len(mTimerPersistent') = k
    <3>1. mTimerPersistent \in Seq(Nat) /\ Len(mTimerPersistent) = n
      BY <1>0, <1>1
    <3>2. mTimerPersistent' \in Seq(Nat) /\ Len(mTimerPersistent') = k /\ DOMAIN mTimerPersistent' = 1..k
      BY <1>1, <2>1, <2>2, <3>1
    <3>3. \A i \in 1..k : mTimerPersistent'[i] = i
      <4> TAKE i \in 1..k
      <4>1. CASE i = k
        BY <1>1, <2>1, <2>2, <3>1, <4>1
      <4>2. CASE i # k
        BY <1>1, <2>1, <2>2, <2>3, <3>1, <4>2
      <4> QED BY <4>1, <4>2
    <3> QED BY <3>2, <3>3
  <2>5. tpc' \in Waiting => mTimerQueue' = <<>>
    BY <1>1, <2>1 DEF Online, Waiting
  <2>6. executing' \notin ToSet(mTimerQueue')
    BY <1>1, <2>1, <2>2, <2>3
  <2>7. \A t \in 1..k : timer'[t].due >= timer'[t].period /\ (timer'[t].mCanceled => t \in canceled')
    <3> SUFFICES ASSUME NEW t \in 1..k
                 PROVE  timer'[t].due >= timer'[t].period /\ (timer'[t].mCanceled => t \in canceled')
      OBVIOUS
    <3>1. CASE t \in 1..n
      BY <1>1, <2>1, <3>1
    <3>2. CASE t = k
      <4>1. offset \in Nat /\ period \in Nat
        BY BoundsAssumption
      <4>2. offset + period >= period
        BY <4>1
      <4> QED BY <2>1, <2>2, <3>2, <4>2
    <3> QED BY <2>3, <3>1, <3>2
  <2>8. canceled' \subseteq 1..k
    BY <1>1, <2>1, <2>2
  <2> QED BY <1>1, <2>1, <2>2, <2>3, <2>4, <2>5, <2>6, <2>7, <2>8 DEF TimersOK
<1>9. ASSUME NEW t \in Timers, Cancel(t) PROVE TimersOK'
  <2>1. /\ timer' = [timer EXCEPT ![t].mCanceled = TRUE] /\ canceled' = canceled \cup {t}
        /\ UNCHANGED <<mTimerQueue, mTimerPersistent, executing, nextTimerDueTime, tpc>>
    BY <1>9 DEF Cancel, thread
  <2>2. timer[t] \in Timer /\ t \in 1..n
    BY <1>1, <1>2
  <2>3. [timer[t] EXCEPT !.mCanceled = TRUE] \in Timer
    BY <2>2 DEF Timer
  <2>4. timer' \in [1..n -> Timer]
    BY <1>1, <2>1, <2>2, <2>3
  <2>5. \A u \in 1..n : timer'[u].due = timer[u].due /\ timer'[u].period = timer[u].period
    BY <1>1, <2>1, <2>2 DEF Timer
  <2>6. \A u \in 1..n : timer'[u].mCanceled => u \in canceled'
    BY <1>1, <2>1, <2>2 DEF Timer
  <2>7. \A u \in 1..n : timer'[u].due >= timer'[u].period
    BY <1>1, <2>5
  <2> QED BY <1>0, <1>1, <2>1, <2>2, <2>4, <2>6, <2>7 DEF TimersOK
<1>10. ASSUME NEW t \in Timers, NEW newPeriod \in Periods, SetPeriod(t, newPeriod) PROVE TimersOK'
  <2>1. PICK u : u = [Shift(timer[t], newPeriod - timer[t].period) EXCEPT !.period = newPeriod]
    OBVIOUS
  <2>2. /\ timer' = [timer EXCEPT ![t] = u]
        /\ UNCHANGED <<mTimerQueue, mTimerPersistent, canceled, executing, nextTimerDueTime, tpc>>
    BY <1>10, <2>1 DEF SetPeriod, thread
  <2>3. timer[t] \in Timer /\ t \in 1..n /\ newPeriod \in Nat
    BY <1>1, <1>2, BoundsAssumption
  <2>4. timer[t].due \in Nat /\ timer[t].period \in Nat /\ timer[t].due >= timer[t].period
    BY <1>1, <1>2, <2>3
  <2>5. PICK s, d : s = Shift(timer[t], d) /\ d = newPeriod - timer[t].period /\ d \in Int
    BY <2>3, <2>4
  <2>6. s \in Timer /\ s.due = timer[t].due + d /\ s.mCanceled = timer[t].mCanceled
    BY <2>3, <2>5, ShiftOK
  <2>7. u \in Timer /\ u.due = s.due /\ u.period = newPeriod /\ u.mCanceled = s.mCanceled
    BY <2>1, <2>3, <2>5, <2>6 DEF Timer
  <2>8. u.due >= u.period
    BY <2>3, <2>4, <2>5, <2>6, <2>7
  <2>9. timer' \in [1..n -> Timer] /\ timer'[t] = u /\ \A v \in 1..n \ {t} : timer'[v] = timer[v]
    BY <1>1, <2>2, <2>3, <2>7
  <2>10. \A v \in 1..n : timer'[v].due >= timer'[v].period /\ (timer'[v].mCanceled => v \in canceled)
    <3> SUFFICES ASSUME NEW v \in 1..n
                 PROVE  timer'[v].due >= timer'[v].period /\ (timer'[v].mCanceled => v \in canceled)
      OBVIOUS
    <3>1. CASE v = t
      BY <1>1, <2>3, <2>6, <2>7, <2>8, <2>9, <3>1
    <3>2. CASE v # t
      BY <1>1, <2>9, <3>2
    <3> QED BY <3>1, <3>2
  <2> QED BY <1>0, <1>1, <2>2, <2>9, <2>10 DEF TimersOK
<1> QED BY <1>3, <1>4, <1>5, <1>6, <1>7, <1>8, <1>9, <1>10, TimerSteps

\* What times and the estimate must be; the parts of ScalarsOK a callback changes.
TimesOK ==
  /\ mLogicalTime \in 0..MaxTime /\ mGrantedTime \in 0..MaxTime
  /\ mInitialOffsetTime \in 0..MaxTime /\ mUserRequestedSimTime \in 0..MaxTime
  /\ mLastLogicalTimeValue \in 0..MaxTime
  /\ mProcessUserTimers \in BOOLEAN /\ mFederateTooFast \in BOOLEAN

\* A new time within the bound keeps the times within it.
LEMMA SetNewTimeOK ==
  ASSUME TimesOK, NEW newTime \in 0..MaxTime, SetNewTime(newTime)
  PROVE  TimesOK'
<1>1. /\ mGrantedTime' = newTime /\ UNCHANGED <<mInitialOffsetTime, mUserRequestedSimTime>>
      /\ mLogicalTime' \in {newTime, mLogicalTime} /\ mProcessUserTimers' \in {TRUE, mProcessUserTimers}
  BY DEF SetNewTime
<1>2. mLastLogicalTimeValue' \in {newTime, mLastLogicalTimeValue}
  BY DEF SetNewTime, estimate
<1>3. mFederateTooFast' \in BOOLEAN
  <2>1. mFederateTooFast' = (newTime <= mLastLogicalTimeValue) \/ mFederateTooFast' = mFederateTooFast
    BY DEF SetNewTime, estimate
  <2>2. (newTime <= mLastLogicalTimeValue) \in BOOLEAN
    OBVIOUS
  <2>3. mFederateTooFast \in BOOLEAN
    BY DEF TimesOK
  <2> QED BY <2>1, <2>2, <2>3
<1> QED BY <1>1, <1>2, <1>3 DEF TimesOK

\* So does a callback.
LEMMA EvokeCallbackOK ==
  ASSUME ScalarsOK, evokeCallback
  PROVE  /\ TimesOK' /\ rtiTime' \in 0..MaxTime /\ inbox' \in Seq(Message) /\ requested' \in Nat
         /\ mIsRegulating' \in BOOLEAN /\ mIsConstrained' \in BOOLEAN /\ mRequestPending' \in BOOLEAN
         /\ UNCHANGED <<event, events, leaves>>
<1>1. TimesOK
  BY DEF ScalarsOK, TimesOK
<1>2. PICK m : m = Head(inbox)
  OBVIOUS
<1>3. m \in Message /\ inbox' \in Seq(Message) /\ UNCHANGED <<event, events, leaves>>
  BY <1>2 DEF evokeCallback, ScalarsOK
<1>4. m.time \in 0..MaxTime
  BY <1>3 DEF Message
<1>5. \/ timeRegulationEnabled(m.time) \/ timeConstrainedEnabled(m.time)
      \/ timeAdvanceGrant(m.time) \/ SetNewTimeFromEvent(m.time)
  BY <1>2 DEF evokeCallback
<1>6. PICK t : t = m.time
  OBVIOUS
<1>7. CASE timeRegulationEnabled(t)
  BY <1>1, <1>3, <1>4, <1>6, <1>7 DEF timeRegulationEnabled, SetInitialTime, TimesOK, estimate, ScalarsOK
<1>8. CASE timeConstrainedEnabled(t)
  BY <1>1, <1>3, <1>4, <1>6, <1>8 DEF timeConstrainedEnabled, SetInitialTime, TimesOK, estimate, ScalarsOK
<1>9. CASE timeAdvanceGrant(t)
  <2>1. TimesOK'
    BY <1>1, <1>4, <1>6, <1>9, SetNewTimeOK DEF timeAdvanceGrant
  <2> QED BY <1>3, <1>4, <1>6, <1>9, <2>1 DEF timeAdvanceGrant, ScalarsOK
<1>10. CASE SetNewTimeFromEvent(t)
  <2>1. UNCHANGED <<mIsRegulating, mIsConstrained, mRequestPending, requested, rtiTime>>
    BY <1>10 DEF SetNewTimeFromEvent, flags
  <2>2. CASE SetNewTime(t)
    <3>1. TimesOK'
      BY <1>1, <1>4, <1>6, <2>2, SetNewTimeOK
    <3> QED BY <1>3, <2>1, <3>1 DEF ScalarsOK
  <2>3. CASE UNCHANGED <<times, estimate, mProcessUserTimers>>
    <3>1. TimesOK'
      BY <1>1, <2>3 DEF TimesOK, times, estimate
    <3> QED BY <1>3, <2>1, <3>1 DEF ScalarsOK
  <2> QED BY <1>10, <2>2, <2>3 DEF SetNewTimeFromEvent
<1> QED BY <1>5, <1>6, <1>7, <1>8, <1>9, <1>10

\* The numbers and flags keep their types in every step.
LEMMA ScalarsInductive ==
  ASSUME ScalarsOK, TimersOK, [Next]_vars
  PROVE  ScalarsOK'
<1> USE DEF ScalarsOK
<1>0. ASSUME NEW t \in Timers PROVE timer[t].due \in Nat
  <2>1. PICK n : n = Len(mTimerPersistent)
    OBVIOUS
  <2>2. Timers = 1..n
    BY <2>1, TimersAreTimers
  <2> QED BY <1>0, <2>1, <2>2, TimersAreTimers
<1>1. mTimerQueue # <<>> => Head(mTimerQueue) \in Timers
  <2>1. PICK n : n = Len(mTimerPersistent)
    OBVIOUS
  <2>2. Timers = 1..n /\ n \in Nat /\ Queue(mTimerQueue, n)
    BY <2>1, TimersAreTimers DEF TimersOK
  <2>3. mTimerQueue \in Seq(1..n)
    BY <2>2 DEF Queue
  <2> QED BY <2>2, <2>3
<1>2. InitialTimes \subseteq 0..MaxTime /\ MaxTime \in Nat /\ Idle \in Nat /\ MaxOvershoot \in Nat
  BY BoundsAssumption
<1>3. CASE Thread
  <2>1. UNCHANGED config
    BY <1>3 DEF Thread
  <2>2. CASE Join
    <3>1. tpc' \in Waiting /\ UNCHANGED <<flags, estimate, mProcessUserTimers, returnTo, timeout, event, rti>>
      BY <2>2 DEF Join, Waiting
    <3>2. CASE \E t \in InitialTimes : SetInitialTime(t)
      BY <1>2, <2>1, <3>1, <3>2 DEF SetInitialTime, flags, estimate, rti
    <3>3. CASE UNCHANGED times
      BY <2>1, <3>1, <3>3 DEF times, flags, estimate, rti
    <3> QED BY <2>2, <3>2, <3>3 DEF Join
  <2>3. CASE AwaitPolicy
    <3>1. UNCHANGED <<returnTo, timeout>>
      BY <2>3 DEF AwaitPolicy
    <3>2. CASE evokeCallback /\ UNCHANGED tpc
      BY <2>1, <3>1, <3>2, EvokeCallbackOK DEF TimesOK
    <3>3. CASE /\ tpc' \in {"conWait", "queue"}
               /\ UNCHANGED <<times, flags, estimate, mProcessUserTimers, event, rti>>
      BY <2>1, <3>1, <3>3 DEF times, flags, estimate, rti, Waiting
    <3> QED BY <2>3, <3>2, <3>3 DEF AwaitPolicy
  <2>4. CASE QueueTimers
    BY <2>1, <2>4 DEF QueueTimers, times, flags, estimate, rti
  <2>5. CASE GoOnline
    <3>1. UNCHANGED <<returnTo, timeout>>
      BY <2>5 DEF GoOnline
    <3>2. CASE evokeCallback /\ UNCHANGED tpc
      BY <2>1, <3>1, <3>2, EvokeCallbackOK DEF TimesOK
    <3>3. CASE /\ tpc' = "loop"
               /\ UNCHANGED <<times, flags, estimate, mProcessUserTimers, event, rti>>
      BY <2>1, <3>1, <3>3 DEF times, flags, estimate, rti
    <3> QED BY <2>5, <3>2, <3>3 DEF GoOnline
  <2>6. CASE ComputeTimeout
    <3>1. UNCHANGED <<times, flags, estimate, mProcessUserTimers, event, rti>>
      BY <2>6 DEF ComputeTimeout
    <3>2. GetNextTimerDueTime \in Int
      BY <1>0, <1>1, <1>2 DEF GetNextTimerDueTime
    <3>3. timeout' \in Int
      <4>1. timeout' \in {-1, GetNextTimerDueTime - mLogicalTime}
        BY <2>6 DEF ComputeTimeout
      <4> QED BY <3>2, <4>1
    <3>4. tpc' \in {"sleep", "timers"} /\ returnTo' \in {"request", "sleep"}
      BY <2>6 DEF ComputeTimeout
    <3> QED BY <2>1, <3>1, <3>3, <3>4 DEF times, flags, estimate, rti
  <2>7. CASE WaitForSingleEvent
    <3>1. tpc' \in {"evoke", "loop"} /\ UNCHANGED <<flags, returnTo, timeout, rti>> /\ event' \in BOOLEAN
      BY <2>7 DEF WaitForSingleEvent
    <3>2. CASE UNCHANGED <<times, estimate, mProcessUserTimers>>
      BY <2>1, <3>1, <3>2 DEF times, flags, estimate, rti
    <3>3. CASE /\ timeout >= 0 /\ \E late \in 0..MaxOvershoot :
                 /\ mLogicalTime + timeout + late <= MaxTime
                 /\ SetNewTime(mLogicalTime + timeout + late)
      <4>1. PICK late \in 0..MaxOvershoot : /\ mLogicalTime + timeout + late <= MaxTime
                                           /\ SetNewTime(mLogicalTime + timeout + late)
        BY <3>3
      <4>2. mLogicalTime + timeout + late \in 0..MaxTime
        BY <1>2, <3>3, <4>1
      <4>3. TimesOK'
        <5>1. PICK t : t = mLogicalTime + timeout + late
          OBVIOUS
        <5> QED BY <4>1, <4>2, <5>1, SetNewTimeOK DEF TimesOK
      <4> QED BY <2>1, <3>1, <4>3 DEF TimesOK, flags, rti
    <3> QED BY <2>7, <3>2, <3>3 DEF WaitForSingleEvent
  <2>8. CASE EvokeCallbacks
    <3>1. UNCHANGED <<returnTo, timeout>>
      BY <2>8 DEF EvokeCallbacks
    <3>2. CASE evokeCallback /\ UNCHANGED tpc
      BY <2>1, <3>1, <3>2, EvokeCallbackOK DEF TimesOK
    <3>3. CASE /\ tpc' = "buffers"
               /\ UNCHANGED <<times, flags, estimate, mProcessUserTimers, event, rti>>
      BY <2>1, <3>1, <3>3 DEF times, flags, estimate, rti
    <3> QED BY <2>8, <3>2, <3>3 DEF EvokeCallbacks
  <2>9. CASE ProcessBuffers
    BY <2>1, <2>9 DEF ProcessBuffers, times, flags, estimate, rti
  <2>10. CASE ProcessUserTimers
    BY <2>1, <2>10 DEF ProcessUserTimers, times, flags, estimate, rti
  <2>11. CASE CallbackReturns
    BY <2>1, <2>11 DEF CallbackReturns, times, flags, estimate, rti
  <2>12. CASE TimeRequest
    <3>1. /\ tpc' = "loop" /\ mRequestPending' \in BOOLEAN
          /\ UNCHANGED <<times, mIsRegulating, mIsConstrained, estimate, mProcessUserTimers, returnTo,
                         timeout, event, inbox, rtiTime>>
      BY <2>12 DEF TimeRequest
    <3>2. nextRequestTime \in Nat
      BY <1>0, <1>1, <1>2 DEF nextRequestTime
    <3>3. requested' \in {requested, nextRequestTime}
      BY <2>12 DEF TimeRequest
    <3>4. requested' \in Nat
      BY <3>2, <3>3
    <3> QED BY <2>1, <3>1, <3>4 DEF times, estimate
  <2> QED BY <1>3, <2>2, <2>3, <2>4, <2>5, <2>6, <2>7, <2>8, <2>9, <2>10, <2>11, <2>12 DEF Thread
<1>4. CASE Reset
  <2>1. 0 \in 0..MaxTime /\ 0 \in Nat
    BY <1>2
  <2>2. inbox' \in Seq(Message)
    BY <1>4 DEF Reset
  <2> QED BY <1>4, <2>1, <2>2 DEF Reset, estimate, Waiting
<1>5. CASE Application
  <2>1. UNCHANGED <<config, mLogicalTime, mGrantedTime, mInitialOffsetTime, flags, estimate,
                    mProcessUserTimers, thread, rti>>
    BY <1>5 DEF Application, CreateTimer, Cancel, SetPeriod, RequestSimulationTime, times
  <2>2. mUserRequestedSimTime' \in 0..MaxTime /\ event' \in BOOLEAN
    <3>1. CASE UNCHANGED <<times, event>>
      BY <3>1 DEF times
    <3>2. ASSUME NEW newTime \in 1..MaxTime, RequestSimulationTime(newTime)
          PROVE  mUserRequestedSimTime' \in 0..MaxTime /\ event' \in BOOLEAN
      BY <1>2, <3>2 DEF RequestSimulationTime
    <3> QED BY <1>5, <3>1, <3>2 DEF Application, CreateTimer, Cancel, SetPeriod
  <2> QED BY <2>1, <2>2 DEF flags, estimate, thread, rti
<1>6. ASSUME NEW m \in Message, Deliver(m)
      PROVE  inbox' \in Seq(Message) /\ event' \in BOOLEAN
  BY <1>6 DEF Deliver
<1>7. CASE EnablePolicy
  <2>1. UNCHANGED <<config, times, flags, estimate, mProcessUserTimers, thread, requested, rtiTime>>
    BY <1>7 DEF EnablePolicy
  <2>2. PICK t \in InitialTimes : Deliver([type |-> "regulating", time |-> t]) \/ Deliver([type |-> "constrained", time |-> t])
    BY <1>7 DEF EnablePolicy
  <2>3. [type |-> "regulating", time |-> t] \in Message /\ [type |-> "constrained", time |-> t] \in Message
    BY <1>2 DEF Message
  <2> QED BY <1>6, <2>1, <2>2, <2>3 DEF times, flags, estimate, thread
<1>8. CASE Grant
  <2>1. UNCHANGED <<config, times, flags, estimate, mProcessUserTimers, thread, requested, rtiTime>>
    BY <1>8 DEF Grant
  <2>2. PICK t \in (rtiTime + 1)..MaxTime : Deliver([type |-> "grant", time |-> t])
    BY <1>8 DEF Grant
  <2>3. t \in 0..MaxTime
    BY <1>2, <2>2
  <2>4. [type |-> "grant", time |-> t] \in Message
    BY <2>3 DEF Message
  <2> QED BY <1>6, <2>1, <2>2, <2>4 DEF times, flags, estimate, thread
<1>9. CASE Event
  <2>1. UNCHANGED <<config, times, flags, estimate, mProcessUserTimers, thread, requested, rtiTime>>
    BY <1>9 DEF Event
  <2>2. PICK t \in 0..MaxTime : Deliver([type |-> "event", time |-> t])
    BY <1>9 DEF Event
  <2>3. [type |-> "event", time |-> t] \in Message
    BY <2>2 DEF Message
  <2> QED BY <1>6, <2>1, <2>2, <2>3 DEF times, flags, estimate, thread
<1>10. CASE UNCHANGED vars
  BY <1>10 DEF vars, times, flags, estimate, thread, rti
<1> QED BY <1>3, <1>4, <1>5, <1>7, <1>8, <1>9, <1>10 DEF Next

\* Both hold at first.
LEMMA Initially == Init => ScalarsOK /\ TimersOK
<1> SUFFICES ASSUME Init PROVE ScalarsOK /\ TimersOK
  OBVIOUS
<1>1. ScalarsOK
  <2>1. 0 \in 0..MaxTime /\ -1 \in Int /\ 0 \in Nat
    BY BoundsAssumption
  <2>2. inbox \in Seq(Message)
    BY DEF Init
  <2> QED BY <2>1, <2>2 DEF Init, ScalarsOK, Waiting
<1>2. Len(mTimerPersistent) = 0 /\ mTimerPersistent = [i \in 1..0 |-> i] /\ timer \in [1..0 -> Timer]
  BY DEF Init
<1>3. Queue(mTimerQueue, 0) /\ 0 \notin ToSet(mTimerQueue)
  BY DEF Init, Queue, IsInjective, ToSet
<1>4. 0 \in 0..3 /\ 0 \in 0..0 /\ \A t \in 1..0 : FALSE
  OBVIOUS
<1>5. TimersOK
  BY <1>2, <1>3, <1>4 DEF Init, TimersOK
<1> QED BY <1>1, <1>5

\* Every variable of the service has its type, in every reachable state.
THEOREM TypeCorrect == Spec => []TypeOK
<1>1. ScalarsOK /\ TimersOK /\ [Next]_vars => (ScalarsOK /\ TimersOK)'
  BY ScalarsInductive, TimersInductive
<1>2. ScalarsOK /\ TimersOK => TypeOK
  <2> SUFFICES ASSUME ScalarsOK, TimersOK PROVE TypeOK
    OBVIOUS
  <2>1. PICK n : n = Len(mTimerPersistent)
    OBVIOUS
  <2>2. n \in Nat /\ Timers = 1..n /\ \A t \in Timers : timer[t] \in Timer
    BY <2>1, TimersAreTimers
  <2>3. /\ Queue(mTimerQueue, n) /\ executing \in 0..n /\ executing \notin ToSet(mTimerQueue)
        /\ mTimerPersistent = [i \in 1..n |-> i] /\ canceled \subseteq 1..n
        /\ (executing # 0 <=> tpc = "callback") /\ nextTimerDueTime \in Nat
    BY <2>1 DEF TimersOK
  <2>4. IsInjective(mTimerQueue) /\ ToSet(mTimerQueue) \subseteq Timers \ {executing}
    BY <2>2, <2>3, QueueRange DEF Queue
  <2>5. ToSet(mTimerPersistent) = Timers
    BY <2>2, <2>3 DEF ToSet
  <2>6. executing \in Timers \cup {0}
    BY <2>2, <2>3
  <2>7. ToSet(inbox) \subseteq Message
    <3>1. \A i \in DOMAIN inbox : inbox[i] \in Message
      BY DEF ScalarsOK
    <3> QED BY <3>1 DEF ToSet
  <2> QED BY <2>2, <2>3, <2>4, <2>5, <2>6, <2>7 DEF TypeOK, ScalarsOK, Waiting
<1> QED BY <1>1, <1>2, Initially, PTL DEF Spec

-----------------------------------------------------------------------------
(* Cyclic timers: one that is not canceled is in the queue or runs.              *)

\* Cancel and SetPeriod change nothing but what they are named for.
LEMMA CancelStep ==
  ASSUME TimersOK, NEW n, n = Len(mTimerPersistent), NEW t \in Timers, Cancel(t)
  PROVE  /\ t \in 1..n /\ timer'[t].mCanceled = TRUE /\ canceled' = canceled \cup {t}
         /\ \A u \in 1..n : /\ timer'[u].due = timer[u].due /\ timer'[u].cyclic = timer[u].cyclic
                            /\ u # t => timer'[u] = timer[u]
         /\ UNCHANGED <<mTimerQueue, mTimerPersistent, executing, nextTimerDueTime, tpc, leaves>>
<1>1. Timers = 1..n /\ timer \in [1..n -> Timer]
  BY TimersAreTimers DEF TimersOK
<1>2. /\ timer' = [timer EXCEPT ![t].mCanceled = TRUE] /\ canceled' = canceled \cup {t}
      /\ UNCHANGED <<mTimerQueue, mTimerPersistent, executing, nextTimerDueTime, tpc, leaves>>
  BY DEF Cancel, thread
<1>3. timer'[t] = [timer[t] EXCEPT !.mCanceled = TRUE] /\ \A u \in 1..n \ {t} : timer'[u] = timer[u]
  BY <1>1, <1>2
<1>4. timer[t] \in Timer
  BY <1>1
<1>5. timer'[t].mCanceled = TRUE /\ timer'[t].due = timer[t].due /\ timer'[t].cyclic = timer[t].cyclic
  BY <1>3, <1>4 DEF Timer
<1> QED BY <1>1, <1>2, <1>3, <1>5

LEMMA SetPeriodStep ==
  ASSUME TimersOK, NEW n, n = Len(mTimerPersistent), NEW t \in Timers, NEW newPeriod \in Periods,
         SetPeriod(t, newPeriod)
  PROVE  /\ \A u \in 1..n : timer'[u].cyclic = timer[u].cyclic /\ timer'[u].mCanceled = timer[u].mCanceled
         /\ UNCHANGED <<mTimerQueue, mTimerPersistent, canceled, executing, nextTimerDueTime, tpc, leaves>>
<1>1. Timers = 1..n /\ timer \in [1..n -> Timer] /\ newPeriod \in Nat
  BY TimersAreTimers, BoundsAssumption DEF TimersOK
<1>2. timer[t] \in Timer /\ timer[t].period \in Nat
  BY <1>1, TimersAreTimers
<1>3. PICK s, d : s = Shift(timer[t], d) /\ d = newPeriod - timer[t].period /\ d \in Int
  BY <1>1, <1>2
<1>4. s \in Timer /\ s.cyclic = timer[t].cyclic /\ s.mCanceled = timer[t].mCanceled
  BY <1>2, <1>3, ShiftOK
<1>5. /\ timer' = [timer EXCEPT ![t] = [s EXCEPT !.period = newPeriod]]
      /\ UNCHANGED <<mTimerQueue, mTimerPersistent, canceled, executing, nextTimerDueTime, tpc, leaves>>
  BY <1>3 DEF SetPeriod, thread
<1>6. timer'[t] = [s EXCEPT !.period = newPeriod] /\ \A u \in 1..n \ {t} : timer'[u] = timer[u]
  BY <1>1, <1>5
<1>7. timer'[t].cyclic = s.cyclic /\ timer'[t].mCanceled = s.mCanceled
  BY <1>4, <1>6 DEF Timer
<1> QED BY <1>1, <1>4, <1>5, <1>6, <1>7

\* The invariant behind CyclicTimersAreQueued: it holds already while the federate waits
\* for the measurement.
CyclicInv ==
  tpc \notin Waiting => \A t \in Timers : timer[t].cyclic /\ t # executing /\ t \notin canceled
                                            => t \in ToSet(mTimerQueue)

\* It is kept if no timer is created while the federate waits for the measurement.
LEMMA CyclicInductive ==
  ASSUME "joined" \notin CreateWhen, ScalarsOK, TimersOK, CyclicInv, [Next]_vars
  PROVE  CyclicInv'
<1>0. PICK n : n = Len(mTimerPersistent)
  OBVIOUS
<1>1. /\ Timers = 1..n /\ timer \in [1..n -> Timer]
      /\ (executing # 0 <=> tpc = "callback") /\ \A t \in 1..n : timer[t].mCanceled => t \in canceled
  BY <1>0, TimersAreTimers DEF TimersOK
<1>2. CASE Quiet
  BY <1>2 DEF Quiet, CyclicInv, Timers
<1>3. CASE QueueTimers
  <2>1. ToSet(mTimerQueue') = 1..n /\ timer' \in [1..n -> Timer]
    BY <1>0, <1>3, QueueTimersStep
  <2> QED BY <2>1 DEF CyclicInv, Timers
<1>4. CASE Reset
  BY <1>4 DEF Reset, CyclicInv, Waiting
<1>5. CASE ProcessUserTimers
  <2>1. tpc \notin Waiting /\ executing = 0
    BY <1>1, <1>5 DEF ProcessUserTimers, Waiting
  <2>2. UNCHANGED <<mTimerPersistent, timer, canceled>>
    BY <1>0, <1>5, ProcessUserTimersStep
  <2>3. \/ mTimerQueue' = mTimerQueue /\ UNCHANGED executing
        \/ /\ ToSet(mTimerQueue') = ToSet(mTimerQueue) \ {mTimerQueue[1]}
           /\ mTimerQueue[1] \in 1..n
           /\ timer[mTimerQueue[1]].mCanceled \/ executing' = mTimerQueue[1]
    BY <1>0, <1>5, ProcessUserTimersStep
  <2>4. ASSUME NEW t \in Timers, timer[t].cyclic, t # executing', t \notin canceled
        PROVE  t \in ToSet(mTimerQueue')
    <3>1. t # 0
      BY <1>0, <1>1, <2>4, TimersAreTimers
    <3>2. t \in ToSet(mTimerQueue)
      BY <2>1, <2>4, <3>1 DEF CyclicInv
    <3> QED BY <1>1, <2>3, <2>4, <3>2
  <2> QED BY <2>2, <2>4 DEF CyclicInv, Timers
<1>6. CASE CallbackReturns
  <2>1. tpc \notin Waiting
    BY <1>6 DEF CallbackReturns, Waiting
  <2>2. /\ executing \in 1..n /\ canceled' = canceled /\ timer' \in [1..n -> Timer]
        /\ \/ /\ ToSet(mTimerQueue') = ToSet(mTimerQueue) \cup {executing}
              /\ \A t \in 1..n \ {executing} : timer'[t] = timer[t]
           \/ ~timer[executing].cyclic /\ UNCHANGED <<timer, mTimerQueue>>
    BY <1>0, <1>6, CallbackReturnsStep
  <2>3. ASSUME NEW t \in 1..n, timer'[t].cyclic, t \notin canceled PROVE t \in ToSet(mTimerQueue')
    <3>1. CASE t = executing
      BY <2>2, <2>3, <3>1
    <3>2. CASE t # executing
      <4>1. timer[t].cyclic
        BY <2>2, <2>3, <3>2
      <4>2. t \in ToSet(mTimerQueue)
        BY <1>1, <2>1, <2>3, <3>2, <4>1 DEF CyclicInv
      <4> QED BY <2>2, <4>2
    <3> QED BY <3>1, <3>2
  <2> QED BY <2>2, <2>3 DEF CyclicInv, Timers
<1>7. ASSUME NEW offset \in Offsets, NEW period \in Periods, NEW cyclic \in BOOLEAN,
             CreateTimer(offset, period, cyclic)
      PROVE  CyclicInv'
  <2>1. /\ n + 1 \in 0..3 /\ timer' \in [1..n + 1 -> Timer] /\ \A t \in 1..n : timer'[t] = timer[t]
        /\ IF Online THEN ToSet(mTimerQueue') = ToSet(mTimerQueue) \cup {n + 1}
                     ELSE mTimerQueue' = mTimerQueue
        /\ UNCHANGED <<canceled, executing, tpc>>
    <3>1. TimerCreated(n, offset, period)
      BY <1>0, <1>7, CreateTimerStep
    <3> QED BY <3>1 DEF TimerCreated
  <2>2. tpc # "joined"
    BY <1>7 DEF CreateTimer, Phase, Online
  <2>3. Online \/ tpc \in Waiting
    BY <2>2 DEF Online, Waiting
  <2>4. ASSUME tpc \notin Waiting, NEW t \in 1..n + 1, timer'[t].cyclic, t # executing, t \notin canceled
        PROVE  t \in ToSet(mTimerQueue')
    <3>1. n \in 0..3 /\ (t \in 1..n \/ t = n + 1)
      BY <1>0, <2>1 DEF TimersOK
    <3>2. CASE t \in 1..n
      <4>1. t \in ToSet(mTimerQueue)
        BY <1>1, <2>1, <2>4, <3>2 DEF CyclicInv
      <4> QED BY <2>1, <4>1
    <3> QED BY <2>1, <2>3, <2>4, <3>1, <3>2
  <2> QED BY <2>1, <2>4 DEF CyclicInv, Timers
<1>8. ASSUME NEW t \in Timers, Cancel(t) PROVE CyclicInv'
  <2>1. DOMAIN timer' = 1..n
    BY <1>1, <1>8 DEF Cancel
  <2>2. /\ canceled \subseteq canceled' /\ \A u \in 1..n : timer'[u].cyclic = timer[u].cyclic
        /\ UNCHANGED <<mTimerQueue, executing, tpc>>
    BY <1>0, <1>8, CancelStep
  <2> QED BY <1>1, <2>1, <2>2 DEF CyclicInv, Timers
<1>9. ASSUME NEW t \in Timers, NEW newPeriod \in Periods, SetPeriod(t, newPeriod) PROVE CyclicInv'
  <2>1. DOMAIN timer' = 1..n
    BY <1>1, <1>9 DEF SetPeriod
  <2>2. /\ \A u \in 1..n : timer'[u].cyclic = timer[u].cyclic
        /\ UNCHANGED <<mTimerQueue, canceled, executing, tpc>>
    BY <1>0, <1>9, SetPeriodStep
  <2> QED BY <1>1, <2>1, <2>2 DEF CyclicInv, Timers
<1> QED BY <1>2, <1>3, <1>4, <1>5, <1>6, <1>7, <1>8, <1>9, TimerSteps

\* A cyclic timer is not lost: Online, it is in the queue unless its callback runs or it
\* is canceled, if no timer is created between joining and going Online.
THEOREM CyclicTimersAreQueuedCorrect ==
  ASSUME "joined" \notin CreateWhen
  PROVE  Spec => []CyclicTimersAreQueued
<1>1. Init => ScalarsOK /\ TimersOK /\ CyclicInv
  BY Initially DEF Init, CyclicInv, Waiting
<1>2. ScalarsOK /\ TimersOK /\ CyclicInv /\ [Next]_vars => (ScalarsOK /\ TimersOK /\ CyclicInv)'
  BY ScalarsInductive, TimersInductive, CyclicInductive
<1>3. CyclicInv => CyclicTimersAreQueued
  BY DEF CyclicInv, CyclicTimersAreQueued, Online, Waiting
<1> QED BY <1>1, <1>2, <1>3, PTL DEF Spec

-----------------------------------------------------------------------------
(* The order of the callbacks.                                                   *)

\* The order of a queue depends on the due times of its timers only.
LEMMA TopDepends ==
  ASSUME NEW q, NEW n, Queue(q, n), NEW tm, NEW tn, \A t \in ToSet(q) : tn[t].due = tm[t].due,
         TopIsFirst(q, tm)
  PROVE  TopIsFirst(q, tn)
<1> SUFFICES ASSUME NEW i \in 1..Len(q) PROVE tn[q[1]].due <= tn[q[i]].due
  BY DEF TopIsFirst
<1>1. q \in Seq(1..n) /\ Len(q) \in Nat
  BY DEF Queue
<1>2. 1 \in DOMAIN q /\ i \in DOMAIN q
  BY <1>1
<1>3. q[1] \in ToSet(q) /\ q[i] \in ToSet(q)
  BY <1>2 DEF ToSet
<1>4. tm[q[1]].due <= tm[q[i]].due
  BY DEF TopIsFirst
<1> QED BY <1>3, <1>4

\* The invariant behind TimersInOrder.
OrderInv == TopIsFirst(mTimerQueue, timer)

\* Every step keeps it but SetPeriod, which moves a timer where it stands.
LEMMA OrderInductive ==
  ASSUME ~ChangesPeriod, ScalarsOK, TimersOK, OrderInv, [Next]_vars
  PROVE  OrderInv'
<1> USE DEF OrderInv
<1>0. PICK n : n = Len(mTimerPersistent)
  OBVIOUS
<1>1. /\ n \in 0..3 /\ n \in Nat /\ Timers = 1..n /\ Dues(timer, n)
      /\ Queue(mTimerQueue, n) /\ executing \notin ToSet(mTimerQueue)
  BY <1>0, TimersAreTimers DEF TimersOK
<1>2. ToSet(mTimerQueue) \subseteq 1..n
  BY <1>1, QueueRange
<1>3. CASE Quiet
  BY <1>3 DEF Quiet
<1>4. CASE QueueTimers
  BY <1>0, <1>4, QueueTimersStep
<1>5. CASE Reset
  BY <1>5 DEF Reset, TopIsFirst
<1>6. CASE ProcessUserTimers
  <2>1. timer' = timer
    BY <1>6 DEF ProcessUserTimers
  <2>2. CASE mTimerQueue' = mTimerQueue
    BY <2>1, <2>2
  <2>3. CASE mTimerQueue' # mTimerQueue
    <3>1. mTimerQueue # <<>> /\ mTimerQueue' = Pop(mTimerQueue, timer)
      BY <1>0, <1>6, <2>3, ProcessUserTimersStep
    <3>2. Len(mTimerQueue) <= 3
      BY <1>1, QueueLength
    <3>3. TopIsFirst(Pop(mTimerQueue, timer), timer)
      BY <1>1, <3>1, <3>2, PopTop
    <3> QED BY <2>1, <3>1, <3>3
  <2> QED BY <2>2, <2>3
<1>7. CASE CallbackReturns
  <2>1. CASE UNCHANGED <<timer, mTimerQueue>>
    BY <2>1
  <2>2. CASE ~UNCHANGED <<timer, mTimerQueue>>
    <3>1. /\ executing \in 1..n /\ mTimerQueue' = Push(mTimerQueue, executing, timer') /\ Dues(timer', n)
          /\ \A t \in 1..n \ {executing} : timer'[t] = timer[t]
      BY <1>0, <1>7, <2>2, CallbackReturnsStep
    <3>2. \A t \in ToSet(mTimerQueue) : timer'[t].due = timer[t].due
      BY <1>1, <1>2, <3>1
    <3>3. TopIsFirst(mTimerQueue, timer')
      BY <1>1, <3>2, TopDepends
    <3> QED BY <1>1, <3>1, <3>3, PushTop
  <2> QED BY <2>1, <2>2
<1>8. ASSUME NEW offset \in Offsets, NEW period \in Periods, NEW cyclic \in BOOLEAN,
             CreateTimer(offset, period, cyclic)
      PROVE  OrderInv'
  <2>1. /\ n + 1 \in 0..3 /\ n + 1 \notin ToSet(mTimerQueue)
        /\ timer' \in [1..n + 1 -> Timer] /\ \A t \in 1..n : timer'[t] = timer[t]
        /\ Queue(mTimerQueue, n + 1)
        /\ IF Online THEN mTimerQueue' = Push(mTimerQueue, n + 1, timer')
                     ELSE mTimerQueue' = mTimerQueue
    <3>1. TimerCreated(n, offset, period)
      BY <1>0, <1>8, CreateTimerStep
    <3> QED BY <3>1 DEF TimerCreated
  <2>2. TopIsFirst(mTimerQueue, timer')
    <3>1. \A t \in ToSet(mTimerQueue) : timer'[t].due = timer[t].due
      BY <1>2, <2>1
    <3> QED BY <1>1, <3>1, TopDepends
  <2>3. PICK k : k = n + 1
    OBVIOUS
  <2>4. k \in Nat /\ k \in 1..k /\ Dues(timer', k)
    BY <1>1, <2>1, <2>3 DEF Dues, Timer
  <2>5. TopIsFirst(Push(mTimerQueue, k, timer'), timer')
    BY <2>1, <2>2, <2>3, <2>4, PushTop
  <2> QED BY <2>1, <2>2, <2>3, <2>5
<1>9. ASSUME NEW t \in Timers, Cancel(t) PROVE OrderInv'
  <2>1. mTimerQueue' = mTimerQueue /\ \A u \in 1..n : timer'[u].due = timer[u].due
    BY <1>0, <1>9, CancelStep
  <2>2. \A u \in ToSet(mTimerQueue) : timer'[u].due = timer[u].due
    BY <1>2, <2>1
  <2>3. TopIsFirst(mTimerQueue, timer')
    BY <1>1, <2>2, TopDepends
  <2> QED BY <2>1, <2>3
<1>10. ASSUME NEW t \in Timers, NEW newPeriod \in Periods, SetPeriod(t, newPeriod) PROVE FALSE
  BY <1>10 DEF SetPeriod
<1> QED BY <1>3, <1>4, <1>5, <1>6, <1>7, <1>8, <1>9, <1>10, TimerSteps

\* A callback is called from ProcessUserTimers and nowhere else, for the first timer.
LEMMA CallsStep ==
  ASSUME ScalarsOK, TimersOK, [Next]_vars, Calls
  PROVE  /\ mTimerQueue # <<>> /\ executing' = mTimerQueue[1]
         /\ mTimerQueue[1] \in Timers /\ mTimerQueue[1] \in ToSet(mTimerQueue)
         /\ ~timer[mTimerQueue[1]].mCanceled /\ timer[mTimerQueue[1]].due <= mLogicalTime
         /\ UNCHANGED <<timer, mLogicalTime>> /\ tpc = "timers"
<1>0. PICK n : n = Len(mTimerPersistent)
  OBVIOUS
<1>1. CASE ProcessUserTimers
  <2>1. Timers = 1..n
    BY <1>0, TimersAreTimers
  <2>2. /\ mTimerQueue # <<>> /\ mTimerQueue[1] \in 1..n /\ mTimerQueue[1] \in ToSet(mTimerQueue)
        /\ ~timer[mTimerQueue[1]].mCanceled /\ timer[mTimerQueue[1]].due <= mLogicalTime
        /\ executing' = mTimerQueue[1]
    BY <1>0, <1>1, ProcessUserTimersStep DEF Calls
  <2> QED BY <1>1, <2>1, <2>2 DEF ProcessUserTimers, times
<1>2. CASE ~ProcessUserTimers
  <2>1. executing' = executing \/ executing' = 0
    BY <1>2, TimerSteps DEF Quiet, QueueTimers, Reset, CallbackReturns, CreateTimer, Cancel, SetPeriod, thread
  <2> QED BY <2>1 DEF Calls
<1> QED BY <1>1, <1>2

\* Callbacks run in the order of the due times, and none before its time, if SetPeriod is
\* not called.
THEOREM TimersInOrderCorrect ==
  ASSUME ~ChangesPeriod
  PROVE  Spec => TimersInOrder
<1>1. Init => ScalarsOK /\ TimersOK /\ OrderInv
  BY Initially DEF Init, OrderInv, TopIsFirst
<1>2. ScalarsOK /\ TimersOK /\ OrderInv /\ [Next]_vars => (ScalarsOK /\ TimersOK /\ OrderInv)'
  BY ScalarsInductive, TimersInductive, OrderInductive
<1>3. ScalarsOK /\ TimersOK /\ OrderInv /\ [Next]_vars
        => [Calls => /\ timer[executing'].due <= mLogicalTime
                     /\ \A t \in ToSet(mTimerQueue) :
                          timer[t].mCanceled \/ timer[executing'].due <= timer[t].due]_vars
  <2> SUFFICES ASSUME ScalarsOK, TimersOK, OrderInv, [Next]_vars, Calls, NEW t \in ToSet(mTimerQueue)
               PROVE  /\ timer[executing'].due <= mLogicalTime
                      /\ timer[executing'].due <= timer[t].due
    BY CallsStep
  <2>1. timer[mTimerQueue[1]].due <= timer[t].due
    <3>1. PICK i \in DOMAIN mTimerQueue : t = mTimerQueue[i]
      BY DEF ToSet
    <3>2. DOMAIN mTimerQueue = 1..Len(mTimerQueue)
      BY DEF TimersOK, Queue
    <3> QED BY <3>1, <3>2 DEF OrderInv, TopIsFirst
  <2> QED BY <2>1, CallsStep
<1> QED BY <1>1, <1>2, <1>3, PTL DEF Spec, TimersInOrder

-----------------------------------------------------------------------------
(* Cancellation.                                                                 *)

\* The invariant behind CanceledIsSilent: what was canceled stays so and does not run.
SilentInv ==
  /\ leaves \in Nat /\ (tpc \in Waiting => canceled = {})
  /\ \A t \in canceled : timer[t].mCanceled /\ t # executing

\* It is kept if nothing restarts a canceled timer.
LEMMA SilentInductive ==
  ASSUME ~CancelsItself, MaxLeaves = 0, "out" \notin CancelWhen,
         ScalarsOK, TimersOK, SilentInv, [Next]_vars
  PROVE  SilentInv'
<1> USE DEF SilentInv
<1>0. PICK n : n = Len(mTimerPersistent)
  OBVIOUS
<1>1. /\ Timers = 1..n /\ canceled \subseteq 1..n /\ (executing # 0 <=> tpc = "callback")
      /\ n \in 0..3 /\ executing \in 0..n
  BY <1>0, TimersAreTimers DEF TimersOK
<1>2. CASE Quiet
  BY <1>2 DEF Quiet
<1>3. CASE QueueTimers
  BY <1>3 DEF QueueTimers, Waiting
<1>4. CASE Reset
  <2>1. leaves < 0 /\ leaves \in Nat
    BY <1>4 DEF Reset
  <2> QED BY <2>1
<1>5. CASE ProcessUserTimers
  <2>1. UNCHANGED <<timer, canceled, leaves>> /\ tpc = "timers" /\ tpc' \notin Waiting /\ executing = 0
    BY <1>1, <1>5 DEF ProcessUserTimers, ScalarsOK, Waiting
  <2>2. ASSUME NEW t \in canceled PROVE t # executing'
    <3>1. t \in 1..n /\ t # 0 /\ timer[t].mCanceled
      BY <1>1, <2>2
    <3>2. executing' = 0 \/ ~timer[executing'].mCanceled
      BY <1>0, <1>5, <2>1, ProcessUserTimersStep
    <3> QED BY <3>1, <3>2
  <2> QED BY <2>1, <2>2
<1>6. CASE CallbackReturns
  <2>1. UNCHANGED <<canceled, leaves>> /\ tpc = "callback" /\ tpc' = "timers" /\ executing' = 0
    BY <1>6 DEF CallbackReturns
  <2>2. UNCHANGED timer \/ \A t \in 1..n \ {executing} : timer'[t] = timer[t]
    BY <1>0, <1>6, CallbackReturnsStep
  <2>3. \A t \in canceled : timer'[t] = timer[t] /\ t # 0
    BY <1>1, <2>2
  <2> QED BY <2>1, <2>3 DEF Waiting
<1>7. ASSUME NEW offset \in Offsets, NEW period \in Periods, NEW cyclic \in BOOLEAN,
             CreateTimer(offset, period, cyclic)
      PROVE  SilentInv'
  <2>1. (\A t \in 1..n : timer'[t] = timer[t]) /\ UNCHANGED <<canceled, executing, tpc>>
    <3>1. TimerCreated(n, offset, period)
      BY <1>0, <1>7, CreateTimerStep
    <3> QED BY <3>1 DEF TimerCreated
  <2>2. leaves' = leaves
    BY <1>7 DEF CreateTimer
  <2> QED BY <1>1, <2>1, <2>2
<1>8. ASSUME NEW t \in Timers, Cancel(t) PROVE SilentInv'
  <2>1. /\ t \in 1..n /\ timer'[t].mCanceled = TRUE /\ canceled' = canceled \cup {t}
        /\ \A u \in 1..n : u # t => timer'[u] = timer[u]
        /\ UNCHANGED <<executing, tpc, leaves>>
    BY <1>0, <1>8, CancelStep
  <2>2. t # executing /\ tpc \notin Waiting
    BY <1>8 DEF Cancel, Phase, Online, Waiting
  <2> QED BY <1>1, <2>1, <2>2
<1>9. ASSUME NEW t \in Timers, NEW newPeriod \in Periods, SetPeriod(t, newPeriod) PROVE SilentInv'
  <2>1. /\ \A u \in 1..n : timer'[u].mCanceled = timer[u].mCanceled
        /\ UNCHANGED <<canceled, executing, tpc, leaves>>
    BY <1>0, <1>9, SetPeriodStep
  <2> QED BY <1>1, <2>1
<1> QED BY <1>2, <1>3, <1>4, <1>5, <1>6, <1>7, <1>8, <1>9, TimerSteps

\* A canceled timer is not called again, if it is not canceled by its own callback or
\* before the federate joins, which restarts it, and the federate does not rejoin.
THEOREM CanceledIsSilentCorrect ==
  ASSUME ~CancelsItself, MaxLeaves = 0, "out" \notin CancelWhen
  PROVE  Spec => CanceledIsSilent
<1>1. Init => ScalarsOK /\ TimersOK /\ SilentInv
  BY Initially DEF Init, SilentInv
<1>2. ScalarsOK /\ TimersOK /\ SilentInv /\ [Next]_vars => (ScalarsOK /\ TimersOK /\ SilentInv)'
  BY ScalarsInductive, TimersInductive, SilentInductive
<1>3. ScalarsOK /\ TimersOK /\ SilentInv /\ [Next]_vars => [Calls => executing' \notin canceled]_vars
  BY CallsStep DEF SilentInv
<1> QED BY <1>1, <1>2, <1>3, PTL DEF Spec, CanceledIsSilent

-----------------------------------------------------------------------------
(* A federate with a time policy calls its timers on time.                       *)

\* With a policy the simulation time moves by grants alone.
PolicyInv == tpc \notin {"out", "regWait", "conWait"} => mIsRegulating \/ mIsConstrained

\* A request is open from TimeRequest until its grant is evoked; timers run only between
\* the two, from the grant to the next request.
RequestInv ==
  /\ mUserRequestedSimTime = 0
  /\ (requested # 0 => /\ mRequestPending /\ ~mProcessUserTimers
                       /\ tpc \in {"loop", "sleep", "evoke", "buffers", "request"})
  /\ (mProcessUserTimers => tpc \in {"evoke", "buffers"})

\* The RTI holds one callback at most: the one the federate waits for, or a grant no
\* later than the request.
InboxInv ==
  /\ Len(inbox) <= 1
  /\ \A m \in ToSet(inbox) : \/ m.type = "regulating" /\ tpc = "regWait" /\ ~mIsRegulating
                             \/ m.type = "constrained" /\ tpc = "conWait" /\ ~mIsConstrained
                             \/ m.type = "grant" /\ requested # 0 /\ m.time <= requested

\* No timer is behind the simulation time, or behind the time requested.
DueInv ==
  /\ (tpc \in Waiting => mLogicalTime = mInitialOffsetTime)
  /\ \A t \in ToSet(mTimerQueue) : mLogicalTime <= timer[t].due /\ requested <= timer[t].due
  /\ (executing # 0 => mLogicalTime <= nextTimerDueTime)

OnTimeInv == ~Unmanaged => PolicyInv /\ RequestInv /\ InboxInv /\ DueInv

\* An inbox with one callback at most is empty when it was evoked.
LEMMA EvokedInbox ==
  ASSUME inbox \in Seq(Message), InboxInv, inbox # <<>>
  PROVE  Head(inbox) \in ToSet(inbox) /\ Head(inbox) \in Message /\ Tail(inbox) = <<>>
<1>1. Len(inbox) \in Nat /\ Len(inbox) # 0 /\ Len(inbox) <= 1
  BY EmptySeq DEF InboxInv
<1>2. Len(inbox) = 1
  <2>1. \A l \in Nat : l # 0 /\ l <= 1 => l = 1
    OBVIOUS
  <2> QED BY <1>1, <2>1, Zenon
<1>3. 1 \in DOMAIN inbox /\ Head(inbox) = inbox[1]
  BY <1>2
<1>4. Tail(inbox) = <<>>
  <2>1. Tail(inbox) \in Seq(Message) /\ Len(Tail(inbox)) = 0
    BY <1>2
  <2> QED BY <2>1, EmptySeq
<1> QED BY <1>3, <1>4 DEF ToSet

\* What a callback does to a federate with a policy: it enables the policy or grants the
\* request.
LEMMA EvokedOnTime ==
  ASSUME ~Unmanaged, ScalarsOK, TimersOK, OnTimeInv, evokeCallback,
         tpc \in Waiting \cup {"joined", "evoke"}, UNCHANGED <<tpc, executing, nextTimerDueTime>>
  PROVE  PolicyInv' /\ RequestInv' /\ InboxInv' /\ DueInv'
<1>1. PolicyInv /\ RequestInv /\ InboxInv /\ DueInv
  BY DEF OnTimeInv
<1>2. PICK m : m = Head(inbox)
  OBVIOUS
<1>3. m \in ToSet(inbox) /\ m \in Message /\ inbox' = <<>> /\ UNCHANGED <<mTimerQueue, timer>>
  BY <1>1, <1>2, EvokedInbox DEF evokeCallback, ScalarsOK, timers
<1>4. InboxInv'
  <2>1. ToSet(inbox') = {}
    BY <1>3 DEF ToSet
  <2> QED BY <1>3, <2>1 DEF InboxInv
<1>5. m.time \in 0..MaxTime /\ m.time \in Nat
  BY <1>3, BoundsAssumption DEF Message
<1>6. CASE m.type = "regulating"
  <2>1. tpc = "regWait"
    BY <1>1, <1>3, <1>6 DEF InboxInv
  <2>2. timeRegulationEnabled(m.time)
    BY <1>2, <1>6 DEF evokeCallback
  <2>3. /\ mIsRegulating' = TRUE /\ mLogicalTime' = mInitialOffsetTime'
        /\ UNCHANGED <<mUserRequestedSimTime, mIsConstrained, mRequestPending, mProcessUserTimers, requested>>
    BY <2>2 DEF timeRegulationEnabled, SetInitialTime
  <2>4. mTimerQueue = <<>> /\ executing = 0
    BY <2>1 DEF TimersOK, Waiting
  <2>5. ToSet(mTimerQueue') = {}
    BY <1>3, <2>4 DEF ToSet
  <2>6. DueInv'
    BY <2>3, <2>4, <2>5 DEF DueInv
  <2> QED BY <1>1, <1>4, <2>3, <2>6 DEF PolicyInv, RequestInv
<1>7. CASE m.type = "constrained"
  <2>1. tpc = "conWait"
    BY <1>1, <1>3, <1>7 DEF InboxInv
  <2>2. timeConstrainedEnabled(m.time)
    BY <1>2, <1>7 DEF evokeCallback
  <2>3. /\ mIsConstrained' = TRUE /\ mLogicalTime' = mInitialOffsetTime'
        /\ UNCHANGED <<mUserRequestedSimTime, mIsRegulating, mRequestPending, mProcessUserTimers, requested>>
    BY <2>2 DEF timeConstrainedEnabled, SetInitialTime
  <2>4. mTimerQueue = <<>> /\ executing = 0
    BY <2>1 DEF TimersOK, Waiting
  <2>5. ToSet(mTimerQueue') = {}
    BY <1>3, <2>4 DEF ToSet
  <2>6. DueInv'
    BY <2>3, <2>4, <2>5 DEF DueInv
  <2> QED BY <1>1, <1>4, <2>3, <2>6 DEF PolicyInv, RequestInv
<1>8. CASE m.type = "grant"
  <2>1. requested # 0 /\ m.time <= requested
    BY <1>1, <1>3, <1>8 DEF InboxInv
  <2>2. tpc \in {"loop", "sleep", "evoke", "buffers", "request"}
    BY <1>1, <2>1 DEF RequestInv
  <2>3. timeAdvanceGrant(m.time)
    BY <1>2, <1>8 DEF evokeCallback
  <2>4. SetNewTime(m.time) /\ requested' = 0 /\ UNCHANGED <<mIsRegulating, mIsConstrained>>
    BY <2>3 DEF timeAdvanceGrant
  <2>5. /\ mUserRequestedSimTime' = mUserRequestedSimTime /\ mLogicalTime' \in {m.time, mLogicalTime}
        /\ mProcessUserTimers' \in {TRUE, mProcessUserTimers}
    BY <2>4 DEF SetNewTime
  <2>6. executing = 0 /\ tpc \notin Waiting
    BY <2>2 DEF TimersOK, Waiting
  <2>7. ASSUME NEW t \in ToSet(mTimerQueue) PROVE mLogicalTime' <= timer[t].due /\ 0 <= timer[t].due
    <3>1. mLogicalTime <= timer[t].due /\ requested <= timer[t].due
      BY <1>1 DEF DueInv
    <3>2. timer[t].due \in Nat
      <4>1. PICK n : n = Len(mTimerPersistent)
        OBVIOUS
      <4>2. n \in Nat /\ Queue(mTimerQueue, n)
        BY <4>1 DEF TimersOK
      <4>3. t \in 1..n
        BY <4>2, QueueRange
      <4> QED BY <4>1, <4>3, TimersAreTimers
    <3>3. requested \in Nat /\ mLogicalTime \in Nat
      BY BoundsAssumption DEF ScalarsOK
    <3>4. m.time <= timer[t].due
      BY <1>5, <2>1, <3>1, <3>2, <3>3
    <3> QED BY <2>5, <3>1, <3>2, <3>4
  <2>8. DueInv'
    BY <1>3, <2>4, <2>6, <2>7 DEF DueInv
  <2>9. tpc = "evoke"
    BY <2>2 DEF Waiting
  <2>10. RequestInv'
    BY <1>1, <2>4, <2>5, <2>9 DEF RequestInv
  <2> QED BY <1>1, <1>4, <2>4, <2>8, <2>10 DEF PolicyInv
<1> QED BY <1>1, <1>3, <1>6, <1>7, <1>8 DEF InboxInv

\* Every step keeps it if no timer is created later, none is changed and nobody else asks for
\* a time.
LEMMA OnTimeInductive ==
  ASSUME CreateWhen \subseteq {"out"}, ~RequestsTimes, ~ChangesPeriod,
         ScalarsOK, TimersOK, OrderInv, OnTimeInv, [Next]_vars
  PROVE  OnTimeInv'
<1>0. config' = config
  BY DEF Next, Thread, Reset, Application, EnablePolicy, Grant, Event, vars
<1>1. (~Unmanaged)' = ~Unmanaged
  BY <1>0 DEF Unmanaged, TimeRegulationEnabled, TimeConstrainedEnabled
<1>2. SUFFICES ASSUME ~Unmanaged PROVE PolicyInv' /\ RequestInv' /\ InboxInv' /\ DueInv'
  BY <1>1 DEF OnTimeInv
<1>3. PolicyInv /\ RequestInv /\ InboxInv /\ DueInv
  BY <1>2 DEF OnTimeInv
<1>4. PICK n : n = Len(mTimerPersistent)
  OBVIOUS
<1>5. /\ n \in 0..3 /\ n \in Nat /\ Timers = 1..n /\ Queue(mTimerQueue, n)
      /\ (tpc \in Waiting => mTimerQueue = <<>>) /\ (executing # 0 <=> tpc = "callback")
      /\ executing \in 0..n /\ executing \notin ToSet(mTimerQueue) /\ nextTimerDueTime \in Nat
      /\ \A t \in 1..n : timer[t].due \in Nat /\ timer[t].period \in Nat /\ timer[t].offset \in Nat
  BY <1>4, TimersAreTimers DEF TimersOK
<1>6. ToSet(mTimerQueue) \subseteq 1..n
  BY <1>5, QueueRange
<1>7. requested \in Nat /\ mLogicalTime \in Nat /\ mInitialOffsetTime \in Nat /\ inbox \in Seq(Message)
  BY BoundsAssumption DEF ScalarsOK
<1>8. requested = 0 => inbox = <<>> \/ tpc \in {"regWait", "conWait"}
  <2> SUFFICES ASSUME requested = 0, inbox # <<>> PROVE tpc \in {"regWait", "conWait"}
    OBVIOUS
  <2> QED BY <1>3, <1>7, EvokedInbox DEF InboxInv
<1>9. CASE Thread
  <2>1. CASE Join
    <3>1. tpc = "out" /\ tpc' \in {"regWait", "conWait"}
      BY <1>2, <2>1 DEF Join, Unmanaged
    <3>2. UNCHANGED <<times, flags, mProcessUserTimers, timers, executing, nextTimerDueTime, rti>>
      BY <1>2, <2>1 DEF Join
    <3>3. PolicyInv'
      BY <3>1 DEF PolicyInv
    <3>4. requested = 0 /\ inbox = <<>> /\ RequestInv'
      BY <1>3, <1>8, <3>1, <3>2 DEF RequestInv, times, flags, rti
    <3>5. InboxInv'
      BY <1>3, <3>2, <3>4 DEF InboxInv, ToSet, rti
    <3>6. DueInv'
      BY <1>3, <3>1, <3>2 DEF DueInv, times, timers, rti, Waiting
    <3> QED BY <3>3, <3>4, <3>5, <3>6
  <2>2. CASE AwaitPolicy
    <3>1. CASE evokeCallback /\ UNCHANGED tpc
      BY <1>2, <2>2, <3>1, EvokedOnTime DEF AwaitPolicy, Waiting
    <3>2. CASE ~(evokeCallback /\ UNCHANGED tpc)
      <4>1. /\ UNCHANGED <<times, flags, estimate, mProcessUserTimers, timers, event, rti>>
            /\ UNCHANGED <<executing, nextTimerDueTime>>
            /\ \/ tpc = "regWait" /\ mIsRegulating /\ tpc' \in {"conWait", "queue"}
               \/ tpc = "conWait" /\ mIsConstrained /\ tpc' = "queue"
        BY <2>2, <3>2 DEF AwaitPolicy
      <4>2. PolicyInv'
        BY <4>1 DEF PolicyInv, flags
      <4>3. requested = 0 /\ RequestInv'
        BY <1>3, <4>1 DEF RequestInv, times, flags, rti
      <4>4. inbox = <<>>
        BY <1>3, <1>7, <4>1, <4>3, EvokedInbox DEF InboxInv
      <4>5. InboxInv'
        BY <1>3, <4>1, <4>4 DEF InboxInv, ToSet, rti
      <4>6. DueInv'
        BY <1>3, <4>1 DEF DueInv, times, timers, rti, Waiting
      <4> QED BY <4>2, <4>3, <4>5, <4>6
    <3> QED BY <3>1, <3>2
  <2>3. CASE QueueTimers
    <3>1. /\ tpc = "queue" /\ tpc' = "joined"
          /\ UNCHANGED <<times, flags, mProcessUserTimers, executing, nextTimerDueTime, rti>>
      BY <2>3 DEF QueueTimers
    <3>2. PolicyInv' /\ RequestInv' /\ requested = 0
      BY <1>3, <3>1 DEF PolicyInv, RequestInv, times, flags, rti
    <3>3. InboxInv'
      <4>1. inbox = <<>>
        BY <1>8, <3>1, <3>2
      <4> QED BY <1>3, <3>1, <4>1 DEF InboxInv, ToSet, rti
    <3>4. ToSet(mTimerQueue') = 1..n
          /\ \A t \in 1..n : timer'[t].due = timer[t].offset + timer[t].period + mInitialOffsetTime
      BY <1>4, <2>3, QueueTimersStep
    <3>5. mLogicalTime = mInitialOffsetTime /\ mLogicalTime' = mLogicalTime /\ requested' = 0 /\ executing' = 0
      BY <1>3, <1>5, <3>1, <3>2 DEF DueInv, Waiting, times, rti
    <3>6. ASSUME NEW t \in 1..n PROVE mLogicalTime <= timer'[t].due /\ 0 <= timer'[t].due
      <4>1. timer[t].offset \in Nat /\ timer[t].period \in Nat
        BY <1>5
      <4>2. timer'[t].due = timer[t].offset + timer[t].period + mLogicalTime
        BY <3>4, <3>5
      <4> QED BY <1>7, <4>1, <4>2
    <3>7. DueInv'
      BY <3>1, <3>4, <3>5, <3>6 DEF DueInv, Waiting
    <3> QED BY <3>2, <3>3, <3>7
  <2>4. CASE GoOnline
    <3>1. CASE evokeCallback /\ UNCHANGED tpc
      BY <1>2, <2>4, <3>1, EvokedOnTime DEF GoOnline
    <3>2. CASE ~(evokeCallback /\ UNCHANGED tpc)
      <4>1. /\ UNCHANGED <<times, flags, estimate, mProcessUserTimers, timers, event, rti>>
            /\ UNCHANGED <<executing, nextTimerDueTime>> /\ tpc = "joined" /\ tpc' = "loop"
        BY <2>4, <3>2 DEF GoOnline
      <4>2. PolicyInv' /\ RequestInv' /\ requested = 0
        BY <1>3, <4>1 DEF PolicyInv, RequestInv, times, flags, rti
      <4>3. InboxInv'
        <5>1. inbox = <<>>
          BY <1>8, <4>1, <4>2
        <5> QED BY <1>3, <4>1, <5>1 DEF InboxInv, ToSet, rti
      <4>4. DueInv'
        BY <1>3, <4>1 DEF DueInv, times, timers, rti, Waiting
      <4> QED BY <4>2, <4>3, <4>4
    <3> QED BY <3>1, <3>2
  <2>5. CASE ComputeTimeout
    <3>1. ~Interpolating
      BY <1>3, <2>5 DEF ComputeTimeout, PolicyInv, Interpolating
    <3>2. /\ tpc = "loop" /\ tpc' = "sleep"
          /\ UNCHANGED <<times, flags, mProcessUserTimers, timers, executing, nextTimerDueTime, rti>>
      BY <2>5, <3>1 DEF ComputeTimeout
    <3>3. PolicyInv' /\ RequestInv'
      BY <1>3, <3>2 DEF PolicyInv, RequestInv, times, flags, rti
    <3>4. InboxInv'
      BY <1>3, <3>2 DEF InboxInv, rti, flags
    <3>5. DueInv'
      BY <1>3, <3>2 DEF DueInv, times, timers, rti, Waiting
    <3> QED BY <3>3, <3>4, <3>5
  <2>6. CASE WaitForSingleEvent
    <3>1. mIsRegulating \/ mIsConstrained
      BY <1>3, <2>6 DEF WaitForSingleEvent, PolicyInv
    <3>2. /\ tpc = "sleep" /\ tpc' = "evoke"
          /\ UNCHANGED <<times, flags, mProcessUserTimers, timers, executing, nextTimerDueTime, rti>>
      BY <2>6, <3>1 DEF WaitForSingleEvent
    <3>3. PolicyInv' /\ RequestInv'
      BY <1>3, <3>2 DEF PolicyInv, RequestInv, times, flags, rti
    <3>4. InboxInv'
      BY <1>3, <3>2 DEF InboxInv, rti, flags
    <3>5. DueInv'
      BY <1>3, <3>2 DEF DueInv, times, timers, rti, Waiting
    <3> QED BY <3>3, <3>4, <3>5
  <2>7. CASE EvokeCallbacks
    <3>1. CASE evokeCallback /\ UNCHANGED tpc
      BY <1>2, <2>7, <3>1, EvokedOnTime DEF EvokeCallbacks
    <3>2. CASE ~(evokeCallback /\ UNCHANGED tpc)
      <4>1. /\ UNCHANGED <<times, flags, estimate, mProcessUserTimers, timers, event, rti>>
            /\ UNCHANGED <<executing, nextTimerDueTime>> /\ tpc = "evoke" /\ tpc' = "buffers"
        BY <2>7, <3>2 DEF EvokeCallbacks
      <4>2. PolicyInv' /\ RequestInv'
        BY <1>3, <4>1 DEF PolicyInv, RequestInv, times, flags, rti
      <4>3. InboxInv'
        BY <1>3, <4>1 DEF InboxInv, rti, flags
      <4>4. DueInv'
        BY <1>3, <4>1 DEF DueInv, times, timers, rti, Waiting
      <4> QED BY <4>2, <4>3, <4>4
    <3> QED BY <3>1, <3>2
  <2>8. CASE ProcessBuffers
    <3>1. /\ tpc = "buffers" /\ mProcessUserTimers' = FALSE
          /\ tpc' = IF mProcessUserTimers THEN "timers" ELSE "request"
          /\ UNCHANGED <<times, flags, timers, executing, nextTimerDueTime, rti>>
      BY <2>8 DEF ProcessBuffers
    <3>2. PolicyInv' /\ RequestInv'
      BY <1>3, <3>1 DEF PolicyInv, RequestInv, times, flags, rti
    <3>3. InboxInv'
      BY <1>3, <3>1 DEF InboxInv, rti, flags
    <3>4. DueInv'
      BY <1>3, <3>1 DEF DueInv, times, timers, rti, Waiting
    <3> QED BY <3>2, <3>3, <3>4
  <2>9. CASE ProcessUserTimers
    <3>1. /\ tpc = "timers" /\ UNCHANGED <<times, flags, mProcessUserTimers, timer, rti>>
          /\ executing = 0
      BY <1>5, <2>9 DEF ProcessUserTimers
    <3>2. requested = 0 /\ ~mProcessUserTimers /\ inbox = <<>>
      BY <1>3, <1>8, <3>1 DEF RequestInv
    <3>3. tpc' \in {"request", "sleep", "timers", "callback"}
      BY <2>9 DEF ProcessUserTimers, ScalarsOK
    <3>4. PolicyInv' /\ RequestInv'
      BY <1>3, <3>1, <3>2, <3>3 DEF PolicyInv, RequestInv, times, flags, rti
    <3>5. InboxInv'
      BY <1>3, <3>1, <3>2 DEF InboxInv, ToSet, rti
    <3>6. /\ ToSet(mTimerQueue') \subseteq ToSet(mTimerQueue)
          /\ \/ UNCHANGED <<executing, nextTimerDueTime>>
             \/ /\ mTimerQueue[1] \in ToSet(mTimerQueue)
                /\ nextTimerDueTime' = timer[mTimerQueue[1]].due
      BY <1>4, <2>9, ProcessUserTimersStep
    <3>7. DueInv'
      BY <1>3, <3>1, <3>3, <3>6 DEF DueInv, times, rti, Waiting
    <3> QED BY <3>4, <3>5, <3>7
  <2>10. CASE CallbackReturns
    <3>1. /\ tpc = "callback" /\ tpc' = "timers" /\ executing' = 0
          /\ UNCHANGED <<times, flags, mProcessUserTimers, rti>>
      BY <2>10 DEF CallbackReturns
    <3>2. requested = 0 /\ ~mProcessUserTimers /\ inbox = <<>>
      BY <1>3, <1>8, <3>1 DEF RequestInv
    <3>3. PolicyInv' /\ RequestInv'
      BY <1>3, <3>1, <3>2 DEF PolicyInv, RequestInv, times, flags, rti
    <3>4. InboxInv'
      BY <1>3, <3>1, <3>2 DEF InboxInv, ToSet, rti
    <3>5. /\ executing \in 1..n
          /\ \/ /\ ToSet(mTimerQueue') = ToSet(mTimerQueue) \cup {executing}
                /\ timer'[executing].due = nextTimerDueTime + timer[executing].period
                /\ \A t \in 1..n \ {executing} : timer'[t] = timer[t]
             \/ UNCHANGED <<timer, mTimerQueue>>
      BY <1>4, <2>10, CallbackReturnsStep
    <3>6. ASSUME NEW t \in ToSet(mTimerQueue') PROVE mLogicalTime <= timer'[t].due /\ 0 <= timer'[t].due
      <4>1. CASE t \in ToSet(mTimerQueue)
        <5>1. timer'[t] = timer[t]
          BY <1>5, <1>6, <3>5, <4>1
        <5> QED BY <1>3, <3>2, <4>1, <5>1 DEF DueInv
      <4>2. CASE t \notin ToSet(mTimerQueue)
        <5>1. timer'[t].due = nextTimerDueTime + timer[t].period /\ t \in 1..n /\ t = executing
          BY <3>5, <3>6, <4>2
        <5>2. mLogicalTime <= nextTimerDueTime
          BY <1>3, <1>5, <3>1 DEF DueInv
        <5>3. timer[t].period \in Nat /\ nextTimerDueTime \in Nat
          BY <1>5, <5>1
        <5> QED BY <1>7, <5>1, <5>2, <5>3
      <4> QED BY <4>1, <4>2
    <3>7. DueInv'
      BY <3>1, <3>2, <3>6 DEF DueInv, times, rti, Waiting
    <3> QED BY <3>3, <3>4, <3>7
  <2>11. CASE TimeRequest
    <3>1. /\ tpc = "request" /\ tpc' = "loop" /\ executing = 0
          /\ UNCHANGED <<times, mIsRegulating, mIsConstrained, mProcessUserTimers, timers,
                         executing, nextTimerDueTime, inbox>>
      BY <1>5, <2>11 DEF TimeRequest
    <3>2. PolicyInv'
      BY <1>3, <3>1 DEF PolicyInv
    <3>3. CASE UNCHANGED <<requested, mRequestPending>>
      BY <1>3, <3>1, <3>2, <3>3 DEF RequestInv, InboxInv, DueInv, times, timers, Waiting
    <3>4. CASE /\ mayRequest /\ nextRequestTime > mLogicalTime
               /\ requested' = nextRequestTime /\ mRequestPending' = TRUE
      <4>1. requested = 0 /\ inbox = <<>> /\ ~mProcessUserTimers
        BY <1>3, <1>8, <3>1, <3>4 DEF RequestInv, mayRequest
      <4>2. RequestInv'
        BY <1>3, <3>1, <3>4, <4>1 DEF RequestInv, times
      <4>3. InboxInv'
        BY <1>3, <3>1, <4>1 DEF InboxInv, ToSet
      <4>4. ASSUME NEW t \in ToSet(mTimerQueue) PROVE requested' <= timer[t].due
        <5>1. PICK i \in DOMAIN mTimerQueue : t = mTimerQueue[i]
          BY DEF ToSet
        <5>2. mTimerQueue \in Seq(1..n) /\ i \in 1..Len(mTimerQueue)
          BY <1>5 DEF Queue
        <5>3. mTimerQueue # <<>> /\ Head(mTimerQueue) = mTimerQueue[1]
          BY <5>2
        <5>4. ~(mUserRequestedSimTime > mLogicalTime)
          BY <1>3, <1>7 DEF RequestInv
        <5>5. requested' = timer[mTimerQueue[1]].due
          BY <3>4, <5>3, <5>4 DEF nextRequestTime
        <5> QED BY <5>1, <5>2, <5>5 DEF OrderInv, TopIsFirst
      <4>5. DueInv'
        BY <1>3, <3>1, <4>4 DEF DueInv, times, timers, Waiting
      <4> QED BY <3>2, <4>2, <4>3, <4>5
    <3> QED BY <2>11, <3>3, <3>4 DEF TimeRequest
  <2> QED BY <1>9, <2>1, <2>2, <2>3, <2>4, <2>5, <2>6, <2>7, <2>8, <2>9, <2>10, <2>11 DEF Thread
<1>10. CASE Reset
  <2>1. /\ tpc # "callback" /\ tpc' = "out" /\ mLogicalTime' = 0 /\ mInitialOffsetTime' = 0
        /\ mUserRequestedSimTime' = 0 /\ mProcessUserTimers' = FALSE /\ mTimerQueue' = <<>>
        /\ inbox' = <<>> /\ requested' = 0 /\ UNCHANGED executing
    BY <1>10 DEF Reset
  <2>2. ToSet(<<>>) = {} /\ Len(<<>>) <= 1
    BY DEF ToSet
  <2> QED BY <1>5, <2>1, <2>2 DEF PolicyInv, RequestInv, InboxInv, DueInv
<1>11. CASE Application
  <2>1. ASSUME NEW offset \in Offsets, NEW period \in Periods, NEW cyclic \in BOOLEAN,
               CreateTimer(offset, period, cyclic)
        PROVE  PolicyInv' /\ RequestInv' /\ InboxInv' /\ DueInv'
    <3>1. tpc \in Waiting
      BY <2>1 DEF CreateTimer, Phase, Online, Waiting
    <3>2. mTimerQueue = <<>> /\ mTimerQueue' = <<>> /\ tpc # "callback"
      BY <1>5, <2>1, <3>1 DEF CreateTimer, Online, Waiting
    <3>3. UNCHANGED <<times, flags, mProcessUserTimers, thread, rti>>
      BY <2>1 DEF CreateTimer
    <3>4. PolicyInv' /\ RequestInv' /\ InboxInv'
      BY <1>3, <3>3 DEF PolicyInv, RequestInv, InboxInv, times, flags, thread, rti
    <3>5. DueInv'
      BY <1>3, <3>2, <3>3 DEF DueInv, ToSet, times, thread, rti
    <3> QED BY <3>4, <3>5
  <2>2. ASSUME NEW t \in Timers, Cancel(t) PROVE PolicyInv' /\ RequestInv' /\ InboxInv' /\ DueInv'
    <3>1. UNCHANGED <<times, flags, mProcessUserTimers, thread, rti>>
      BY <2>2 DEF Cancel
    <3>2. mTimerQueue' = mTimerQueue /\ \A u \in 1..n : timer'[u].due = timer[u].due
      BY <1>4, <2>2, CancelStep
    <3>3. PolicyInv' /\ RequestInv' /\ InboxInv'
      BY <1>3, <3>1 DEF PolicyInv, RequestInv, InboxInv, times, flags, thread, rti
    <3>4. DueInv'
      BY <1>3, <1>6, <3>1, <3>2 DEF DueInv, times, thread, rti
    <3> QED BY <3>3, <3>4
  <2> QED BY <1>11, <2>1, <2>2 DEF Application, SetPeriod, RequestSimulationTime
<1>12. ASSUME NEW m, inbox = <<>>, inbox' = Append(inbox, m),
              UNCHANGED <<times, flags, mProcessUserTimers, timers, thread, requested>>,
              \/ m.type = "regulating" /\ tpc = "regWait" /\ ~mIsRegulating
              \/ m.type = "constrained" /\ tpc = "conWait" /\ ~mIsConstrained
              \/ m.type = "grant" /\ requested # 0 /\ m.time <= requested
       PROVE  PolicyInv' /\ RequestInv' /\ InboxInv' /\ DueInv'
  <2>1. PolicyInv' /\ RequestInv'
    BY <1>3, <1>12 DEF PolicyInv, RequestInv, times, flags, thread
  <2>2. DueInv'
    BY <1>3, <1>12 DEF DueInv, times, timers, thread
  <2>3. Len(inbox') = 1 /\ ToSet(inbox') = {m}
    <3>1. inbox' = <<m>>
      BY <1>12
    <3>2. DOMAIN inbox' = {1}
      BY <3>1
    <3> QED BY <3>1, <3>2 DEF ToSet
  <2>4. InboxInv'
    BY <1>12, <2>3 DEF InboxInv, flags, thread
  <2> QED BY <2>1, <2>2, <2>4
<1>13. CASE EnablePolicy
  <2>1. /\ inbox = <<>>
        /\ UNCHANGED <<times, flags, mProcessUserTimers, timers, thread, requested>>
    BY <1>13 DEF EnablePolicy
  <2>2. PICK t \in InitialTimes :
          \/ tpc = "regWait" /\ ~mIsRegulating /\ inbox' = Append(inbox, [type |-> "regulating", time |-> t])
          \/ tpc = "conWait" /\ ~mIsConstrained /\ inbox' = Append(inbox, [type |-> "constrained", time |-> t])
    BY <1>13 DEF EnablePolicy, Deliver
  <2>3. CASE tpc = "regWait"
    <3>1. PICK m : m = [type |-> "regulating", time |-> t]
      OBVIOUS
    <3>2. m.type = "regulating" /\ ~mIsRegulating /\ inbox' = Append(inbox, m)
      BY <2>2, <2>3, <3>1
    <3> QED BY <1>12, <2>1, <2>3, <3>2
  <2>4. CASE tpc = "conWait"
    <3>1. PICK m : m = [type |-> "constrained", time |-> t]
      OBVIOUS
    <3>2. m.type = "constrained" /\ ~mIsConstrained /\ inbox' = Append(inbox, m)
      BY <2>2, <2>4, <3>1
    <3> QED BY <1>12, <2>1, <2>4, <3>2
  <2> QED BY <2>2, <2>3, <2>4
<1>14. CASE Grant
  <2>1. /\ inbox = <<>> /\ requested # 0
        /\ UNCHANGED <<times, flags, mProcessUserTimers, timers, thread, requested>>
    BY <1>14 DEF Grant
  <2>2. PICK t \in (rtiTime + 1)..MaxTime :
          t <= requested /\ inbox' = Append(inbox, [type |-> "grant", time |-> t])
    BY <1>14 DEF Grant, Deliver
  <2>3. PICK m : m = [type |-> "grant", time |-> t]
    OBVIOUS
  <2>4. m.type = "grant" /\ m.time <= requested /\ inbox' = Append(inbox, m)
    BY <2>2, <2>3
  <2> QED BY <1>12, <2>1, <2>4
<1>15. CASE Event
  BY <1>2, <1>15 DEF Event
<1>16. CASE UNCHANGED vars
  BY <1>3, <1>16 DEF vars, times, flags, timers, thread, rti, PolicyInv, RequestInv, InboxInv, DueInv
<1> QED BY <1>9, <1>10, <1>11, <1>13, <1>14, <1>15, <1>16 DEF Next

\* A federate with a time policy calls each timer when the simulation time is exactly its
\* due time, if all timers are created before it joins and neither SetPeriod nor
\* RequestSimulationTime is called: no grant takes it past a timer.
THEOREM TimersOnTimeCorrect ==
  ASSUME CreateWhen \subseteq {"out"}, ~RequestsTimes, ~ChangesPeriod
  PROVE  Spec => TimersOnTime
<1> DEFINE Inv == ScalarsOK /\ TimersOK /\ OrderInv /\ OnTimeInv
<1>1. Init => Inv
  <2> SUFFICES ASSUME Init PROVE OrderInv /\ OnTimeInv
    BY Initially
  <2>1. ToSet(<<>>) = {} /\ Len(<<>>) <= 1
    BY DEF ToSet
  <2>2. PolicyInv /\ RequestInv /\ InboxInv /\ DueInv
    BY <2>1 DEF Init, PolicyInv, RequestInv, InboxInv, DueInv
  <2> QED BY <2>2 DEF Init, OrderInv, TopIsFirst, OnTimeInv
<1>2. Inv /\ [Next]_vars => Inv'
  BY ScalarsInductive, TimersInductive, OrderInductive, OnTimeInductive
<1>3. Inv /\ [Next]_vars => [Calls /\ ~Unmanaged => timer[executing'].due = mLogicalTime]_vars
  <2> SUFFICES ASSUME Inv, [Next]_vars, Calls, ~Unmanaged PROVE timer[executing'].due = mLogicalTime
    OBVIOUS
  <2>1. PICK t : t = mTimerQueue[1]
    OBVIOUS
  <2>2. t \in Timers /\ executing' = t /\ t \in ToSet(mTimerQueue) /\ timer[t].due <= mLogicalTime
    BY <2>1, CallsStep
  <2>3. mLogicalTime <= timer[t].due
    BY <2>2 DEF OnTimeInv, DueInv
  <2>4. timer[t].due \in Nat
    <3>1. PICK n : n = Len(mTimerPersistent)
      OBVIOUS
    <3> QED BY <2>2, <3>1, TimersAreTimers
  <2>5. mLogicalTime \in Nat
    BY BoundsAssumption DEF ScalarsOK
  <2> QED BY <2>2, <2>3, <2>4, <2>5
<1> QED BY <1>1, <1>2, <1>3, PTL DEF Spec, TimersOnTime

=============================================================================
