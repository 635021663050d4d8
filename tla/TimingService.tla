---------------------------- MODULE TimingService ----------------------------
(* Simulation time and user timers of one federate: TimingService.cpp and       *)
(* UserTimer.cpp, run by the poll thread (RemoteAmbassador::EvokeCallbacks) and *)
(* called by the application, from its own thread or from a timer callback.     *)
(* The RTI and the other federates decide on grants and send events.  Times are *)
(* small numbers, one unit standing for a millisecond.                          *)
EXTENDS Integers, Sequences, FiniteSets, SequencesExt

CONSTANTS
  Configs,              \* the combinations of time policies the federate may have
  Offsets, Periods,     \* what timers are created with
  InitialTimes,         \* times of the federation when the federate joins
  CreateWhen,           \* when timers are created: subset of {"out", "joined", "online"}
  CancelWhen,           \* when timers are canceled
  CancelsItself,        \* a timer may be canceled in its own callback
  ChangesPeriod,        \* SetPeriod is called
  RequestsTimes,        \* RequestSimulationTime is called
  Idle,                 \* how far ahead an interpolating federate without timers looks
  MaxOvershoot,         \* bound: how much later than its timeout a wait returns
  MaxTimers,            \* bound: timers created, three at most (see Push and Pop)
  MaxTime,              \* bound: times of grants and events, kEndOfTime for requests
  MaxEvents,            \* bound: events of other federates
  MaxLeaves             \* bound: departures from the federation

ASSUME ConfigAssumption ==
  /\ Configs \subseteq SUBSET {"regulation", "constrained", "interpolation"}
  /\ CancelsItself \in BOOLEAN /\ ChangesPeriod \in BOOLEAN /\ RequestsTimes \in BOOLEAN
  /\ CreateWhen \subseteq {"out", "joined", "online"} /\ CancelWhen \subseteq {"out", "joined", "online"}
ASSUME BoundsAssumption ==
  /\ Offsets \subseteq Nat /\ Periods \subseteq Nat \ {0}
  /\ MaxOvershoot \in Nat /\ MaxTimers \in 0..3 /\ MaxTime \in Nat /\ MaxLeaves \in Nat /\ MaxEvents \in Nat
  /\ Idle \in Nat \ {0}
  /\ InitialTimes \subseteq 0..MaxTime

VARIABLES
  config,             \* IBConfig: what of the three is enabled
  mLogicalTime, mGrantedTime, mInitialOffsetTime, mUserRequestedSimTime,
  mProcessUserTimers, mIsRegulating, mIsConstrained, mRequestPending,
  mLastLogicalTimeValue, mFederateTooFast,
  mTimerQueue,        \* the heap of the priority queue
  mTimerPersistent,
  timer,              \* the timers created, see Timer
  tpc,                \* where the poll thread is
  executing,          \* timer whose callback runs, or 0
  nextTimerDueTime,   \* when that timer was due
  returnTo,           \* where ProcessUserTimers was called from
  timeout,            \* argument of WaitForSingleEvent
  event,              \* the event of mEventNotification
  inbox,              \* callbacks the RTI holds
  requested,          \* time of the advance request the RTI works on, or 0
  rtiTime,            \* logical time of the federate at the RTI
  canceled,           \* history: timers whose Cancel was called
  events,             \* counter: events
  leaves              \* counter: departures

times == <<mLogicalTime, mGrantedTime, mInitialOffsetTime, mUserRequestedSimTime>>
flags == <<mIsRegulating, mIsConstrained, mRequestPending>>
estimate == <<mLastLogicalTimeValue, mFederateTooFast>>
timers == <<mTimerQueue, mTimerPersistent, timer, canceled>>
thread == <<tpc, executing, nextTimerDueTime, returnTo, timeout>>
rti == <<inbox, requested, rtiTime, events>>
vars == <<config, times, flags, estimate, mProcessUserTimers, timers, thread, event, rti, leaves>>

TimeRegulationEnabled == "regulation" \in config
TimeConstrainedEnabled == "constrained" \in config
TimingInterpolationEnabled == "interpolation" \in config

-----------------------------------------------------------------------------
(* Timers and their queue.                                                      *)

Timers == DOMAIN timer
Timer == [offset : Nat, period : Nat, due : Int, cyclic : BOOLEAN, mCanceled : BOOLEAN]
Unmanaged == ~TimeRegulationEnabled /\ ~TimeConstrainedEnabled
Interpolating == ~mIsConstrained /\ ~mIsRegulating /\ TimingInterpolationEnabled
Online == tpc \notin {"out", "regWait", "conWait", "queue", "joined"}

\* std::priority_queue keeps its elements in a heap: of up to three timers, the first
\* is the top and the others are its children.  A push compares the new element with
\* the top, a pop the two children; whether the order still holds, nobody looks.
Push(q, t, tm) == IF q # <<>> /\ tm[t].due < tm[q[1]].due THEN <<t>> \o Tail(q) \o <<q[1]>>
                                                         ELSE Append(q, t)
PushNth(q, s, n, tm) == IF n <= Len(s) THEN Push(q, s[n], tm) ELSE q
PushAll(q, s, tm) == PushNth(PushNth(PushNth(q, s, 1, tm), s, 2, tm), s, 3, tm)
Pop(q, tm) == IF Len(q) = 3 /\ tm[q[3]].due < tm[q[2]].due THEN <<q[3], q[2]>> ELSE Tail(q)

\* UserTimer::Set
SetTimer(t, absoluteTime) == [t EXCEPT !.mCanceled = FALSE, !.due = absoluteTime + t.period]
Restart(t) == SetTimer(t, t.offset)
Shift(t, offsetTime) == [t EXCEPT !.due = @ + offsetTime]

-----------------------------------------------------------------------------
(* The simulation time.                                                         *)

SetInitialTime(initialTime) ==
  /\ mLogicalTime' = initialTime
  /\ mGrantedTime' = initialTime
  /\ mInitialOffsetTime' = initialTime
  /\ UNCHANGED mUserRequestedSimTime

\* SetNewTime; of the estimation of the animation factor, whether the federate is
\* found to be too fast.
SetNewTime(newTime) ==
  /\ mGrantedTime' = newTime
  /\ IF newTime > mLogicalTime
       THEN /\ mLogicalTime' = newTime /\ mProcessUserTimers' = TRUE
            /\ IF Interpolating
                 THEN /\ mFederateTooFast' = (newTime <= mLastLogicalTimeValue)
                      /\ mLastLogicalTimeValue' = IF newTime > mLastLogicalTimeValue
                                                    THEN newTime ELSE mLastLogicalTimeValue
                 ELSE UNCHANGED estimate
       ELSE UNCHANGED <<mLogicalTime, mProcessUserTimers, estimate>>
  /\ UNCHANGED <<mInitialOffsetTime, mUserRequestedSimTime>>

\* The callbacks.  An event carries its time; interactions without one carry the dummy
\* time 0.
timeRegulationEnabled(t) ==
  /\ mIsRegulating' = TRUE /\ SetInitialTime(t)
  /\ rtiTime' = t
  /\ UNCHANGED <<mIsConstrained, mRequestPending, estimate, mProcessUserTimers, requested>>

timeConstrainedEnabled(t) ==
  /\ mIsConstrained' = TRUE /\ SetInitialTime(t)
  /\ rtiTime' = t
  /\ UNCHANGED <<mIsRegulating, mRequestPending, estimate, mProcessUserTimers, requested>>

\* Variant: the request is pending for ever.
timeAdvanceGrantStillPending(t) ==
  /\ SetNewTime(t)
  /\ requested' = 0 /\ rtiTime' = t
  /\ UNCHANGED flags

timeAdvanceGrant(t) ==
  /\ SetNewTime(t) /\ mRequestPending' = FALSE
  /\ requested' = 0 /\ rtiTime' = t
  /\ UNCHANGED <<mIsRegulating, mIsConstrained>>

SetNewTimeFromEvent(t) ==
  /\ IF ~mIsConstrained /\ ~mIsRegulating THEN SetNewTime(t)
     ELSE UNCHANGED <<times, estimate, mProcessUserTimers>>
  /\ UNCHANGED <<flags, requested, rtiTime>>

evokeCallback ==
  /\ inbox # <<>> /\ inbox' = Tail(inbox)
  /\ LET m == Head(inbox)
     IN \/ m.type = "regulating" /\ timeRegulationEnabled(m.time)
        \/ m.type = "constrained" /\ timeConstrainedEnabled(m.time)
        \/ m.type = "grant" /\ timeAdvanceGrant(m.time)
        \/ m.type = "event" /\ SetNewTimeFromEvent(m.time)
  /\ UNCHANGED <<timers, event, events, leaves>>

-----------------------------------------------------------------------------
(* OnJoined and Reset.                                                          *)

\* The federate joins; a federate without a time policy asks the RTI for the time of
\* the federation, the others have a policy enabled and wait for the callback.
Join ==
  /\ tpc = "out"
  /\ tpc' = IF TimeRegulationEnabled THEN "regWait"
            ELSE IF TimeConstrainedEnabled THEN "conWait" ELSE "queue"
  /\ IF Unmanaged THEN \E t \in InitialTimes : SetInitialTime(t) ELSE UNCHANGED times
  /\ UNCHANGED <<flags, estimate, mProcessUserTimers, timers, executing, nextTimerDueTime,
                 returnTo, timeout, event, rti, leaves>>

AwaitPolicy ==
  /\ UNCHANGED <<executing, nextTimerDueTime, returnTo, timeout>>
  /\ \/ tpc \in {"regWait", "conWait"} /\ evokeCallback /\ UNCHANGED tpc
     \/ /\ \/ /\ tpc = "regWait" /\ mIsRegulating
              /\ tpc' = IF TimeConstrainedEnabled THEN "conWait" ELSE "queue"
           \/ tpc = "conWait" /\ mIsConstrained /\ tpc' = "queue"
        /\ UNCHANGED <<times, flags, estimate, mProcessUserTimers, timers, event, rti, leaves>>

\* The end of OnJoined: the persistent timers are restarted and queued, then taken out
\* in the order of the queue, shifted by the initial time and queued again.
QueueTimers ==
  /\ tpc = "queue" /\ tpc' = "joined"
  /\ LET restarted == [t \in Timers |-> Restart(timer[t])]
         queue == PushAll(mTimerQueue, mTimerPersistent, restarted)
     IN /\ timer' = [t \in Timers |-> Shift(restarted[t], mInitialOffsetTime)]
        /\ mTimerQueue' = IF queue = <<>> THEN <<>> ELSE <<Head(queue)>> \o Pop(queue, restarted)
  /\ UNCHANGED <<times, flags, estimate, mProcessUserTimers, mTimerPersistent, canceled,
                 executing, nextTimerDueTime, returnTo, timeout, event, rti, leaves>>

\* The federate, joined, waits for the measurement or goes Online; messages are
\* dispatched meanwhile.
GoOnline ==
  /\ tpc = "joined"
  /\ \/ tpc' = "loop"
        /\ UNCHANGED <<times, flags, estimate, mProcessUserTimers, timers, event, rti, leaves>>
     \/ UNCHANGED tpc /\ evokeCallback
  /\ UNCHANGED <<executing, nextTimerDueTime, returnTo, timeout>>

\* Variant: the timers of the federation that was left stay in the queue.
ResetKeepsTimers ==
  /\ tpc \in {"loop", "sleep"} /\ leaves < MaxLeaves
  /\ tpc' = "out" /\ leaves' = leaves + 1
  /\ mLogicalTime' = 0 /\ mGrantedTime' = 0 /\ mUserRequestedSimTime' = 0
  /\ mInitialOffsetTime' = 0 /\ mProcessUserTimers' = FALSE
  /\ mIsRegulating' = FALSE /\ mIsConstrained' = FALSE /\ mRequestPending' = FALSE
  /\ inbox' = <<>> /\ requested' = 0 /\ rtiTime' = 0
  /\ UNCHANGED <<config, mTimerQueue, estimate, mTimerPersistent, timer, canceled, executing,
                 nextTimerDueTime, returnTo, timeout, event, events>>

\* The federate leaves the federation and resets its services.
Reset ==
  /\ tpc \in {"loop", "sleep"} /\ leaves < MaxLeaves
  /\ tpc' = "out" /\ leaves' = leaves + 1
  /\ mLogicalTime' = 0 /\ mGrantedTime' = 0 /\ mUserRequestedSimTime' = 0
  /\ mInitialOffsetTime' = 0 /\ mProcessUserTimers' = FALSE
  /\ mIsRegulating' = FALSE /\ mIsConstrained' = FALSE /\ mRequestPending' = FALSE
  /\ mTimerQueue' = <<>>
  /\ inbox' = <<>> /\ requested' = 0 /\ rtiTime' = 0
  /\ UNCHANGED <<config, estimate, mTimerPersistent, timer, canceled, executing, nextTimerDueTime,
                 returnTo, timeout, event, events>>

-----------------------------------------------------------------------------
(* The poll thread Online: EvokeCallbacksOnEvent, EvokeCallbacks and, in them,  *)
(* ProcessUserTimers and TimeRequest.                                           *)

GetNextTimerDueTime == IF mTimerQueue # <<>> THEN timer[Head(mTimerQueue)].due ELSE mLogicalTime + Idle

\* How long to wait: for ever (-1) or, interpolating, until the next timer.  The due
\* time read before the due timers ran is used after they did.
ComputeTimeout ==
  /\ tpc = "loop"
  /\ IF ~Interpolating THEN timeout' = -1 /\ tpc' = "sleep" /\ UNCHANGED returnTo
     ELSE /\ timeout' = GetNextTimerDueTime - mLogicalTime
          /\ IF GetNextTimerDueTime <= mLogicalTime THEN tpc' = "timers" /\ returnTo' = "sleep"
                                                    ELSE tpc' = "sleep" /\ UNCHANGED returnTo
  /\ UNCHANGED <<times, flags, estimate, mProcessUserTimers, timers, executing,
                 nextTimerDueTime, event, rti, leaves>>

\* poll() waits for ever on any negative timeout.  In the file the wait for a due timer
\* starts when the timers have run.
WaitForSingleEvent ==
  /\ tpc = "sleep"
  /\ \/ /\ event /\ event' = FALSE /\ tpc' = "evoke"
        /\ UNCHANGED <<times, estimate, mProcessUserTimers>>
     \/ /\ ~event /\ timeout >= 0 /\ ~mIsConstrained /\ ~mIsRegulating
        /\ IF mFederateTooFast THEN UNCHANGED <<times, estimate, mProcessUserTimers>>
           ELSE \E late \in 0..MaxOvershoot :
                  /\ mLogicalTime + timeout + late <= MaxTime
                  /\ SetNewTime(mLogicalTime + timeout + late)
        /\ tpc' = "loop" /\ UNCHANGED event
  /\ UNCHANGED <<flags, timers, executing, nextTimerDueTime, returnTo, timeout, rti, leaves>>

EvokeCallbacks ==
  /\ tpc = "evoke"
  /\ UNCHANGED <<executing, nextTimerDueTime, returnTo, timeout>>
  /\ \/ evokeCallback /\ UNCHANGED tpc
     \/ inbox = <<>> /\ tpc' = "buffers"
        /\ UNCHANGED <<times, flags, estimate, mProcessUserTimers, timers, event, rti, leaves>>

ProcessBuffers ==
  /\ tpc = "buffers"
  /\ IF mProcessUserTimers THEN tpc' = "timers" /\ returnTo' = "request"
                           ELSE tpc' = "request" /\ UNCHANGED returnTo
  /\ mProcessUserTimers' = FALSE
  /\ UNCHANGED <<times, flags, estimate, timers, executing, nextTimerDueTime, timeout, event,
                 rti, leaves>>

IsDue(t) == timer[t].due <= mLogicalTime

\* Variant: canceled timers are called as well.
IsCanceledNever(t) == FALSE

IsCanceled(t) == timer[t].mCanceled

\* One round of the loop of ProcessUserTimers, up to the call of the callback.
ProcessUserTimers ==
  /\ tpc = "timers"
  /\ IF mTimerQueue # <<>> /\ (IsCanceled(Head(mTimerQueue)) \/ IsDue(Head(mTimerQueue)))
       THEN /\ mTimerQueue' = Pop(mTimerQueue, timer)
            /\ IF IsCanceled(Head(mTimerQueue)) THEN UNCHANGED <<tpc, executing, nextTimerDueTime>>
               ELSE /\ tpc' = "callback" /\ executing' = Head(mTimerQueue)
                    /\ nextTimerDueTime' = timer[Head(mTimerQueue)].due
       ELSE tpc' = returnTo /\ UNCHANGED <<mTimerQueue, executing, nextTimerDueTime>>
  /\ UNCHANGED <<times, flags, estimate, mProcessUserTimers, mTimerPersistent, timer, canceled,
                 returnTo, timeout, event, rti, leaves>>

\* Variant: the timer is queued before it is set.
RearmLate(t, tm) == Push(mTimerQueue, t, timer)

\* Variant: the timer is not queued again.
RearmNever(t, tm) == mTimerQueue

Rearm(t, tm) == Push(mTimerQueue, t, tm)

\* The callback returns; a cyclic timer is set again and queued.
CallbackReturns ==
  /\ tpc = "callback" /\ tpc' = "timers" /\ executing' = 0 /\ nextTimerDueTime' = 0
  /\ IF timer[executing].cyclic
       THEN /\ timer' = [timer EXCEPT ![executing] = SetTimer(@, nextTimerDueTime)]
            /\ mTimerQueue' = Rearm(executing, timer')
       ELSE UNCHANGED <<timer, mTimerQueue>>
  /\ UNCHANGED <<times, flags, estimate, mProcessUserTimers, mTimerPersistent, canceled,
                 returnTo, timeout, event, rti, leaves>>

mayRequest == ~mRequestPending /\ ~Unmanaged

\* Variant: a constrained federate always asks for the end of time.
nextRequestTimeAhead ==
  IF mUserRequestedSimTime > mLogicalTime THEN mUserRequestedSimTime
  ELSE IF mIsConstrained THEN MaxTime
  ELSE IF mTimerQueue # <<>> THEN timer[Head(mTimerQueue)].due ELSE 0

\* The user's request, else the next timer, else the end of time or nothing.
nextRequestTime ==
  IF mUserRequestedSimTime > mLogicalTime THEN mUserRequestedSimTime
  ELSE IF mTimerQueue # <<>> THEN timer[Head(mTimerQueue)].due
  ELSE IF mIsConstrained THEN MaxTime ELSE 0

TimeRequest ==
  /\ tpc = "request" /\ tpc' = "loop"
  /\ IF mayRequest /\ nextRequestTime > mLogicalTime
       THEN requested' = nextRequestTime /\ mRequestPending' = TRUE
       ELSE UNCHANGED <<requested, mRequestPending>>
  /\ UNCHANGED <<times, mIsRegulating, mIsConstrained, estimate, mProcessUserTimers, timers,
                 executing, nextTimerDueTime, returnTo, timeout, event, inbox, rtiTime, events, leaves>>

Thread ==
  /\ \/ Join \/ AwaitPolicy \/ QueueTimers \/ GoOnline \/ ComputeTimeout \/ WaitForSingleEvent
     \/ EvokeCallbacks \/ ProcessBuffers \/ ProcessUserTimers \/ CallbackReturns \/ TimeRequest
  /\ UNCHANGED config

-----------------------------------------------------------------------------
(* The application, from any of its threads or from a timer callback.           *)

Phase == IF Online THEN "online" ELSE IF tpc = "joined" THEN "joined" ELSE "out"

\* A one-shot timer has its absolute time as its period.
CreateTimer(offset, period, cyclic) ==
  /\ Len(mTimerPersistent) < MaxTimers /\ Phase \in CreateWhen
  /\ tpc \notin {"regWait", "conWait", "queue"}
  /\ cyclic \/ offset = 0
  /\ LET t == Cardinality(Timers) + 1
         new == SetTimer([offset |-> offset, period |-> period, due |-> 0, cyclic |-> cyclic,
                          mCanceled |-> FALSE], offset)
     IN /\ timer' = [u \in Timers \cup {t} |-> IF u = t THEN new ELSE timer[u]]
        /\ mTimerPersistent' = Append(mTimerPersistent, t)
        /\ mTimerQueue' = IF Online THEN Push(mTimerQueue, t, timer') ELSE mTimerQueue
  /\ UNCHANGED <<times, flags, estimate, mProcessUserTimers, canceled, thread, event, rti, leaves>>

Cancel(t) ==
  /\ Phase \in CancelWhen /\ ~timer[t].mCanceled /\ (t = executing => CancelsItself)
  /\ timer' = [timer EXCEPT ![t].mCanceled = TRUE]
  /\ canceled' = canceled \cup {t}
  /\ UNCHANGED <<times, flags, estimate, mProcessUserTimers, mTimerQueue, mTimerPersistent,
                 thread, event, rti, leaves>>

SetPeriod(t, newPeriod) ==
  /\ ChangesPeriod /\ timer[t].period # newPeriod
  /\ timer' = [timer EXCEPT ![t] = [Shift(@, newPeriod - @.period) EXCEPT !.period = newPeriod]]
  /\ UNCHANGED <<times, flags, estimate, mProcessUserTimers, mTimerQueue, mTimerPersistent,
                 canceled, thread, event, rti, leaves>>

\* RequestSimulationTimeStep comes down to this.
RequestSimulationTime(newTime) ==
  /\ RequestsTimes /\ mIsRegulating /\ newTime > mLogicalTime
  /\ mUserRequestedSimTime' = newTime
  /\ event' = TRUE
  /\ UNCHANGED <<mLogicalTime, mGrantedTime, mInitialOffsetTime, flags, estimate,
                 mProcessUserTimers, timers, thread, rti, leaves>>

Application ==
  /\ \/ \E offset \in Offsets, period \in Periods, cyclic \in BOOLEAN : CreateTimer(offset, period, cyclic)
     \/ \E t \in Timers : Cancel(t)
     \/ \E t \in Timers, period \in Periods : SetPeriod(t, period)
     \/ \E newTime \in 1..MaxTime : RequestSimulationTime(newTime)
  /\ UNCHANGED config

-----------------------------------------------------------------------------
(* The RTI: it answers, and signals the event with each callback.  A request is *)
(* granted to its time or, for a constrained federate, to that of a message.    *)

Deliver(m) == inbox' = Append(inbox, m) /\ event' = TRUE

EnablePolicy ==
  /\ inbox = <<>>
  /\ \E t \in InitialTimes :
       \/ tpc = "regWait" /\ ~mIsRegulating /\ Deliver([type |-> "regulating", time |-> t])
       \/ /\ tpc = "conWait" /\ ~mIsConstrained /\ (mIsRegulating => t = rtiTime)
          /\ Deliver([type |-> "constrained", time |-> t])
  /\ UNCHANGED <<config, times, flags, estimate, mProcessUserTimers, timers, thread, requested, rtiTime,
                 events, leaves>>

Grant ==
  /\ requested # 0 /\ inbox = <<>>
  /\ \E t \in (rtiTime + 1)..MaxTime :
       /\ t <= requested /\ (~mIsConstrained => t = requested)
       /\ Deliver([type |-> "grant", time |-> t])
  /\ UNCHANGED <<config, times, flags, estimate, mProcessUserTimers, timers, thread, requested, rtiTime,
                 events, leaves>>

\* Messages of a federate without a time policy come in no order of their times.
Event ==
  /\ Unmanaged /\ tpc \notin {"out", "queue"} /\ inbox = <<>>
  /\ events < MaxEvents /\ events' = events + 1
  /\ \E t \in 0..MaxTime : Deliver([type |-> "event", time |-> t])
  /\ UNCHANGED <<config, times, flags, estimate, mProcessUserTimers, timers, thread, requested, rtiTime,
                 leaves>>

-----------------------------------------------------------------------------
\* The constructor leaves mGrantedTime alone; it is set before it is read.
Init ==
  /\ config \in Configs
  /\ mLogicalTime = 0 /\ mGrantedTime = 0 /\ mInitialOffsetTime = 0 /\ mUserRequestedSimTime = 0
  /\ mProcessUserTimers = FALSE /\ mIsRegulating = FALSE /\ mIsConstrained = FALSE
  /\ mRequestPending = FALSE /\ mLastLogicalTimeValue = 0 /\ mFederateTooFast = FALSE
  /\ mTimerQueue = <<>> /\ mTimerPersistent = <<>> /\ timer = <<>>
  /\ tpc = "out" /\ executing = 0 /\ nextTimerDueTime = 0 /\ returnTo = "request" /\ timeout = -1
  /\ event = FALSE /\ inbox = <<>> /\ requested = 0 /\ rtiTime = 0
  /\ canceled = {} /\ events = 0 /\ leaves = 0

Next == Thread \/ Reset \/ Application \/ EnablePolicy \/ Grant \/ Event

Spec == Init /\ [][Next]_vars

\* The thread runs on, and the RTI grants what is asked for in the end.
FairSpec == Spec /\ WF_vars(Thread) /\ WF_vars(EnablePolicy) /\ WF_vars(Grant)

-----------------------------------------------------------------------------
(* Properties.                                                                  *)

Message == [type : {"regulating", "constrained", "grant", "event"}, time : 0..MaxTime]

\* Every variable of the service has its type.
TypeOK ==
  /\ config \in Configs
  /\ mLogicalTime \in 0..MaxTime /\ mGrantedTime \in 0..MaxTime /\ rtiTime \in 0..MaxTime
  /\ mInitialOffsetTime \in 0..MaxTime /\ mUserRequestedSimTime \in 0..MaxTime
  /\ {mProcessUserTimers, mIsRegulating, mIsConstrained, mRequestPending, mFederateTooFast, event}
       \subseteq BOOLEAN
  /\ mLastLogicalTimeValue \in 0..MaxTime
  /\ \A t \in Timers : timer[t] \in Timer
  /\ IsInjective(mTimerQueue) /\ ToSet(mTimerQueue) \subseteq Timers \ {executing}
  /\ ToSet(mTimerPersistent) = Timers /\ canceled \subseteq Timers
  /\ tpc \in {"out", "regWait", "conWait", "queue", "joined", "loop", "sleep", "evoke",
              "buffers", "timers", "callback", "request"}
  /\ executing \in Timers \cup {0} /\ (executing # 0 <=> tpc = "callback")
  /\ returnTo \in {"request", "sleep"} /\ timeout \in Int /\ nextTimerDueTime \in Nat
  /\ ToSet(inbox) \subseteq Message /\ requested \in Nat

Calls == executing' # executing /\ executing' # 0

\* "Process timer queue; respect due time": the callback of a timer is called when its
\* time has come, and before those of the timers that are due after it.
TimersInOrder ==
  [][Calls => /\ timer[executing'].due <= mLogicalTime
              /\ \A t \in ToSet(mTimerQueue) :
                   timer[t].mCanceled \/ timer[executing'].due <= timer[t].due]_vars

\* "... respect ... canceled timer": a timer is not called after Cancel.
CanceledIsSilent == [][Calls => executing' \notin canceled]_vars

\* A federate with a time policy asks for advances that stop at its timers, so that it
\* calls each when its time is exactly that of the timer (timers created before it
\* joined, no requests by the user).
TimersOnTime == [][Calls /\ ~Unmanaged => timer[executing'].due = mLogicalTime]_vars

\* Every cyclic timer the federate knows is in the queue while it is Online, but for the
\* one whose callback runs and canceled ones.
CyclicTimersAreQueued ==
  Online => \A t \in Timers : timer[t].cyclic /\ t # executing /\ t \notin canceled
                                => t \in ToSet(mTimerQueue)

\* A timer in the queue is called in the end if the federation gets to its time, unless
\* it is canceled or the federate leaves.
QueuedTimersFire ==
  \A t \in 1..MaxTimers :
    (Online /\ t \in ToSet(mTimerQueue) /\ timer[t].due <= MaxTime)
      ~> (executing = t \/ t \in canceled \/ ~Online)

\* A timer created Online is due from then on, by the name of the parameter timeFromNow.
TimersStartNow ==
  [][Online => \A t \in Timers' \ Timers :
       timer'[t].due = mLogicalTime + timer'[t].offset + timer'[t].period]_vars

=============================================================================
