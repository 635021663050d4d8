----------------------- MODULE RemoteAmbassador_proofs -----------------------
(* Theorems about RemoteAmbassador, for every value of its constants.          *)
EXTENDS RemoteAmbassador, TLAPS

-----------------------------------------------------------------------------
(* Type correctness.                                                            *)

\* The messages that are pending are messages, and so is what is left of them
\* when the first n are taken.
LEMMA PendingType ==
  ASSUME TypeOK
  PROVE  /\ Pending \in Seq(Messages)
         /\ Pending # <<>> => Head(Pending) \in Messages
         /\ \A n \in Nat : SubSeq(Pending, n + 1, Len(Pending)) \in Seq(Messages)
  BY DEF TypeOK, Pending

\* Taking messages in keeps the queues sequences of messages.
LEMMA TakeInType ==
  ASSUME TypeOK, NEW n \in Nat, TakeIn(n)
  PROVE  net' \in Seq(Messages) /\ inbox' \in Seq(Messages) /\ event' \in BOOLEAN
  BY PendingType DEF TakeIn, TypeOK

\* A callback keeps the variables it may change in their types.
LEMMA DispatchType ==
  ASSUME TypeOK, NEW m \in Messages, Dispatch(m)
  PROVE  /\ mState' \in States
         /\ fed' \in Federation
         /\ createResult' \in {"Error", "created", "exists"}
         /\ listAvailable' \in BOOLEAN
         /\ announced' \subseteq Points
         /\ sent' \subseteq {"init", "stop"}
         /\ simEvents' \subseteq {"Start", "Stop"}
         /\ services' \in {"reset", "joining", "granted", "joined"}
<1> USE DEF TypeOK, ambVars
<1>1. CASE connectionLost
  BY <1>1 DEF connectionLost, States
<1>2. CASE reportFederationExecutions
  BY <1>2 DEF reportFederationExecutions
<1>3. CASE OnReceiveIAMeasurementInit
  BY <1>3 DEF OnReceiveIAMeasurementInit, States, Federation
<1>4. CASE OnReceiveIAMeasurementStop
  BY <1>4 DEF OnReceiveIAMeasurementStop, States
<1>5. CASE m \in Points /\ announceSynchronizationPoint(m)
  BY <1>5 DEF announceSynchronizationPoint
<1>6. CASE federationSynchronized
  BY <1>6 DEF federationSynchronized, States
<1>7. CASE timeRegulationEnabled
  BY <1>7 DEF timeRegulationEnabled
<1>8. CASE IgnoredCallback
  BY <1>8 DEF IgnoredCallback
<1> QED BY <1>1, <1>2, <1>3, <1>4, <1>5, <1>6, <1>7, <1>8 DEF Dispatch

\* The empty queue is a sequence of messages.
LEMMA NoMessages == <<>> \in Seq(Messages)
  OBVIOUS

\* The federations that can be joined are federations.
LEMMA FederationType ==
  /\ FreshFederation \in Federation
  /\ \A i \in BOOLEAN : [FreshFederation EXCEPT !.init = i] \in Federation
  /\ [FreshFederation EXCEPT !.init = TRUE, !.synced = TRUE] \in Federation
  BY DEF FreshFederation, Federation

\* The arrival of a message keeps the queues sequences of messages.
LEMMA ArriveType ==
  ASSUME TypeOK, NEW m \in Messages, Arrive(m)
  PROVE  net' \in Seq(Messages) /\ inbox' \in Seq(Messages) /\ event' \in BOOLEAN
  BY DEF TypeOK, Arrive

\* Leaving a federation keeps the types of what it changes.
LEMMA ResignType ==
  ASSUME TypeOK, ResignAndDestroyFederation
  PROVE  /\ net' \in Seq(Messages) /\ inbox' \in Seq(Messages) /\ event' \in BOOLEAN
         /\ joined' \in BOOLEAN /\ subscribed' \in BOOLEAN
         /\ owed' \subseteq {"list", "enabled"} \cup Points
  BY DEF TypeOK, ResignAndDestroyFederation, Messages

\* Spending from a budget keeps the counters natural numbers.
LEMMA BudgetType ==
  ASSUME TypeOK, NEW what \in {"starts", "faults", "data"}, NEW max \in Nat, Budget(what, max)
  PROVE  used' \in [{"starts", "faults", "data"} -> Nat]
  BY DEF TypeOK, Budget

\* Every step keeps the types: for each action, the variables it changes first.
LEMMA TypeStep ==
  ASSUME TypeOK, [Next]_vars
  PROVE  TypeOK'
<1> USE DEF TypeOK, ambVars, rtiVars, envVars, queues, threadOnly, environmentKeeps
<1>1. CASE HandleConnectionLost
  <2>1. /\ net' \in Seq(Messages)
        /\ inbox' \in Seq(Messages)
    BY <1>1, NoMessages DEF HandleConnectionLost, NoCurrentRTIAmbassador
  <2>2. /\ link' \in {"none", "up", "lost"}
        /\ joined' \in BOOLEAN
        /\ subscribed' \in BOOLEAN
        /\ handleSet' \in BOOLEAN
        /\ owed' \subseteq {"list", "enabled"} \cup Points
        /\ mEventNotificationSet' \in BOOLEAN
        /\ event' \in BOOLEAN
    BY <1>1 DEF HandleConnectionLost, NoCurrentRTIAmbassador
  <2>3. /\ createResult' \in {"Error", "created", "exists"}
        /\ listAvailable' \in BOOLEAN
        /\ announced' \subseteq Points
        /\ sent' \subseteq {"init", "stop"}
        /\ simEvents' \subseteq {"Start", "Stop"}
        /\ services' \in {"reset", "joining", "granted", "joined"}
    BY <1>1 DEF HandleConnectionLost, ResetServices, ResetRemoteAmbassador
  <2>4. /\ mState' \in States
        /\ tpc' \in ThreadPoints
    BY <1>1 DEF HandleConnectionLost, Goto, InBlock, States, ThreadPoints
  <2> QED BY <1>1, <2>1, <2>2, <2>3, <2>4 DEF HandleConnectionLost, Goto
<1>2. CASE CreateRTIAmbassador
  <2>1. /\ net' \in Seq(Messages)
        /\ inbox' \in Seq(Messages)
    BY <1>2, NoMessages DEF CreateRTIAmbassador, NoCurrentRTIAmbassador
  <2>2. /\ link' \in {"none", "up", "lost"}
        /\ joined' \in BOOLEAN
        /\ subscribed' \in BOOLEAN
        /\ handleSet' \in BOOLEAN
        /\ owed' \subseteq {"list", "enabled"} \cup Points
    BY <1>2 DEF CreateRTIAmbassador, NoCurrentRTIAmbassador
  <2>3. /\ mState' \in States
        /\ tpc' \in ThreadPoints
    BY <1>2 DEF CreateRTIAmbassador, Goto, InBlock, States, ThreadPoints
  <2> QED BY <1>2, <2>1, <2>2, <2>3 DEF CreateRTIAmbassador, Goto
<1>3. CASE ConnectToRTINode
  <2>1. link' \in {"none", "up", "lost"}
    BY <1>3 DEF ConnectToRTINode
  <2>2. /\ mState' \in States
        /\ tpc' \in ThreadPoints
    BY <1>3 DEF ConnectToRTINode, Goto, InBlock, States, ThreadPoints
  <2> QED BY <1>3, <2>1, <2>2 DEF ConnectToRTINode, Goto
<1>4. CASE ResetOnMeasurementStop
  <2>1. /\ net' \in Seq(Messages)
        /\ inbox' \in Seq(Messages)
        /\ event' \in BOOLEAN
        /\ joined' \in BOOLEAN
        /\ subscribed' \in BOOLEAN
        /\ owed' \subseteq {"list", "enabled"} \cup Points
    BY <1>4, ResignType DEF ResetOnMeasurementStop
  <2>2. /\ createResult' \in {"Error", "created", "exists"}
        /\ listAvailable' \in BOOLEAN
        /\ announced' \subseteq Points
        /\ sent' \subseteq {"init", "stop"}
        /\ simEvents' \subseteq {"Start", "Stop"}
        /\ services' \in {"reset", "joining", "granted", "joined"}
    BY <1>4 DEF ResetOnMeasurementStop, ResetServices, ResetRemoteAmbassador
  <2>3. /\ mState' \in States
        /\ tpc' \in ThreadPoints
    BY <1>4 DEF ResetOnMeasurementStop, Goto, InBlock, States, ThreadPoints
  <2> QED BY <1>4, <2>1, <2>2, <2>3 DEF ResetOnMeasurementStop, Goto
<1>5. CASE GetLatestFederation
  <2>1. /\ listAvailable' \in BOOLEAN
        /\ owed' \subseteq {"list", "enabled"} \cup Points
    BY <1>5 DEF GetLatestFederation
  <2>2. /\ mState' \in States
        /\ tpc' \in ThreadPoints
    BY <1>5 DEF GetLatestFederation, Goto, InBlock, States, ThreadPoints
  <2> QED BY <1>5, <2>1, <2>2 DEF GetLatestFederation, Goto
<1>6. CASE CreateFederation
  <2>1. /\ net' \in Seq(Messages)
        /\ inbox' \in Seq(Messages)
        /\ event' \in BOOLEAN
    BY <1>6, TakeInType DEF CreateFederation
  <2>2. used' \in [{"starts", "faults", "data"} -> Nat]
    BY <1>6, BudgetType, BoundsAssumption DEF CreateFederation, TimesOut
  <2>3. createResult' \in {"Error", "created", "exists"}
    BY <1>6 DEF CreateFederation
  <2>4. /\ mState' \in States
        /\ tpc' \in ThreadPoints
    BY <1>6 DEF CreateFederation, Goto, InBlock, States, ThreadPoints
  <2> QED BY <1>6, <2>1, <2>2, <2>3, <2>4 DEF CreateFederation, Goto
<1>7. CASE JoinFederation
  <2>1. /\ net' \in Seq(Messages)
        /\ inbox' \in Seq(Messages)
        /\ event' \in BOOLEAN
    BY <1>7, TakeInType DEF JoinFederation
  <2>2. used' \in [{"starts", "faults", "data"} -> Nat]
    BY <1>7, BudgetType, BoundsAssumption DEF JoinFederation, TimesOut
  <2>3. fed' \in Federation
    BY <1>7, FederationType DEF JoinFederation, Joins
  <2>4. owed' \subseteq {"list", "enabled"} \cup Points
    BY <1>7 DEF JoinFederation, Joins, Points
  <2>5. joined' \in BOOLEAN
    BY <1>7 DEF JoinFederation
  <2>6. /\ mState' \in States
        /\ tpc' \in ThreadPoints
    BY <1>7 DEF JoinFederation, Goto, InBlock, States, ThreadPoints
  <2> QED BY <1>7, <2>1, <2>2, <2>3, <2>4, <2>5, <2>6 DEF JoinFederation, Goto
<1>8. CASE RegisterSyncPoints
  <2>1. /\ announced' \subseteq Points
        /\ owed' \subseteq {"list", "enabled"} \cup Points
    BY <1>8 DEF RegisterSyncPoints
  <2>2. /\ mState' \in States
        /\ tpc' \in ThreadPoints
    BY <1>8 DEF RegisterSyncPoints, Goto, InBlock, States, ThreadPoints
  <2> QED BY <1>8, <2>1, <2>2 DEF RegisterSyncPoints, Goto
<1>9. CASE RetrieveSyncPoints
  <2>1. /\ mState' \in States
        /\ tpc' \in ThreadPoints
    BY <1>9 DEF RetrieveSyncPoints, Goto, InBlock, States, ThreadPoints
  <2> QED BY <1>9, <2>1 DEF RetrieveSyncPoints, Goto
<1>10. CASE JoinScan
  <2>1. /\ net' \in Seq(Messages)
        /\ inbox' \in Seq(Messages)
        /\ event' \in BOOLEAN
    BY <1>10, TakeInType DEF JoinScan, evokeCallback
  <2>2. /\ mState' \in States
        /\ createResult' \in {"Error", "created", "exists"}
        /\ listAvailable' \in BOOLEAN
        /\ announced' \subseteq Points
        /\ sent' \subseteq {"init", "stop"}
        /\ simEvents' \subseteq {"Start", "Stop"}
        /\ services' \in {"reset", "joining", "granted", "joined"}
        /\ fed' \in Federation
    BY <1>10, PendingType, DispatchType DEF JoinScan, evokeCallback
  <2>3. used' \in [{"starts", "faults", "data"} -> Nat]
    BY <1>10, BudgetType, BoundsAssumption DEF JoinScan
  <2>4. tpc' \in ThreadPoints
    BY <1>10 DEF JoinScan, ThreadPoints
  <2> QED BY <1>10, <2>1, <2>2, <2>3, <2>4 DEF JoinScan
<1>11. CASE HandleDeadFederation
  <2>1. /\ net' \in Seq(Messages)
        /\ inbox' \in Seq(Messages)
        /\ event' \in BOOLEAN
        /\ joined' \in BOOLEAN
        /\ subscribed' \in BOOLEAN
        /\ owed' \subseteq {"list", "enabled"} \cup Points
    BY <1>11, ResignType DEF HandleDeadFederation
  <2>2. /\ mState' \in States
        /\ tpc' \in ThreadPoints
    BY <1>11 DEF HandleDeadFederation, Goto, InBlock, States, ThreadPoints
  <2> QED BY <1>11, <2>1, <2>2 DEF HandleDeadFederation, Goto
<1>12. CASE JoinFreshOrLate
  <2>1. /\ mState' \in States
        /\ tpc' \in ThreadPoints
    BY <1>12 DEF JoinFreshOrLate, Goto, InBlock, States, ThreadPoints
  <2> QED BY <1>12, <2>1 DEF JoinFreshOrLate, Goto
<1>13. CASE InitFederate
  <2>1. /\ subscribed' \in BOOLEAN
        /\ services' \in {"reset", "joining", "granted", "joined"}
        /\ owed' \subseteq {"list", "enabled"} \cup Points
    BY <1>13 DEF InitFederate
  <2>2. /\ mState' \in States
        /\ tpc' \in ThreadPoints
    BY <1>13 DEF InitFederate, Goto, InBlock, States, ThreadPoints
  <2> QED BY <1>13, <2>1, <2>2 DEF InitFederate, Goto
<1>14. CASE FederateInitialized
  <2>1. /\ services' \in {"reset", "joining", "granted", "joined"}
        /\ event' \in BOOLEAN
    BY <1>14 DEF FederateInitialized, ProcessServiceBuffers
  <2>2. /\ mState' \in States
        /\ tpc' \in ThreadPoints
    BY <1>14 DEF FederateInitialized, Goto, InBlock, States, ThreadPoints
  <2> QED BY <1>14, <2>1, <2>2 DEF FederateInitialized, Goto
<1>15. CASE MeasurementInitReceived
  <2>1. fed' \in Federation
    BY <1>15 DEF MeasurementInitReceived, Federation
  <2>2. /\ mState' \in States
        /\ tpc' \in ThreadPoints
    BY <1>15 DEF MeasurementInitReceived, Goto, InBlock, States, ThreadPoints
  <2> QED BY <1>15, <2>1, <2>2 DEF MeasurementInitReceived, Goto
<1>16. CASE EvokeInWaitLoop
  <2>1. /\ net' \in Seq(Messages)
        /\ inbox' \in Seq(Messages)
        /\ event' \in BOOLEAN
    BY <1>16, TakeInType DEF EvokeInWaitLoop, evokeCallback
  <2>2. /\ mState' \in States
        /\ createResult' \in {"Error", "created", "exists"}
        /\ listAvailable' \in BOOLEAN
        /\ announced' \subseteq Points
        /\ sent' \subseteq {"init", "stop"}
        /\ simEvents' \subseteq {"Start", "Stop"}
        /\ services' \in {"reset", "joining", "granted", "joined"}
        /\ fed' \in Federation
    BY <1>16, PendingType, DispatchType DEF EvokeInWaitLoop, evokeCallback
  <2> QED BY <1>16, <2>1, <2>2 DEF EvokeInWaitLoop
<1>17. CASE EndWait
  <2>1. /\ mState' \in States
        /\ tpc' \in ThreadPoints
    BY <1>17 DEF EndWait, Goto, InBlock, States, ThreadPoints
  <2> QED BY <1>17, <2>1 DEF EndWait, Goto
<1>18. CASE ConnectReturns
  <2>1. /\ mState' \in States
        /\ tpc' \in ThreadPoints
    BY <1>18 DEF ConnectReturns, Goto, InBlock, States, ThreadPoints
  <2> QED BY <1>18, <2>1 DEF ConnectReturns, Goto
<1>19. CASE PollThread
  <2>1. tpc' \in ThreadPoints
    BY <1>19 DEF PollThread, ThreadPoints
  <2> QED BY <1>19, <2>1 DEF PollThread
<1>20. CASE SetNotificationHandle
  <2>1. /\ mEventNotificationSet' \in BOOLEAN
        /\ handleSet' \in BOOLEAN
        /\ event' \in BOOLEAN
    BY <1>20 DEF SetNotificationHandle
  <2>2. tpc' \in ThreadPoints
    BY <1>20 DEF SetNotificationHandle, ThreadPoints
  <2> QED BY <1>20, <2>1, <2>2 DEF SetNotificationHandle
<1>21. CASE WaitForSingleEvent
  <2>1. event' \in BOOLEAN
    BY <1>21 DEF WaitForSingleEvent
  <2>2. tpc' \in ThreadPoints
    BY <1>21 DEF WaitForSingleEvent, ThreadPoints
  <2> QED BY <1>21, <2>1, <2>2 DEF WaitForSingleEvent
<1>22. CASE EvokeCallbacks
  <2>1. /\ net' \in Seq(Messages)
        /\ inbox' \in Seq(Messages)
        /\ event' \in BOOLEAN
    BY <1>22, TakeInType DEF EvokeCallbacks, evokeCallback
  <2>2. /\ mState' \in States
        /\ createResult' \in {"Error", "created", "exists"}
        /\ listAvailable' \in BOOLEAN
        /\ announced' \subseteq Points
        /\ sent' \subseteq {"init", "stop"}
        /\ simEvents' \subseteq {"Start", "Stop"}
        /\ services' \in {"reset", "joining", "granted", "joined"}
        /\ fed' \in Federation
    BY <1>22, PendingType, DispatchType DEF EvokeCallbacks, evokeCallback
  <2>3. tpc' \in ThreadPoints
    BY <1>22 DEF EvokeCallbacks, ThreadPoints
  <2> QED BY <1>22, <2>1, <2>2, <2>3 DEF EvokeCallbacks
<1>23. CASE EvokeCallbacksEnd
  <2>1. /\ simEvents' \subseteq {"Start", "Stop"}
        /\ event' \in BOOLEAN
    BY <1>23 DEF EvokeCallbacksEnd, ProcessServiceBuffers
  <2>2. tpc' \in ThreadPoints
    BY <1>23 DEF EvokeCallbacksEnd, ThreadPoints
  <2> QED BY <1>23, <2>1, <2>2 DEF EvokeCallbacksEnd
<1>24. CASE Start
  <2>1. mRunning' \in BOOLEAN
    BY <1>24 DEF Start
  <2>2. used' \in [{"starts", "faults", "data"} -> Nat]
    BY <1>24, BudgetType, BoundsAssumption DEF Start
  <2>3. /\ tpc' \in ThreadPoints
        /\ upc' \in UserPoints
    BY <1>24 DEF Start, ThreadPoints, UserPoints
  <2> QED BY <1>24, <2>1, <2>2, <2>3 DEF Start
<1>25. CASE Stop
  <2>1. mRunning' \in BOOLEAN
    BY <1>25 DEF Stop
  <2>2. upc' \in UserPoints
    BY <1>25 DEF Stop, UserPoints
  <2> QED BY <1>25, <2>1, <2>2 DEF Stop
<1>26. CASE SendManualSignal
  <2>1. event' \in BOOLEAN
    BY <1>26 DEF SendManualSignal
  <2>2. upc' \in UserPoints
    BY <1>26 DEF SendManualSignal, UserPoints
  <2> QED BY <1>26, <2>1, <2>2 DEF SendManualSignal
<1>27. CASE JoinThread
  <2>1. /\ tpc' \in ThreadPoints
        /\ upc' \in UserPoints
    BY <1>27 DEF JoinThread, ThreadPoints, UserPoints
  <2> QED BY <1>27, <2>1 DEF JoinThread
<1>28. CASE Disconnect
  <2>1. /\ net' \in Seq(Messages)
        /\ inbox' \in Seq(Messages)
        /\ event' \in BOOLEAN
        /\ joined' \in BOOLEAN
        /\ subscribed' \in BOOLEAN
        /\ owed' \subseteq {"list", "enabled"} \cup Points
    BY <1>28, ResignType DEF Disconnect
  <2>2. /\ createResult' \in {"Error", "created", "exists"}
        /\ listAvailable' \in BOOLEAN
        /\ announced' \subseteq Points
        /\ sent' \subseteq {"init", "stop"}
        /\ simEvents' \subseteq {"Start", "Stop"}
        /\ services' \in {"reset", "joining", "granted", "joined"}
    BY <1>28 DEF Disconnect, ResetServices, ResetRemoteAmbassador
  <2>3. /\ mState' \in States
        /\ link' \in {"none", "up", "lost"}
        /\ upc' \in UserPoints
    BY <1>28 DEF Disconnect, States, UserPoints
  <2> QED BY <1>28, <2>1, <2>2, <2>3 DEF Disconnect
<1>29. CASE StartMeasurement
  <2>1. sent' \subseteq {"init", "stop"}
    BY <1>29 DEF StartMeasurement, SendInteraction
  <2>2. fed' \in Federation
    BY <1>29 DEF StartMeasurement, SendInteraction, Federation
  <2>3. /\ inbox' \in Seq(Messages)
        /\ event' \in BOOLEAN
    BY <1>29 DEF StartMeasurement, SendInteraction, Messages
  <2> QED BY <1>29, <2>1, <2>2, <2>3 DEF StartMeasurement
<1>30. CASE StopMeasurement
  <2>1. sent' \subseteq {"init", "stop"}
    BY <1>30 DEF StopMeasurement, SendInteraction
  <2>2. fed' \in Federation
    BY <1>30 DEF StopMeasurement, SendInteraction, Federation
  <2>3. /\ inbox' \in Seq(Messages)
        /\ event' \in BOOLEAN
    BY <1>30 DEF StopMeasurement, SendInteraction, Messages
  <2> QED BY <1>30, <2>1, <2>2, <2>3 DEF StopMeasurement
<1>31. CASE Answer
  <2>1. /\ net' \in Seq(Messages)
        /\ inbox' \in Seq(Messages)
        /\ event' \in BOOLEAN
        /\ owed' \subseteq {"list", "enabled"} \cup Points
    BY <1>31, ArriveType DEF Answer, Messages, Points
  <2> QED BY <1>31, <2>1 DEF Answer
<1>32. CASE PeerSends
  <2>1. /\ net' \in Seq(Messages)
        /\ inbox' \in Seq(Messages)
        /\ event' \in BOOLEAN
    BY <1>32, ArriveType DEF PeerSends, Messages
  <2>2. fed' \in Federation
    BY <1>32 DEF PeerSends, Federation
  <2> QED BY <1>32, <2>1, <2>2 DEF PeerSends
<1>33. CASE Synchronize
  <2>1. /\ net' \in Seq(Messages)
        /\ inbox' \in Seq(Messages)
        /\ event' \in BOOLEAN
    BY <1>33, ArriveType DEF Synchronize, Messages
  <2>2. fed' \in Federation
    BY <1>33 DEF Synchronize, Federation
  <2> QED BY <1>33, <2>1, <2>2 DEF Synchronize
<1>34. CASE PeerData
  <2>1. /\ net' \in Seq(Messages)
        /\ inbox' \in Seq(Messages)
        /\ event' \in BOOLEAN
    BY <1>34, ArriveType DEF PeerData, Messages
  <2>2. used' \in [{"starts", "faults", "data"} -> Nat]
    BY <1>34, BudgetType, BoundsAssumption DEF PeerData
  <2> QED BY <1>34, <2>1, <2>2 DEF PeerData
<1>35. CASE LoseLink
  <2>1. /\ net' \in Seq(Messages)
        /\ inbox' \in Seq(Messages)
        /\ event' \in BOOLEAN
    BY <1>35, ArriveType DEF LoseLink, Messages
  <2>2. used' \in [{"starts", "faults", "data"} -> Nat]
    BY <1>35, BudgetType, BoundsAssumption DEF LoseLink
  <2>3. /\ link' \in {"none", "up", "lost"}
        /\ nodeUp' \in BOOLEAN
        /\ owed' \subseteq {"list", "enabled"} \cup Points
    BY <1>35 DEF LoseLink
  <2> QED BY <1>35, <2>1, <2>2, <2>3 DEF LoseLink
<1>36. CASE NodeStarts
  <2>1. nodeUp' \in BOOLEAN
    BY <1>36 DEF NodeStarts
  <2> QED BY <1>36, <2>1 DEF NodeStarts
<1>37. CASE UNCHANGED vars
  BY <1>37 DEF vars
<1> QED
  BY <1>1, <1>2, <1>3, <1>4, <1>5, <1>6, <1>7, <1>8, <1>9, <1>10, <1>11, <1>12, <1>13,
     <1>14, <1>15, <1>16, <1>17, <1>18, <1>19, <1>20, <1>21, <1>22, <1>23, <1>24, <1>25,
     <1>26, <1>27, <1>28, <1>29, <1>30, <1>31, <1>32, <1>33, <1>34, <1>35, <1>36, <1>37 DEF
     Next, Thread, Connect, Application, Environment

\* All reachable states are well typed.
THEOREM TypeCorrect == Spec => []TypeOK
<1>1. Init => TypeOK
  <2> SUFFICES ASSUME Init PROVE TypeOK
    OBVIOUS
  <2>1. used \in [{"starts", "faults", "data"} -> Nat]
    BY DEF Init
  <2>2. fed \in Federation /\ net \in Seq(Messages) /\ inbox \in Seq(Messages)
    BY NoMessages, FederationType DEF Init
  <2>3. mState \in States /\ tpc \in ThreadPoints /\ upc \in UserPoints
    BY DEF Init, States, ThreadPoints, UserPoints
  <2> QED BY <2>1, <2>2, <2>3 DEF Init, TypeOK
<1>2. TypeOK /\ [Next]_vars => TypeOK'
  BY TypeStep
<1> QED BY <1>1, <1>2, PTL DEF Spec

-----------------------------------------------------------------------------
(* No lost wakeup.                                                              *)
(* The event can be relied on as long as no evoke loop is cut short             *)
(* (SlowCallbacks) and the adapter is started once: then the RTI ambassador in  *)
(* use always signals our event when mEventNotificationSet says so, and what it *)
(* holds outside an evoke loop has been signalled.                              *)

\* Outside an evoke loop, the event is set while the RTI holds messages.
Signalled == handleSet /\ tpc # "Evoke" /\ (inbox # <<>> \/ net # <<>>) => event

\* The thread that polls online has a notification handle in its RTI ambassador.
HandleIsSet ==
  /\ mEventNotificationSet => handleSet /\ used.starts >= 1
  /\ tpc = "EventWait" => handleSet
  /\ tpc \in {"Loop", "EventWait", "Evoke", "Process"} /\ mState = "Online" => mEventNotificationSet

\* The only offline ambassador with the flag still set is one that was stopped.
OneThread ==
  /\ tpc # "None" => used.starts >= 1
  /\ upc = "Disconnect" => tpc = "None" /\ used.starts >= 1
  /\ mState = "Offline" /\ mEventNotificationSet => tpc \in {"None", "Terminated"}

WakeupInv == Signalled /\ HandleIsSet /\ OneThread

\* Taking messages in signals what comes from the link.
LEMMA TakeInSignals ==
  ASSUME TypeOK, NEW n \in Nat, TakeIn(n)
  PROVE  /\ event => event'
         /\ handleSet /\ net # <<>> => event'
         /\ net' = <<>>
         /\ inbox' # <<>> => inbox # <<>> \/ net # <<>>
<1>1. inbox = <<>> /\ net = <<>> => inbox' = <<>>
  BY DEF TakeIn, Pending, TypeOK
<1> QED BY <1>1 DEF TakeIn, TypeOK

\* Leaving a federation signals the loss of the link it finds.
LEMMA ResignSignals ==
  ASSUME TypeOK, ResignAndDestroyFederation
  PROVE  /\ event => event'
         /\ net' = <<>>
         /\ handleSet /\ inbox' # <<>> => inbox # <<>> \/ event'
  BY DEF ResignAndDestroyFederation, TypeOK

\* An arriving message is signalled.
LEMMA ArriveSignals ==
  ASSUME TypeOK, NEW m, Arrive(m)
  PROVE  (event => event') /\ (handleSet => event') /\ inbox' = inbox
  BY DEF Arrive, TypeOK

\* No callback makes the federate online or offline.
LEMMA DispatchState ==
  ASSUME TypeOK, NEW m, Dispatch(m)
  PROVE  mState' \in {"Online", "Offline"} => mState' = mState
  BY DEF TypeOK, Dispatch, connectionLost, OnReceiveIAMeasurementInit, OnReceiveIAMeasurementStop,
         announceSynchronizationPoint, federationSynchronized, reportFederationExecutions,
         timeRegulationEnabled, IgnoredCallback

\* Spending from a budget never lowers a counter.
LEMMA BudgetGrows ==
  ASSUME TypeOK, NEW what \in {"starts", "faults", "data"}, NEW max \in Nat, Budget(what, max)
  PROVE  /\ used'.starts >= used.starts
         /\ used'.starts \in Nat
         /\ what = "starts" => used.starts < max
  BY DEF TypeOK, Budget

\* Every step keeps the three parts.
LEMMA WakeupStep ==
  ASSUME TypeOK, WakeupInv, [Next]_vars, ~SlowCallbacks, MaxStarts <= 1
  PROVE  WakeupInv'
<1> USE BoundsAssumption
      DEF WakeupInv, ambVars, rtiVars, envVars, queues, threadOnly, environmentKeeps
<1>0. used.starts \in Nat /\ event \in BOOLEAN /\ handleSet \in BOOLEAN
      /\ mEventNotificationSet \in BOOLEAN
  BY DEF TypeOK
<1>1. CASE HandleConnectionLost
  <2>1. Signalled' BY <1>0, <1>1 DEF HandleConnectionLost, InBlock, Goto,
     NoCurrentRTIAmbassador, Signalled, HandleIsSet, OneThread
  <2>2. HandleIsSet' BY <1>0, <1>1 DEF HandleConnectionLost, InBlock, Goto,
     NoCurrentRTIAmbassador, HandleIsSet, OneThread
  <2>3. OneThread' BY <1>0, <1>1 DEF HandleConnectionLost, InBlock, Goto,
     NoCurrentRTIAmbassador, HandleIsSet, OneThread
  <2> QED BY <2>1, <2>2, <2>3
<1>2. CASE CreateRTIAmbassador
  <2>1. Signalled' BY <1>0, <1>2 DEF CreateRTIAmbassador, InBlock, Goto,
     NoCurrentRTIAmbassador, Signalled, HandleIsSet, OneThread
  <2>2. HandleIsSet' BY <1>0, <1>2 DEF CreateRTIAmbassador, InBlock, Goto,
     NoCurrentRTIAmbassador, HandleIsSet, OneThread
  <2>3. OneThread' BY <1>0, <1>2 DEF CreateRTIAmbassador, InBlock, Goto,
     NoCurrentRTIAmbassador, HandleIsSet, OneThread
  <2> QED BY <2>1, <2>2, <2>3
<1>3. CASE ConnectToRTINode
  <2>1. Signalled' BY <1>0, <1>3 DEF ConnectToRTINode, InBlock, Goto, Signalled,
     HandleIsSet, OneThread
  <2>2. HandleIsSet' BY <1>0, <1>3 DEF ConnectToRTINode, InBlock, Goto, HandleIsSet,
     OneThread
  <2>3. OneThread' BY <1>0, <1>3 DEF ConnectToRTINode, InBlock, Goto, HandleIsSet, OneThread
  <2> QED BY <2>1, <2>2, <2>3
<1>4. CASE ResetOnMeasurementStop
  <2>1. Signalled' BY <1>0, <1>4, ResignSignals DEF ResetOnMeasurementStop, InBlock, Goto,
     Signalled, HandleIsSet, OneThread
  <2>2. HandleIsSet' BY <1>0, <1>4 DEF ResetOnMeasurementStop, InBlock, Goto, HandleIsSet,
     OneThread
  <2>3. OneThread' BY <1>0, <1>4 DEF ResetOnMeasurementStop, InBlock, Goto, HandleIsSet,
     OneThread
  <2> QED BY <2>1, <2>2, <2>3
<1>5. CASE GetLatestFederation
  <2>1. Signalled' BY <1>0, <1>5 DEF GetLatestFederation, InBlock, Goto, Signalled,
     HandleIsSet, OneThread
  <2>2. HandleIsSet' BY <1>0, <1>5 DEF GetLatestFederation, InBlock, Goto, HandleIsSet,
     OneThread
  <2>3. OneThread' BY <1>0, <1>5 DEF GetLatestFederation, InBlock, Goto, HandleIsSet,
     OneThread
  <2> QED BY <2>1, <2>2, <2>3
<1>6. CASE CreateFederation
  <2>1. Signalled' BY <1>0, <1>6, TakeInSignals DEF CreateFederation, InBlock, Goto,
     Signalled, HandleIsSet, OneThread
  <2>2. HandleIsSet' BY <1>0, <1>6, BudgetGrows DEF CreateFederation, InBlock, Goto,
     TimesOut, HandleIsSet, OneThread
  <2>3. OneThread' BY <1>0, <1>6, BudgetGrows DEF CreateFederation, InBlock, Goto, TimesOut,
     HandleIsSet, OneThread
  <2> QED BY <2>1, <2>2, <2>3
<1>7. CASE JoinFederation
  <2>1. Signalled' BY <1>0, <1>7, TakeInSignals DEF JoinFederation, InBlock, Goto,
     Signalled, HandleIsSet, OneThread
  <2>2. HandleIsSet' BY <1>0, <1>7, BudgetGrows DEF JoinFederation, InBlock, Goto, TimesOut,
     HandleIsSet, OneThread
  <2>3. OneThread' BY <1>0, <1>7, BudgetGrows DEF JoinFederation, InBlock, Goto, TimesOut,
     HandleIsSet, OneThread
  <2> QED BY <2>1, <2>2, <2>3
<1>8. CASE RegisterSyncPoints
  <2>1. Signalled' BY <1>0, <1>8 DEF RegisterSyncPoints, InBlock, Goto, Signalled,
     HandleIsSet, OneThread
  <2>2. HandleIsSet' BY <1>0, <1>8 DEF RegisterSyncPoints, InBlock, Goto, HandleIsSet,
     OneThread
  <2>3. OneThread' BY <1>0, <1>8 DEF RegisterSyncPoints, InBlock, Goto, HandleIsSet,
     OneThread
  <2> QED BY <2>1, <2>2, <2>3
<1>9. CASE RetrieveSyncPoints
  <2>1. Signalled' BY <1>0, <1>9 DEF RetrieveSyncPoints, InBlock, Goto, Signalled,
     HandleIsSet, OneThread
  <2>2. HandleIsSet' BY <1>0, <1>9 DEF RetrieveSyncPoints, InBlock, Goto, HandleIsSet,
     OneThread
  <2>3. OneThread' BY <1>0, <1>9 DEF RetrieveSyncPoints, InBlock, Goto, HandleIsSet,
     OneThread
  <2> QED BY <2>1, <2>2, <2>3
<1>10. CASE JoinScan
  <2>1. Signalled' BY <1>0, <1>10, TakeInSignals DEF JoinScan, InBlock, Goto, evokeCallback,
     Signalled, HandleIsSet, OneThread
  <2>2. HandleIsSet' BY <1>0, <1>10, DispatchState, BudgetGrows DEF JoinScan, InBlock, Goto,
     evokeCallback, HandleIsSet, OneThread
  <2>3. OneThread' BY <1>0, <1>10, DispatchState, BudgetGrows DEF JoinScan, InBlock, Goto,
     evokeCallback, HandleIsSet, OneThread
  <2> QED BY <2>1, <2>2, <2>3
<1>11. CASE HandleDeadFederation
  <2>1. Signalled' BY <1>0, <1>11, ResignSignals DEF HandleDeadFederation, InBlock, Goto,
     Signalled, HandleIsSet, OneThread
  <2>2. HandleIsSet' BY <1>0, <1>11 DEF HandleDeadFederation, InBlock, Goto, HandleIsSet,
     OneThread
  <2>3. OneThread' BY <1>0, <1>11 DEF HandleDeadFederation, InBlock, Goto, HandleIsSet,
     OneThread
  <2> QED BY <2>1, <2>2, <2>3
<1>12. CASE JoinFreshOrLate
  <2>1. Signalled' BY <1>0, <1>12 DEF JoinFreshOrLate, InBlock, Goto, Signalled,
     HandleIsSet, OneThread
  <2>2. HandleIsSet' BY <1>0, <1>12 DEF JoinFreshOrLate, InBlock, Goto, HandleIsSet,
     OneThread
  <2>3. OneThread' BY <1>0, <1>12 DEF JoinFreshOrLate, InBlock, Goto, HandleIsSet, OneThread
  <2> QED BY <2>1, <2>2, <2>3
<1>13. CASE InitFederate
  <2>1. Signalled' BY <1>0, <1>13 DEF InitFederate, InBlock, Goto, Signalled, HandleIsSet,
     OneThread
  <2>2. HandleIsSet' BY <1>0, <1>13 DEF InitFederate, InBlock, Goto, HandleIsSet, OneThread
  <2>3. OneThread' BY <1>0, <1>13 DEF InitFederate, InBlock, Goto, HandleIsSet, OneThread
  <2> QED BY <2>1, <2>2, <2>3
<1>14. CASE FederateInitialized
  <2>1. Signalled' BY <1>0, <1>14 DEF FederateInitialized, InBlock, Goto,
     ProcessServiceBuffers, Signalled, HandleIsSet, OneThread
  <2>2. HandleIsSet' BY <1>0, <1>14 DEF FederateInitialized, InBlock, Goto, HandleIsSet,
     OneThread
  <2>3. OneThread' BY <1>0, <1>14 DEF FederateInitialized, InBlock, Goto, HandleIsSet,
     OneThread
  <2> QED BY <2>1, <2>2, <2>3
<1>15. CASE MeasurementInitReceived
  <2>1. Signalled' BY <1>0, <1>15 DEF MeasurementInitReceived, InBlock, Goto, Signalled,
     HandleIsSet, OneThread
  <2>2. HandleIsSet' BY <1>0, <1>15 DEF MeasurementInitReceived, InBlock, Goto, HandleIsSet,
     OneThread
  <2>3. OneThread' BY <1>0, <1>15 DEF MeasurementInitReceived, InBlock, Goto, HandleIsSet,
     OneThread
  <2> QED BY <2>1, <2>2, <2>3
<1>16. CASE EvokeInWaitLoop
  <2>1. Signalled' BY <1>0, <1>16, TakeInSignals DEF EvokeInWaitLoop, InBlock, Goto,
     evokeCallback, Signalled, HandleIsSet, OneThread
  <2>2. HandleIsSet' BY <1>0, <1>16, DispatchState DEF EvokeInWaitLoop, InBlock, Goto,
     evokeCallback, WaitLoops, HandleIsSet, OneThread
  <2>3. OneThread' BY <1>0, <1>16, DispatchState DEF EvokeInWaitLoop, InBlock, Goto,
     evokeCallback, WaitLoops, HandleIsSet, OneThread
  <2> QED BY <2>1, <2>2, <2>3
<1>17. CASE EndWait
  <2>1. Signalled' BY <1>0, <1>17 DEF EndWait, InBlock, Goto, Signalled, HandleIsSet,
     OneThread
  <2>2. HandleIsSet' BY <1>0, <1>17 DEF EndWait, InBlock, Goto, WaitIsOver, HandleIsSet,
     OneThread
  <2>3. OneThread' BY <1>0, <1>17 DEF EndWait, InBlock, Goto, WaitIsOver, HandleIsSet,
     OneThread
  <2> QED BY <2>1, <2>2, <2>3
<1>18. CASE ConnectReturns
  <2>1. Signalled' BY <1>0, <1>18 DEF ConnectReturns, InBlock, Goto, Signalled, HandleIsSet,
     OneThread
  <2>2. HandleIsSet' BY <1>0, <1>18 DEF ConnectReturns, InBlock, Goto, HandleIsSet,
     OneThread
  <2>3. OneThread' BY <1>0, <1>18 DEF ConnectReturns, InBlock, Goto, HandleIsSet, OneThread
  <2> QED BY <2>1, <2>2, <2>3
<1>19. CASE PollThread
  <2>1. Signalled' BY <1>0, <1>19 DEF PollThread, InBlock, Goto, Signalled, HandleIsSet,
     OneThread
  <2>2. HandleIsSet' BY <1>0, <1>19 DEF PollThread, InBlock, Goto, HandleIsSet, OneThread
  <2>3. OneThread' BY <1>0, <1>19 DEF PollThread, InBlock, Goto, HandleIsSet, OneThread
  <2> QED BY <2>1, <2>2, <2>3
<1>20. CASE SetNotificationHandle
  <2>1. Signalled' BY <1>0, <1>20 DEF SetNotificationHandle, InBlock, Goto, Signalled,
     HandleIsSet, OneThread
  <2>2. HandleIsSet' BY <1>0, <1>20 DEF SetNotificationHandle, InBlock, Goto, HandleIsSet,
     OneThread
  <2>3. OneThread' BY <1>0, <1>20 DEF SetNotificationHandle, InBlock, Goto, HandleIsSet,
     OneThread
  <2> QED BY <2>1, <2>2, <2>3
<1>21. CASE WaitForSingleEvent
  <2>1. Signalled'
    <3>1. tpc' = "Evoke" BY <1>21 DEF WaitForSingleEvent
    <3> QED BY <3>1 DEF Signalled
  <2>2. HandleIsSet' BY <1>0, <1>21 DEF WaitForSingleEvent, InBlock, Goto, HandleIsSet,
     OneThread
  <2>3. OneThread' BY <1>0, <1>21 DEF WaitForSingleEvent, InBlock, Goto, HandleIsSet,
     OneThread
  <2> QED BY <2>1, <2>2, <2>3
<1>22. CASE EvokeCallbacks
  <2>1. Signalled'
    <3>1. CASE evokeCallback
      <4>1. net' = <<>> BY <3>1, TakeInSignals DEF evokeCallback
      <4>2. inbox' = <<>> \/ tpc' = "Evoke" BY <1>22, <3>1 DEF EvokeCallbacks, evokeCallback, TakeIn, Pending
      <4> QED BY <4>1, <4>2 DEF Signalled
    <3>2. CASE Pending = <<>> /\ UNCHANGED queues
      BY <3>2 DEF Signalled, Pending, TypeOK
    <3> QED BY <1>22, <3>1, <3>2 DEF EvokeCallbacks
  <2>2. HandleIsSet' BY <1>0, <1>22, DispatchState DEF EvokeCallbacks, InBlock, Goto,
     evokeCallback, HandleIsSet, OneThread
  <2>3. OneThread' BY <1>0, <1>22, DispatchState DEF EvokeCallbacks, InBlock, Goto,
     evokeCallback, HandleIsSet, OneThread
  <2> QED BY <2>1, <2>2, <2>3
<1>23. CASE EvokeCallbacksEnd
  <2>1. Signalled' BY <1>0, <1>23 DEF EvokeCallbacksEnd, InBlock, Goto,
     ProcessServiceBuffers, Signalled, HandleIsSet, OneThread
  <2>2. HandleIsSet' BY <1>0, <1>23 DEF EvokeCallbacksEnd, InBlock, Goto, HandleIsSet,
     OneThread
  <2>3. OneThread' BY <1>0, <1>23 DEF EvokeCallbacksEnd, InBlock, Goto, HandleIsSet,
     OneThread
  <2> QED BY <2>1, <2>2, <2>3
<1>24. CASE Start
  <2>0. used.starts < MaxStarts /\ used'.starts = used.starts + 1
    BY <1>24 DEF Start, Budget, TypeOK
  <2>1. tpc = "None" /\ ~mEventNotificationSet
    BY <1>0, <2>0 DEF OneThread, HandleIsSet
  <2>2. tpc' = "Loop" /\ mState' = "Offline" /\ upc' = "Idle"
    BY <1>24, <2>1 DEF Start
  <2>3. UNCHANGED <<mEventNotificationSet, handleSet, event, inbox, net>>
    BY <1>24 DEF Start
  <2>4. Signalled'
    BY <2>1, <2>2, <2>3 DEF Signalled
  <2>5. HandleIsSet' /\ OneThread'
    BY <1>0, <2>0, <2>1, <2>2, <2>3 DEF HandleIsSet, OneThread
  <2> QED BY <2>4, <2>5
<1>25. CASE Stop
  <2>1. Signalled' BY <1>0, <1>25 DEF Stop, InBlock, Goto, Signalled, HandleIsSet, OneThread
  <2>2. HandleIsSet' BY <1>0, <1>25 DEF Stop, InBlock, Goto, Calls, HandleIsSet, OneThread
  <2>3. OneThread' BY <1>0, <1>25 DEF Stop, InBlock, Goto, Calls, HandleIsSet, OneThread
  <2> QED BY <2>1, <2>2, <2>3
<1>26. CASE SendManualSignal
  <2>1. Signalled' BY <1>0, <1>26 DEF SendManualSignal, InBlock, Goto, Signalled,
     HandleIsSet, OneThread
  <2>2. HandleIsSet' BY <1>0, <1>26 DEF SendManualSignal, InBlock, Goto, HandleIsSet,
     OneThread
  <2>3. OneThread' BY <1>0, <1>26 DEF SendManualSignal, InBlock, Goto, HandleIsSet,
     OneThread
  <2> QED BY <2>1, <2>2, <2>3
<1>27. CASE JoinThread
  <2>1. Signalled' BY <1>0, <1>27 DEF JoinThread, InBlock, Goto, Signalled, HandleIsSet,
     OneThread
  <2>2. HandleIsSet' BY <1>0, <1>27 DEF JoinThread, InBlock, Goto, HandleIsSet, OneThread
  <2>3. OneThread' BY <1>0, <1>27 DEF JoinThread, InBlock, Goto, HandleIsSet, OneThread
  <2> QED BY <2>1, <2>2, <2>3
<1>28. CASE Disconnect
  <2>1. Signalled' BY <1>0, <1>28, ResignSignals DEF Disconnect, InBlock, Goto, Signalled,
     HandleIsSet, OneThread
  <2>2. HandleIsSet' BY <1>0, <1>28 DEF Disconnect, InBlock, Goto, HandleIsSet, OneThread
  <2>3. OneThread' BY <1>0, <1>28 DEF Disconnect, InBlock, Goto, HandleIsSet, OneThread
  <2> QED BY <2>1, <2>2, <2>3
<1>29. CASE StartMeasurement
  <2>1. Signalled' BY <1>0, <1>29 DEF StartMeasurement, InBlock, Goto, SendInteraction,
     Signalled, HandleIsSet, OneThread
  <2>2. HandleIsSet' BY <1>0, <1>29 DEF StartMeasurement, InBlock, Goto, HandleIsSet,
     OneThread
  <2>3. OneThread' BY <1>0, <1>29 DEF StartMeasurement, InBlock, Goto, HandleIsSet,
     OneThread
  <2> QED BY <2>1, <2>2, <2>3
<1>30. CASE StopMeasurement
  <2>1. Signalled' BY <1>0, <1>30 DEF StopMeasurement, InBlock, Goto, SendInteraction,
     Signalled, HandleIsSet, OneThread
  <2>2. HandleIsSet' BY <1>0, <1>30 DEF StopMeasurement, InBlock, Goto, HandleIsSet,
     OneThread
  <2>3. OneThread' BY <1>0, <1>30 DEF StopMeasurement, InBlock, Goto, HandleIsSet, OneThread
  <2> QED BY <2>1, <2>2, <2>3
<1>31. CASE Answer
  <2>1. Signalled' BY <1>0, <1>31, ArriveSignals DEF Answer, InBlock, Goto, Signalled,
     HandleIsSet, OneThread
  <2>2. HandleIsSet' BY <1>0, <1>31 DEF Answer, InBlock, Goto, HandleIsSet, OneThread
  <2>3. OneThread' BY <1>0, <1>31 DEF Answer, InBlock, Goto, HandleIsSet, OneThread
  <2> QED BY <2>1, <2>2, <2>3
<1>32. CASE PeerSends
  <2>1. Signalled' BY <1>0, <1>32, ArriveSignals DEF PeerSends, InBlock, Goto, Signalled,
     HandleIsSet, OneThread
  <2>2. HandleIsSet' BY <1>0, <1>32 DEF PeerSends, InBlock, Goto, HandleIsSet, OneThread
  <2>3. OneThread' BY <1>0, <1>32 DEF PeerSends, InBlock, Goto, HandleIsSet, OneThread
  <2> QED BY <2>1, <2>2, <2>3
<1>33. CASE Synchronize
  <2>1. Signalled' BY <1>0, <1>33, ArriveSignals DEF Synchronize, InBlock, Goto, Signalled,
     HandleIsSet, OneThread
  <2>2. HandleIsSet' BY <1>0, <1>33 DEF Synchronize, InBlock, Goto, HandleIsSet, OneThread
  <2>3. OneThread' BY <1>0, <1>33 DEF Synchronize, InBlock, Goto, HandleIsSet, OneThread
  <2> QED BY <2>1, <2>2, <2>3
<1>34. CASE PeerData
  <2>1. Signalled' BY <1>0, <1>34, ArriveSignals DEF PeerData, InBlock, Goto, Signalled,
     HandleIsSet, OneThread
  <2>2. HandleIsSet' BY <1>0, <1>34, BudgetGrows DEF PeerData, InBlock, Goto, HandleIsSet,
     OneThread
  <2>3. OneThread' BY <1>0, <1>34, BudgetGrows DEF PeerData, InBlock, Goto, HandleIsSet,
     OneThread
  <2> QED BY <2>1, <2>2, <2>3
<1>35. CASE LoseLink
  <2>1. Signalled' BY <1>0, <1>35, ArriveSignals DEF LoseLink, InBlock, Goto, Signalled,
     HandleIsSet, OneThread
  <2>2. HandleIsSet' BY <1>0, <1>35, BudgetGrows DEF LoseLink, InBlock, Goto, HandleIsSet,
     OneThread
  <2>3. OneThread' BY <1>0, <1>35, BudgetGrows DEF LoseLink, InBlock, Goto, HandleIsSet,
     OneThread
  <2> QED BY <2>1, <2>2, <2>3
<1>36. CASE NodeStarts
  <2>1. Signalled' BY <1>0, <1>36 DEF NodeStarts, InBlock, Goto, Signalled, HandleIsSet,
     OneThread
  <2>2. HandleIsSet' BY <1>0, <1>36 DEF NodeStarts, InBlock, Goto, HandleIsSet, OneThread
  <2>3. OneThread' BY <1>0, <1>36 DEF NodeStarts, InBlock, Goto, HandleIsSet, OneThread
  <2> QED BY <2>1, <2>2, <2>3
<1>37. CASE UNCHANGED vars
  BY <1>37 DEF vars, Signalled, HandleIsSet, OneThread
<1> QED
  BY <1>1, <1>2, <1>3, <1>4, <1>5, <1>6, <1>7, <1>8, <1>9, <1>10, <1>11, <1>12, <1>13,
     <1>14, <1>15, <1>16, <1>17, <1>18, <1>19, <1>20, <1>21, <1>22, <1>23, <1>24, <1>25,
     <1>26, <1>27, <1>28, <1>29, <1>30, <1>31, <1>32, <1>33, <1>34, <1>35, <1>36, <1>37 DEF
     Next, Thread, Connect, Application, Environment

\* The poll thread never waits on its event while the RTI holds messages for it,
\* provided that no evoke loop is cut short and the adapter is started only once.
THEOREM NoLostWakeupCorrect ==
  ASSUME ~SlowCallbacks, MaxStarts <= 1
  PROVE  Spec => []NoLostWakeup
<1>1. Init => WakeupInv
  BY DEF Init, WakeupInv, Signalled, HandleIsSet, OneThread
<1>2. TypeOK /\ WakeupInv /\ [Next]_vars => WakeupInv'
  BY WakeupStep
<1>3. TypeOK /\ WakeupInv => NoLostWakeup
  BY DEF TypeOK, WakeupInv, Signalled, HandleIsSet, NoLostWakeup, Pending
<1> QED BY <1>1, <1>2, <1>3, TypeCorrect, PTL DEF Spec

-----------------------------------------------------------------------------
(* A synchronized start.                                                        *)
(* The announcement that the federation is synchronized is the only way online  *)
(* for a waiting federate.  It must not be left over for the next federation:   *)
(* there is at most one on its way, and only while the poll thread waits for it. *)

\* There is an announcement in the queue s; there is at most one.
Has(s) == \E i \in 1..Len(s) : s[i] = "synchronized"
Once(s) == \A i, j \in 1..Len(s) : s[i] = "synchronized" /\ s[j] = "synchronized" => i = j

Synchronized == fed.init /\ fed.achieved /\ fed.synced

OneOnTheWay == Once(inbox) /\ Once(net) /\ ~(Has(inbox) /\ Has(net))

OnTheWay == Has(inbox) \/ Has(net) =>
              Synchronized /\ tpc = "SyncWait" /\ mState # "FederationSynchronized"

AchievedWaits == /\ fed.achieved /\ ~fed.synced => tpc = "SyncWait"
                 /\ tpc = "SyncWait" => mState # "Offline"
                 /\ upc = "Disconnect" => tpc = "None"

OnlineSynchronized == mState \in {"Online", "FederationSynchronized"} => Synchronized

SyncInv == OneOnTheWay /\ OnTheWay /\ AchievedWaits /\ OnlineSynchronized

\* Appending a message.
LEMMA HasAppend ==
  ASSUME NEW s \in Seq(Messages), NEW m \in Messages
  PROVE  /\ Has(Append(s, m)) <=> Has(s) \/ m = "synchronized"
         /\ Once(s) /\ ~(Has(s) /\ m = "synchronized") => Once(Append(s, m))
  BY DEF Has, Once

\* Putting two queues behind each other.
LEMMA HasConcat ==
  ASSUME NEW s \in Seq(Messages), NEW t \in Seq(Messages)
  PROVE  /\ Has(s \o t) <=> Has(s) \/ Has(t)
         /\ Once(s) /\ Once(t) /\ ~(Has(s) /\ Has(t)) => Once(s \o t)
<1>1. Has(s \o t) => Has(s) \/ Has(t)
  BY DEF Has
<1>2. Has(s) => Has(s \o t)
  BY DEF Has
<1>3. Has(t) => Has(s \o t)
  <2> SUFFICES ASSUME NEW i \in 1..Len(t), t[i] = "synchronized" PROVE Has(s \o t)
    BY DEF Has
  <2>1. (s \o t)[Len(s) + i] = "synchronized" /\ Len(s) + i \in 1..Len(s \o t)
    OBVIOUS
  <2> QED BY <2>1 DEF Has
<1>4. Once(s) /\ Once(t) /\ ~(Has(s) /\ Has(t)) => Once(s \o t)
  BY DEF Has, Once
<1> QED BY <1>1, <1>2, <1>3, <1>4

\* Dropping the first n messages; if the announcement was the first, none is left.
LEMMA HasSub ==
  ASSUME NEW s \in Seq(Messages), NEW n \in Nat, NEW r \in Seq(Messages),
         r = SubSeq(s, n + 1, Len(s))
  PROVE  /\ Has(r) => Has(s)
         /\ Once(s) => Once(r)
         /\ Once(s) /\ n = 1 /\ s # <<>> /\ Head(s) = "synchronized" => ~Has(r)
<1>1. \A i \in 1..Len(r) : r[i] = s[n + i] /\ n + i \in 1..Len(s)
  OBVIOUS
<1>2. Has(r) => Has(s)
  BY <1>1 DEF Has
<1>3. Once(s) => Once(r)
  BY <1>1 DEF Once
<1>4. ASSUME Once(s), n = 1, s # <<>>, Head(s) = "synchronized", Has(r) PROVE FALSE
  <2>1. PICK i \in 1..Len(r) : r[i] = "synchronized"
    BY <1>4 DEF Has
  <2>2. s[1 + i] = "synchronized" /\ 1 + i \in 1..Len(s) /\ i # 0
    BY <1>1, <1>4, <2>1
  <2>3. s[1] = "synchronized" /\ 1 \in 1..Len(s)
    BY <1>4
  <2>4. 1 = 1 + i
    BY <1>4, <2>2, <2>3 DEF Once
  <2> QED BY <2>2, <2>4
<1> QED BY <1>2, <1>3, <1>4

\* The empty queue holds nothing.
LEMMA HasNone == ~Has(<<>>) /\ Once(<<>>)
  BY DEF Has, Once

\* Taking messages in moves the announcement at most; dispatching it removes it.
LEMMA TakeInAnnouncement ==
  ASSUME TypeOK, OneOnTheWay, NEW n \in Nat, TakeIn(n)
  PROVE  /\ OneOnTheWay'
         /\ ~Has(net')
         /\ Has(inbox') => Has(inbox) \/ Has(net)
         /\ n = 1 /\ Pending # <<>> /\ Head(Pending) = "synchronized" => ~Has(inbox')
<1>1. inbox \in Seq(Messages) /\ net \in Seq(Messages) /\ Pending \in Seq(Messages)
  BY PendingType DEF TypeOK
<1>2. Once(Pending) /\ (Has(Pending) <=> Has(inbox) \/ Has(net))
  BY <1>1, HasConcat DEF Pending, OneOnTheWay
<1>3. net' = <<>> /\ inbox' = SubSeq(Pending, n + 1, Len(Pending)) /\ inbox' \in Seq(Messages)
  BY TakeInType DEF TakeIn
<1>4. /\ Has(inbox') => Has(Pending)
      /\ Once(inbox')
      /\ n = 1 /\ Pending # <<>> /\ Head(Pending) = "synchronized" => ~Has(inbox')
  BY <1>1, <1>2, <1>3, HasSub
<1>5. ~Has(net') /\ Once(net')
  BY <1>3, HasNone
<1> QED BY <1>2, <1>4, <1>5 DEF OneOnTheWay

\* The message that is dispatched is the announcement only if one was on its way.
LEMMA HeadAnnouncement ==
  ASSUME TypeOK, Pending # <<>>, Head(Pending) = "synchronized"
  PROVE  Has(inbox) \/ Has(net)
<1>1. inbox \in Seq(Messages) /\ net \in Seq(Messages) /\ Pending \in Seq(Messages)
  BY PendingType DEF TypeOK
<1>2. Pending[1] = "synchronized" /\ 1 \in 1..Len(Pending)
  BY <1>1
<1>3. Has(Pending)
  BY <1>2 DEF Has
<1> QED BY <1>1, <1>3, HasConcat DEF Pending

\* Leaving a federation adds no announcement.
LEMMA ResignAnnouncement ==
  ASSUME TypeOK, OneOnTheWay, ResignAndDestroyFederation
  PROVE  OneOnTheWay' /\ ~Has(net') /\ (Has(inbox') => Has(inbox))
<1>1. inbox \in Seq(Messages) /\ "lost" \in Messages /\ "lost" # "synchronized"
  BY DEF TypeOK, Messages
<1>2. net' = <<>> /\ (inbox' = inbox \/ inbox' = Append(inbox, "lost"))
  BY DEF ResignAndDestroyFederation
<1>3. ~Has(net') /\ Once(net')
  BY <1>2, HasNone
<1>4. Once(inbox') /\ (Has(inbox') => Has(inbox))
  <2>1. /\ Has(Append(inbox, "lost")) => Has(inbox)
        /\ Once(inbox) => Once(Append(inbox, "lost"))
    BY <1>1, HasAppend
  <2>2. Once(inbox)
    BY DEF OneOnTheWay
  <2> QED BY <1>2, <2>1, <2>2
<1> QED BY <1>3, <1>4 DEF OneOnTheWay

\* Another message that arrives, on the link or from the federate itself, adds none.
LEMMA OtherAnnouncement ==
  ASSUME TypeOK, OneOnTheWay, NEW m \in Messages \ {"synchronized"},
         \/ net' = Append(net, m) /\ inbox' = inbox
         \/ inbox' = Append(inbox, m) /\ net' = net
  PROVE  OneOnTheWay' /\ (Has(net') <=> Has(net)) /\ (Has(inbox') <=> Has(inbox))
<1>1. inbox \in Seq(Messages) /\ net \in Seq(Messages)
  BY DEF TypeOK
<1>2. /\ Has(Append(inbox, m)) <=> Has(inbox)
      /\ Once(inbox) => Once(Append(inbox, m))
  BY <1>1, HasAppend
<1>3. /\ Has(Append(net, m)) <=> Has(net)
      /\ Once(net) => Once(Append(net, m))
  BY <1>1, HasAppend
<1>4. CASE net' = Append(net, m) /\ inbox' = inbox
  BY <1>3, <1>4 DEF OneOnTheWay
<1>5. CASE inbox' = Append(inbox, m) /\ net' = net
  BY <1>2, <1>5 DEF OneOnTheWay
<1> QED BY <1>4, <1>5

\* What a callback of a waiting federate does to the state: only the announcement
\* makes it FederationSynchronized, nothing makes it online or offline.
LEMMA DispatchWaiting ==
  ASSUME TypeOK, WaitForMeasurementInit, NEW m, Dispatch(m)
  PROVE  /\ fed' = fed
         /\ mState' \in {"Online", "Offline"} => mState' = mState
         /\ mState' = "FederationSynchronized" => m = "synchronized" \/ mState' = mState
  BY DEF TypeOK, Dispatch, connectionLost, OnReceiveIAMeasurementInit, OnReceiveIAMeasurementStop,
         announceSynchronizationPoint, federationSynchronized, reportFederationExecutions,
         timeRegulationEnabled, IgnoredCallback

\* Dispatching one callback keeps the announcement's invariants, wherever the
\* poll thread goes on (it may leave SyncWait only without one on its way).
LEMMA EvokeSync ==
  ASSUME TypeOK, WaitForMeasurementInit, SyncInv, evokeCallback,
         tpc' = tpc \/ (tpc # "SyncWait" /\ tpc' # "SyncWait"), upc' = upc, upc # "Disconnect"
  PROVE  SyncInv'
<1>1. /\ fed' = fed
      /\ mState' \in {"Online", "Offline"} => mState' = mState
      /\ mState' = "FederationSynchronized" => Head(Pending) = "synchronized" \/ mState' = mState
  BY DispatchWaiting DEF evokeCallback
<1>2. /\ OneOnTheWay'
      /\ ~Has(net')
      /\ Has(inbox') => Has(inbox) \/ Has(net)
      /\ Head(Pending) = "synchronized" => ~Has(inbox')
  BY TakeInAnnouncement DEF evokeCallback, SyncInv
<1>3. Head(Pending) = "synchronized" => Has(inbox) \/ Has(net)
  BY HeadAnnouncement DEF evokeCallback
<1>4. OnTheWay'
  BY <1>1, <1>2 DEF SyncInv, OnTheWay, Synchronized
<1>5. AchievedWaits'
  BY <1>1 DEF SyncInv, AchievedWaits
<1>6. OnlineSynchronized'
  BY <1>1, <1>3 DEF SyncInv, OnTheWay, OnlineSynchronized, Synchronized
<1> QED BY <1>2, <1>4, <1>5, <1>6 DEF SyncInv

\* A step that touches neither the queues nor the federation, and leaves no one
\* alone who waits for the announcement.
LEMMA QuietSync ==
  ASSUME SyncInv, UNCHANGED <<net, inbox, fed>>,
         tpc = "SyncWait" => tpc' = "SyncWait",
         tpc' = "SyncWait" => (mState' # "Offline" /\ mState' # "FederationSynchronized") \/ UNCHANGED <<mState, tpc>>,
         mState' \in {"Online", "FederationSynchronized"} => mState' = mState,
         upc' = "Disconnect" => tpc' = "None"
  PROVE  SyncInv'
<1>1. OneOnTheWay' /\ OnlineSynchronized'
  BY DEF SyncInv, OneOnTheWay, OnlineSynchronized, Synchronized
<1>2. OnTheWay' /\ AchievedWaits'
  BY DEF SyncInv, OnTheWay, AchievedWaits, Synchronized
<1> QED BY <1>1, <1>2 DEF SyncInv

\* Every step of a waiting federate keeps the invariant.
LEMMA SyncStep ==
  ASSUME TypeOK, WaitForMeasurementInit, SyncInv, [Next]_vars
  PROVE  SyncInv'
<1> USE DEF ambVars, rtiVars, envVars, queues, threadOnly, environmentKeeps
<1>0. fed.init \in BOOLEAN /\ fed.achieved \in BOOLEAN /\ fed.synced \in BOOLEAN
  BY DEF TypeOK, Federation
<1>1. CASE HandleConnectionLost
  <2>1. net' = <<>> /\ inbox' = <<>> /\ fed' = fed /\ tpc = "Connect" /\ tpc' = "Connect"
        /\ mState' \notin {"Online", "FederationSynchronized"} /\ upc' = upc
    BY <1>1 DEF HandleConnectionLost, NoCurrentRTIAmbassador, InBlock, Goto
  <2> QED BY <2>1, HasNone DEF SyncInv, OneOnTheWay, OnTheWay, AchievedWaits, OnlineSynchronized, Synchronized
<1>2. CASE CreateRTIAmbassador
  <2>1. net' = <<>> /\ inbox' = <<>> /\ fed' = fed /\ tpc = "Connect" /\ tpc' = "Connect"
        /\ mState' \notin {"Online", "FederationSynchronized"} /\ upc' = upc
    BY <1>2 DEF CreateRTIAmbassador, NoCurrentRTIAmbassador, InBlock, Goto
  <2> QED BY <2>1, HasNone DEF SyncInv, OneOnTheWay, OnTheWay, AchievedWaits, OnlineSynchronized, Synchronized
<1>3. CASE ConnectToRTINode
  BY <1>3, QuietSync DEF ConnectToRTINode, InBlock, Goto, SyncInv, AchievedWaits
<1>4. CASE ResetOnMeasurementStop
  <2>1. OneOnTheWay' /\ ~Has(net') /\ (Has(inbox') => Has(inbox))
    BY <1>4, ResignAnnouncement DEF ResetOnMeasurementStop, SyncInv
  <2>2. fed' = fed /\ tpc # "SyncWait" /\ tpc' \notin {"SyncWait", "None"} /\ tpc # "None" /\ upc' = upc
        /\ mState' \notin {"Online", "FederationSynchronized"}
    BY <1>4 DEF ResetOnMeasurementStop, InBlock, Goto
  <2> QED BY <2>1, <2>2 DEF SyncInv, OnTheWay, AchievedWaits, OnlineSynchronized
<1>5. CASE GetLatestFederation
  BY <1>5, QuietSync DEF GetLatestFederation, InBlock, Goto, SyncInv, AchievedWaits
<1>6. CASE CreateFederation
  <2>1. OneOnTheWay' /\ ~Has(net') /\ (Has(inbox') => Has(inbox) \/ Has(net))
    BY <1>6, TakeInAnnouncement DEF CreateFederation, SyncInv
  <2>2. tpc = "Connect" /\ tpc' \notin {"SyncWait", "None"} /\ upc' = upc
        /\ mState' \notin {"Online", "FederationSynchronized"}
    BY <1>6 DEF CreateFederation, InBlock, Goto
  <2>3. fed' = fed \/ ~fed'.achieved
    BY <1>6 DEF CreateFederation
  <2> QED BY <2>1, <2>2, <2>3 DEF SyncInv, OnTheWay, AchievedWaits, OnlineSynchronized
<1>7. CASE JoinFederation
  <2>1. OneOnTheWay' /\ ~Has(net') /\ (Has(inbox') => Has(inbox) \/ Has(net))
    BY <1>7, TakeInAnnouncement DEF JoinFederation, SyncInv
  <2>2. tpc = "Connect" /\ tpc' \notin {"SyncWait", "None"} /\ upc' = upc
        /\ mState' \notin {"Online", "FederationSynchronized"}
    BY <1>7 DEF JoinFederation, InBlock, Goto
  <2>3. fed' = fed \/ ~fed'.achieved
    <3>1. /\ ~FreshFederation.achieved
          /\ \A i \in BOOLEAN : ~[FreshFederation EXCEPT !.init = i].achieved
          /\ ~[FreshFederation EXCEPT !.init = TRUE, !.synced = TRUE].achieved
      BY DEF FreshFederation
    <3> QED BY <1>7, <3>1 DEF JoinFederation, Joins
  <2> QED BY <2>1, <2>2, <2>3 DEF SyncInv, OnTheWay, AchievedWaits, OnlineSynchronized
<1>8. CASE RegisterSyncPoints
  BY <1>8, QuietSync DEF RegisterSyncPoints, InBlock, Goto, SyncInv, AchievedWaits
<1>9. CASE RetrieveSyncPoints
  BY <1>9, QuietSync DEF RetrieveSyncPoints, InBlock, Goto, SyncInv, AchievedWaits
<1>10. CASE JoinScan
  <2>1. tpc = "JoinScan" /\ upc' = upc /\ tpc' \notin {"None", "SyncWait"}
    BY <1>10 DEF JoinScan
  <2>2. upc # "Disconnect"
    BY <2>1 DEF SyncInv, AchievedWaits
  <2>3. CASE evokeCallback
    BY <2>1, <2>2, <2>3, EvokeSync
  <2>4. CASE UNCHANGED <<mState, net, inbox, fed>>
    BY <2>1, <2>2, <2>4, QuietSync
  <2> QED BY <1>10, <2>3, <2>4 DEF JoinScan
<1>11. CASE HandleDeadFederation
  <2>1. OneOnTheWay' /\ ~Has(net') /\ (Has(inbox') => Has(inbox))
    BY <1>11, ResignAnnouncement DEF HandleDeadFederation, SyncInv
  <2>2. fed' = fed /\ tpc # "SyncWait" /\ tpc' \notin {"SyncWait", "None"} /\ tpc # "None" /\ upc' = upc
        /\ mState' \notin {"Online", "FederationSynchronized"}
    BY <1>11 DEF HandleDeadFederation, InBlock, Goto
  <2> QED BY <2>1, <2>2 DEF SyncInv, OnTheWay, AchievedWaits, OnlineSynchronized
<1>12. CASE JoinFreshOrLate
  BY <1>12, QuietSync DEF JoinFreshOrLate, InBlock, Goto, SyncInv, AchievedWaits
<1>13. CASE InitFederate
  BY <1>13, QuietSync DEF InitFederate, InBlock, Goto, SyncInv, AchievedWaits
<1>14. CASE FederateInitialized
  BY <1>14, QuietSync DEF FederateInitialized, InBlock, Goto, SyncInv, AchievedWaits
<1>15. CASE MeasurementInitReceived
  <2>1. /\ tpc = "InitWait" /\ mState = "ReceivedMeasurementInit" /\ mState' = mState /\ upc' = upc
        /\ UNCHANGED <<net, inbox>>
        /\ \/ fed' = [fed EXCEPT !.achieved = TRUE] /\ tpc' = "SyncWait"
           \/ fed' = fed /\ tpc' = "Notify"
    BY <1>15 DEF MeasurementInitReceived, Goto
  <2>2. OneOnTheWay' /\ ~Has(inbox') /\ ~Has(net')
    BY <2>1 DEF SyncInv, OneOnTheWay, OnTheWay
  <2> QED BY <2>1, <2>2 DEF SyncInv, OnTheWay, AchievedWaits, OnlineSynchronized
<1>16. CASE EvokeInWaitLoop
  <2>1. tpc # "None" /\ upc' = upc /\ tpc' = tpc /\ evokeCallback
    BY <1>16 DEF EvokeInWaitLoop, WaitLoops
  <2>2. upc # "Disconnect"
    BY <2>1 DEF SyncInv, AchievedWaits
  <2>3. tpc' = tpc \/ (tpc # "SyncWait" /\ tpc' # "SyncWait")
    BY <2>1
  <2>4. upc' = upc /\ evokeCallback
    BY <2>1
  <2> QED BY <2>2, <2>3, <2>4, EvokeSync
<1>17. CASE EndWait
  <2>1. /\ UNCHANGED <<net, inbox, fed, upc>> /\ tpc' \notin {"SyncWait", "None"} /\ tpc # "None"
        /\ \/ tpc # "SyncWait" /\ mState' \notin {"Online", "FederationSynchronized"}
           \/ tpc # "SyncWait" /\ mState' = mState
           \/ tpc = "SyncWait" /\ mState = "FederationSynchronized" /\ mState' = "Online"
    BY <1>17 DEF EndWait, WaitIsOver, Goto
  <2> QED BY <2>1 DEF SyncInv, OneOnTheWay, OnTheWay, AchievedWaits, OnlineSynchronized, Synchronized
<1>18. CASE ConnectReturns
  BY <1>18, QuietSync DEF ConnectReturns, InBlock, Goto, SyncInv, AchievedWaits
<1>19. CASE PollThread
  BY <1>19, QuietSync DEF PollThread, InBlock, Goto, SyncInv, AchievedWaits
<1>20. CASE SetNotificationHandle
  BY <1>20, QuietSync DEF SetNotificationHandle, InBlock, Goto, SyncInv, AchievedWaits
<1>21. CASE WaitForSingleEvent
  BY <1>21, QuietSync DEF WaitForSingleEvent, InBlock, Goto, SyncInv, AchievedWaits
<1>22. CASE EvokeCallbacks
  <2>1. tpc = "Evoke" /\ upc' = upc /\ tpc' \notin {"None", "SyncWait"}
    BY <1>22 DEF EvokeCallbacks
  <2>2. upc # "Disconnect"
    BY <2>1 DEF SyncInv, AchievedWaits
  <2>3. CASE evokeCallback
    BY <2>1, <2>2, <2>3, EvokeSync
  <2>4. CASE UNCHANGED <<mState, net, inbox, fed>>
    BY <2>1, <2>2, <2>4, QuietSync
  <2> QED BY <1>22, <2>3, <2>4 DEF EvokeCallbacks
<1>23. CASE EvokeCallbacksEnd
  BY <1>23, QuietSync DEF EvokeCallbacksEnd, InBlock, Goto, SyncInv, AchievedWaits
<1>24. CASE Start
  BY <1>24, QuietSync DEF Start, InBlock, Goto, SyncInv, AchievedWaits, Calls
<1>25. CASE Stop
  BY <1>25, QuietSync DEF Stop, InBlock, Goto, SyncInv, AchievedWaits, Calls
<1>26. CASE SendManualSignal
  BY <1>26, QuietSync DEF SendManualSignal, InBlock, Goto, SyncInv, AchievedWaits
<1>27. CASE JoinThread
  BY <1>27, QuietSync DEF JoinThread, InBlock, Goto, SyncInv, AchievedWaits
<1>28. CASE Disconnect
  <2>1. OneOnTheWay' /\ ~Has(net') /\ (Has(inbox') => Has(inbox))
    BY <1>28, ResignAnnouncement DEF Disconnect, SyncInv
  <2>2. fed' = fed /\ upc = "Disconnect" /\ tpc' = tpc /\ upc' # "Disconnect"
        /\ (mState' = mState \/ mState' = "Offline")
    BY <1>28 DEF Disconnect
  <2>3. tpc = "None"
    BY <2>2 DEF SyncInv, AchievedWaits
  <2> QED BY <2>1, <2>2, <2>3 DEF SyncInv, OnTheWay, AchievedWaits, OnlineSynchronized, Synchronized
<1>29. CASE StartMeasurement
  <2>1. OneOnTheWay' /\ (Has(net') <=> Has(net)) /\ (Has(inbox') <=> Has(inbox))
    <3>1. "init" \in Messages \ {"synchronized"}
      BY DEF Messages
    <3>2. CASE inbox' = Append(inbox, "init") /\ net' = net
      BY <3>1, <3>2, OtherAnnouncement DEF SyncInv
    <3>3. CASE UNCHANGED <<inbox, net>>
      BY <3>3 DEF SyncInv, OneOnTheWay
    <3> QED BY <1>29, <3>2, <3>3 DEF StartMeasurement, SendInteraction
  <2>2. fed' = fed \/ fed' = [fed EXCEPT !["init"] = TRUE]
    BY <1>29 DEF StartMeasurement, SendInteraction
  <2>3. (fed.init => fed'.init) /\ fed'.achieved = fed.achieved /\ fed'.synced = fed.synced
    BY <2>2 DEF TypeOK, Federation
  <2>4. UNCHANGED <<mState, tpc, upc>>
    BY <1>29 DEF StartMeasurement
  <2> QED BY <1>0, <2>1, <2>2, <2>3, <2>4 DEF SyncInv, OnTheWay, AchievedWaits, OnlineSynchronized,
     Synchronized
<1>30. CASE StopMeasurement
  <2>1. OneOnTheWay' /\ (Has(net') <=> Has(net)) /\ (Has(inbox') <=> Has(inbox))
    <3>1. "stop" \in Messages \ {"synchronized"}
      BY DEF Messages
    <3>2. CASE inbox' = Append(inbox, "stop") /\ net' = net
      BY <3>1, <3>2, OtherAnnouncement DEF SyncInv
    <3>3. CASE UNCHANGED <<inbox, net>>
      BY <3>3 DEF SyncInv, OneOnTheWay
    <3> QED BY <1>30, <3>2, <3>3 DEF StopMeasurement, SendInteraction
  <2>2. fed' = fed \/ fed' = [fed EXCEPT !["stop"] = TRUE]
    BY <1>30 DEF StopMeasurement, SendInteraction
  <2>3. (fed.init => fed'.init) /\ fed'.achieved = fed.achieved /\ fed'.synced = fed.synced
    BY <2>2 DEF TypeOK, Federation
  <2>4. UNCHANGED <<mState, tpc, upc>>
    BY <1>30 DEF StopMeasurement
  <2> QED BY <1>0, <2>1, <2>2, <2>3, <2>4 DEF SyncInv, OnTheWay, AchievedWaits, OnlineSynchronized,
     Synchronized
<1>31. CASE Answer
  <2>1. PICK m \in owed : Arrive(m)
    BY <1>31 DEF Answer
  <2>2. OneOnTheWay' /\ (Has(net') <=> Has(net)) /\ (Has(inbox') <=> Has(inbox))
    <3>1. m \in Messages \ {"synchronized"}
      BY DEF Messages, TypeOK, Points
    <3> QED BY <2>1, <3>1, OtherAnnouncement DEF SyncInv, Arrive
  <2>3. UNCHANGED <<fed, mState, tpc, upc>>
    BY <1>31 DEF Answer
  <2> QED BY <2>2, <2>3 DEF SyncInv, OnTheWay, AchievedWaits, OnlineSynchronized, Synchronized
<1>32. CASE PeerSends
  <2>1. PICK m \in {"init", "stop"} :
          /\ fed' = [fed EXCEPT ![m] = TRUE]
          /\ Arrive(m) \/ UNCHANGED queues
    BY <1>32 DEF PeerSends
  <2>2. OneOnTheWay' /\ (Has(net') <=> Has(net)) /\ (Has(inbox') <=> Has(inbox))
    <3>1. m \in Messages \ {"synchronized"}
      BY DEF Messages
    <3>2. CASE Arrive(m)
      BY <3>1, <3>2, OtherAnnouncement DEF SyncInv, Arrive
    <3>3. CASE UNCHANGED queues
      BY <3>3 DEF SyncInv, OneOnTheWay
    <3> QED BY <2>1, <3>2, <3>3
  <2>3. (fed.init => fed'.init) /\ fed'.achieved = fed.achieved /\ fed'.synced = fed.synced
    BY <2>1 DEF TypeOK, Federation
  <2>4. UNCHANGED <<mState, tpc, upc>>
    BY <1>32 DEF PeerSends
  <2> QED BY <1>0, <2>1, <2>2, <2>3, <2>4 DEF SyncInv, OnTheWay, AchievedWaits, OnlineSynchronized,
     Synchronized
<1>33. CASE Synchronize
  <2>1. /\ net' = Append(net, "synchronized") /\ inbox' = inbox
        /\ fed.init /\ fed.achieved /\ ~fed.synced /\ fed' = [fed EXCEPT !.synced = TRUE]
        /\ UNCHANGED <<mState, tpc, upc>>
    BY <1>33 DEF Synchronize, Arrive
  <2>2. tpc = "SyncWait" /\ ~Has(inbox) /\ ~Has(net) /\ mState # "FederationSynchronized"
    BY <2>1 DEF SyncInv, OnTheWay, AchievedWaits, OnlineSynchronized, Synchronized
  <2>3. OneOnTheWay'
    <3>1. "synchronized" \in Messages /\ net \in Seq(Messages)
      BY DEF Messages, TypeOK
    <3> QED BY <2>1, <2>2, <3>1, HasAppend DEF SyncInv, OneOnTheWay
  <2>4. fed'.init /\ fed'.achieved /\ fed'.synced
    BY <2>1 DEF TypeOK, Federation
  <2> QED BY <2>1, <2>2, <2>3, <2>4 DEF SyncInv, OnTheWay, AchievedWaits, OnlineSynchronized,
     Synchronized
<1>34. CASE PeerData
  <2>2. OneOnTheWay' /\ (Has(net') <=> Has(net)) /\ (Has(inbox') <=> Has(inbox))
    <3>1. "data" \in Messages \ {"synchronized"}
      BY DEF Messages
    <3> QED BY <1>34, <3>1, OtherAnnouncement DEF SyncInv, Arrive, PeerData
  <2>3. UNCHANGED <<fed, mState, tpc, upc>>
    BY <1>34 DEF PeerData
  <2> QED BY <2>2, <2>3 DEF SyncInv, OnTheWay, AchievedWaits, OnlineSynchronized, Synchronized
<1>35. CASE LoseLink
  <2>2. OneOnTheWay' /\ (Has(net') <=> Has(net)) /\ (Has(inbox') <=> Has(inbox))
    <3>1. "lost" \in Messages \ {"synchronized"}
      BY DEF Messages
    <3> QED BY <1>35, <3>1, OtherAnnouncement DEF SyncInv, Arrive, LoseLink
  <2>3. UNCHANGED <<fed, mState, tpc, upc>>
    BY <1>35 DEF LoseLink
  <2> QED BY <2>2, <2>3 DEF SyncInv, OnTheWay, AchievedWaits, OnlineSynchronized, Synchronized
<1>36. CASE NodeStarts
  BY <1>36, QuietSync DEF NodeStarts, InBlock, Goto, SyncInv, AchievedWaits
<1>37. CASE UNCHANGED vars
  BY <1>37, QuietSync DEF vars, SyncInv, AchievedWaits
<1> QED
  BY <1>1, <1>2, <1>3, <1>4, <1>5, <1>6, <1>7, <1>8, <1>9, <1>10, <1>11, <1>12, <1>13,
     <1>14, <1>15, <1>16, <1>17, <1>18, <1>19, <1>20, <1>21, <1>22, <1>23, <1>24, <1>25,
     <1>26, <1>27, <1>28, <1>29, <1>30, <1>31, <1>32, <1>33, <1>34, <1>35, <1>36, <1>37 DEF
     Next, Thread, Connect, Application, Environment

\* A federate that waits for the measurement start is online only in a federation
\* whose init was sent and in which all federates have achieved 'initialized'.
THEOREM SynchronizedStartCorrect == Spec => []SynchronizedStart
<1>1. CASE ~WaitForMeasurementInit
  <2>1. SynchronizedStart
    BY <1>1 DEF SynchronizedStart
  <2> QED BY <2>1, PTL
<1>2. CASE WaitForMeasurementInit
  <2>1. Init => SyncInv
    BY HasNone DEF Init, SyncInv, OneOnTheWay, OnTheWay, AchievedWaits, OnlineSynchronized,
       FreshFederation
  <2>2. TypeOK /\ SyncInv /\ [Next]_vars => SyncInv'
    BY <1>2, SyncStep
  <2>3. SyncInv => SynchronizedStart
    BY DEF SyncInv, OnlineSynchronized, Synchronized, SynchronizedStart
  <2> QED BY <2>1, <2>2, <2>3, TypeCorrect, PTL DEF Spec
<1> QED BY <1>1, <1>2

-----------------------------------------------------------------------------
(* The services between two federations.                                        *)

\* The states before a federate initialises its services, and the points of the thread
\* where it has come no further, whatever a callback has made of the state.
EarlyStates == {"Offline", "AmbassadorAvailable", "ScanForFederationPrefix", "CreateFederation",
                "JoinFederation", "JoinedFederation"}
EarlyPoints == {"ListWait", "PointWait", "JoinScan", "Scanned"}

\* So far the services are reset.
ServicesInv == mState \in EarlyStates \/ tpc \in EarlyPoints => services = "reset"

\* A callback does not lead back to such a state, and does nothing to services that
\* are reset.
LEMMA DispatchServices ==
  ASSUME NEW m, Dispatch(m)
  PROVE  /\ mState' \in EarlyStates => mState \in EarlyStates
         /\ services = "reset" => services' = "reset"
<1>1. CASE connectionLost
  BY <1>1 DEF connectionLost, EarlyStates
<1>2. CASE reportFederationExecutions
  BY <1>2 DEF reportFederationExecutions
<1>3. CASE OnReceiveIAMeasurementInit
  BY <1>3 DEF OnReceiveIAMeasurementInit, EarlyStates
<1>4. CASE OnReceiveIAMeasurementStop
  BY <1>4 DEF OnReceiveIAMeasurementStop, EarlyStates
<1>5. CASE announceSynchronizationPoint(m)
  BY <1>5 DEF announceSynchronizationPoint
<1>6. CASE federationSynchronized
  BY <1>6 DEF federationSynchronized, EarlyStates
<1>7. CASE timeRegulationEnabled
  BY <1>7 DEF timeRegulationEnabled
<1>8. CASE IgnoredCallback
  BY <1>8 DEF IgnoredCallback
<1> QED BY <1>1, <1>2, <1>3, <1>4, <1>5, <1>6, <1>7, <1>8 DEF Dispatch

\* Each step keeps it.
LEMMA ServicesStep ==
  ASSUME ServicesInv, [Next]_vars
  PROVE  ServicesInv'
<1>1. CASE HandleConnectionLost \/ ResetOnMeasurementStop \/ Disconnect
  BY <1>1 DEF HandleConnectionLost, ResetOnMeasurementStop, Disconnect, ResetServices, ServicesInv
<1>2. CASE CreateRTIAmbassador
  BY <1>2 DEF CreateRTIAmbassador, InBlock, Goto, ServicesInv, EarlyStates
<1>3. CASE ConnectToRTINode
  BY <1>3 DEF ConnectToRTINode, InBlock, Goto, ServicesInv, EarlyStates
<1>4. CASE GetLatestFederation
  BY <1>4 DEF GetLatestFederation, InBlock, Goto, ServicesInv, EarlyStates
<1>5. CASE CreateFederation
  BY <1>5 DEF CreateFederation, InBlock, Goto, ServicesInv, EarlyStates
<1>6. CASE JoinFederation
  <2>1. mState = "JoinFederation" /\ services' = services
    BY <1>6 DEF JoinFederation, InBlock
  <2> QED BY <2>1 DEF ServicesInv, EarlyStates
<1>7. CASE RegisterSyncPoints
  BY <1>7 DEF RegisterSyncPoints, InBlock, Goto, ServicesInv, EarlyStates
<1>8. CASE RetrieveSyncPoints
  BY <1>8 DEF RetrieveSyncPoints, InBlock, Goto, ServicesInv, EarlyStates
<1>9. CASE JoinScan
  <2>1. tpc = "JoinScan" /\ services = "reset"
    BY <1>9 DEF JoinScan, ServicesInv, EarlyPoints
  <2> QED BY <1>9, <2>1, DispatchServices DEF JoinScan, evokeCallback, ServicesInv
<1>10. CASE HandleDeadFederation
  BY <1>10 DEF HandleDeadFederation, ServicesInv, EarlyPoints
<1>11. CASE JoinFreshOrLate
  BY <1>11 DEF JoinFreshOrLate, ServicesInv, EarlyPoints
<1>12. CASE InitFederate
  BY <1>12 DEF InitFederate, InBlock, Goto, ServicesInv, EarlyStates, EarlyPoints
<1>13. CASE FederateInitialized
  BY <1>13 DEF FederateInitialized, Goto, ServicesInv, EarlyStates, EarlyPoints
<1>14. CASE MeasurementInitReceived
  BY <1>14 DEF MeasurementInitReceived, Goto, ServicesInv, EarlyStates, EarlyPoints
<1>15. CASE EvokeInWaitLoop
  BY <1>15, DispatchServices DEF EvokeInWaitLoop, evokeCallback, ServicesInv
<1>16. CASE EndWait
  BY <1>16 DEF EndWait, Goto, ServicesInv, EarlyStates, EarlyPoints
<1>17. CASE ConnectReturns \/ PollThread \/ SetNotificationHandle \/ WaitForSingleEvent
            \/ EvokeCallbacksEnd
  BY <1>17 DEF ConnectReturns, PollThread, SetNotificationHandle, WaitForSingleEvent,
     EvokeCallbacksEnd, Goto, ServicesInv, EarlyPoints
<1>18. CASE EvokeCallbacks
  BY <1>18, DispatchServices DEF EvokeCallbacks, evokeCallback, ServicesInv, EarlyPoints
<1>19. CASE Start \/ Stop \/ SendManualSignal \/ JoinThread \/ StartMeasurement \/ StopMeasurement
  BY <1>19 DEF Start, Stop, SendManualSignal, JoinThread, StartMeasurement, StopMeasurement,
     ServicesInv, EarlyPoints
<1>20. CASE Environment
  BY <1>20 DEF Environment, Answer, PeerSends, Synchronize, PeerData, LoseLink, NodeStarts,
     environmentKeeps, ServicesInv
<1>21. CASE UNCHANGED vars
  BY <1>21 DEF vars, ServicesInv
<1> QED
  BY <1>1, <1>2, <1>3, <1>4, <1>5, <1>6, <1>7, <1>8, <1>9, <1>10, <1>11, <1>12, <1>13,
     <1>14, <1>15, <1>16, <1>17, <1>18, <1>19, <1>20, <1>21 DEF Next, Thread, Connect, Application

\* OnJoined finds every service reset, however the federation before was left: the stop
\* of the measurement, the loss of the link, and Stop reset them.
THEOREM ServicesResetBeforeJoinCorrect == Spec => []ServicesResetBeforeJoin
<1>1. Init => ServicesInv
  BY DEF Init, ServicesInv
<1>2. ServicesInv /\ [Next]_vars => ServicesInv'
  BY ServicesStep
<1>3. ServicesInv => ServicesResetBeforeJoin
  BY DEF ServicesInv, EarlyStates, ServicesResetBeforeJoin
<1> QED BY <1>1, <1>2, <1>3, PTL DEF Spec

=============================================================================
