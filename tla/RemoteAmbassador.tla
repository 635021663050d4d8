-------------------------- MODULE RemoteAmbassador --------------------------
(* One federate of the DistSimAdapter in its thread-based mode: the ambassador *)
(* state machine of RemoteAmbassador.cpp, driven by the poll thread of         *)
(* DistSimIB.cpp, next to the application thread that calls Start, Stop,       *)
(* StartMeasurement and StopMeasurement.  The RTI (OpenRTI and the rtinode)    *)
(* and the other federates are the environment: only what the code relies on   *)
(* of them is modelled.  Names of federations are left out (a federation is    *)
(* what this federate is a member of), and so is what the services do.         *)
EXTENDS Naturals, Sequences, SequencesExt

CONSTANTS
  WaitForMeasurementInit,   \* IBConfig::WaitForMeasurementStart
  RejoinOnMeasurementStop,  \* IBConfig::RejoinOnMeasurementStop
  TimeManaged,              \* IBConfig::TimeRegulationEnabled or TimeConstrainedEnabled
  SlowCallbacks,            \* an evoke loop may run longer than one second
  MaxStarts,                \* bound: calls of Start
  MaxFaults,                \* bound: lost links, timeouts, vanished or dead federations
  MaxData                   \* bound: ordinary messages of the other federates

ASSUME SwitchesAssumption ==
  /\ WaitForMeasurementInit \in BOOLEAN /\ RejoinOnMeasurementStop \in BOOLEAN
  /\ TimeManaged \in BOOLEAN /\ SlowCallbacks \in BOOLEAN
ASSUME BoundsAssumption == MaxStarts \in Nat /\ MaxFaults \in Nat /\ MaxData \in Nat

VARIABLES
  \* ---- RemoteAmbassador ----
  mState,                 \* AmbassadorState
  createResult,           \* mCreateFederationResult
  listAvailable,          \* mIsListOfFederationExecutionsAvailable
  announced,              \* the mIsAnnounced...SyncPoint flags that are true
  sent,                   \* mMeasurementInitSent / mMeasurementStopSent
  simEvents,              \* mSimulationEventToProcess
  services,               \* how far OnJoined has run on the registered services
  mEventNotificationSet,
  event,                  \* the auto-reset event of mEventNotification
  \* ---- DistSimIB ----
  mRunning,
  tpc,                    \* where the poll thread is
  upc,                    \* where the application thread is in Start/Stop
  \* ---- the RTI ambassador object and its link to the rtinode ----
  link,                   \* "none", "up" or "lost"
  joined,                 \* the RTI ambassador holds a valid federate
  subscribed,             \* to the MeasurementInit and MeasurementStop interactions
  net,                    \* messages received on the link, not looked at yet
  inbox,                  \* callbacks queued inside the RTI ambassador
  handleSet,              \* this RTI ambassador signals our event
  \* ---- rtinode and other federates ----
  nodeUp, owed, fed, used

ambVars  == <<createResult, listAvailable, announced, sent, simEvents>>
rtiVars  == <<link, joined, subscribed, handleSet>>
envVars  == <<nodeUp, owed, fed, used>>
queues   == <<net, inbox, event>>
vars == <<mState, createResult, listAvailable, announced, sent, simEvents, services,
          mEventNotificationSet, event, mRunning, tpc, upc, link, joined, subscribed,
          net, inbox, handleSet, nodeUp, owed, fed, used>>

States == {"Offline", "AmbassadorAvailable", "ScanForFederationPrefix", "CreateFederation",
           "JoinFederation", "JoinedFederation", "InitFederate", "WaitForMeasurementInit",
           "Online", "ReceivedMeasurementStop", "ReceivedMeasurementInit",
           "FederationSynchronized", "ConnectionLost"}
Points == {"initPoint", "otherPoints"}
Messages == {"list", "enabled", "init", "stop", "synchronized", "data", "lost"} \cup Points
ThreadPoints == {"None", "Loop", "Connect", "ListWait", "PointWait", "JoinScan", "Scanned",
                 "TimeWait", "InitDone", "InitWait", "SyncWait", "Notify", "EventWait",
                 "Evoke", "Process", "Done", "Terminated"}
UserPoints == {"Idle", "Signal", "Join", "Disconnect", "Stopped", "Thrown"}

-----------------------------------------------------------------------------
(* The RTI ambassador.                                                         *)

\* A federation as this federate sees it: has a measurement init been sent in
\* it, a stop, has this federate achieved the 'initialized' sync point, has the
\* whole federation.
Federation == [init: BOOLEAN, stop: BOOLEAN, achieved: BOOLEAN, synced: BOOLEAN]
FreshFederation == [init |-> FALSE, stop |-> FALSE, achieved |-> FALSE, synced |-> FALSE]

Budget(what, max) == used[what] < max /\ used' = [used EXCEPT ![what] = @ + 1]

\* A message of the rtinode arrives: the receive queue signals the notification
\* handle, if it has one.
Arrive(m) == net' = Append(net, m) /\ event' = (event \/ handleSet) /\ UNCHANGED inbox

\* resignFederationExecution succeeds unless the loss of the link was noticed before;
\* while it waits for the answer, everything but the loss of the link is dropped.
Resigns == joined /\ (link = "up" \/ Contains(net, "lost"))
ResignAndDestroyFederation ==
  /\ joined' = (joined /\ ~Resigns)
  /\ subscribed' = (subscribed /\ ~Resigns)
  /\ owed' = {}
  /\ net' = <<>>
  /\ inbox' = IF Contains(net, "lost") THEN Append(inbox, "lost") ELSE inbox
  /\ event' = (event \/ (handleSet /\ Contains(net, "lost")))

NoCurrentRTIAmbassador ==
  /\ link' = "none" /\ joined' = FALSE /\ subscribed' = FALSE /\ handleSet' = FALSE
  /\ net' = <<>> /\ inbox' = <<>> /\ owed' = {}

ResetRemoteAmbassador ==
  /\ createResult' = "Error" /\ listAvailable' = FALSE /\ announced' = {}
  /\ sent' = {} /\ simEvents' = {}

ResetServices == services' = "reset"

-----------------------------------------------------------------------------
(* The callbacks of the federate ambassador.                                    *)

\* Variant: the loss is only taken note of while Connect is running.
connectionLostOffline ==
  /\ mState' = IF mState = "Online" THEN mState ELSE "ConnectionLost"
  /\ UNCHANGED <<ambVars, services, fed>>

connectionLost ==
  /\ mState' = "ConnectionLost"
  /\ UNCHANGED <<ambVars, services, fed>>

OnReceiveIAMeasurementInit ==
  /\ simEvents' = simEvents \cup {"Start"}
  /\ IF WaitForMeasurementInit
       THEN /\ mState' = IF mState = "WaitForMeasurementInit" THEN "ReceivedMeasurementInit" ELSE mState
            /\ UNCHANGED fed
       ELSE /\ fed' = [fed EXCEPT !.achieved = @ \/ "initPoint" \in announced]
            /\ UNCHANGED mState
  /\ UNCHANGED <<createResult, listAvailable, announced, sent, services>>

\* Variant: the handler tests the switch the wrong way round.
OnReceiveIAMeasurementStopInverted ==
  /\ simEvents' = simEvents \cup {"Stop"}
  /\ mState' = IF ~RejoinOnMeasurementStop THEN "ReceivedMeasurementStop" ELSE mState
  /\ UNCHANGED <<createResult, listAvailable, announced, sent, services, fed>>

\* Variant: the name of the interaction is queued, not the simulation event.
OnReceiveIAMeasurementStopNamed ==
  /\ simEvents' = simEvents \cup {"stop"}
  /\ mState' = IF RejoinOnMeasurementStop THEN "ReceivedMeasurementStop" ELSE mState
  /\ UNCHANGED <<createResult, listAvailable, announced, sent, services, fed>>

OnReceiveIAMeasurementStop ==
  /\ simEvents' = simEvents \cup {"Stop"}
  /\ mState' = IF RejoinOnMeasurementStop THEN "ReceivedMeasurementStop" ELSE mState
  /\ UNCHANGED <<createResult, listAvailable, announced, sent, services, fed>>

announceSynchronizationPoint(m) ==
  /\ announced' = announced \cup {m}
  /\ UNCHANGED <<mState, createResult, listAvailable, sent, simEvents, services, fed>>

federationSynchronized ==
  /\ mState' = IF WaitForMeasurementInit THEN "FederationSynchronized" ELSE mState
  /\ UNCHANGED <<ambVars, services, fed>>

reportFederationExecutions ==
  /\ listAvailable' = TRUE
  /\ UNCHANGED <<mState, createResult, announced, sent, simEvents, services, fed>>

timeRegulationEnabled ==
  /\ services' = IF services = "joining" THEN "granted" ELSE services
  /\ UNCHANGED <<mState, ambVars, fed>>

IgnoredCallback == UNCHANGED <<mState, ambVars, services, fed>>

\* What a dispatched callback does.  Callbacks of a federation that was left,
\* and interactions that are not subscribed to, are dropped by the RTI.
Dispatch(m) ==
  \/ m = "lost" /\ connectionLost
  \/ m = "list" /\ reportFederationExecutions
  \/ m = "init" /\ subscribed /\ OnReceiveIAMeasurementInit
  \/ m = "stop" /\ subscribed /\ OnReceiveIAMeasurementStop
  \/ m \in Points /\ joined /\ announceSynchronizationPoint(m)
  \/ m = "synchronized" /\ joined /\ federationSynchronized
  \/ m = "enabled" /\ joined /\ timeRegulationEnabled
  \/ /\ \/ m = "data"
        \/ m \in {"init", "stop"} /\ ~subscribed
        \/ m \in Points \cup {"synchronized", "enabled"} /\ ~joined
     /\ IgnoredCallback

Pending == inbox \o net

\* The ambassador takes what the link has received into its own callback queue
\* and drops the first n of them; every callback it queues signals the
\* notification handle again.
TakeIn(n) == /\ inbox' = SubSeq(Pending, n + 1, Len(Pending))
             /\ net' = <<>>
             /\ event' = (event \/ (handleSet /\ net # <<>>))

\* RTIambassador::evokeCallback when there is something to dispatch.
evokeCallback == Pending # <<>> /\ Dispatch(Head(Pending)) /\ TakeIn(1)

-----------------------------------------------------------------------------
(* RemoteAmbassador::Connect, one action for each of its blocks.  A block that  *)
(* cannot go on ends the call (tpc = "Notify").                                 *)

InBlock(state) == tpc = "Connect" /\ mState = state
Goto(state, pc) == mState' = state /\ tpc' = pc
threadOnly == <<mRunning, upc>>

HandleConnectionLost ==
  /\ InBlock("ConnectionLost")
  /\ NoCurrentRTIAmbassador
  /\ mEventNotificationSet' = FALSE /\ event' = FALSE
  /\ ResetServices
  /\ ResetRemoteAmbassador
  /\ Goto("Offline", "Connect")
  /\ UNCHANGED <<threadOnly, nodeUp, fed, used>>

CreateRTIAmbassador ==
  /\ InBlock("Offline")
  /\ NoCurrentRTIAmbassador
  /\ Goto("AmbassadorAvailable", "Connect")
  /\ UNCHANGED <<ambVars, services, mEventNotificationSet, event, threadOnly, nodeUp, fed, used>>

ConnectToRTINode ==
  /\ InBlock("AmbassadorAvailable")
  /\ IF nodeUp THEN link' = "up" /\ Goto("ScanForFederationPrefix", "Connect")
               ELSE link' = link /\ Goto(mState, "Notify")
  /\ UNCHANGED <<ambVars, services, mEventNotificationSet, queues, threadOnly, joined,
                 subscribed, handleSet, envVars>>

\* Variant: the services keep the state of the federation that is left.
ResetOnMeasurementStopKeepsServices ==
  /\ InBlock("ReceivedMeasurementStop")
  /\ ResignAndDestroyFederation
  /\ ResetRemoteAmbassador
  /\ Goto("ScanForFederationPrefix", "Connect")
  /\ UNCHANGED <<services, mEventNotificationSet, threadOnly, link, handleSet, nodeUp, fed, used>>

ResetOnMeasurementStop ==
  /\ InBlock("ReceivedMeasurementStop")
  /\ ResignAndDestroyFederation
  /\ ResetServices
  /\ ResetRemoteAmbassador
  /\ Goto("ScanForFederationPrefix", "Connect")
  /\ UNCHANGED <<mEventNotificationSet, threadOnly, link, handleSet, nodeUp, fed, used>>

GetLatestFederation ==
  /\ InBlock("ScanForFederationPrefix")
  /\ listAvailable' = FALSE
  /\ owed' = IF link = "up" THEN owed \cup {"list"} ELSE owed
  /\ Goto(mState, "ListWait")
  /\ UNCHANGED <<createResult, announced, sent, simEvents, services, mEventNotificationSet,
                 queues, threadOnly, rtiVars, nodeUp, fed, used>>

\* Create and join both take in the received messages while they wait for their
\* answer.  Without a link the answer never comes: a loss of the link that is
\* found while waiting is severe, one that was found earlier ends in a timeout.
LossFound == link = "lost" /\ Contains(net, "lost")
TimesOut == \/ link = "lost" /\ ~Contains(net, "lost") /\ UNCHANGED used
            \/ link = "up" /\ Budget("faults", MaxFaults)

CreateFederation ==
  /\ InBlock("CreateFederation")
  /\ TakeIn(0)
  /\ \/ /\ link = "up" /\ createResult' \in {"created", "exists"}
        /\ Goto("JoinFederation", "Connect") /\ UNCHANGED used
     \/ TimesOut /\ createResult' = "Error" /\ Goto(mState, "Notify")
     \/ LossFound /\ Goto(mState, "Terminated") /\ UNCHANGED <<createResult, used>>
  /\ UNCHANGED <<listAvailable, announced, sent, simEvents, services, mEventNotificationSet,
                 threadOnly, rtiVars, nodeUp, owed, fed>>

\* The federation that is joined: the one just created, one whose 'initialized'
\* point is still open (its init may have been sent already), one that is
\* running since longer, or a dead one, where no sync point will be announced.
Joins(federation, announcements) == fed' = federation /\ owed' = owed \cup announcements

JoinFederation ==
  /\ InBlock("JoinFederation")
  /\ TakeIn(0)
  /\ \/ /\ link = "up" /\ joined' = TRUE /\ Goto("JoinedFederation", "Connect")
        /\ \/ createResult = "created" /\ Joins(FreshFederation, {}) /\ UNCHANGED used
           \/ /\ createResult = "exists" /\ UNCHANGED used
              /\ \E i \in BOOLEAN : Joins([FreshFederation EXCEPT !.init = i], Points)
           \/ /\ createResult = "exists" /\ UNCHANGED used
              /\ Joins([FreshFederation EXCEPT !.init = TRUE, !.synced = TRUE], {"otherPoints"})
           \/ /\ createResult = "exists" /\ Budget("faults", MaxFaults)
              /\ Joins(FreshFederation, {})
     \/ TimesOut /\ Goto(mState, "Notify") /\ UNCHANGED <<joined, fed, owed>>
     \/ /\ \/ LossFound /\ UNCHANGED used
           \/ createResult = "exists" /\ Budget("faults", MaxFaults)  \* destroyed meanwhile
        /\ Goto(mState, "Terminated") /\ UNCHANGED <<joined, fed, owed>>
  /\ UNCHANGED <<ambVars, services, mEventNotificationSet, threadOnly, link, subscribed,
                 handleSet, nodeUp>>

\* Variant: the creator waits for the points without having registered them.
RegisterSyncPointsUnregistered ==
  /\ InBlock("JoinedFederation") /\ createResult = "created"
  /\ announced' = {}
  /\ Goto(mState, "PointWait")
  /\ UNCHANGED <<createResult, listAvailable, sent, simEvents, services, mEventNotificationSet,
                 queues, threadOnly, rtiVars, envVars>>

RegisterSyncPoints ==
  /\ InBlock("JoinedFederation") /\ createResult = "created"
  /\ announced' = {}
  /\ owed' = IF link = "up" THEN owed \cup Points ELSE owed
  /\ Goto(mState, "PointWait")
  /\ UNCHANGED <<createResult, listAvailable, sent, simEvents, services, mEventNotificationSet,
                 queues, threadOnly, rtiVars, nodeUp, fed, used>>

RetrieveSyncPoints ==
  /\ InBlock("JoinedFederation") /\ createResult # "created"
  /\ Goto(mState, "JoinScan")
  /\ UNCHANGED <<ambVars, services, mEventNotificationSet, queues, threadOnly, rtiVars, envVars>>

\* The while loop of the retrieval ends when a callback leaves none behind, or
\* when none comes for a second.
JoinScan ==
  /\ tpc = "JoinScan"
  /\ \/ /\ evokeCallback
        /\ tpc' = IF inbox' = <<>> THEN "Scanned" ELSE "JoinScan"
        /\ UNCHANGED used
     \/ /\ Pending = <<>> /\ tpc' = "Scanned"
        /\ \/ owed \cap Points = {} /\ UNCHANGED used
           \/ Budget("faults", MaxFaults)  \* the announcements take longer than a second
        /\ UNCHANGED <<mState, ambVars, services, queues, fed>>
  /\ UNCHANGED <<mEventNotificationSet, threadOnly, rtiVars, nodeUp, owed>>

HandleDeadFederation ==
  /\ tpc = "Scanned" /\ announced = {}
  /\ ResignAndDestroyFederation
  /\ Goto("CreateFederation", "Notify")
  /\ UNCHANGED <<ambVars, services, mEventNotificationSet, threadOnly, link, handleSet,
                 nodeUp, fed, used>>

JoinFreshOrLate ==
  /\ tpc = "Scanned" /\ announced # {}
  /\ Goto("InitFederate", "Connect")
  /\ UNCHANGED <<ambVars, services, mEventNotificationSet, queues, threadOnly, rtiVars, envVars>>

\* SetupRTIAmbassador, InitializeHandles, PublishSubscribe and the start of InitializeServices.
InitFederate ==
  /\ InBlock("InitFederate")
  /\ subscribed' = TRUE
  /\ services' = IF TimeManaged THEN "joining" ELSE "joined"
  /\ owed' = IF TimeManaged /\ link = "up" THEN owed \cup {"enabled"} ELSE owed
  /\ Goto(mState, IF TimeManaged THEN "TimeWait" ELSE "InitDone")
  /\ UNCHANGED <<ambVars, mEventNotificationSet, queues, threadOnly, link, joined, handleSet,
                 nodeUp, fed, used>>

\* The end of InitializeServices, ProcessServiceBuffers and the end of the block;
\* the services may ask for a signal.
ProcessServiceBuffers == event' \in {event, event \/ mEventNotificationSet}

FederateInitialized ==
  /\ tpc = "InitDone"
  /\ services' = "joined"
  /\ ProcessServiceBuffers
  /\ IF WaitForMeasurementInit THEN Goto("WaitForMeasurementInit", "InitWait")
                               ELSE Goto("Online", "Connect")
  /\ UNCHANGED <<ambVars, mEventNotificationSet, net, inbox, threadOnly, rtiVars, envVars>>

\* A waiting federate has its init: achieve the points.  In a federation that was
\* joined late the point is not announced, the exception ends the call.
MeasurementInitReceived ==
  /\ tpc = "InitWait" /\ mState = "ReceivedMeasurementInit"
  /\ IF "initPoint" \in announced
       THEN fed' = [fed EXCEPT !.achieved = TRUE] /\ Goto(mState, "SyncWait")
       ELSE fed' = fed /\ Goto(mState, "Notify")
  /\ UNCHANGED <<ambVars, services, mEventNotificationSet, queues, threadOnly, rtiVars,
                 nodeUp, owed, used>>

\* The loops that wait for something and only evoke callbacks meanwhile, with the
\* condition that ends each, the state it goes on in and the point it goes on at.
WaitLoops == {"ListWait", "PointWait", "TimeWait", "InitWait", "SyncWait"}
\* Variant: the second wait of a waiting federate ends with the first one.
WaitIsOverEarly == \/ tpc = "ListWait" /\ listAvailable
                   \/ tpc = "PointWait" /\ announced # {}
                   \/ tpc = "TimeWait" /\ services = "granted"
                   \/ /\ tpc \in {"InitWait", "SyncWait"}
                      /\ mState \in {"ReceivedMeasurementInit", "FederationSynchronized"}

WaitIsOver == \/ tpc = "ListWait" /\ listAvailable
              \/ tpc = "PointWait" /\ announced # {}
              \/ tpc = "TimeWait" /\ services = "granted"
              \/ tpc = "InitWait" /\ mState = "ReceivedMeasurementInit"
              \/ tpc = "SyncWait" /\ mState = "FederationSynchronized"

EvokeInWaitLoop ==
  /\ tpc \in WaitLoops /\ ~WaitIsOver
  /\ evokeCallback
  /\ UNCHANGED <<mEventNotificationSet, tpc, threadOnly, rtiVars, nodeUp, owed, used>>

EndWait ==
  /\ WaitIsOver
  /\ \/ tpc = "ListWait" /\ Goto("CreateFederation", "Connect")
     \/ tpc = "PointWait" /\ Goto("InitFederate", "Connect")
     \/ tpc = "TimeWait" /\ Goto(mState, "InitDone")
     \/ tpc = "SyncWait" /\ Goto("Online", "Connect")
  /\ UNCHANGED <<ambVars, services, mEventNotificationSet, queues, threadOnly, rtiVars, envVars>>

\* No block for the state: Connect returns.
ConnectReturns ==
  /\ tpc = "Connect"
  /\ mState \in {"Online", "ReceivedMeasurementInit"}
  /\ Goto(mState, "Notify")
  /\ UNCHANGED <<ambVars, services, mEventNotificationSet, queues, threadOnly, rtiVars, envVars>>

Connect == \/ HandleConnectionLost \/ CreateRTIAmbassador \/ ConnectToRTINode
           \/ ResetOnMeasurementStop \/ GetLatestFederation \/ CreateFederation
           \/ JoinFederation \/ RegisterSyncPoints \/ RetrieveSyncPoints \/ JoinScan
           \/ HandleDeadFederation \/ JoinFreshOrLate \/ InitFederate \/ FederateInitialized
           \/ MeasurementInitReceived \/ EvokeInWaitLoop \/ EndWait \/ ConnectReturns

-----------------------------------------------------------------------------
(* DistSimIB::PollThread.                                                       *)

PollThread ==
  /\ tpc = "Loop"
  /\ tpc' = IF ~mRunning THEN "Done" ELSE IF mState # "Online" THEN "Connect" ELSE "EventWait"
  /\ UNCHANGED <<mState, ambVars, services, mEventNotificationSet, queues, threadOnly, rtiVars,
                 envVars>>

\* Variant: the messages that arrived before the handle was set are forgotten.
SetNotificationHandleUnsignalled ==
  /\ tpc = "Notify" /\ tpc' = "Loop"
  /\ IF mState = "Online" /\ ~mEventNotificationSet
       THEN mEventNotificationSet' = TRUE /\ handleSet' = TRUE
       ELSE UNCHANGED <<mEventNotificationSet, handleSet>>
  /\ UNCHANGED <<mState, ambVars, services, net, inbox, event, threadOnly, link, joined,
                 subscribed, envVars>>

\* Variant: the RTI ambassador is never told of the event.
SetNotificationHandleUnset ==
  /\ tpc = "Notify" /\ tpc' = "Loop"
  /\ IF mState = "Online" /\ ~mEventNotificationSet
       THEN mEventNotificationSet' = TRUE /\ event' = TRUE
       ELSE UNCHANGED <<mEventNotificationSet, event>>
  /\ UNCHANGED <<mState, ambVars, services, net, inbox, threadOnly, rtiVars, envVars>>

\* After Connect: the notification handle is set when the federate is online and
\* mEventNotificationSet does not say that it is set already.
SetNotificationHandle ==
  /\ tpc = "Notify" /\ tpc' = "Loop"
  /\ IF mState = "Online" /\ ~mEventNotificationSet
       THEN mEventNotificationSet' = TRUE /\ handleSet' = TRUE /\ event' = TRUE
       ELSE UNCHANGED <<mEventNotificationSet, handleSet, event>>
  /\ UNCHANGED <<mState, ambVars, services, net, inbox, threadOnly, link, joined, subscribed,
                 envVars>>

\* EvokeCallbacksOnEvent: WaitForSingleEvent(-1) returns and resets the event.
WaitForSingleEvent ==
  /\ tpc = "EventWait" /\ event
  /\ event' = FALSE /\ tpc' = "Evoke"
  /\ UNCHANGED <<mState, ambVars, services, mEventNotificationSet, net, inbox, threadOnly,
                 rtiVars, envVars>>

\* The loop of EvokeCallbacks, with its bailout after more than a second.
EvokeCallbacks ==
  /\ tpc = "Evoke"
  /\ \/ /\ evokeCallback
        /\ tpc' \in IF inbox' = <<>> THEN {"Process"}
                    ELSE IF SlowCallbacks THEN {"Process", "Evoke"} ELSE {"Evoke"}
     \/ /\ Pending = <<>> /\ tpc' = "Process"
        /\ UNCHANGED <<mState, ambVars, services, queues, fed>>
  /\ UNCHANGED <<mEventNotificationSet, threadOnly, rtiVars, nodeUp, owed, used>>

\* The rest of EvokeCallbacks: simulation control callbacks and service buffers.
EvokeCallbacksEnd ==
  /\ tpc = "Process" /\ tpc' = "Loop"
  /\ simEvents' = {}
  /\ IF mState = "Online" THEN ProcessServiceBuffers ELSE UNCHANGED event
  /\ UNCHANGED <<mState, createResult, listAvailable, announced, sent, services,
                 mEventNotificationSet, net, inbox, threadOnly, rtiVars, envVars>>

Thread == \/ Connect \/ PollThread \/ SetNotificationHandle \/ WaitForSingleEvent
          \/ EvokeCallbacks \/ EvokeCallbacksEnd

-----------------------------------------------------------------------------
(* The application thread.                                                      *)

Alive == tpc # "Terminated"
Calls == Alive /\ upc \in {"Idle", "Stopped"}
IsConnected == mState \in {"Online", "WaitForMeasurementInit"}

\* Start assigns the new thread to mThread; a thread that was never joined is
\* still in there then, which terminates the program.
Start ==
  /\ Calls /\ mState = "Offline" /\ Budget("starts", MaxStarts)
  /\ mRunning' = TRUE
  /\ tpc' = IF tpc = "None" THEN "Loop" ELSE "Terminated"
  /\ upc' = "Idle"
  /\ UNCHANGED <<mState, ambVars, services, mEventNotificationSet, queues, rtiVars, nodeUp,
                 owed, fed>>

\* Stop, step by step: the test of the state and mRunning = false; the signal;
\* the join of the thread; Disconnect.
Stop ==
  /\ Calls /\ upc = "Idle"
  /\ IF mState = "Offline" THEN upc' = "Stopped" /\ UNCHANGED mRunning
                           ELSE upc' = "Signal" /\ mRunning' = FALSE
  /\ UNCHANGED <<mState, ambVars, services, mEventNotificationSet, queues, tpc, rtiVars, envVars>>

\* Variant: Stop does not wake the poll thread.
SendManualSignalOmitted ==
  /\ Alive /\ upc = "Signal" /\ upc' = "Join"
  /\ UNCHANGED <<mState, ambVars, services, mEventNotificationSet, queues, mRunning, tpc,
                 rtiVars, envVars>>

SendManualSignal ==
  /\ Alive /\ upc = "Signal" /\ upc' = "Join"
  /\ event' = (event \/ mEventNotificationSet)
  /\ UNCHANGED <<mState, ambVars, services, mEventNotificationSet, net, inbox, mRunning, tpc,
                 rtiVars, envVars>>

JoinThread ==
  /\ upc = "Join" /\ tpc = "Done"
  /\ upc' = "Disconnect" /\ tpc' = "None"
  /\ UNCHANGED <<mState, ambVars, services, mEventNotificationSet, queues, mRunning, rtiVars,
                 envVars>>

\* Resign, reset, and disconnect from the rtinode.  The RTI refuses to disconnect
\* while it holds a federate: the exception leaves Stop.
Disconnect ==
  /\ upc = "Disconnect"
  /\ ResignAndDestroyFederation
  /\ ResetServices
  /\ ResetRemoteAmbassador
  /\ IF joined /\ ~Resigns
       THEN upc' = "Thrown" /\ UNCHANGED <<mState, link>>
       ELSE upc' = "Stopped" /\ mState' = "Offline" /\ link' = "none"
  /\ UNCHANGED <<mEventNotificationSet, mRunning, tpc, handleSet, nodeUp, fed, used>>

\* sendInteraction of an interaction this federate gets back itself.
SendInteraction(m) ==
  /\ sent' = sent \cup {m}
  /\ fed' = IF link = "up" THEN [fed EXCEPT ![m] = TRUE] ELSE fed
  /\ inbox' = IF subscribed THEN Append(inbox, m) ELSE inbox

StartMeasurement ==
  /\ Calls /\ IsConnected /\ "init" \notin sent
  /\ SendInteraction("init")
  /\ event' = (event \/ (subscribed /\ handleSet))
  /\ UNCHANGED <<mState, createResult, listAvailable, announced, simEvents, services,
                 mEventNotificationSet, net, mRunning, tpc, upc, rtiVars, nodeUp, owed, used>>

StopMeasurement ==
  /\ Calls /\ IsConnected /\ "stop" \notin sent
  /\ SendInteraction("stop")
  /\ event' = (event \/ (subscribed /\ handleSet) \/ mEventNotificationSet)
  /\ UNCHANGED <<mState, createResult, listAvailable, announced, simEvents, services,
                 mEventNotificationSet, net, mRunning, tpc, upc, rtiVars, nodeUp, owed, used>>

Application == \/ Start \/ Stop \/ SendManualSignal \/ JoinThread \/ Disconnect
               \/ StartMeasurement \/ StopMeasurement

-----------------------------------------------------------------------------
(* The rtinode and the other federates.                                         *)

environmentKeeps == <<mState, ambVars, services, mEventNotificationSet, mRunning, tpc, upc>>
InFederation == link = "up" /\ joined

\* An answer or an announcement this federate is still owed; the 'initialized'
\* point is announced before the others.
Answer ==
  /\ link = "up"
  /\ \E m \in owed : /\ m = "otherPoints" => "initPoint" \notin owed
                     /\ Arrive(m) /\ owed' = owed \ {m}
  /\ UNCHANGED <<environmentKeeps, rtiVars, nodeUp, fed, used>>

\* Another federate sends measurement init or stop.
PeerSends ==
  /\ InFederation
  /\ \E m \in {"init", "stop"} :
       /\ ~fed[m] /\ fed' = [fed EXCEPT ![m] = TRUE]
       /\ IF subscribed THEN Arrive(m) ELSE UNCHANGED queues
  /\ UNCHANGED <<environmentKeeps, rtiVars, nodeUp, owed, used>>

\* All federates have achieved 'initialized', this one too.
Synchronize ==
  /\ InFederation /\ fed.init /\ fed.achieved /\ ~fed.synced
  /\ fed' = [fed EXCEPT !.synced = TRUE]
  /\ Arrive("synchronized")
  /\ UNCHANGED <<environmentKeeps, rtiVars, nodeUp, owed, used>>

PeerData ==
  /\ InFederation /\ subscribed /\ Budget("data", MaxData)
  /\ Arrive("data")
  /\ UNCHANGED <<environmentKeeps, rtiVars, nodeUp, owed, fed>>

LoseLink ==
  /\ link = "up" /\ Budget("faults", MaxFaults)
  /\ link' = "lost" /\ nodeUp' \in BOOLEAN /\ owed' = {}
  /\ Arrive("lost")
  /\ UNCHANGED <<environmentKeeps, joined, subscribed, handleSet, fed>>

NodeStarts ==
  /\ ~nodeUp /\ nodeUp' = TRUE
  /\ UNCHANGED <<environmentKeeps, queues, rtiVars, owed, fed, used>>

Environment == Answer \/ PeerSends \/ Synchronize \/ PeerData \/ LoseLink \/ NodeStarts

-----------------------------------------------------------------------------
Init ==
  /\ mState = "Offline" /\ createResult = "Error" /\ listAvailable = FALSE
  /\ announced = {} /\ sent = {} /\ simEvents = {} /\ services = "reset"
  /\ mEventNotificationSet = FALSE /\ event = FALSE
  /\ mRunning = FALSE /\ tpc = "None" /\ upc = "Idle"
  /\ link = "none" /\ joined = FALSE /\ subscribed = FALSE
  /\ net = <<>> /\ inbox = <<>> /\ handleSet = FALSE
  /\ nodeUp \in BOOLEAN /\ owed = {} /\ fed = FreshFederation
  /\ used = [starts |-> 0, faults |-> 0, data |-> 0]

Next == Thread \/ Application \/ Environment

Spec == Init /\ [][Next]_vars

\* The threads are scheduled by the operating system, the application finishes a
\* Stop it has begun, the rtinode answers and comes back, and the other federates
\* achieve the points they were announced.  Nobody has to call or send anything.
Fairness == /\ WF_vars(Thread)
            /\ WF_vars(SendManualSignal) /\ WF_vars(JoinThread) /\ WF_vars(Disconnect)
            /\ WF_vars(Answer) /\ WF_vars(Synchronize) /\ WF_vars(NodeStarts)
FairSpec == Spec /\ Fairness
-----------------------------------------------------------------------------
(* Properties.                                                                  *)

\* Every variable has the values its declaration in the code allows.
TypeOK ==
  /\ mState \in States
  /\ createResult \in {"Error", "created", "exists"}
  /\ listAvailable \in BOOLEAN
  /\ announced \subseteq Points
  /\ sent \subseteq {"init", "stop"}
  /\ simEvents \subseteq {"Start", "Stop"}
  /\ services \in {"reset", "joining", "granted", "joined"}
  /\ mEventNotificationSet \in BOOLEAN /\ event \in BOOLEAN /\ mRunning \in BOOLEAN
  /\ tpc \in ThreadPoints
  /\ upc \in UserPoints
  /\ link \in {"none", "up", "lost"}
  /\ joined \in BOOLEAN /\ subscribed \in BOOLEAN /\ handleSet \in BOOLEAN
  /\ net \in Seq(Messages) /\ inbox \in Seq(Messages)
  /\ nodeUp \in BOOLEAN
  /\ owed \subseteq {"list", "enabled"} \cup Points
  /\ fed \in Federation
  /\ used \in [{"starts", "faults", "data"} -> Nat]

\* A federate that waits for the measurement start (WaitForMeasurementStart,
\* IDistSimIB.h) is never online before the init was sent in its federation and
\* the whole federation, this federate included, achieved 'initialized'.
SynchronizedStart ==
  WaitForMeasurementInit /\ mState = "Online" => fed.init /\ fed.achieved /\ fed.synced

\* The poll thread never waits on the event while the RTI holds something for it:
\* no message that has arrived stays unseen (EvokeCallbacksOnEvent waits with
\* timeout -1, so nothing but the event wakes it).
NoLostWakeup == tpc = "EventWait" /\ Pending # <<>> => event

\* OnJoined finds every service reset: between two federations the services were
\* reset, whichever way the first one was left (stop, loss of the link, Stop).
ServicesResetBeforeJoin ==
  mState \in {"CreateFederation", "JoinFederation", "JoinedFederation"} => services = "reset"

\* The assertion of ProcessServiceBuffers: it runs online or in InitFederate only.
ServiceBuffersAssertion == tpc = "InitDone" => mState \in {"Online", "InitFederate"}

\* Start leads to a federate that is online, unless it is stopped or meets a fault
\* meanwhile (GetLatestFederation waits for ever on a link that is lost).
StartedComesOnline == mRunning ~> (mState = "Online" \/ ~mRunning \/ used.faults > 0)

\* Stop, once begun, returns, if there is no fault.
StopReturns == upc = "Signal" ~> (upc \in {"Stopped", "Thrown"} \/ used.faults > 0)

\* Stop leaves no poll thread behind.
StopEndsThread == upc = "Stopped" => tpc = "None"

\* A measurement stop makes a rejoining federate leave the federation it was sent in
\* (RejoinOnMeasurementStop, IDistSimIB.h), unless a fault comes between.
StopIsFollowed == (joined /\ Contains(net, "stop")) ~> (~joined \/ used.faults > 0)

\* A link that is lost while the federate waits for callbacks comes back: the loss is
\* noticed, everything is reset, and the federate connects to the rtinode again.  A
\* measurement stop dispatched behind the loss, with RejoinOnMeasurementStop, undoes it.
LostLinkRecovers ==
  (tpc = "EventWait" /\ Contains(net, "lost") /\ ~Contains(net, "stop"))
    ~> ((mState = "Online" /\ link = "up") \/ ~mRunning \/ "stop" \in sent)

\* A lost link is noticed: the federate does not claim for ever to be connected.
ConnectedIsTrue == (IsConnected /\ link = "lost") ~> (~IsConnected \/ link = "up")

\* Whatever arrives at a federate that is online is dispatched in the end, unless it is
\* stopped meanwhile ("message retrieval", Start in IDistSimIB.h).
MessagesAreRetrieved == (mState = "Online" /\ Pending # <<>>) ~> (Pending = <<>> \/ ~mRunning)

=============================================================================
