------------------------------ MODULE Federation ------------------------------
(* Several federates of the DistSimAdapter at one rtinode: how they name,       *)
(* create, find, join, leave and destroy the federation of a measurement, how   *)
(* they start and stop it together, and how they meet in the next one.  Of each *)
(* federate it is the part of RemoteAmbassador.cpp that deals with federations; *)
(* RemoteAmbassador.tla has its threads and its lost links.  The rtinode is the *)
(* root server of OpenRTI (ServerNode.cpp), which handles one message after the *)
(* other; what it sends to a federate waits in an inbox until that federate     *)
(* evokes it.                                                                   *)
(*                                                                              *)
(* A federation is named by its index, -1 for the bare prefix.  The two points  *)
(* 'initialized' and 'synchronize sysvars', which are always registered and     *)
(* achieved together, are one point here.  RejoinOnMeasurementStop is on.       *)
EXTENDS Integers, Sequences, FiniteSets, SequencesExt

CONSTANTS
  Federates,
  Waiting,          \* those configured with IBConfig::WaitForMeasurementStart
  Starters,         \* those whose application starts and stops the measurement
  MaxMeasurements,  \* bound: measurements started in good time (see MayStart)
  MaxStops,         \* bound: measurements stopped in good time (see MayStop)
  MaxLeaves,        \* bound: federates that stop or crash in good time (see MayLeave)
  MaxUntimely,      \* bound: hasty starts, stops, leaves and crashes, which come at any
                    \* other moment, and slow answers, which come after their timeout
  MaxIndex          \* the highest index of a federation that the other bounds allow

ASSUME FederatesAssumption == Waiting \subseteq Federates /\ Starters \subseteq Federates
ASSUME BoundsAssumption == /\ MaxMeasurements \in Nat /\ MaxStops \in Nat
                           /\ MaxLeaves \in Nat /\ MaxUntimely \in Nat
                           /\ MaxIndex \in Nat

VARIABLES
  \* ---- RemoteAmbassador, of each federate ----
  mState, pc,               \* AmbassadorState, and where its thread is
  mFederationIndex, mCurrentFederationName,
  created,                  \* mCreateFederationResult is CreatedFederation
  announced,                \* the mIsAnnounced...SyncPoint flags that are true
  sent,                     \* mMeasurementInitSent, mMeasurementStopSent
  \* ---- its RTI ambassador ----
  labels,                   \* the announced synchronization labels
  inbox,                    \* callbacks sent to it, in order, not evoked yet
  \* ---- the rtinode ----
  federations,              \* the names, in the order of their creation
  memberOf,                 \* the federation a federate is joined to
  points,                   \* <<federation, point>>: registered, not synchronized yet
  owed,                     \* <<federation, point, federate>>: still to be achieved
  used                      \* what of each bound is used up

ambassador == <<mFederationIndex, mCurrentFederationName, created, announced, sent>>
rtinode == <<federations, memberOf, points, owed>>
vars == <<mState, pc, ambassador, labels, inbox, rtinode, used>>

NoIndex == -1                       \* the federation is named by the prefix alone
NoName == -2                        \* mCurrentFederationName is empty
Names == NoIndex .. MaxIndex
Points == {"Initialized", "Stopped"}
States == {"Offline", "ScanForFederationPrefix", "CreateFederation", "JoinFederation",
           "JoinedFederation", "InitFederate", "WaitForMeasurementInit", "Online",
           "ReceivedMeasurementStop", "ReceivedMeasurementInit", "FederationSynchronized",
           "ConnectionLost"}
ThreadPoints == {"None", "Connect", "PointWait", "JoinScan", "Scanned", "Destroy", "Leave",
                 "InitWait", "SyncWait", "Evoke", "Terminated"}
Init_ == [type |-> "init"]
Stop_ == [type |-> "stop"]
Lost == [type |-> "lost"]
Announce(p) == [type |-> "announced", point |-> p]
Synchronized(p) == [type |-> "synchronized", point |-> p]
Messages == {Init_, Stop_, Lost} \cup {Announce(p) : p \in Points} \cup {Synchronized(p) : p \in Points}

Set(function, f, value) == [function EXCEPT ![f] = value]
Goto(f, state, place) == mState' = Set(mState, f, state) /\ pc' = Set(pc, f, place)
InBlock(f, state) == pc[f] = "Connect" /\ mState[f] = state
Budget(what, max) == used[what] < max /\ used' = [used EXCEPT ![what] = @ + 1]
Untimely(what) == used["hasty"] + used["slow"] < MaxUntimely /\ used' = [used EXCEPT ![what] = @ + 1]

Members(n) == {g \in Federates : memberOf[g] = n}
Subscribed(f) == /\ memberOf[f] # NoName
                 /\ mState[f] \notin {"JoinFederation", "JoinedFederation", "InitFederate"}
IsConnected(f) == mState[f] \in {"Online", "WaitForMeasurementInit"}

-----------------------------------------------------------------------------
(* The rtinode.                                                                *)

\* The points of federation n that are registered, and those that nobody owes any longer.
Registered(n) == {p \in Points : <<n, p>> \in points}
Done(n, stillOwed) == {p \in Registered(n) : \A g \in Federates : <<n, p, g>> \notin stillOwed}

StillOwed(f, ps) == owed \ {<<memberOf[f], p, f>> : p \in ps}

\* The members are told of the points that f is the last to achieve.
Told(f, ps, boxes) ==
  LET n == memberOf[f]
      told == SetToSeq({Synchronized(p) : p \in Done(n, StillOwed(f, ps))})
  IN [g \in Federates |-> IF memberOf[g] = n THEN boxes[g] \o told ELSE boxes[g]]

\* f achieves the points ps of its federation; a point that nobody owes any longer is gone.
Achieve(f, ps, boxes) ==
  /\ owed' = StillOwed(f, ps)
  /\ points' = points \ ({memberOf[f]} \X Done(memberOf[f], owed'))
  /\ inbox' = Told(f, ps, boxes)

\* f leaves its federation, on its request or because its connection is closed,
\* which counts as having achieved what it owes; left is what it still evokes.
Resign(f, left) ==
  /\ owed' = StillOwed(f, Points)
  /\ points' = points \ ({memberOf[f]} \X Done(memberOf[f], owed'))
  /\ inbox' = Set(Told(f, Points, inbox), f, left)
  /\ memberOf' = Set(memberOf, f, NoName)

\* f is entered in federation n and owes the points that are registered there.
Enter(f, n, announcements) ==
  /\ memberOf' = Set(memberOf, f, n)
  /\ owed' = owed \cup {<<n, p, f>> : p \in Registered(n)}
  /\ inbox' = Set(inbox, f, announcements)
  /\ UNCHANGED points

\* Variant: nobody destroys the federation that is left.
DestroyNothing(n) == UNCHANGED federations

Exists(n) == Contains(federations, n)

\* destroyFederationExecution fails if there is no such federation, and while a federate
\* is joined to it.
Destroy(n) ==
  \/ /\ Members(n) = {}
     /\ \E i \in DOMAIN federations : federations[i] = n /\ federations' = RemoveAt(federations, i)
  \/ /\ ~Exists(n) \/ Members(n) # {}
     /\ UNCHANGED federations

-----------------------------------------------------------------------------
(* RemoteAmbassador::Connect.                                                   *)

Next_(index) == IF index = NoIndex THEN 1 ELSE index + 1

ResetRemoteAmbassador(f) ==
  /\ announced' = Set(announced, f, {})
  /\ sent' = Set(sent, f, {})
  /\ created' = Set(created, f, FALSE)

ResetFederationMemory(f) ==
  /\ mFederationIndex' = Set(mFederationIndex, f, NoIndex)
  /\ mCurrentFederationName' = Set(mCurrentFederationName, f, NoName)

FederationMemory == <<mFederationIndex, mCurrentFederationName>>

\* Variant: the list of the federations is not looked at.
UpdateFederationNameAndIndexBlindly(f) ==
  LET index == IF mCurrentFederationName[f] # NoName THEN Next_(mFederationIndex[f])
               ELSE mFederationIndex[f]
  IN /\ mFederationIndex' = Set(mFederationIndex, f, index)
     /\ mCurrentFederationName' = Set(mCurrentFederationName, f, index)

\* Variant: who finds another federation counts on from its index.
UpdateFederationNameAndIndexPast(f) ==
  LET found == federations # <<>>
      index == IF found THEN Next_(Last(federations))
               ELSE IF mCurrentFederationName[f] # NoName THEN Next_(mFederationIndex[f])
               ELSE mFederationIndex[f]
  IN /\ mFederationIndex' = Set(mFederationIndex, f, index)
     /\ mCurrentFederationName' = Set(mCurrentFederationName, f, index)

\* The latest federation is the last of the list; who finds none, or only the one it
\* comes from, counts on from the index it remembers.
UpdateFederationNameAndIndex(f) ==
  LET found == federations # <<>>
      index == IF found /\ Last(federations) # mCurrentFederationName[f] THEN Last(federations)
               ELSE IF found \/ mCurrentFederationName[f] # NoName THEN Next_(mFederationIndex[f])
               ELSE mFederationIndex[f]
  IN /\ mFederationIndex' = Set(mFederationIndex, f, index)
     /\ mCurrentFederationName' = Set(mCurrentFederationName, f, index)

ScanForFederationPrefix(f) ==
  /\ InBlock(f, "ScanForFederationPrefix")
  /\ UpdateFederationNameAndIndex(f)
  /\ Goto(f, "CreateFederation", "Connect")
  /\ UNCHANGED <<created, announced, sent, labels, inbox, rtinode, used>>

\* A request that times out may have been carried out all the same.
CreateFederation(f) ==
  LET n == mCurrentFederationName[f]
  IN /\ InBlock(f, "CreateFederation")
     /\ \/ /\ Exists(n) /\ UNCHANGED <<federations, used>>
           /\ created' = Set(created, f, FALSE) /\ Goto(f, "JoinFederation", "Connect")
        \/ /\ ~Exists(n) /\ federations' = Append(federations, n) /\ UNCHANGED used
           /\ created' = Set(created, f, TRUE) /\ Goto(f, "JoinFederation", "Connect")
        \/ /\ Untimely("slow") /\ created' = Set(created, f, FALSE)
           /\ federations' = IF Exists(n) THEN federations ELSE Append(federations, n)
           /\ UNCHANGED <<mState, pc>>
     /\ UNCHANGED <<FederationMemory, announced, sent, labels, inbox, memberOf, points, owed>>

\* The announcements of the points ps; joining a federation announces those registered there.
Announcements(ps) ==
  (IF "Initialized" \in ps THEN <<Announce("Initialized")>> ELSE <<>>) \o
  (IF "Stopped" \in ps THEN <<Announce("Stopped")>> ELSE <<>>)

\* Joining fails if the federation is gone, or if an earlier attempt, which timed out, has
\* left the federate's name in use: nobody catches that exception, and the process ends.
JoinFederation(f) ==
  LET n == mCurrentFederationName[f]
  IN /\ InBlock(f, "JoinFederation")
     /\ \/ /\ Exists(n) /\ memberOf[f] = NoName /\ UNCHANGED used
           /\ Enter(f, n, Announcements(Registered(n))) /\ Goto(f, "JoinedFederation", "Connect")
        \/ /\ Exists(n) /\ memberOf[f] = NoName /\ Untimely("slow")
           /\ Enter(f, n, <<>>) /\ UNCHANGED <<mState, pc>>
        \/ /\ ~Exists(n) \/ memberOf[f] # NoName
           /\ Resign(f, <<>>) /\ Goto(f, mState[f], "Terminated") /\ UNCHANGED used
     /\ UNCHANGED <<ambassador, labels, federations>>

\* The points are owed by those who are joined, and by those who will join; registering
\* one that is there already changes nothing.
RegisterSyncPoints(f) ==
  LET n == memberOf[f]
      new == Points \ Registered(n)
  IN /\ InBlock(f, "JoinedFederation") /\ created[f]
     /\ announced' = Set(announced, f, {})
     /\ points' = points \cup ({n} \X new)
     /\ owed' = owed \cup ({n} \X new \X Members(n))
     /\ inbox' = [g \in Federates |-> IF memberOf[g] = n THEN inbox[g] \o Announcements(new) ELSE inbox[g]]
     /\ Goto(f, mState[f], "PointWait")
     /\ UNCHANGED <<FederationMemory, created, sent, labels, federations, memberOf, used>>

\* The creator waits for one of its points, the others for as long as callbacks
\* come without a pause of a second.
RetrieveSyncPoints(f) ==
  /\ InBlock(f, "JoinedFederation") /\ ~created[f]
  /\ Goto(f, mState[f], "JoinScan")
  /\ UNCHANGED <<ambassador, labels, inbox, rtinode, used>>

-----------------------------------------------------------------------------
(* The callbacks of a federate, m the one evoked and rest the inboxes without it. *)

federatesOnly == <<owed, points, memberOf>>

\* Variant: the flags of the points are not set.
announceSynchronizationPointUnflagged(f, p, rest) ==
  /\ labels' = Set(labels, f, labels[f] \cup {p})
  /\ inbox' = rest
  /\ UNCHANGED <<mState, announced, federatesOnly>>

announceSynchronizationPoint(f, p, rest) ==
  /\ labels' = Set(labels, f, labels[f] \cup {p})
  /\ announced' = Set(announced, f, announced[f] \cup {p})
  /\ inbox' = rest
  /\ UNCHANGED <<mState, federatesOnly>>

\* Variant: the label is not compared.
federationSynchronizedByAny(f, p, rest) ==
  /\ mState' = IF f \in Waiting THEN Set(mState, f, "FederationSynchronized") ELSE mState
  /\ labels' = Set(labels, f, labels[f] \ {p})
  /\ inbox' = rest
  /\ UNCHANGED <<announced, federatesOnly>>

federationSynchronized(f, p, rest) ==
  /\ mState' = IF f \in Waiting /\ p = "Initialized" THEN Set(mState, f, "FederationSynchronized")
                                                     ELSE mState
  /\ labels' = Set(labels, f, labels[f] \ {p})
  /\ inbox' = rest
  /\ UNCHANGED <<announced, federatesOnly>>

\* A label that the RTI ambassador does not know is an exception.  A point that the
\* rtinode does not have any more is a message error, for which it closes the connection.
synchronizationPointAchieved(f, p, rest) ==
  /\ p \in labels[f]
  /\ IF memberOf[f] = NoName THEN inbox' = rest /\ UNCHANGED federatesOnly
     ELSE IF <<memberOf[f], p>> \in points
            THEN Achieve(f, {p}, rest) /\ UNCHANGED memberOf
            ELSE Resign(f, Append(rest[f], Lost))

OnReceiveIAMeasurementInit(f, rest) ==
  /\ \/ /\ f \in Waiting /\ inbox' = rest
        /\ mState' = IF mState[f] = "WaitForMeasurementInit"
                       THEN Set(mState, f, "ReceivedMeasurementInit") ELSE mState
        /\ UNCHANGED federatesOnly
     \/ /\ f \notin Waiting /\ UNCHANGED mState
        /\ \/ synchronizationPointAchieved(f, "Initialized", rest)
           \/ "Initialized" \notin labels[f] /\ inbox' = rest /\ UNCHANGED federatesOnly
  /\ UNCHANGED <<labels, announced>>

OnReceiveIAMeasurementStop(f, rest) ==
  /\ \/ /\ synchronizationPointAchieved(f, "Stopped", rest)
        /\ mState' = Set(mState, f, "ReceivedMeasurementStop")
     \/ /\ "Stopped" \notin labels[f] /\ inbox' = rest
        /\ UNCHANGED <<mState, federatesOnly>>
  /\ UNCHANGED <<labels, announced>>

connectionLost(f, rest) ==
  /\ mState' = Set(mState, f, "ConnectionLost")
  /\ inbox' = rest
  /\ UNCHANGED <<labels, announced, federatesOnly>>

evokeCallback(f) ==
  LET m == Head(inbox[f])
      rest == Set(inbox, f, Tail(inbox[f]))
  IN /\ inbox[f] # <<>>
     /\ \/ m.type = "announced" /\ announceSynchronizationPoint(f, m.point, rest)
        \/ m.type = "synchronized" /\ federationSynchronized(f, m.point, rest)
        \/ m.type = "init" /\ OnReceiveIAMeasurementInit(f, rest)
        \/ m.type = "stop" /\ OnReceiveIAMeasurementStop(f, rest)
        \/ m.type = "lost" /\ connectionLost(f, rest)
     /\ UNCHANGED <<FederationMemory, created, sent, federations>>

-----------------------------------------------------------------------------
(* The waits of Connect, and what follows each.                                 *)

\* The creator waits for one of its points, the others for as long as callbacks
\* come without a pause of a second.  That second is enough for a creator which is
\* about to register its points, unless it is slow.
PointWait(f) ==
  /\ pc[f] = "PointWait"
  /\ evokeCallback(f)
  /\ pc' = IF announced'[f] = {} THEN pc ELSE Set(pc, f, "Scanned")
  /\ UNCHANGED used

JoinScan(f) ==
  /\ pc[f] = "JoinScan"
  /\ evokeCallback(f)
  /\ pc' = IF inbox'[f] = <<>> THEN Set(pc, f, "Scanned") ELSE pc
  /\ UNCHANGED used

WillAnnounce(n) == \E g \in Federates : /\ created[g] /\ mCurrentFederationName[g] = n
                                        /\ mState[g] \in {"JoinFederation", "JoinedFederation"}
                                        /\ pc[g] = "Connect"

NoPointsAnnounced(f) ==
  /\ pc[f] = "JoinScan" /\ inbox[f] = <<>>
  /\ IF WillAnnounce(memberOf[f]) THEN Untimely("slow") ELSE UNCHANGED used
  /\ Goto(f, mState[f], "Scanned")
  /\ UNCHANGED <<ambassador, labels, inbox, rtinode>>

\* A federation without any point is dead: it is left, and destroyed (see Destroyed).
HandleDeadFederation(f) ==
  /\ pc[f] = "Scanned" /\ announced[f] = {}
  /\ Resign(f, <<>>) /\ labels' = Set(labels, f, {})
  /\ Goto(f, mState[f], "Destroy")
  /\ UNCHANGED <<ambassador, federations, used>>

\* A fresh federation, or a late join if only the later points are announced.
JoinFreshOrLate(f) ==
  /\ pc[f] = "Scanned" /\ announced[f] # {}
  /\ Goto(f, "InitFederate", "Connect")
  /\ UNCHANGED <<ambassador, labels, inbox, rtinode, used>>

InitFederate(f) ==
  /\ InBlock(f, "InitFederate")
  /\ IF f \in Waiting THEN Goto(f, "WaitForMeasurementInit", "InitWait") ELSE Goto(f, "Online", "Evoke")
  /\ UNCHANGED <<ambassador, labels, inbox, rtinode, used>>

InitWait(f) ==
  /\ pc[f] = "InitWait" /\ mState[f] # "ReceivedMeasurementInit"
  /\ evokeCallback(f)
  /\ UNCHANGED <<pc, used>>

\* The init has come: the point is achieved, or, if it is not known here, Connect is left
\* in a state that none of its blocks is for.
InitReceived(f) ==
  /\ pc[f] = "InitWait" /\ mState[f] = "ReceivedMeasurementInit"
  /\ \/ synchronizationPointAchieved(f, "Initialized", inbox) /\ pc' = Set(pc, f, "SyncWait")
     \/ /\ "Initialized" \notin labels[f] /\ pc' = Set(pc, f, "Connect")
        /\ UNCHANGED <<inbox, federatesOnly>>
  /\ UNCHANGED <<mState, ambassador, labels, federations, used>>

SyncWait(f) ==
  /\ pc[f] = "SyncWait" /\ mState[f] # "FederationSynchronized"
  /\ evokeCallback(f)
  /\ UNCHANGED <<pc, used>>

FederationSynchronized(f) ==
  /\ pc[f] = "SyncWait" /\ mState[f] = "FederationSynchronized"
  /\ Goto(f, "Online", "Evoke")
  /\ UNCHANGED <<ambassador, labels, inbox, rtinode, used>>

\* The loop of EvokeCallbacks, which does not look at the state.
EvokeCallbacks(f) ==
  /\ pc[f] = "Evoke"
  /\ evokeCallback(f)
  /\ UNCHANGED <<pc, used>>

\* ResetOnMeasurementStop begins with leaving the federation.
ResetOnMeasurementStop(f) ==
  /\ pc[f] = "Evoke" /\ mState[f] = "ReceivedMeasurementStop" /\ memberOf[f] # NoName
  /\ Resign(f, <<>>) /\ labels' = Set(labels, f, {})
  /\ Goto(f, mState[f], "Destroy")
  /\ UNCHANGED <<ambassador, federations, used>>

\* Then the federation is destroyed, unless others are still joined to it.
Destroyed(f) ==
  /\ pc[f] = "Destroy"
  /\ Destroy(mCurrentFederationName[f])
  /\ \/ /\ mState[f] = "ReceivedMeasurementStop"
        /\ ResetRemoteAmbassador(f) /\ UNCHANGED FederationMemory
        /\ Goto(f, "ScanForFederationPrefix", "Connect")
     \/ /\ mState[f] = "JoinedFederation"
        /\ LET index == Next_(mFederationIndex[f])
           IN /\ mFederationIndex' = Set(mFederationIndex, f, index)
              /\ mCurrentFederationName' = Set(mCurrentFederationName, f, index)
        /\ Goto(f, "CreateFederation", "Connect")
        /\ UNCHANGED <<created, announced, sent>>
  /\ UNCHANGED <<labels, inbox, memberOf, points, owed, used>>

HandleConnectionLost(f) ==
  /\ pc[f] = "Evoke" /\ mState[f] = "ConnectionLost"
  /\ ResetRemoteAmbassador(f) /\ ResetFederationMemory(f)
  /\ labels' = Set(labels, f, {}) /\ inbox' = Set(inbox, f, <<>>)
  /\ Goto(f, "ScanForFederationPrefix", "Connect")
  /\ UNCHANGED <<rtinode, used>>

-----------------------------------------------------------------------------
(* The applications, and the processes they run in.                             *)

\* Creating the RTI ambassador and connecting it to the rtinode succeed here.
Start(f) ==
  /\ mState[f] = "Offline" /\ pc[f] = "None"
  /\ Goto(f, "ScanForFederationPrefix", "Connect")
  /\ UNCHANGED <<ambassador, labels, inbox, rtinode, used>>

Together(S) == \A f, g \in Federates : mState[f] \in S /\ memberOf[f] = memberOf[g]

\* In good time: the measurement is started once, when all are connected, and stopped
\* when all are online; nobody leaves between its start and its end, nor before another
\* one is connected in the latest federation.
MayStart == Together({"Online", "WaitForMeasurementInit"}) /\ \A g \in Federates : "init" \notin sent[g]
MayStop == Together({"Online"}) /\ \E g \in Federates : "init" \in sent[g]
MayLeave(f) ==
  /\ \E g \in Federates \ {f} : /\ IsConnected(g) /\ memberOf[g] # NoName
                                /\ memberOf[g] = Last(federations)
  /\ \A g \in Federates : /\ sent[g] = {} /\ mState[g] # "ReceivedMeasurementStop"
                          /\ ~Contains(inbox[g], Init_) /\ ~Contains(inbox[g], Stop_)

InGoodTime(condition, what, max) == IF condition THEN Budget(what, max) ELSE Untimely("hasty")
Leaves(f) == InGoodTime(MayLeave(f), "leaves", MaxLeaves)

\* Stop ends the poll thread between two calls of Connect, then disconnects.
Disconnect(f) ==
  /\ pc[f] = "Evoke" /\ Leaves(f)
  /\ Resign(f, <<>>) /\ labels' = Set(labels, f, {})
  /\ Goto(f, mState[f], "Leave")
  /\ UNCHANGED <<ambassador, federations>>

Disconnected(f) ==
  /\ pc[f] = "Leave"
  /\ Destroy(mCurrentFederationName[f])
  /\ ResetRemoteAmbassador(f) /\ ResetFederationMemory(f)
  /\ Goto(f, "Offline", "None")
  /\ UNCHANGED <<labels, inbox, memberOf, points, owed, used>>

\* The process dies; the rtinode sees its connection closed.
Crash(f) ==
  /\ pc[f] \notin {"None", "Terminated"} /\ Leaves(f)
  /\ Resign(f, <<>>) /\ labels' = Set(labels, f, {})
  /\ ResetRemoteAmbassador(f) /\ ResetFederationMemory(f)
  /\ Goto(f, "Offline", "None")
  /\ UNCHANGED federations

\* An interaction goes to every member that subscribes to it, its sender among them.
SendInteraction(f, m) ==
  /\ IsConnected(f) /\ m.type \notin sent[f]
  /\ sent' = Set(sent, f, sent[f] \cup {m.type})
  /\ inbox' = [g \in Federates |->
                 IF Subscribed(g) /\ Subscribed(f) /\ memberOf[g] = memberOf[f]
                   THEN Append(inbox[g], m) ELSE inbox[g]]
  /\ UNCHANGED <<mState, pc, FederationMemory, created, announced, labels, rtinode>>

SendMeasurementInit(f) ==
  /\ f \in Starters /\ InGoodTime(MayStart, "init", MaxMeasurements)
  /\ SendInteraction(f, Init_)

SendMeasurementStop(f) ==
  /\ f \in Starters /\ InGoodTime(MayStop, "stop", MaxStops)
  /\ SendInteraction(f, Stop_)

-----------------------------------------------------------------------------
Init ==
  /\ mState = [f \in Federates |-> "Offline"] /\ pc = [f \in Federates |-> "None"]
  /\ mFederationIndex = [f \in Federates |-> NoIndex]
  /\ mCurrentFederationName = [f \in Federates |-> NoName]
  /\ created = [f \in Federates |-> FALSE] /\ announced = [f \in Federates |-> {}]
  /\ sent = [f \in Federates |-> {}] /\ labels = [f \in Federates |-> {}]
  /\ inbox = [f \in Federates |-> <<>>]
  /\ federations = <<>> /\ memberOf = [f \in Federates |-> NoName]
  /\ points = {} /\ owed = {}
  /\ used = [what \in {"init", "stop", "leaves", "hasty", "slow"} |-> 0]

Connect(f) ==
  \/ ScanForFederationPrefix(f) \/ CreateFederation(f) \/ JoinFederation(f)
  \/ RegisterSyncPoints(f) \/ RetrieveSyncPoints(f) \/ PointWait(f) \/ JoinScan(f)
  \/ NoPointsAnnounced(f) \/ HandleDeadFederation(f) \/ JoinFreshOrLate(f)
  \/ InitFederate(f) \/ InitWait(f) \/ InitReceived(f) \/ SyncWait(f)
  \/ FederationSynchronized(f) \/ ResetOnMeasurementStop(f) \/ Destroyed(f)
  \/ HandleConnectionLost(f)

Next == \E f \in Federates :
  \/ Start(f) \/ Connect(f) \/ EvokeCallbacks(f) \/ Disconnect(f) \/ Disconnected(f)
  \/ Crash(f) \/ SendMeasurementInit(f) \/ SendMeasurementStop(f)

\* Every thread goes on, the processes are started (again), and the measurement is
\* started in good time.  Nobody has to stop, to leave or to crash.
Fairness == \A f \in Federates :
  /\ WF_vars(Start(f)) /\ WF_vars(Connect(f)) /\ WF_vars(EvokeCallbacks(f))
  /\ WF_vars(Disconnected(f)) /\ WF_vars(MayStart /\ SendMeasurementInit(f))

Spec == Init /\ [][Next]_vars /\ Fairness

-----------------------------------------------------------------------------
(* Properties.                                                                 *)

TypeOK ==
  /\ mState \in [Federates -> States] /\ pc \in [Federates -> ThreadPoints]
  /\ mFederationIndex \in [Federates -> Names]
  /\ mCurrentFederationName \in [Federates -> Names \cup {NoName}]
  /\ created \in [Federates -> BOOLEAN] /\ announced \in [Federates -> SUBSET Points]
  /\ sent \in [Federates -> SUBSET {"init", "stop"}] /\ labels \in [Federates -> SUBSET Points]
  /\ \A f \in Federates : inbox[f] \in Seq(Messages)
  /\ federations \in Seq(Names) /\ memberOf \in [Federates -> Names \cup {NoName}]
  /\ points \subseteq Names \X Points /\ owed \subseteq Names \X Points \X Federates

\* Whatever the order in which they start, leave and come back, all federates end up
\* online in one federation, again after every measurement.
Calm == used["hasty"] = 0 /\ used["slow"] = 0
FederatesMeet == []Calm => []<>Together({"Online"})

\* A federate that waits for the measurement start comes online only when no other one
\* that knows the point of the start still waits for the init.
NobodyLeftBehind ==
  [][\A f, g \in Waiting : pc[f] = "SyncWait" /\ pc'[f] = "Evoke" /\ memberOf[g] = memberOf[f]
       => ~(pc[g] = "InitWait" /\ "Initialized" \in labels[g])]_vars

\* A federate that connects gets there: it comes to evoking callbacks or to waiting for
\* the measurement start, or it ends, whatever the others do meanwhile.
ConnectEnds ==
  \A f \in Federates : (mState[f] = "ScanForFederationPrefix") ~>
                       (pc[f] \in {"InitWait", "Evoke", "Terminated", "None"})

\* Only one of the members of a federation takes itself for its creator.
OneCreator == \A f, g \in Federates :
  created[f] /\ created[g] /\ memberOf[f] = memberOf[g] /\ memberOf[f] # NoName => f = g

\* When a federate is told that its federation is synchronized, no member owes the point
\* of the start, unless a slow announcement made two federates register it.
SynchronizedMeansAll == used["slow"] = 0 => \A f \in Federates : mState[f] = "FederationSynchronized" =>
  \A g \in Federates : <<memberOf[f], "Initialized", g>> \notin owed

\* Naming, creating, joining and destroying federations never ends a federate with an
\* exception that nobody catches, as long as the rtinode answers in time.
NobodyTerminates == used["slow"] = 0 => \A f \in Federates : pc[f] # "Terminated"

\* A federate that waits for the measurement start with the others is not left waiting
\* when they measure.
WaitersCatchUp == \A f \in Waiting :
  (pc[f] = "InitWait" /\ \E g \in Federates : mState[g] = "Online" /\ memberOf[g] = memberOf[f])
    ~> (pc[f] # "InitWait" \/ \A g \in Federates : memberOf[g] = memberOf[f] => mState[g] # "Online")

\* A federation that nobody is joined to is joined or destroyed some time.
NoFederationStaysBehind == []Calm =>
  \A n \in Names : (Contains(federations, n) /\ Members(n) = {}) ~>
                   (~Contains(federations, n) \/ Members(n) # {})
=============================================================================
