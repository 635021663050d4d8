------------------------------ MODULE DOService ------------------------------
(* The distribution of one data object over a federation: the DOService of      *)
(* every federate (DOService.cpp), run by its poll thread and called by its     *)
(* application, over an RTI that keeps the HLA objects and passes messages on   *)
(* in order.  All registrations are for one name and one connection type, and   *)
(* a value is the number of the transmission that sent it.  How a federate      *)
(* comes into the state InitFederate is the subject of RemoteAmbassador.        *)
EXTENDS Naturals, Sequences, FiniteSets, TLC, SequencesExt

CONSTANTS
  Providers, Consumers,   \* federates whose application registers sources / targets
  Waiting,                \* federates with IBConfig::WaitForMeasurementStart
  RegisterIn,             \* states of the ambassador in which applications register
  UnregisterIn,           \* ... and unregister
  EarlyUnregister,        \* applications unregister before the HLA object exists
  MaxHandles,             \* bound: registrations of one kind per federate
  MaxValues,              \* bound: transmissions per federate
  MaxLeaves               \* bound: departures of federates

Federates == Providers \cup Consumers
States == {"Offline", "InitFederate", "WaitForMeasurementInit", "Online"}
Kinds == {"source", "target"}

ASSUME FederatesAssumption == Waiting \subseteq Federates /\ IsFiniteSet(Federates)
ASSUME StatesAssumption == RegisterIn \subseteq States /\ UnregisterIn \subseteq States
                           /\ EarlyUnregister \in BOOLEAN
ASSUME BoundsAssumption == MaxHandles \in Nat /\ MaxValues \in Nat /\ MaxLeaves \in Nat

VARIABLES
  mState,      \* state of the ambassador, the states before InitFederate as "Offline"
  phase,       \* where the poll thread is: in the evoke loop or in ProcessBuffers
  event,       \* the event the poll thread of a federate that is online waits for
  persistent,  \* mPersistentRegisterDOSources / ...Targets
  buffered,    \* mBufferedRegisterDOSources / ...Targets
  toTransmit,  \* mBufferedTransmit
  locals,      \* mLocalSources / mLocalTargets
  byHandle,    \* mLocalSourceByLocalHandle
  remote,      \* mRemoteSources and mRemoteTargets
  callback,    \* handle of the target whose callback is in mLocalTargetCallbacks, or 0
  objects,     \* the HLA objects of the federation
  unsub,       \* objects a federate has unsubscribed from
  inbox,       \* messages on the way from the RTI to a federate
  got,         \* history: last value of a source the installed callback was called with
  written,     \* history: last value published of a source
  lastSent,    \* history: last value transmitted through a handle
  issued       \* counters: handles, object names, values and departures so far

regVars == <<persistent, buffered, toTransmit>>
localVars == <<locals, byHandle, remote, callback>>
rtiVars == <<objects, unsub, inbox>>
history == <<got, written, lastSent>>
vars == <<mState, phase, event, regVars, localVars, rtiVars, history, issued>>

-----------------------------------------------------------------------------
(* Data.  The name of an HLA object (a fresh UUID in the code) holds its owner. *)

Handles == 1..MaxHandles
Counters == Kinds \cup {"names", "values", "leaves"}
Names == Federates \X (1..(4 * MaxHandles * (MaxLeaves + 1)))
NoName == <<>>
Owner(obj) == obj.name[1]
Registration == [handle : Handles, last : 0..MaxValues]
Local == [handle : Handles, name : Names, registered : BOOLEAN, last : 0..MaxValues]
Objects == [name : Names, kind : Kinds]
Message == [type : {"reserved", "discover", "remove"}, obj : Objects]
           \cup [type : {"provide", "update"}, obj : Objects, named : BOOLEAN, value : 0..MaxValues]
NoValues == [n \in Names |-> 0]

Reserved(obj) == [type |-> "reserved", obj |-> obj]
Discover(obj) == [type |-> "discover", obj |-> obj]
Removed(obj) == [type |-> "remove", obj |-> obj]
Provide(obj, named) == [type |-> "provide", obj |-> obj, named |-> named, value |-> 0]
Update(obj, named, v) == [type |-> "update", obj |-> obj, named |-> named, value |-> v]

OfHandle(s, h) == {i \in DOMAIN s : s[i].handle = h}
Of(f, k, h) == OfHandle(locals[f][k], h)
Named(f, obj) == {i \in DOMAIN locals[f][obj.kind] : locals[f][obj.kind][i].name = obj.name}
First(S) == CHOOSE i \in S : \A j \in S : i <= j

-----------------------------------------------------------------------------
(* The RTI.  A federate receives the messages of an object once PublishSubscribe *)
(* has run; an update does not reach those that have unsubscribed from it.       *)

Joined(f) == mState[f] \in {"WaitForMeasurementInit", "Online"} \/ phase[f] # "idle"
Others(f) == {g \in Federates \ {f} : Joined(g)}
Nothing == [g \in Federates |-> <<>>]
To(g, m) == [Nothing EXCEPT ![g] = <<m>>]
ToOthers(f, m) == [g \in Federates |-> IF g \in Others(f) THEN <<m>> ELSE <<>>]
ToSubscribers(f, m) ==
  [g \in Federates |-> IF g \in Others(f) /\ m.obj \notin unsub[g] THEN <<m>> ELSE <<>>]
Then(out1, out2) == [g \in Federates |-> out1[g] \o out2[g]]

\* Every federate gets its part of out behind what is still in its queue, and is
\* signalled when there is any.
Send(queue, out) ==
  /\ inbox' = [g \in Federates |-> queue[g] \o out[g]]
  /\ event' = [g \in Federates |-> event[g] \/ out[g] # <<>>]

\* requestAttributeValueUpdate, which subscribes to the object again, is passed on
\* to the owner as long as the object exists.
Request(obj, named) ==
  IF obj \in objects THEN To(Owner(obj), Provide(obj, named)) ELSE Nothing

-----------------------------------------------------------------------------
(* The callbacks, each called by the poll thread with the message at the head.   *)

Rest(f) == [inbox EXCEPT ![f] = Tail(@)]
keptByCallbacks == <<mState, regVars, lastSent, issued>>

\* Variant: the name update of a source does not carry its last data.
UpdateDOSourceObjectNameWithoutData(f, l) ==
  ToSubscribers(f, Update([name |-> l.name, kind |-> "source"], TRUE, 0))

\* UpdateDOSourceObjectName: "Also send the last data with the name update".
UpdateDOSourceObjectName(f, l) ==
  ToSubscribers(f, Update([name |-> l.name, kind |-> "source"], TRUE, l.last))

UpdateDOTargetObjectName(f, l) ==
  ToSubscribers(f, Update([name |-> l.name, kind |-> "target"], TRUE, 0))

UpdateDOSourceObjectData(f, l, v) ==
  ToSubscribers(f, Update([name |-> l.name, kind |-> "source"], FALSE, v))

UpdateName(f, k, l) == IF k = "source" THEN UpdateDOSourceObjectName(f, l)
                                       ELSE UpdateDOTargetObjectName(f, l)

\* OnDOSourceObjectReservationCompleted, OnDOTargetObjectReservationCompleted: the
\* HLA object is registered, its name is sent, and from now on a source transmits.
OnDOObjectReservationCompleted(f, obj) ==
  /\ IF Named(f, obj) # {}
       THEN LET i == First(Named(f, obj))
                l == locals[f][obj.kind][i]
            IN /\ locals' = [locals EXCEPT ![f][obj.kind][i].registered = TRUE]
               /\ byHandle' = IF obj.kind = "source"
                                THEN [byHandle EXCEPT ![f][l.handle] = obj.name] ELSE byHandle
               /\ objects' = objects \cup {obj}
               /\ written' = [written EXCEPT ![obj.name] = l.last]
               /\ Send(Rest(f), Then(ToOthers(f, Discover(obj)), UpdateName(f, obj.kind, l)))
       ELSE /\ Send(Rest(f), Nothing)
            /\ UNCHANGED <<locals, byHandle, objects, written>>
  /\ UNCHANGED <<remote, callback, unsub, got>>

\* discoverObjectInstance: "Late joiner has not received the (name) update of this
\* object sent on creation -> request it".
discoverObjectInstance(f, obj) ==
  /\ Send(Rest(f), Request(obj, TRUE))
  /\ unsub' = [unsub EXCEPT ![f] = @ \ {obj}]
  /\ UNCHANGED <<localVars, objects, got, written>>

\* Variant: the removal of a source is not noticed.
removeObjectInstanceOfTargets(f, obj) ==
  /\ remote' = [remote EXCEPT ![f] = IF obj.kind = "source" THEN @ ELSE @ \ {obj}]
  /\ unsub' = [unsub EXCEPT ![f] = @ \ {obj}]
  /\ Send(Rest(f), Nothing)
  /\ UNCHANGED <<locals, byHandle, callback, objects, got, written>>

removeObjectInstance(f, obj) ==
  /\ remote' = [remote EXCEPT ![f] = @ \ {obj}]
  /\ unsub' = [unsub EXCEPT ![f] = @ \ {obj}]
  /\ Send(Rest(f), Nothing)
  /\ UNCHANGED <<locals, byHandle, callback, objects, got, written>>

\* HandleDOSourceObjectUpdate.  The first name update makes the source known, and its
\* data goes to the callback if there is a local target; without one the federate
\* unsubscribes.  A value update of a known source goes to the callback.
HandleDOSourceObjectUpdate(f, m) ==
  LET new == m.obj \notin remote[f]
      hasTarget == locals[f]["target"] # <<>>
      delivered == IF m.named THEN new /\ hasTarget /\ m.value # 0
                              ELSE ~new /\ callback[f] # 0
  IN /\ remote' = [remote EXCEPT ![f] = IF m.named THEN @ \cup {m.obj} ELSE @]
     /\ unsub' = [unsub EXCEPT ![f] = IF m.named /\ new /\ ~hasTarget THEN @ \cup {m.obj} ELSE @]
     /\ got' = IF delivered THEN [got EXCEPT ![f][m.obj.name] = m.value] ELSE got

\* HandleDOTargetObjectUpdate: the first update makes the target known.
HandleDOTargetObjectUpdate(f, m) ==
  /\ remote' = [remote EXCEPT ![f] = @ \cup {m.obj}]
  /\ UNCHANGED <<unsub, got>>

\* The RTI drops an update of an object that was unsubscribed after it was sent.
reflectAttributeValues(f, m) ==
  /\ IF m.obj \in unsub[f] THEN UNCHANGED <<remote, unsub, got>>
     ELSE IF m.obj.kind = "source" THEN HandleDOSourceObjectUpdate(f, m)
     ELSE HandleDOTargetObjectUpdate(f, m)
  /\ Send(Rest(f), Nothing)
  /\ UNCHANGED <<locals, byHandle, callback, objects, written>>

\* provideAttributeValueUpdate: a request of the name is answered with name and data,
\* a request of the value with the last data, if there is any.
provideAttributeValueUpdate(f, m) ==
  /\ IF Named(f, m.obj) = {} THEN Send(Rest(f), Nothing)
     ELSE LET l == locals[f][m.obj.kind][First(Named(f, m.obj))]
          IN Send(Rest(f), IF m.named \/ m.obj.kind = "target" THEN UpdateName(f, m.obj.kind, l)
                           ELSE IF l.last # 0 THEN UpdateDOSourceObjectData(f, l, l.last)
                           ELSE Nothing)
  /\ UNCHANGED <<localVars, objects, unsub, got, written>>

\* evokeCallback: the callback for the message at the head of the queue.
evokeCallback(f) ==
  /\ inbox[f] # <<>>
  /\ LET m == Head(inbox[f])
     IN \/ m.type = "reserved" /\ OnDOObjectReservationCompleted(f, m.obj)
        \/ m.type = "discover" /\ discoverObjectInstance(f, m.obj)
        \/ m.type = "remove" /\ removeObjectInstance(f, m.obj)
        \/ m.type = "update" /\ reflectAttributeValues(f, m)
        \/ m.type = "provide" /\ provideAttributeValueUpdate(f, m)
  /\ UNCHANGED keptByCallbacks

-----------------------------------------------------------------------------
(* ProcessBuffers, one buffered entry per step: targets, then sources, then what *)
(* is to be transmitted.  The mutex of a buffer is held while it is processed.   *)

Fresh(f) == <<f, issued[f].names + 1>>
ReserveName(f) == issued' = [issued EXCEPT ![f].names = @ + 1]

\* CreateDOTarget and RegisterBufferedDOTarget: the callback is installed, the name
\* reserved, and the value of every known source is requested.
RegisterBufferedDOTarget(f, r) ==
  LET obj == [name |-> Fresh(f), kind |-> "target"]
      sources == {o \in remote[f] : o.kind = "source"}
  IN /\ locals' = [locals EXCEPT ![f]["target"] = Append(@,
                     [handle |-> r.handle, name |-> obj.name, registered |-> FALSE, last |-> 0])]
     /\ callback' = [callback EXCEPT ![f] = r.handle]
     /\ got' = [got EXCEPT ![f] = NoValues]
     /\ unsub' = [unsub EXCEPT ![f] = @ \ sources]
     /\ Send(inbox, Then(To(f, Reserved(obj)),
          [g \in Federates |-> LET asked == {o \in sources \cap objects : Owner(o) = g}
                               IN [i \in 1..Cardinality(asked) |->
                                     Provide(SetToSeq(asked)[i], FALSE)]]))
     /\ UNCHANGED <<byHandle, remote>>

\* RegisterBufferedDOSource: "Eventually use the last data from previous measurement".
RegisterBufferedDOSource(f, r) ==
  LET obj == [name |-> Fresh(f), kind |-> "source"]
  IN /\ locals' = [locals EXCEPT ![f]["source"] = Append(@,
                     [handle |-> r.handle, name |-> obj.name, registered |-> FALSE,
                      last |-> r.last])]
     /\ Send(inbox, To(f, Reserved(obj)))
     /\ UNCHANGED <<byHandle, remote, callback, unsub, got>>

ProcessTargets(f) ==
  /\ phase[f] = "targets"
  /\ IF buffered[f]["target"] # <<>>
       THEN /\ RegisterBufferedDOTarget(f, Head(buffered[f]["target"]))
            /\ ReserveName(f)
            /\ buffered' = [buffered EXCEPT ![f]["target"] = Tail(@)]
            /\ UNCHANGED phase
       ELSE /\ phase' = [phase EXCEPT ![f] = "sources"]
            /\ UNCHANGED <<event, buffered, localVars, unsub, inbox, got, issued>>
  /\ UNCHANGED <<mState, persistent, toTransmit, objects, written, lastSent>>

ProcessSources(f) ==
  /\ phase[f] = "sources"
  /\ IF buffered[f]["source"] # <<>>
       THEN /\ RegisterBufferedDOSource(f, Head(buffered[f]["source"]))
            /\ ReserveName(f)
            /\ buffered' = [buffered EXCEPT ![f]["source"] = Tail(@)]
            /\ UNCHANGED phase
       ELSE /\ phase' = [phase EXCEPT ![f] = "transmits"]
            /\ UNCHANGED <<event, buffered, localVars, unsub, inbox, got, issued>>
  /\ UNCHANGED <<mState, persistent, toTransmit, objects, written, lastSent>>

\* The entries of mBufferedTransmit whose handle has a source with an HLA object.
Transmittable(f) == {i \in DOMAIN toTransmit[f] : byHandle[f][toTransmit[f][i].handle] # NoName}

\* Variant: the newest data is sent first.
BufferedTransmitDOMemberNewestFirst(f) ==
  /\ phase[f] = "transmits" /\ Transmittable(f) # {}
  /\ LET n == CHOOSE n \in Transmittable(f) : \A j \in Transmittable(f) : j <= n
         t == toTransmit[f][n]
         i == CHOOSE i \in DOMAIN locals[f]["source"] :
                locals[f]["source"][i].name = byHandle[f][t.handle]
         l == locals[f]["source"][i]
     IN /\ locals' = [locals EXCEPT ![f]["source"][i].last = t.value]
        /\ toTransmit' = [toTransmit EXCEPT ![f] = RemoveAt(@, n)]
        /\ written' = [written EXCEPT ![l.name] = t.value]
        /\ lastSent' = [lastSent EXCEPT ![f][t.handle] = t.value]
        /\ Send(inbox, UpdateDOSourceObjectData(f, l, t.value))
  /\ UNCHANGED <<mState, phase, persistent, buffered, byHandle, remote, callback, objects, unsub,
                 got, issued>>

\* BufferedTransmitDOMember: the data is kept in the source and sent.  Entries of
\* other handles stay in the buffer.
BufferedTransmitDOMember(f) ==
  /\ phase[f] = "transmits" /\ Transmittable(f) # {}
  /\ LET n == First(Transmittable(f))
         t == toTransmit[f][n]
         i == CHOOSE i \in DOMAIN locals[f]["source"] :
                locals[f]["source"][i].name = byHandle[f][t.handle]
         l == locals[f]["source"][i]
     IN /\ locals' = [locals EXCEPT ![f]["source"][i].last = t.value]
        /\ toTransmit' = [toTransmit EXCEPT ![f] = RemoveAt(@, n)]
        /\ written' = [written EXCEPT ![l.name] = t.value]
        /\ lastSent' = [lastSent EXCEPT ![f][t.handle] = t.value]
        /\ Send(inbox, UpdateDOSourceObjectData(f, l, t.value))
  /\ UNCHANGED <<mState, phase, persistent, buffered, byHandle, remote, callback, objects, unsub,
                 got, issued>>

\* The end of ProcessBuffers.  In InitFederate the federate goes on to the state it
\* waits in or online; the poll thread that is online is signalled first.
EndProcessBuffers(f) ==
  /\ phase[f] = "transmits" /\ Transmittable(f) = {}
  /\ phase' = [phase EXCEPT ![f] = "idle"]
  /\ mState' = [mState EXCEPT ![f] = IF @ = "InitFederate" /\ f \in Waiting
                                       THEN "WaitForMeasurementInit" ELSE "Online"]
  /\ event' = [event EXCEPT ![f] = @ \/ mState[f] = "InitFederate"]
  /\ UNCHANGED <<regVars, localVars, rtiVars, history, issued>>

ProcessBuffers(f) == \/ ProcessTargets(f) \/ ProcessSources(f)
                     \/ BufferedTransmitDOMember(f) \/ EndProcessBuffers(f)

-----------------------------------------------------------------------------
(* The poll thread: join, wait for the measurement, evoke callbacks, leave.       *)

\* The federate has joined and retrieved the sync points.
EnterInitFederate(f) ==
  /\ mState[f] = "Offline"
  /\ mState' = [mState EXCEPT ![f] = "InitFederate"]
  /\ UNCHANGED <<phase, event, regVars, localVars, rtiVars, history, issued>>

\* Variant: the persistent registrations are not processed.
OnJoinedUnprocessed(f) ==
  /\ mState[f] = "InitFederate" /\ phase[f] = "idle"
  /\ Send(inbox, [Nothing EXCEPT ![f] =
       LET s == SetToSeq(objects) IN [i \in DOMAIN s |-> Discover(s[i])]])
  /\ phase' = [phase EXCEPT ![f] = "targets"]
  /\ UNCHANGED <<mState, regVars, localVars, objects, unsub, history, issued>>

\* OnJoined: PublishSubscribe lets the RTI announce the objects there are, and
\* ProcessPersistentRegistrations copies every registration into the buffers.
OnJoined(f) ==
  /\ mState[f] = "InitFederate" /\ phase[f] = "idle"
  /\ buffered' = [buffered EXCEPT ![f] = [k \in Kinds |-> @[k] \o persistent[f][k]]]
  /\ Send(inbox, [Nothing EXCEPT ![f] =
       LET s == SetToSeq(objects) IN [i \in DOMAIN s |-> Discover(s[i])]])
  /\ phase' = [phase EXCEPT ![f] = "targets"]
  /\ UNCHANGED <<mState, persistent, toTransmit, localVars, objects, unsub, history, issued>>

\* The loops of Connect that wait for the measurement evoke callbacks; they do not
\* process the buffers.
EvokeWhileWaiting(f) ==
  /\ mState[f] = "WaitForMeasurementInit"
  /\ evokeCallback(f)
  /\ UNCHANGED phase

MeasurementStarts(f) ==
  /\ mState[f] = "WaitForMeasurementInit"
  /\ mState' = [mState EXCEPT ![f] = "Online"]
  /\ event' = [event EXCEPT ![f] = TRUE]
  /\ UNCHANGED <<phase, regVars, localVars, rtiVars, history, issued>>

\* EvokeCallbacksOnEvent: the event wakes the thread, EvokeCallbacks calls the
\* callbacks until there are none, and then processes the buffers.
WaitForSingleEvent(f) ==
  /\ mState[f] = "Online" /\ phase[f] = "idle" /\ event[f]
  /\ event' = [event EXCEPT ![f] = FALSE]
  /\ phase' = [phase EXCEPT ![f] = "evoke"]
  /\ UNCHANGED <<mState, regVars, localVars, rtiVars, history, issued>>

EvokeCallbacks(f) ==
  /\ phase[f] = "evoke"
  /\ \/ /\ evokeCallback(f) /\ UNCHANGED phase
     \/ /\ inbox[f] = <<>>
        /\ phase' = [phase EXCEPT ![f] = "targets"]
        /\ UNCHANGED <<mState, event, regVars, localVars, rtiVars, history, issued>>

\* Variant: the last data is forgotten.
KeepNoLastData(f) == persistent[f]["source"]

\* The last data of the sources that can transmit goes into the persistent ones:
\* "LastData should survive any reset (measurementStop, connectionLost)".
KeepLastData(f) ==
  [i \in DOMAIN persistent[f]["source"] |->
     LET r == persistent[f]["source"][i]
         kept == {l \in Range(locals[f]["source"]) :
                    l.name = byHandle[f][r.handle] /\ l.last # 0}
     IN IF kept = {} THEN r ELSE [r EXCEPT !.last = (CHOOSE l \in kept : TRUE).last]]

\* The federate leaves: its services are reset, and the RTI deletes its objects.
Reset(f) ==
  /\ mState[f] \in {"WaitForMeasurementInit", "Online"} /\ phase[f] = "idle"
  /\ issued[f].leaves < MaxLeaves
  /\ issued' = [issued EXCEPT ![f].leaves = @ + 1]
  /\ mState' = [mState EXCEPT ![f] = "Offline"]
  /\ persistent' = [persistent EXCEPT ![f]["source"] = KeepLastData(f)]
  /\ buffered' = [buffered EXCEPT ![f] = [k \in Kinds |-> <<>>]]
  /\ toTransmit' = [toTransmit EXCEPT ![f] = <<>>]
  /\ locals' = [locals EXCEPT ![f] = [k \in Kinds |-> <<>>]]
  /\ byHandle' = [byHandle EXCEPT ![f] = [h \in Handles |-> NoName]]
  /\ remote' = [remote EXCEPT ![f] = {}]
  /\ callback' = [callback EXCEPT ![f] = 0]
  /\ got' = [got EXCEPT ![f] = NoValues]
  /\ LET gone == SetToSeq({o \in objects : Owner(o) = f})
         removals == [i \in DOMAIN gone |-> Removed(gone[i])]
     IN /\ objects' = {o \in objects : Owner(o) # f}
        /\ Send([inbox EXCEPT ![f] = <<>>],
                [g \in Federates |-> IF g \in Others(f) THEN removals ELSE <<>>])
  /\ unsub' = [unsub EXCEPT ![f] = {}]
  /\ UNCHANGED <<phase, written, lastSent>>

Thread(f) == \/ EnterInitFederate(f) \/ OnJoined(f) \/ ProcessBuffers(f)
             \/ EvokeWhileWaiting(f) \/ MeasurementStarts(f)
             \/ WaitForSingleEvent(f) \/ EvokeCallbacks(f)

-----------------------------------------------------------------------------
(* The application of a federate.                                               *)

\* ProcessBuffers holds the mutex of the buffer.
Processed(f, k) == phase[f] = (IF k = "source" THEN "sources" ELSE "targets")

\* Variant: the handle after the next one is given out.
RegisterSkipsHandle(f, k) ==
  /\ mState[f] \in RegisterIn /\ ~Processed(f, k)
  /\ issued[f][k] < MaxHandles
  /\ issued' = [issued EXCEPT ![f][k] = @ + 1]
  /\ persistent' = [persistent EXCEPT ![f][k] =
                      Append(@, [handle |-> issued[f][k] + 2, last |-> 0])]
  /\ UNCHANGED <<mState, phase, event, buffered, toTransmit, localVars, rtiVars, history>>

\* Variant: a registration goes into the short term buffer in every state.
RegisterAlwaysBuffered(f, k) ==
  /\ mState[f] \in RegisterIn /\ ~Processed(f, k)
  /\ issued[f][k] < MaxHandles
  /\ LET r == [handle |-> issued[f][k] + 1, last |-> 0]
     IN /\ issued' = [issued EXCEPT ![f][k] = @ + 1]
        /\ persistent' = [persistent EXCEPT ![f][k] = Append(@, r)]
        /\ buffered' = [buffered EXCEPT ![f][k] = Append(@, r)]
  /\ UNCHANGED <<mState, phase, event, toTransmit, localVars, rtiVars, history>>

\* Registered for good, and processed in the event loop in the states that have one.
Register(f, k) ==
  /\ mState[f] \in RegisterIn /\ ~Processed(f, k)
  /\ issued[f][k] < MaxHandles
  /\ LET r == [handle |-> issued[f][k] + 1, last |-> 0]
     IN /\ issued' = [issued EXCEPT ![f][k] = @ + 1]
        /\ persistent' = [persistent EXCEPT ![f][k] = Append(@, r)]
        /\ buffered' = IF mState[f] \in {"Online", "InitFederate"}
                         THEN [buffered EXCEPT ![f][k] = Append(@, r)] ELSE buffered
  /\ UNCHANGED <<mState, phase, event, toTransmit, localVars, rtiVars, history>>

HandleExists(f, k, h) == \E i \in Of(f, k, h) : locals[f][k][i].registered

\* Variant: the HLA object is not deleted.
EraseKeepsObject(f, k, h) ==
  /\ locals' = [locals EXCEPT ![f][k] = IF OfHandle(@, h) = {} THEN @
                                         ELSE RemoveAt(@, First(OfHandle(@, h)))]
  /\ byHandle' = IF k = "source" THEN [byHandle EXCEPT ![f][h] = NoName] ELSE byHandle
  /\ buffered' = [buffered EXCEPT ![f][k] = IF OfHandle(@, h) = {} THEN @
                                             ELSE RemoveAt(@, First(OfHandle(@, h)))]
  /\ UNCHANGED <<event, objects, inbox>>

\* The first entry of a handle is erased: from the buffer if it is still there, else
\* from the local members, and the HLA object is deleted if the federate is online.
\* deleteObjectInstance throws as long as there is no HLA object.
Erase(f, k, h) ==
  LET waits == OfHandle(buffered[f][k], h)
      members == Of(f, k, h)
      l == locals[f][k][First(members)]
      obj == [name |-> l.name, kind |-> k]
      online == mState[f] = "Online"
  IN IF waits # {}
       THEN /\ buffered' = [buffered EXCEPT ![f][k] = RemoveAt(@, First(waits))]
            /\ UNCHANGED <<event, locals, byHandle, objects, inbox>>
     ELSE IF members = {} \/ (online /\ ~l.registered)
       THEN UNCHANGED <<event, buffered, locals, byHandle, objects, inbox>>
     ELSE /\ locals' = [locals EXCEPT ![f][k] = RemoveAt(@, First(members))]
          /\ byHandle' = IF k = "source" THEN [byHandle EXCEPT ![f][h] = NoName] ELSE byHandle
          /\ objects' = IF online THEN objects \ {obj} ELSE objects
          /\ Send(inbox, IF online THEN ToOthers(f, Removed(obj)) ELSE Nothing)
          /\ UNCHANGED buffered

\* UnregisterDOMemberSource and UnregisterDOMemberTarget wait for the end of
\* EvokeCallbacks.  mLocalTargetCallbacks, a map by connection type and then by name,
\* is asked to erase the name at its first level: the callback stays installed.
Unregister(f, k, h) ==
  /\ mState[f] \in UnregisterIn
  /\ mState[f] = "Online" => phase[f] = "idle"
  /\ ~Processed(f, k)
  /\ OfHandle(persistent[f][k], h) # {}
  /\ EarlyUnregister \/ Of(f, k, h) = {} \/ HandleExists(f, k, h)
  /\ persistent' = [persistent EXCEPT ![f][k] = RemoveAt(@, First(OfHandle(@, h)))]
  /\ Erase(f, k, h)
  /\ UNCHANGED <<mState, phase, toTransmit, remote, callback, unsub, history, issued>>

\* Variant: the poll thread is not signalled.
TransmitDOMemberUnsignalled(f, h) ==
  /\ h <= issued[f]["source"] /\ phase[f] # "transmits"
  /\ issued[f].values < MaxValues
  /\ issued' = [issued EXCEPT ![f].values = @ + 1]
  /\ toTransmit' = [toTransmit EXCEPT ![f] =
                      Append(@, [handle |-> h, value |-> issued'[f].values])]
  /\ UNCHANGED <<event, mState, phase, persistent, buffered, localVars, rtiVars, history>>

TransmitDOMember(f, h) ==
  /\ h <= issued[f]["source"] /\ phase[f] # "transmits"
  /\ issued[f].values < MaxValues
  /\ issued' = [issued EXCEPT ![f].values = @ + 1]
  /\ toTransmit' = [toTransmit EXCEPT ![f] =
                      Append(@, [handle |-> h, value |-> issued'[f].values])]
  /\ event' = [event EXCEPT ![f] = @ \/ mState[f] = "Online"]
  /\ UNCHANGED <<mState, phase, persistent, buffered, localVars, rtiVars, history>>

Application(f) ==
  \/ f \in Providers /\ Register(f, "source")
  \/ f \in Consumers /\ Register(f, "target")
  \/ \E k \in Kinds, h \in Handles : Unregister(f, k, h)
  \/ \E h \in Handles : TransmitDOMember(f, h)

-----------------------------------------------------------------------------
Init ==
  LET none == [f \in Federates |-> [k \in Kinds |-> <<>>]]
  IN /\ mState = [f \in Federates |-> "Offline"]
     /\ phase = [f \in Federates |-> "idle"]
     /\ event = [f \in Federates |-> FALSE]
     /\ persistent = none /\ buffered = none /\ locals = none
     /\ toTransmit = [f \in Federates |-> <<>>]
     /\ byHandle = [f \in Federates |-> [h \in Handles |-> NoName]]
     /\ remote = [f \in Federates |-> {}]
     /\ callback = [f \in Federates |-> 0]
     /\ objects = {}
     /\ unsub = [f \in Federates |-> {}]
     /\ inbox = Nothing
     /\ got = [f \in Federates |-> NoValues]
     /\ written = NoValues
     /\ lastSent = [f \in Federates |-> [h \in Handles |-> 0]]
     /\ issued = [f \in Federates |-> [c \in Counters |-> 0]]

Next == \E f \in Federates : Thread(f) \/ Reset(f) \/ Application(f)

Spec == Init /\ [][Next]_vars

\* The poll threads run, the RTI delivers, federates that were started join, and the
\* measurement they wait for starts.  Nobody has to leave, register or transmit.
FairSpec == Spec /\ \A f \in Federates : WF_vars(Thread(f))
-----------------------------------------------------------------------------
(* Properties.                                                                  *)

\* Every variable has the values its declaration in the code allows.
TypeOK ==
  /\ mState \in [Federates -> States]
  /\ phase \in [Federates -> {"idle", "evoke", "targets", "sources", "transmits"}]
  /\ event \in [Federates -> BOOLEAN]
  /\ persistent \in [Federates -> [Kinds -> Seq(Registration)]]
  /\ buffered \in [Federates -> [Kinds -> Seq(Registration)]]
  /\ locals \in [Federates -> [Kinds -> Seq(Local)]]
  /\ toTransmit \in [Federates -> Seq([handle : Handles, value : 1..MaxValues])]
  /\ byHandle \in [Federates -> [Handles -> Names \cup {NoName}]]
  /\ remote \in [Federates -> SUBSET Objects]
  /\ callback \in [Federates -> 0..MaxHandles]
  /\ objects \subseteq Objects
  /\ unsub \in [Federates -> SUBSET Objects]
  /\ inbox \in [Federates -> Seq(Message)]
  /\ got \in [Federates -> [Names -> 0..MaxValues]]
  /\ written \in [Names -> 0..MaxValues]
  /\ lastSent \in [Federates -> [Handles -> 0..MaxValues]]
  /\ issued \in [Federates -> [Counters -> Nat]]

\* Nothing is on the way or buffered: every poll thread sleeps or has left.
Quiet == \A f \in Federates :
  /\ phase[f] = "idle" /\ ~(mState[f] = "Online" /\ event[f])
  /\ mState[f] # "InitFederate"
  /\ inbox[f] = <<>>

\* When everything has settled, the callback of a target has last been called with the
\* last data of every source of the name, whoever came first, however the
\* unsubscription of federates without a target and the late registration of targets
\* interleaved with the transmissions (DOService.cpp, HandleDOSourceObjectUpdate and
\* RegisterBufferedDOTarget).
TargetsConverge ==
  Quiet => \A f, g \in Federates :
    f # g /\ Joined(f) /\ locals[f]["target"] # <<>> =>
      \A l \in Range(locals[g]["source"]) : l.registered => got[f][l.name] = l.last

\* When everything has settled, a federate knows exactly the sources and targets that
\* exist elsewhere: what BySourceUUID registrations and discovery rely on.
RemoteViewIsExact ==
  Quiet => \A f \in Federates :
    Joined(f) => remote[f] = {o \in objects : Owner(o) # f}

\* An HLA object belongs to a registration that was not taken back: unregistering a
\* source or a target takes its object out of the federation ("Delete HLA Object").
ObjectsHaveRegistrations ==
  \A o \in objects : \E l \in Range(locals[Owner(o)][o.kind]) :
    /\ l.name = o.name
    /\ \E r \in Range(persistent[Owner(o)][o.kind]) : r.handle = l.handle

\* "Create one HLA object per source": a registration never has two.
OneObjectPerRegistration ==
  \A f \in Federates, k \in Kinds, h \in Handles :
    Cardinality({i \in Of(f, k, h) : locals[f][k][i].registered}) <= 1

\* "LastData should survive any reset": a source that can transmit holds what was last
\* transmitted through its handle, in this federation or in an earlier one.
LastDataSurvives ==
  \A f \in Federates : \A l \in Range(locals[f]["source"]) :
    byHandle[f][l.handle] = l.name => l.last = lastSent[f][l.handle]

\* The callback of a target that was unregistered is not called any more ("Remove from
\* maps", UnregisterDOMemberTarget).
UnregisteredIsSilent ==
  [][\A f \in Federates : got'[f] \notin {got[f], NoValues} =>
       \E r \in Range(persistent[f]["target"]) : r.handle = callback[f]]_vars

\* A registration gets its HLA object ("Processed when federation is joined").
RegistrationsAreProcessed ==
  \A f \in Federates, k \in Kinds, h \in Handles :
    (\E r \in Range(persistent[f][k]) : r.handle = h) ~>
      (HandleExists(f, k, h) \/ ~\E r \in Range(persistent[f][k]) : r.handle = h)

\* What is transmitted through a registered handle leaves the buffer: it is sent, or
\* the federate leaves.
TransmissionsAreSent ==
  \A f \in Federates, h \in Handles, v \in 1..MaxValues :
    (\E t \in Range(toTransmit[f]) : t.handle = h /\ t.value = v /\ byHandle[f][h] # NoName) ~>
      ~\E t \in Range(toTransmit[f]) : t.handle = h /\ t.value = v /\ byHandle[f][h] # NoName

\* The promise to the users of data objects, see LastValue.
Promise == INSTANCE LastValue WITH Readers <- Federates
PromiseKept == Promise!Spec

=============================================================================
