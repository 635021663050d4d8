------------------------------ MODULE BusMessages ------------------------------
(* The bus messages of one federate (BusService.cpp): its application registers  *)
(* handlers for the messages of a network, the service subscribes filters at the *)
(* RTI and hands what arrives to the handlers.  All messages are CAN messages,   *)
(* and one bus controller stands for each network.  Other federates subscribe and  *)
(* send too.  Every network has a bus simulator; how simulators come and go is not  *)
(* modelled.                                                                        *)
EXTENDS Naturals, Sequences, FiniteSets

CONSTANTS
  RxTx, TxReq, WithId, \* networks the application registers handlers for: for received
                       \* messages, for requests to transmit, for requests with one id
  MessageIds, NoId,    \* ids of messages, and what stands for any id
  Waits,               \* IBConfig::WaitForMeasurementStart
  RegisterIn,          \* states of the ambassador in which the application registers
  UnregisterIn,        \* ... and unregisters
  InCallback,          \* which of the two it also does while callbacks are being called
  Uses,                \* kinds of filters that come together at the RTI, see use
  FederateHandle,      \* the number of the federate's own handle
  MaxHandles,          \* bound: registrations
  MaxMessages,         \* bound: messages
  MaxObjects,          \* bound: controllers of other federates, in each federation
  MaxJoins             \* bound: federations joined

Networks == RxTx \cup TxReq \cup WithId
States == {"Offline", "Connected", "InitFederate", "WaitForMeasurementInit", "Online"}

FilterUses == {"networks", "ids", "keeps", "mixes", "otherIds"}
Values == Networks \cup BOOLEAN \cup MessageIds

ASSUME NetworksAssumption == IsFiniteSet(Networks) /\ NoId \notin Values
ASSUME StatesAssumption == /\ RegisterIn \subseteq States /\ UnregisterIn \subseteq States
                           /\ Waits \in BOOLEAN /\ InCallback \subseteq {"register", "unregister"}
                           /\ Uses \subseteq FilterUses
ASSUME BoundsAssumption == {FederateHandle, MaxHandles, MaxMessages, MaxObjects, MaxJoins} \subseteq Nat

VARIABLES
  use,           \* which of Uses this federate and the others are
  mState,        \* state of the ambassador; "Connected": not in a federation yet
  initialized,   \* the interaction classes of the events are known
  handlers,      \* mBusMessageHandler and mBusMessageHandlerByID
  given,         \* handles the application holds
  senders,       \* networks whose controller has a CANMessageSender
  published,     \* mBusMessagePublications
  subscriptions, \* mBusMessageSubscriptions and mBusMessageSubscriptionsByID
  rti,           \* the subscription in the RTI ambassador and at the RTI server, see NotSubscribed
  reservations,  \* networks whose controller's name is in mInstanceNameReservations
  object,        \* mControllerObjectInstanceHandle of the controllers, 0 if invalid
  since,         \* history: the federation that object belongs to
  federation,    \* object handles of the federation: how many, and which are not ours
  inbox,         \* callbacks on the way from the RTI
  dispatch,      \* where receiveInteraction or OnJoined is
  issued,        \* counters: handles, messages and federations joined so far
  lastCall,      \* history: what the last callback was told
  missed,        \* history: handlers that did not get a message that was due
  errors         \* history: what has gone wrong

callVars == <<inbox, dispatch, lastCall, missed>>
objectVars == <<object, since, federation>>
vars == <<use, mState, initialized, handlers, given, senders, published, subscriptions, rti,
          reservations, objectVars, callVars, issued, errors>>

-----------------------------------------------------------------------------
(* Data. *)

Filters == [network : Networks, request : BOOLEAN, id : MessageIds \cup {NoId}]
Handlers == [handle : 1..MaxHandles, filter : Filters]
Messages == [type : {"message"}, network : Networks, request : BOOLEAN, id : MessageIds,
             sender : Nat, own : BOOLEAN, known : BOOLEAN, due : SUBSET (1..MaxHandles)]
Callbacks == [type : {"reserved"}, network : Networks] \cup Messages
Idle == [stage |-> "none", msg |-> <<>>, at |-> 0, todo |-> {}, called |-> {}]
NoCall == [generic |-> FALSE, own |-> FALSE, self |-> FALSE, known |-> FALSE]

\* What the application may register.  RegisterBusMessageRxTxWithMessageId calls the
\* service's RegisterBusMessageTxReqWithMessageId too.
Wanted == [network : RxTx, request : {FALSE}, id : {NoId}]
          \cup [network : TxReq, request : {TRUE}, id : {NoId}]
          \cup [network : WithId, request : {TRUE}, id : MessageIds]

Covers(f, m) == f.network = m.network /\ f.request = m.request /\ f.id \in {NoId, m.id}
Handles(H) == {h.handle : h \in H}
Least(S) == CHOOSE i \in S : \A j \in S : i <= j
GenericHandlers(m) == {h \in handlers : Covers(h.filter, m) /\ h.filter.id = NoId}
HandlersByID(m) == {h \in handlers : Covers(h.filter, m) /\ h.filter.id # NoId}

\* GetState() of the ambassador as BusService::IsFederationJoined reads it: a federate
\* that waits for the measurement has joined all the same.
IsFederationJoined == mState \in {"InitFederate", "Online"}
Joined == mState \in {"InitFederate", "WaitForMeasurementInit", "Online"}

-----------------------------------------------------------------------------
(* The RTI.  The ambassador keeps the filters of the class and tells the server   *)
(* only what changes them.  The server keeps them as a set of tuples with an index, *)
(* and unsubscribing the class clears it.                                          *)

Tuples == INSTANCE TupleSets WITH NoValue <- NoId

\* Filters with an id name one parameter more.
NetworkParameters == {"network", "request"}
Parameters == NetworkParameters \cup {"id"}
Named(f) == IF f.id = NoId THEN NetworkParameters ELSE Parameters

\* The values of a filter or a message, once the parameters are known; NoId where the
\* filter has none.
Tuple(columns, f) == [p \in columns |-> f[p]]

\* The ambassador's filters and its subscription; at the server of the federation the set
\* of this connect, which is empty without a subscription, and the prototype, the
\* parameters any filter of any federate has named.
NotSubscribed == [client |-> {}, active |-> FALSE, set |-> Tuples!EmptySet, prototype |-> {}]

\* A filter the ambassador has already is not sent to the server.
SubscribeFilter(r, f) ==
  LET columns == r.prototype \cup Named(f)
  IN IF f \in r.client THEN [r EXCEPT !.active = TRUE]
     ELSE [client |-> r.client \cup {f}, active |-> TRUE,
           set |-> Tuples!AddFilter(r.set, Tuple(columns, f)), prototype |-> columns]

\* The subscription ends with the last filter at the ambassador, not at the server.
UnsubscribeFilter(r, f) ==
  [r EXCEPT !.client = @ \ {f}, !.active = @ /\ r.client \ {f} # {},
            !.set = IF f \in r.client THEN Tuples!RemoveFilter(@, Tuple(r.prototype, f)) ELSE @]

UnsubscribeClass(r) ==
  [r EXCEPT !.active = FALSE, !.set = IF r.active THEN Tuples!EmptySet ELSE @]

\* isMatching: a set without filters matches everything.
Matches(T, tuple) == T.rows # <<>> => Tuples!FindNormalized(T, tuple)

\* The server passes a message of another federate on if the set of this one matches it,
\* the ambassador drops it if it has not subscribed the class.
Delivered(m) ==
  rti.set # Tuples!EmptySet /\ Matches(rti.set, Tuple(rti.prototype, m)) /\ rti.active

-----------------------------------------------------------------------------
(* Publications and subscriptions of the service.  It remembers networks and ids, *)
(* not whether the messages or the requests are subscribed.                       *)

IsNetworkSubscribed(n) == n \in subscriptions.networks
IsMessageSubscribed(n, i) == <<n, i>> \in subscriptions.ids

\* SubscribeNetwork or SubscribeMessageId.
Subscribe(f) ==
  /\ rti' = IF f.id # NoId /\ IsMessageSubscribed(f.network, f.id) THEN rti ELSE SubscribeFilter(rti, f)
  /\ subscriptions' = IF f.id = NoId THEN [subscriptions EXCEPT !.networks = @ \cup {f.network}]
                                     ELSE [subscriptions EXCEPT !.ids = @ \cup {<<f.network, f.id>>}]

\* UnsubscribeNetwork: for the ambassador r and the recorded networks.
UnsubscribeNetwork(f) ==
  IF IsFederationJoined /\ IsNetworkSubscribed(f.network)
    THEN [rti |-> UnsubscribeFilter(rti, f),
          subs |-> [subscriptions EXCEPT !.networks = @ \ {f.network}]]
    ELSE [rti |-> rti, subs |-> subscriptions]

\* UnsubscribeMessageId.
UnsubscribeMessageId(f) ==
  IF IsFederationJoined /\ IsMessageSubscribed(f.network, f.id)
    THEN [rti |-> UnsubscribeFilter(rti, f),
          subs |-> [subscriptions EXCEPT !.ids = @ \ {<<f.network, f.id>>}]]
    ELSE [rti |-> rti, subs |-> subscriptions]

-----------------------------------------------------------------------------
(* The application: registering and unregistering handlers, sending messages.     *)

Between(operation) ==
  \/ dispatch.stage = "none"
  \/ dispatch.stage \in {"generic", "byId"} /\ operation \in InCallback

\* What the filters at the RTI have in common: networks only, ids only, both but never
\* taken back, both and taken back; or networks here and ids elsewhere.
MayWant(f) == use \in (IF f.id = NoId THEN FilterUses \ {"ids"} ELSE {"ids", "keeps", "mixes"})
MayUnregister == Joined => use # "keeps"
OthersName == IF use \in {"ids", "otherIds"} THEN {NetworkParameters, Parameters} ELSE {NetworkParameters}

\* reserveObjectInstanceName for the controller of network n.  A reservation under way
\* fails at once, without effect; the ambassador throws if it is in no federation.
ReserveName(n) ==
  /\ reservations' = reservations \cup {n}
  /\ inbox' = IF n \notin reservations /\ Joined
                THEN Append(inbox, [type |-> "reserved", network |-> n]) ELSE inbox

\* Variant: the handle is what the counter was, so that the first one is invalid.
OldHandle == issued.handles

\* ++mCurrentCallbackHandle.
NewHandle == issued.handles + 1

\* RegisterBusMessage, RegisterBusMessageTxReq and ...TxReqWithMessageId: the sender
\* publishes, the handler is entered and subscribed, the name of the controller is
\* reserved.  An exception leaves the handler registered and the caller without handle.
Register(f) ==
  /\ mState \in RegisterIn /\ Between("register") /\ MayWant(f) /\ issued.handles < MaxHandles
  /\ LET handle == NewHandle
         throws == f.network \notin reservations /\ ~Joined
     IN /\ handlers' = handlers \cup {[handle |-> handle, filter |-> f]}
        /\ given' = IF throws THEN given ELSE given \cup {handle}
        /\ issued' = [issued EXCEPT !.handles = @ + 1]
        /\ errors' = errors \cup (IF throws THEN {"notJoined"} ELSE {})
                            \cup (IF IsFederationJoined /\ ~initialized THEN {"uninitialized"} ELSE {})
  /\ senders' = senders \cup {f.network}
  /\ IF IsFederationJoined THEN published' = TRUE /\ Subscribe(f)
                           ELSE UNCHANGED <<published, subscriptions, rti>>
  /\ ReserveName(f.network)
  /\ UNCHANGED <<use, mState, initialized, objectVars, dispatch, lastCall, missed>>

\* Variant: the network is unsubscribed although it has other handlers.
UnregisterAlways(h) ==
  /\ mState \in UnregisterIn /\ Between("unregister") /\ MayUnregister /\ h.handle \in given
  /\ LET left == handlers \ {h}
         unsub == IF h.filter.id = NoId THEN UnsubscribeNetwork(h.filter)
                                        ELSE UnsubscribeMessageId(h.filter)
     IN /\ handlers' = left
        /\ subscriptions' = unsub.subs
        /\ rti' = IF left = {} THEN UnsubscribeClass(unsub.rti) ELSE unsub.rti
        /\ errors' = errors \cup (IF left = {} /\ ~Joined THEN {"notJoined"} ELSE {})
  /\ given' = given \ {h.handle}
  /\ UNCHANGED <<use, mState, initialized, senders, published, reservations, objectVars, callVars, issued>>

\* UnregisterBusMessage: with the last handler of its list goes the subscription, with
\* the last one of all the subscription of the class.
Unregister(h) ==
  /\ mState \in UnregisterIn /\ Between("unregister") /\ MayUnregister /\ h.handle \in given
  /\ LET left == handlers \ {h}
         last == \A g \in left : g.filter # h.filter
         unsub == IF ~last THEN [rti |-> rti, subs |-> subscriptions]
                  ELSE IF h.filter.id = NoId THEN UnsubscribeNetwork(h.filter)
                  ELSE UnsubscribeMessageId(h.filter)
     IN /\ handlers' = left
        /\ subscriptions' = unsub.subs
        /\ rti' = IF left = {} THEN UnsubscribeClass(unsub.rti) ELSE unsub.rti
        /\ errors' = errors \cup (IF left = {} /\ ~Joined THEN {"notJoined"} ELSE {})
  /\ given' = given \ {h.handle}
  /\ UNCHANGED <<use, mState, initialized, senders, published, reservations, objectVars, callVars, issued>>

Message(n, request, i, sender, own) ==
  LET m == [network |-> n, request |-> request, id |-> i]
  IN [type |-> "message", network |-> n, request |-> request, id |-> i, sender |-> sender,
      own |-> own, known |-> own => since[n] = issued.joins,
      due |-> IF mState = "Online" THEN Handles({h \in handlers : Covers(h.filter, m)}) ELSE {}]

\* CanBusControllerEncoding::Send and CANMessageSender::send on network n, which has a bus
\* simulator (without one nothing is sent); whether it goes out as a request is up to the
\* simulator.  The ambassador delivers it to its own federate whatever the filters are,
\* and throws if the class is not published.
Send(n, request, i) ==
  /\ mState = "Online" /\ n \in senders /\ issued.messages < MaxMessages
  /\ issued' = [issued EXCEPT !.messages = @ + 1]
  /\ errors' = errors \cup (IF published THEN {} ELSE {"notPublished"})
  /\ LET m == Message(n, request, i, object[n], TRUE)
     IN /\ inbox' = IF published /\ rti.active THEN Append(inbox, m) ELSE inbox
        /\ missed' = IF published /\ ~rti.active THEN missed \cup m.due ELSE missed
  /\ UNCHANGED <<use, mState, initialized, handlers, given, senders, published, subscriptions, rti,
                 reservations, objectVars, dispatch, lastCall>>

-----------------------------------------------------------------------------
(* The other federates: they register controllers and send messages.  A simulator *)
(* sends, in the name of the controller that asked for it, what was requested.     *)

OwnObject(n) == IF since[n] = issued.joins THEN {object[n]} ELSE {}

OthersRegister ==
  /\ Joined /\ Cardinality(federation.foreign) < MaxObjects
  /\ federation' = [last |-> federation.last + 1, foreign |-> federation.foreign \cup {federation.last + 1}]
  /\ UNCHANGED <<use, mState, initialized, handlers, given, senders, published, subscriptions, rti,
                 reservations, object, since, callVars, issued, errors>>

\* Another federate subscribes with a filter that names these parameters.  The server then
\* resizes the sets of the other connects, if it is not the first one of its federate.
OthersSubscribe(named, first) ==
  /\ Joined /\ (first \/ rti.prototype # {})
  /\ LET columns == rti.prototype \cup named
     IN rti' = [rti EXCEPT !.prototype = columns,
                  !.set = IF first \/ @ = Tuples!EmptySet THEN @ ELSE Tuples!SetTupleSize(@, columns)]
  /\ UNCHANGED <<use, mState, initialized, handlers, given, senders, published, subscriptions,
                 reservations, objectVars, callVars, issued, errors>>

\* Whether the message is passed on to this federate is up to its filters.
OthersSend(n, request, i, sender) ==
  /\ Joined /\ issued.messages < MaxMessages
  /\ issued' = [issued EXCEPT !.messages = @ + 1]
  /\ LET m == Message(n, request, i, sender, sender \in OwnObject(n))
     IN /\ inbox' = IF Delivered(m) THEN Append(inbox, m) ELSE inbox
        /\ missed' = IF Delivered(m) THEN missed ELSE missed \cup m.due
  /\ UNCHANGED <<use, mState, initialized, handlers, given, senders, published, subscriptions, rti,
                 reservations, objectVars, dispatch, lastCall, errors>>

-----------------------------------------------------------------------------
(* The poll thread: callbacks.                                                    *)

keptByCallbacks == <<use, mState, initialized, handlers, given, senders, published, subscriptions,
                     rti, issued>>

\* objectInstanceNameReservationSucceeded or ...Failed, with
\* OnBusControllerObjectReservationCompleted: the name is free unless this federate has
\* registered the object before.
ReservationCompleted ==
  /\ dispatch.stage = "none" /\ Joined /\ inbox # <<>> /\ Head(inbox).type = "reserved"
  /\ LET n == Head(inbox).network
     IN /\ reservations' = reservations \ {n}
        /\ IF since[n] = issued.joins THEN UNCHANGED objectVars
           ELSE /\ federation' = [federation EXCEPT !.last = @ + 1]
                /\ object' = [object EXCEPT ![n] = federation.last + 1]
                /\ since' = [since EXCEPT ![n] = issued.joins]
  /\ inbox' = Tail(inbox)
  /\ UNCHANGED <<keptByCallbacks, dispatch, lastCall, missed, errors>>

\* receiveInteraction begins.
receiveInteraction ==
  /\ dispatch.stage = "none" /\ Joined /\ inbox # <<>> /\ Head(inbox).type = "message"
  /\ dispatch' = [Idle EXCEPT !.stage = "generic", !.msg = Head(inbox)]
  /\ inbox' = Tail(inbox)
  /\ UNCHANGED <<keptByCallbacks, reservations, objectVars, lastCall, missed, errors>>

\* A handler with an id is told that a message is its own if the handle of the sender's
\* object, decoded as the handle of a federate, is the one of this federate.
RequestedBySelfByID(m) == m.sender # 0 /\ m.sender = FederateHandle

\* A generic handler is told so if the sender's object is the one of its controller.
RequestedBySelf(m) == m.sender # 0 /\ m.sender = object[m.network]

\* mMsgCallback of the handler with this handle.
Call(handle, generic, self) ==
  /\ lastCall' = [generic |-> generic, own |-> dispatch.msg.own, self |-> self,
                  known |-> dispatch.msg.known /\ since[dispatch.msg.network] = issued.joins]
  /\ errors' = errors \cup (IF handle \in Handles(handlers) THEN {} ELSE {"late"})

\* The generic handlers, iterated where they are: the next one, or on to those with an
\* id, whose list is copied.  It is undefined what follows an element that is gone.
NextGeneric ==
  /\ dispatch.stage = "generic"
  /\ LET list == Handles(GenericHandlers(dispatch.msg))
         next == {i \in list : i > dispatch.at}
     IN IF dispatch.at # 0 /\ dispatch.at \notin list
          THEN /\ errors' = errors \cup {"dangling"}
               /\ dispatch' = Idle
               /\ UNCHANGED lastCall
        ELSE IF next # {}
          THEN /\ dispatch' = [dispatch EXCEPT !.at = Least(next), !.called = @ \cup {Least(next)}]
               /\ Call(Least(next), TRUE, RequestedBySelf(dispatch.msg))
        ELSE /\ dispatch' = [dispatch EXCEPT !.stage = "byId",
                                             !.todo = Handles(HandlersByID(dispatch.msg))]
             /\ UNCHANGED <<lastCall, errors>>
  /\ UNCHANGED <<keptByCallbacks, reservations, objectVars, inbox, missed>>

\* The handlers with the id of the message, from the copy of their list.
NextByID ==
  /\ dispatch.stage = "byId" /\ dispatch.todo # {}
  /\ LET next == Least(dispatch.todo)
     IN /\ dispatch' = [dispatch EXCEPT !.todo = @ \ {next}, !.called = @ \cup {next}]
        /\ Call(next, FALSE, RequestedBySelfByID(dispatch.msg))
  /\ UNCHANGED <<keptByCallbacks, reservations, objectVars, inbox, missed>>

EndReceive ==
  /\ dispatch.stage = "byId" /\ dispatch.todo = {}
  /\ missed' = missed \cup ((dispatch.msg.due \cap Handles(handlers)) \ dispatch.called)
  /\ dispatch' = Idle
  /\ UNCHANGED <<keptByCallbacks, reservations, objectVars, inbox, lastCall, errors>>

evokeCallback == \/ ReservationCompleted \/ receiveInteraction
                 \/ NextGeneric \/ NextByID \/ EndReceive

-----------------------------------------------------------------------------
(* The poll thread: coming and going.                                             *)

keptByStates == <<use, handlers, given, senders, object, since, dispatch, lastCall, missed, errors>>

Connect ==
  /\ mState = "Offline" /\ issued.joins < MaxJoins
  /\ mState' = "Connected"
  /\ UNCHANGED <<keptByStates, initialized, published, subscriptions, rti, reservations,
                 federation, inbox, issued>>

\* Every federation the federate joins is a new one, with object handles of its own.
JoinFederation ==
  /\ mState = "Connected"
  /\ mState' = "InitFederate"
  /\ issued' = [issued EXCEPT !.joins = @ + 1]
  /\ UNCHANGED <<keptByStates, initialized, published, subscriptions, rti, reservations,
                 federation, inbox>>

\* OnJoined: InitializeHandles, and PublishSubscribe for all that is registered.
OnJoined ==
  /\ mState = "InitFederate" /\ dispatch.stage = "none"
  /\ initialized' = TRUE
  /\ dispatch' = [Idle EXCEPT !.stage = "subscribe", !.todo = {h.filter : h \in handlers}]
  /\ UNCHANGED <<use, mState, handlers, given, senders, published, subscriptions, rti, reservations,
                 objectVars, inbox, lastCall, missed, issued, errors>>

\* The filters without an id first.
SubscribeNext(f) ==
  /\ dispatch.stage = "subscribe" /\ f \in dispatch.todo
  /\ f.id # NoId => \A g \in dispatch.todo : g.id # NoId
  /\ Subscribe(f)
  /\ dispatch' = [dispatch EXCEPT !.todo = @ \ {f}]
  /\ UNCHANGED <<use, mState, initialized, handlers, given, senders, published, reservations,
                 objectVars, inbox, lastCall, missed, issued, errors>>

\* Then the ambassador waits for the measurement or is online.
EndOnJoined ==
  /\ dispatch.stage = "subscribe" /\ dispatch.todo = {}
  /\ published' = (published \/ senders # {})
  /\ mState' = IF Waits THEN "WaitForMeasurementInit" ELSE "Online"
  /\ dispatch' = Idle
  /\ UNCHANGED <<use, initialized, handlers, given, senders, subscriptions, rti, reservations,
                 objectVars, inbox, lastCall, missed, issued, errors>>

MeasurementInit ==
  /\ mState = "WaitForMeasurementInit" /\ dispatch.stage = "none"
  /\ mState' = "Online"
  /\ UNCHANGED <<keptByStates, initialized, published, subscriptions, rti, reservations,
                 federation, inbox, issued>>

\* Variant: the service does not forget what it had subscribed.
LeaveWithoutReset ==
  /\ mState # "Offline" /\ dispatch.stage = "none"
  /\ mState' = "Offline"
  /\ published' = FALSE
  /\ rti' = NotSubscribed
  /\ reservations' = {} /\ inbox' = <<>>
  /\ federation' = [last |-> 0, foreign |-> {}]
  /\ UNCHANGED <<keptByStates, initialized, subscriptions, issued>>

\* The measurement ends or the connection is lost: Reset of the service, and of the
\* ambassador's reservations.  The objects of the controllers keep their old handles.
Leave ==
  /\ mState # "Offline" /\ dispatch.stage = "none"
  /\ mState' = "Offline"
  /\ published' = FALSE
  /\ subscriptions' = [networks |-> {}, ids |-> {}]
  /\ rti' = NotSubscribed
  /\ reservations' = {} /\ inbox' = <<>>
  /\ federation' = [last |-> 0, foreign |-> {}]
  /\ UNCHANGED <<keptByStates, initialized, issued>>

-----------------------------------------------------------------------------
Init ==
  /\ use \in Uses
  /\ mState = "Offline" /\ initialized = FALSE
  /\ handlers = {} /\ given = {} /\ senders = {} /\ published = FALSE
  /\ subscriptions = [networks |-> {}, ids |-> {}]
  /\ rti = NotSubscribed /\ reservations = {}
  /\ object = [n \in Networks |-> 0] /\ since = [n \in Networks |-> 0]
  /\ federation = [last |-> 0, foreign |-> {}]
  /\ inbox = <<>> /\ dispatch = Idle /\ lastCall = NoCall /\ missed = {}
  /\ issued = [handles |-> 0, messages |-> 0, joins |-> 0]
  /\ errors = {}

Application == \/ \E f \in Wanted : Register(f)
               \/ \E h \in handlers : Unregister(h)
               \/ \E n \in Networks, request \in BOOLEAN, i \in MessageIds : Send(n, request, i)

Others == \/ OthersRegister
          \/ \E named \in OthersName, first \in BOOLEAN : OthersSubscribe(named, first)
          \/ \E n \in Networks, request \in BOOLEAN, i \in MessageIds :
               \E sender \in federation.foreign \cup OwnObject(n) \cup {0} :
                 OthersSend(n, request, i, sender)

ChangesOfState == \/ Connect \/ JoinFederation \/ OnJoined \/ EndOnJoined
                  \/ \E f \in Wanted : SubscribeNext(f)
                  \/ MeasurementInit \/ Leave

Next == Application \/ Others \/ evokeCallback \/ ChangesOfState

Spec == Init /\ [][Next]_vars

-----------------------------------------------------------------------------
(* Properties. *)

\* The type invariant of the bus messages.
TypeOK ==
  /\ use \in Uses /\ mState \in States /\ initialized \in BOOLEAN
  /\ handlers \subseteq Handlers /\ given \subseteq Handles(handlers)
  /\ senders \subseteq Networks /\ published \in BOOLEAN
  /\ subscriptions \in [networks : SUBSET Networks, ids : SUBSET (Networks \X MessageIds)]
  /\ rti \in [client : SUBSET Filters, active : BOOLEAN, set : {rti.set}, prototype : SUBSET Parameters]
  /\ rti.set.columns \subseteq Parameters /\ Tuples!IsTupleSet(rti.set)
  /\ reservations \subseteq Networks /\ inbox \in Seq(Callbacks)
  /\ object \in [Networks -> Nat] /\ since \in [Networks -> 0..MaxJoins]
  /\ federation \in [last : Nat, foreign : SUBSET Nat]
  /\ issued \in [handles : 0..MaxHandles, messages : 0..MaxMessages, joins : 0..MaxJoins]
  /\ dispatch.stage \in {"none", "subscribe", "generic", "byId"}
  /\ dispatch.stage = "none" => dispatch = Idle
  /\ dispatch.stage = "subscribe" =>
       dispatch \in [stage : {"subscribe"}, msg : {<<>>}, at : {0}, todo : SUBSET Filters, called : {{}}]
  /\ dispatch.stage \in {"generic", "byId"} =>
       dispatch \in [stage : {"generic", "byId"}, msg : Messages, at : 0..MaxHandles,
                    todo : SUBSET (1..MaxHandles), called : SUBSET (1..MaxHandles)]

\* While a federate is online, the filters at its ambassador are those of its handlers, and
\* the server's index finds just what they cover: nothing a handler waits for is held back,
\* in this federation or the next, whatever the others subscribe, and nothing else is sent.
FiltersAreExact ==
  mState = "Online" =>
    /\ rti.client = {h.filter : h \in handlers}
    /\ \A m \in [network : Networks, request : BOOLEAN, id : MessageIds] :
         Delivered(m) <=> \E h \in handlers : Covers(h.filter, m)

\* What another federate sends, or the federate itself, while a handler for it is
\* registered online reaches this handler, unless it is unregistered before.
HandlersGetMessages == missed = {}

\* A generic handler whose controller has its object in this federation is told that a
\* message was requested by itself exactly if its controller sent it or asked for it.
RequestedBySelfIsRight ==
  lastCall.generic /\ lastCall.known => lastCall.self = lastCall.own

\* A controller of a federate that is online never sends a class that is not published.
SendsArePublished == "notPublished" \notin errors

\* BusService.cpp, "copy the handler list, it may get modified in a callback": no list is
\* iterated past an element that is gone.
NoIteratorDangles == "dangling" \notin errors

\* A handler that has been unregistered is not called any more.
UnregisteredIsSilent == "late" \notin errors

\* PublishSubscribe sets up "all bus messages registered meanwhile (before join)": a
\* registration before the federation is joined succeeds.
RegistersBeforeJoin == "notJoined" \notin errors

\* A handler of a message with an id, too, is told that it was requested by itself
\* exactly if its controller sent it.
RequestedBySelfByIDIsRight ==
  ~lastCall.generic /\ lastCall.known => lastCall.self = lastCall.own

\* A handler is never told that a message was requested by itself that its controller did
\* not send, whatever federation the controller's object belongs to.
ForeignIsNotSelf == lastCall.generic /\ lastCall.self => lastCall.own
=============================================================================
