----------------------------- MODULE FieldCalls -----------------------------
(* One field of the communication layer (Cla): a provided field on one          *)
(* federate and consumed fields on others.  The value travels as an event, the  *)
(* getter and the setter are methods whose requests and returns travel as data  *)
(* too: DoProvidedField, DoProvidedMethod, DoProvidedEvent, DoConsumedField,    *)
(* DoConsumedMethod, DoConsumedEvent, ConsumerCallContext and ValueEntity.      *)
(* Each process has a poll thread, which runs the reception callbacks, and a    *)
(* thread of the application.  Below them is the data service: what a source    *)
(* transmits reaches every target, in order (DOService, LastValue).             *)
EXTENDS Naturals, Sequences

CONSTANTS
  Consumers,       \* federates that consume the field
  Methods,         \* what they call: subset of {"get", "set", "setOneWay"}
  TxTrigger,       \* "OnChange" or "OnUpdate", the attribute of the provided field
  Answers,         \* the callbacks of the provided methods write their outputs
  Releases,        \* consumers may drop a call context at any time
  MaxValue,        \* bound: values are 0..MaxValue
  MaxWrites,       \* bound: values set by the application of the provider
  MaxCalls         \* bound: calls of each consumer

ASSUME FieldAssumption ==
  /\ Methods \subseteq {"get", "set", "setOneWay"} /\ TxTrigger \in {"OnChange", "OnUpdate"}
  /\ Answers \in BOOLEAN /\ Releases \in BOOLEAN
ASSUME BoundsAssumption == MaxValue \in Nat /\ MaxWrites \in Nat /\ MaxCalls \in Nat

VARIABLES
  mData,                 \* of the provided field's ValueEntity
  provider,              \* [thread |-> [step, data]]: what each provider thread is doing
  serving,               \* <<>>, or <<r>>: the request its poll thread serves
  writes,                \* counter: values set by its application
  requests,              \* [consumer |-> requests on their way to the provider]
  inbox,                 \* [consumer |-> events and returns on their way to it]
  value,                 \* [consumer |-> mData of the consumed field's ValueEntity]
  mNextRequestId,        \* [consumer |-> [method object |-> id]]
  mPendingCallContexts,  \* [consumer |-> [method object |-> [id |-> call]]]
  calls,                 \* [consumer |-> the call contexts created, see Call]
  receiver               \* [consumer |-> its poll thread within a return, see Receiver]

providing == <<mData, provider, serving, writes>>
consuming == <<value, mNextRequestId, mPendingCallContexts, calls, receiver>>
vars == <<providing, requests, inbox, consuming>>

Threads == {"app", "poll"}
Values == 0..MaxValue
Objects == {"getter", "setter"}
Object(method) == IF method = "get" THEN "getter" ELSE "setter"

\* mPendingCallContexts with an id for the call k, and without an id.
Insert(pending, id, k) == [i \in DOMAIN pending \cup {id} |-> IF i = id THEN k ELSE pending[i]]
Erase(pending, id) == [i \in DOMAIN pending \ {id} |-> pending[i]]

Init ==
  /\ mData = 0
  /\ provider = [t \in Threads |-> [step |-> "idle", data |-> 0]]
  /\ serving = <<>> /\ writes = 0
  /\ requests = [c \in Consumers |-> <<>>]
  /\ inbox = [c \in Consumers |-> <<>>]
  /\ value = [c \in Consumers |-> 0]
  /\ mNextRequestId = [c \in Consumers |-> [o \in Objects |-> 1]]
  /\ mPendingCallContexts = [c \in Consumers |-> [o \in Objects |-> <<>>]]
  /\ calls = [c \in Consumers |-> <<>>]
  /\ receiver = [c \in Consumers |-> [step |-> "idle"]]

-----------------------------------------------------------------------------
(* The provider.                                                               *)

\* Every consumer's targets get what the provider transmits.
Broadcast(message) == inbox' = [c \in Consumers |-> Append(inbox[c], message)]

\* Variant: a setter is not answered.
AfterWithoutAnswer(thread) == "idle"

\* The step of a thread that has finished SetData.
After(thread) == IF thread = "poll" THEN "answer" ELSE "idle"

\* Whether the event's transmit callback is registered for this SetData.
Transmits(changed) == TxTrigger = "OnUpdate" \/ changed

\* Variant: the values are compared after the assignment.
SetDataThenCompare(thread, newData) ==
  /\ mData' = newData
  /\ provider' = [provider EXCEPT ![thread].step =
                    IF Transmits(newData # mData') THEN "notify" ELSE After(thread)]
  /\ UNCHANGED calls

\* ValueEntity::SetData up to lock.unlock().  The windows of the open calls grow.
SetData(thread, newData) ==
  LET changed == newData # mData
  IN /\ mData' = newData
     /\ provider' = [provider EXCEPT ![thread].step =
                       IF Transmits(changed) THEN "notify" ELSE After(thread)]
     /\ calls' = [c \in Consumers |->
                   [k \in DOMAIN calls[c] |->
                     IF calls[c][k].state = "Called"
                     THEN [calls[c][k] EXCEPT !.window = @ \cup {newData}]
                     ELSE calls[c][k]]]

\* The application of the provider sets the field.
Write(newData) ==
  /\ provider["app"].step = "idle" /\ writes < MaxWrites
  /\ writes' = writes + 1
  /\ SetData("app", newData)
  /\ UNCHANGED <<serving, requests, inbox, value, mNextRequestId, mPendingCallContexts, receiver>>

\* The event's callback serialises what the ValueEntity holds by now ...
CopyData(thread) ==
  /\ provider[thread].step = "notify"
  /\ provider' = [provider EXCEPT ![thread] = [step |-> "transmit", data |-> mData]]
  /\ UNCHANGED <<mData, serving, writes, requests, inbox, consuming>>

\* ... and transmits it, with no lock held since.
TransmitDOMember(thread) ==
  /\ provider[thread].step = "transmit"
  /\ Broadcast([kind |-> "event", data |-> provider[thread].data])
  /\ provider' = [provider EXCEPT ![thread].step = After(thread)]
  /\ UNCHANGED <<mData, serving, writes, requests, consuming>>

\* DoProvidedMethod::OnReceiveData up to the end of the field's default callback or, for
\* a setter, up to its SetData.
OnReceiveRequest(c) ==
  /\ serving = <<>> /\ requests[c] # <<>>
  /\ requests' = [requests EXCEPT ![c] = Tail(@)]
  /\ LET request == Head(requests[c])
     IN /\ serving' = <<request>>
        /\ IF request.method = "get"
           THEN /\ provider' = [provider EXCEPT !["poll"] = [step |-> "answer", data |-> mData]]
                /\ UNCHANGED <<mData, calls>>
           ELSE SetData("poll", request.input)
  /\ UNCHANGED <<writes, inbox, value, mNextRequestId, mPendingCallContexts, receiver>>

\* What a method returns: the copied value, or what the setter was given.
Output(request) == IF request.method = "get" THEN provider["poll"].data ELSE request.input

\* Variant: the return carries the next id.
ReturnOfNextRequest(request) ==
  [kind |-> "return", object |-> Object(request.method), id |-> request.id + 1,
   data |-> Output(request), call |-> request.call]

\* The return of a request, which carries its id; call is history.
Return(request) ==
  [kind |-> "return", object |-> Object(request.method), id |-> request.id,
   data |-> Output(request), call |-> request.call]

\* The rest of OnReceiveData.
SendResponse ==
  /\ serving # <<>> /\ provider["poll"].step = "answer"
  /\ LET request == Head(serving)
     IN IF Answers /\ request.method # "setOneWay"
        THEN Broadcast(Return(request))
        ELSE UNCHANGED inbox
  /\ serving' = <<>>
  /\ provider' = [provider EXCEPT !["poll"].step = "idle"]
  /\ UNCHANGED <<mData, writes, requests, consuming>>
-----------------------------------------------------------------------------
(* A consumer.                                                                 *)

\* The poll thread is not within PopCallContext of this method object.
MutexIsFree(c, object) ==
  ~(receiver[c].step \in {"popping", "blocked"} /\ receiver[c].object = object)

\* mNextRequestId++, an id of the method object of one consumer.
CreateUniqueRequestId(c, object) ==
  mNextRequestId' = [mNextRequestId EXCEPT ![c][object] = @ + 1]

\* CreateCallContext, and the input that the application serialises into it.
CreateCallContext(c, method, input) ==
  LET object == Object(method)
      id == mNextRequestId[c][object]
  IN /\ Len(calls[c]) < MaxCalls /\ MutexIsFree(c, object)
     /\ CreateUniqueRequestId(c, object)
     /\ mPendingCallContexts' =
          [mPendingCallContexts EXCEPT ![c][object] = Insert(@, id, Len(calls[c]) + 1)]
     /\ calls' = [calls EXCEPT ![c] = Append(@,
          [method |-> method, id |-> id, input |-> input, state |-> "Initial", held |-> TRUE,
           output |-> 0, window |-> {}, returned |-> <<>>])]
     /\ UNCHANGED <<providing, requests, inbox, value, receiver>>

\* CallAsync and the method's onCall; a one way call is not pending any more.
CallAsync(c, k) ==
  LET call == calls[c][k]
  IN /\ call.state = "Initial" /\ call.held
     /\ calls' = [calls EXCEPT ![c][k].state = "Called", ![c][k].window = {mData}]
     /\ mPendingCallContexts' =
          IF call.method = "setOneWay"
          THEN [mPendingCallContexts EXCEPT ![c]["setter"] = Erase(@, call.id)]
          ELSE mPendingCallContexts
     /\ requests' = [requests EXCEPT ![c] = Append(@,
          [method |-> call.method, id |-> call.id, input |-> call.input, call |-> <<c, k>>])]
     /\ UNCHANGED <<providing, inbox, value, mNextRequestId, receiver>>

\* The application drops the call context.  The last reference runs onDestroy, which
\* pops the id; the poll thread may hold another one within PopCallContext.
Release(c, k) ==
  LET call == calls[c][k]
      object == Object(call.method)
      popped == receiver[c].step = "popping" /\ receiver[c].call = k
  IN /\ Releases /\ call.held /\ (popped \/ MutexIsFree(c, object))
     /\ calls' = [calls EXCEPT ![c][k].held = FALSE]
     /\ mPendingCallContexts' =
          IF popped THEN mPendingCallContexts
          ELSE [mPendingCallContexts EXCEPT ![c][object] = Erase(@, call.id)]
     /\ UNCHANGED <<providing, requests, inbox, value, mNextRequestId, receiver>>

\* DoConsumedEvent's reception callback.
OnReceiveEvent(c) ==
  /\ receiver[c].step = "idle" /\ inbox[c] # <<>> /\ Head(inbox[c]).kind = "event"
  /\ value' = [value EXCEPT ![c] = Head(inbox[c]).data]
  /\ inbox' = [inbox EXCEPT ![c] = Tail(@)]
  /\ UNCHANGED <<providing, requests, mNextRequestId, mPendingCallContexts, calls, receiver>>

\* Variant: any context that is pending.
FindAny(c, object, id) ==
  {mPendingCallContexts[c][object][i] : i \in DOMAIN mPendingCallContexts[c][object]}

\* The pending call context a return is given to: the one with its id.
Find(c, object, id) ==
  {mPendingCallContexts[c][object][i] : i \in DOMAIN mPendingCallContexts[c][object] \cap {id}}

\* OnReceiveData and PopCallContext up to the erasure: the poll thread holds the mutex
\* and a reference.  A return that is not found is dropped with a warning.
PopCallContext(c) ==
  /\ receiver[c].step = "idle" /\ inbox[c] # <<>> /\ Head(inbox[c]).kind = "return"
  /\ inbox' = [inbox EXCEPT ![c] = Tail(@)]
  /\ LET response == Head(inbox[c])
         found == Find(c, response.object, response.id)
     IN IF found = {}
        THEN UNCHANGED <<mPendingCallContexts, receiver>>
        ELSE \E k \in found :
               /\ mPendingCallContexts' =
                    [mPendingCallContexts EXCEPT ![c][response.object] = Erase(@, calls[c][k].id)]
               /\ receiver' = [receiver EXCEPT ![c] =
                    [step |-> "popping", object |-> response.object, call |-> k,
                     data |-> response.data, answered |-> response.call]]
  /\ UNCHANGED <<providing, requests, value, mNextRequestId, calls>>

\* The end of PopCallContext: its reference is destroyed before the lock.  If it is the
\* last one, onDestroy locks the mutex that this thread holds.
EndPop(c) ==
  /\ receiver[c].step = "popping"
  /\ receiver' = [receiver EXCEPT ![c].step =
                    IF calls[c][receiver[c].call].held THEN "popped" ELSE "blocked"]
  /\ UNCHANGED <<providing, requests, inbox, value, mNextRequestId, mPendingCallContexts, calls>>

\* ConsumerCallContext::OnReturn: a context in state Called gets its outputs and its
\* callback runs.  One that is gone, or not called yet, does not.
OnReturn(c) ==
  LET k == receiver[c].call
  IN /\ receiver[c].step = "popped"
     /\ IF calls[c][k].held /\ calls[c][k].state = "Called"
        THEN /\ calls' = [calls EXCEPT ![c][k].state = "Returned",
                            ![c][k].output = receiver[c].data,
                            ![c][k].returned = receiver[c].answered]
             /\ receiver' = [receiver EXCEPT ![c].step = "update"]
        ELSE /\ receiver' = [receiver EXCEPT ![c] = [step |-> "idle"]]
             /\ UNCHANGED calls
     /\ UNCHANGED <<providing, requests, inbox, value, mNextRequestId, mPendingCallContexts>>

\* The rest of the field's OnReceiveResponse: the local value follows the return.
UpdateValue(c) ==
  /\ receiver[c].step = "update"
  /\ value' = [value EXCEPT ![c] = receiver[c].data]
  /\ receiver' = [receiver EXCEPT ![c] = [step |-> "idle"]]
  /\ UNCHANGED <<providing, requests, inbox, mNextRequestId, mPendingCallContexts, calls>>
-----------------------------------------------------------------------------
ProviderStep(thread) == CopyData(thread) \/ TransmitDOMember(thread)
ProviderPoll == ProviderStep("poll") \/ SendResponse \/ \E c \in Consumers : OnReceiveRequest(c)
ConsumerPoll(c) ==
  OnReceiveEvent(c) \/ PopCallContext(c) \/ EndPop(c) \/ OnReturn(c) \/ UpdateValue(c)

Application ==
  \/ \E v \in Values : Write(v)
  \/ \E c \in Consumers :
       \/ \E v \in Values, m \in Methods : (m = "get" => v = 0) /\ CreateCallContext(c, m, v)
       \/ \E k \in DOMAIN calls[c] : CallAsync(c, k) \/ Release(c, k)

Next == Application \/ ProviderStep("app") \/ ProviderPoll \/ \E c \in Consumers : ConsumerPoll(c)

Spec == Init /\ [][Next]_vars

\* The poll threads run, and the application does not stop within SetData.
FairSpec ==
  /\ Spec /\ WF_vars(ProviderStep("app")) /\ WF_vars(ProviderPoll)
  /\ \A c \in Consumers : WF_vars(ConsumerPoll(c))
-----------------------------------------------------------------------------
Request == [method : Methods, id : 1..MaxCalls, input : Values, call : Consumers \X (1..MaxCalls)]
Message == [kind : {"event"}, data : Values]
           \cup [kind : {"return"}, object : Objects, id : 1..MaxCalls, data : Values,
                 call : Consumers \X (1..MaxCalls)]
Call == [method : Methods, id : 1..MaxCalls, input : Values, held : BOOLEAN,
         state : {"Initial", "Called", "Returned"}, output : Values, window : SUBSET Values,
         returned : {<<>>} \cup Consumers \X (1..MaxCalls)]
Receiver == [step : {"idle"}]
            \cup [step : {"popping", "blocked", "popped", "update"}, object : Objects,
                  call : 1..MaxCalls, data : Values, answered : Consumers \X (1..MaxCalls)]

\* Ids of pending calls to the positions of the calls.
Pending == UNION {[ids -> 1..MaxCalls] : ids \in SUBSET (1..MaxCalls)}

TypeOK ==
  /\ mData \in Values /\ writes \in 0..MaxWrites
  /\ provider \in [Threads -> [step : {"idle", "notify", "transmit", "answer"}, data : Values]]
  /\ serving \in {<<>>} \cup {<<request>> : request \in Request}
  /\ (serving = <<>> <=> provider["poll"].step = "idle")
  /\ requests \in [Consumers -> Seq(Request)] /\ inbox \in [Consumers -> Seq(Message)]
  /\ value \in [Consumers -> Values] /\ receiver \in [Consumers -> Receiver]
  /\ mNextRequestId \in [Consumers -> [Objects -> 1..(MaxCalls + 1)]]
  /\ mPendingCallContexts \in [Consumers -> [Objects -> Pending]]
  /\ calls \in [Consumers -> Seq(Call)]

\* A call that has returned has the return of its own request.
ReturnMatchesCall ==
  \A c \in Consumers : \A k \in DOMAIN calls[c] :
    calls[c][k].state = "Returned" => calls[c][k].returned = <<c, k>>

\* What a call returned was the value of the provided field at some moment between the
\* call and the return.
ReturnIsFresh ==
  \A c \in Consumers : \A k \in DOMAIN calls[c] :
    calls[c][k].state = "Returned" => calls[c][k].output \in calls[c][k].window

\* Nothing is under way.
Quiescent ==
  /\ \A t \in Threads : provider[t].step = "idle"
  /\ \A c \in Consumers : requests[c] = <<>> /\ inbox[c] = <<>> /\ receiver[c].step = "idle"

\* When all is delivered, every consumer's value is that of the provider.
ConsumersConverge == Quiescent => \A c \in Consumers : value[c] = mData

Awaits(c, k) ==
  /\ k \in DOMAIN calls[c] /\ calls[c][k].held
  /\ calls[c][k].state = "Called" /\ calls[c][k].method # "setOneWay"

\* "The callback will be called after the call has been returned": no call awaits its
\* return for ever (a one way call awaits none, nor does one whose context is dropped).
EveryCallReturns == \A c \in Consumers : \A k \in 1..MaxCalls : Awaits(c, k) ~> ~Awaits(c, k)

\* "Updates the local value of the field on return with the returned value": when the
\* handler runs, the local value is the returned one.
ReturnUpdatesValue ==
  [][\A c \in Consumers : \A k \in DOMAIN calls[c] :
       calls[c][k].state = "Called" /\ calls'[c][k].state = "Returned"
         => value'[c] = calls'[c][k].output]_vars

\* PopCallContext "returns the removed call context": the poll thread comes back from it.
PopReturns ==
  \A c \in Consumers : receiver[c].step = "popping" ~> receiver[c].step \in {"popped", "idle"}

=============================================================================
