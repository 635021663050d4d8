-------------------------- MODULE FieldCalls_proofs --------------------------
(* Theorems about FieldCalls, for every value of its constants.                *)
EXTENDS FieldCalls, SequenceTheorems, TLAPS

-----------------------------------------------------------------------------
(* The invariant.                                                               *)

\* Ids are below the next one, and their calls have the object they are counted for.
IdsInv ==
  \A c \in Consumers :
    /\ Len(calls[c]) <= MaxCalls
    /\ \A o \in Objects : mNextRequestId[c][o] <= Len(calls[c]) + 1
    /\ \A k \in 1..Len(calls[c]) :
         calls[c][k].id < mNextRequestId[c][Object(calls[c][k].method)]
    /\ \A j, k \in 1..Len(calls[c]) :
         Object(calls[c][j].method) = Object(calls[c][k].method) /\ calls[c][j].id = calls[c][k].id
           => j = k

\* The call <<d, k>> was made, of this object and with this id.
Made(d, k, object, id) ==
  /\ d \in Consumers /\ k \in 1..Len(calls[d])
  /\ calls[d][k].state # "Initial"
  /\ calls[d][k].id = id /\ Object(calls[d][k].method) = object

\* If the call still waits, v was the value of the field meanwhile.
Fits(d, k, v) == calls[d][k].state = "Called" => v \in calls[d][k].window

PendingInv ==
  \A c \in Consumers, o \in Objects : \A i \in DOMAIN mPendingCallContexts[c][o] :
    LET k == mPendingCallContexts[c][o][i]
    IN k \in 1..Len(calls[c]) /\ calls[c][k].id = i /\ Object(calls[c][k].method) = o

\* Requests, the one that is served, returns, and what the receivers hold of them, are
\* those of calls that were made.
MadeRequest(r) == Made(r.call[1], r.call[2], Object(r.method), r.id)
RequestsInv ==
  /\ \A c \in Consumers : \A i \in 1..Len(requests[c]) : MadeRequest(requests[c][i])
  /\ \A r \in Request : serving = <<r>> => MadeRequest(r)

MadeReturn(m) == m.kind = "return" => Made(m.call[1], m.call[2], m.object, m.id)
ReturnsInv == \A c \in Consumers : \A i \in 1..Len(inbox[c]) : MadeReturn(inbox[c][i])

ReceiverInv ==
  \A c \in Consumers : receiver[c].step # "idle" =>
    /\ receiver[c].call \in 1..Len(calls[c])
    /\ Object(calls[c][receiver[c].call].method) = receiver[c].object
    /\ Made(receiver[c].answered[1], receiver[c].answered[2], receiver[c].object,
            calls[c][receiver[c].call].id)

\* What a call that has returned was given is the return of a call with its id.
ReturnedInv ==
  \A c \in Consumers : \A k \in 1..Len(calls[c]) : calls[c][k].state = "Returned" =>
    /\ calls[c][k].returned \in Consumers \X (1..MaxCalls)
    /\ Made(calls[c][k].returned[1], calls[c][k].returned[2], Object(calls[c][k].method), calls[c][k].id)

\* What a waiting call may be given was the value of the field since it was made: the
\* value, the output of what is served, what is on its way, and what a receiver holds.
FreshCalls == \A c \in Consumers : \A k \in 1..Len(calls[c]) : Fits(c, k, mData)
FreshServing ==
  \A r \in Request : serving = <<r>> =>
    /\ r.method = "get" => provider["poll"].step = "answer"
    /\ Fits(r.call[1], r.call[2], Output(r))
FreshReturns ==
  \A c \in Consumers : \A i \in 1..Len(inbox[c]) : inbox[c][i].kind = "return" =>
    Fits(inbox[c][i].call[1], inbox[c][i].call[2], inbox[c][i].data)
FreshReceiver ==
  \A c \in Consumers : receiver[c].step # "idle" =>
    Fits(receiver[c].answered[1], receiver[c].answered[2], receiver[c].data)

CallInv ==
  /\ TypeOK /\ IdsInv /\ PendingInv /\ RequestsInv /\ ReturnsInv /\ ReceiverInv /\ ReturnedInv
  /\ FreshCalls /\ FreshServing /\ FreshReturns /\ FreshReceiver

-----------------------------------------------------------------------------
(* Pending ids.                                                                 *)

\* No id is pending at first.
LEMMA NothingPending == <<>> \in Pending /\ DOMAIN <<>> = {}
<1>1. <<>> \in [{} -> 1..MaxCalls]
  OBVIOUS
<1> QED BY <1>1 DEF Pending

\* What is pending are ids of the object.
LEMMA PendingDomain ==
  ASSUME NEW p \in Pending
  PROVE  /\ DOMAIN p \subseteq 1..MaxCalls
         /\ p = [i \in DOMAIN p |-> p[i]]
         /\ \A i \in DOMAIN p : p[i] \in 1..MaxCalls
<1>1. PICK ids \in SUBSET (1..MaxCalls) : p \in [ids -> 1..MaxCalls]
  BY DEF Pending
<1> QED BY <1>1

\* An id that becomes pending is added to them.
LEMMA PendingInserted ==
  ASSUME NEW p \in Pending, NEW id \in 1..MaxCalls, NEW k \in 1..MaxCalls
  PROVE  /\ Insert(p, id, k) \in Pending
         /\ DOMAIN Insert(p, id, k) = DOMAIN p \cup {id}
         /\ Insert(p, id, k)[id] = k
         /\ \A i \in DOMAIN p \ {id} : Insert(p, id, k)[i] = p[i]
<1>1. Insert(p, id, k) \in [DOMAIN p \cup {id} -> 1..MaxCalls]
  BY PendingDomain DEF Insert
<1>2. DOMAIN p \cup {id} \in SUBSET (1..MaxCalls)
  BY PendingDomain
<1>3. Insert(p, id, k) \in Pending
  BY <1>1, <1>2 DEF Pending
<1> QED BY <1>3 DEF Insert

\* An id that is erased is not pending any more.
LEMMA PendingErased ==
  ASSUME NEW p \in Pending, NEW id
  PROVE  /\ Erase(p, id) \in Pending
         /\ DOMAIN Erase(p, id) = DOMAIN p \ {id}
         /\ \A i \in DOMAIN p \ {id} : Erase(p, id)[i] = p[i]
<1>1. Erase(p, id) \in [DOMAIN p \ {id} -> 1..MaxCalls]
  BY PendingDomain DEF Erase
<1>2. DOMAIN p \ {id} \in SUBSET (1..MaxCalls)
  BY PendingDomain
<1>3. Erase(p, id) \in Pending
  BY <1>1, <1>2 DEF Pending
<1> QED BY <1>3 DEF Erase

-----------------------------------------------------------------------------
(* Calls.                                                                       *)

\* Calls stay, with their ids; one that was made is not made again, and the window of
\* one that waits only grows.
Grow ==
  \A c \in Consumers :
    /\ Len(calls[c]) <= Len(calls'[c])
    /\ \A k \in 1..Len(calls[c]) :
         /\ calls'[c][k].method = calls[c][k].method /\ calls'[c][k].id = calls[c][k].id
         /\ calls[c][k].state # "Initial" =>
              /\ calls'[c][k].state # "Initial"
              /\ calls'[c][k].state = "Called" =>
                   calls[c][k].state = "Called" /\ calls[c][k].window \subseteq calls'[c][k].window

\* No call is added.
SameLengths == \A c \in Consumers : Len(calls'[c]) = Len(calls[c])

\* The calls of a consumer are a sequence of calls.
LEMMA CallsType ==
  ASSUME calls \in [Consumers -> Seq(Call)], NEW c \in Consumers
  PROVE  /\ calls[c] \in Seq(Call) /\ Len(calls[c]) \in Nat
         /\ DOMAIN calls[c] = 1..Len(calls[c])
         /\ \A k \in 1..Len(calls[c]) : calls[c][k] \in Call
<1>1. calls[c] \in Seq(Call)
  OBVIOUS
<1> QED BY <1>1, LenProperties, ElementOfSeq

\* Calls that are left alone grow.
LEMMA SameCalls ==
  ASSUME calls \in [Consumers -> Seq(Call)], UNCHANGED calls
  PROVE  Grow /\ SameLengths
<1>1. \A c \in Consumers : Len(calls[c]) \in Nat
  BY CallsType
<1> QED BY <1>1 DEF Grow, SameLengths

\* The k-th call of a consumer becomes new, and nothing else happens to the calls.
CallBecomes(c, k, new) == calls' = [calls EXCEPT ![c] = [calls[c] EXCEPT ![k] = new]]

\* One call of a consumer changes.
LEMMA OneCallChanges ==
  ASSUME calls \in [Consumers -> Seq(Call)], NEW c \in Consumers, NEW k \in 1..Len(calls[c]),
         NEW new \in Call, CallBecomes(c, k, new)
  PROVE  /\ calls' \in [Consumers -> Seq(Call)] /\ SameLengths
         /\ \A d \in Consumers : \A j \in 1..Len(calls[d]) :
              calls'[d][j] = IF d = c /\ j = k THEN new ELSE calls[d][j]
<1> DEFINE s == [calls[c] EXCEPT ![k] = new]
<1>1. /\ s \in Seq(Call) /\ Len(s) = Len(calls[c])
      /\ \A j \in 1..Len(calls[c]) : s[j] = IF j = k THEN new ELSE calls[c][j]
  BY CallsType, ExceptSeq
<1>2. \A d \in Consumers : calls'[d] = IF d = c THEN s ELSE calls[d]
  BY DEF CallBecomes
<1>3. calls' \in [Consumers -> Seq(Call)]
  BY <1>1 DEF CallBecomes
<1> QED BY <1>1, <1>2, <1>3 DEF SameLengths

\* What was made stays made, and what fitted it still fits.
LEMMA MadeGrows ==
  ASSUME calls \in [Consumers -> Seq(Call)], calls' \in [Consumers -> Seq(Call)], Grow,
         NEW d, NEW k, NEW object, NEW id, Made(d, k, object, id)
  PROVE  /\ Made(d, k, object, id)'
         /\ \A v : Fits(d, k, v) => Fits(d, k, v)'
<1>1. d \in Consumers /\ k \in 1..Len(calls[d])
  BY DEF Made
<1>2. Len(calls[d]) \in Nat /\ Len(calls'[d]) \in Nat
  BY <1>1, CallsType
<1>3. k \in 1..Len(calls'[d])
  BY <1>1, <1>2 DEF Grow
<1> QED BY <1>1, <1>3 DEF Grow, Made, Fits

-----------------------------------------------------------------------------
(* What a step that leaves a part alone preserves of it.                        *)

LEMMA IdsKept ==
  ASSUME IdsInv, Grow, SameLengths, UNCHANGED mNextRequestId
  PROVE  IdsInv'
BY DEF IdsInv, Grow, SameLengths

LEMMA PendingKept ==
  ASSUME calls \in [Consumers -> Seq(Call)], calls' \in [Consumers -> Seq(Call)], PendingInv, Grow,
         \A c \in Consumers, o \in Objects :
           /\ DOMAIN mPendingCallContexts'[c][o] \subseteq DOMAIN mPendingCallContexts[c][o]
           /\ \A i \in DOMAIN mPendingCallContexts'[c][o] :
                mPendingCallContexts'[c][o][i] = mPendingCallContexts[c][o][i]
  PROVE  PendingInv'
<1> SUFFICES ASSUME NEW c \in Consumers, NEW o \in Objects, NEW i \in DOMAIN mPendingCallContexts'[c][o]
             PROVE  LET k == mPendingCallContexts'[c][o][i]
                    IN k \in 1..Len(calls'[c]) /\ calls'[c][k].id = i /\ Object(calls'[c][k].method) = o
  BY DEF PendingInv
<1> DEFINE k == mPendingCallContexts[c][o][i]
<1>1. k \in 1..Len(calls[c]) /\ calls[c][k].id = i /\ Object(calls[c][k].method) = o
  BY DEF PendingInv
<1>2. Len(calls[c]) \in Nat /\ Len(calls'[c]) \in Nat
  BY CallsType
<1> QED BY <1>1, <1>2 DEF Grow

LEMMA RequestsKept ==
  ASSUME calls \in [Consumers -> Seq(Call)], calls' \in [Consumers -> Seq(Call)], RequestsInv, Grow,
         UNCHANGED <<requests, serving>>
  PROVE  RequestsInv'
BY MadeGrows DEF RequestsInv, MadeRequest

LEMMA ReturnsKept ==
  ASSUME calls \in [Consumers -> Seq(Call)], calls' \in [Consumers -> Seq(Call)], ReturnsInv,
         FreshReturns, Grow, UNCHANGED inbox
  PROVE  ReturnsInv' /\ FreshReturns'
BY MadeGrows DEF ReturnsInv, FreshReturns, MadeReturn

LEMMA ReceiverKept ==
  ASSUME calls \in [Consumers -> Seq(Call)], calls' \in [Consumers -> Seq(Call)], ReceiverInv,
         FreshReceiver, Grow,
         \A c \in Consumers : receiver'[c].step # "idle" =>
           /\ receiver[c].step # "idle" /\ receiver'[c].call = receiver[c].call
           /\ receiver'[c].object = receiver[c].object /\ receiver'[c].data = receiver[c].data
           /\ receiver'[c].answered = receiver[c].answered
  PROVE  ReceiverInv' /\ FreshReceiver'
<1> SUFFICES ASSUME NEW c \in Consumers, receiver'[c].step # "idle"
             PROVE  /\ receiver'[c].call \in 1..Len(calls'[c])
                    /\ Object(calls'[c][receiver'[c].call].method) = receiver'[c].object
                    /\ Made(receiver[c].answered[1], receiver[c].answered[2], receiver[c].object,
                            calls[c][receiver[c].call].id)'
                    /\ Fits(receiver[c].answered[1], receiver[c].answered[2], receiver[c].data)'
  BY DEF ReceiverInv, FreshReceiver, Made, Fits
<1> DEFINE k == receiver[c].call
<1>1. /\ k \in 1..Len(calls[c]) /\ Object(calls[c][k].method) = receiver[c].object
      /\ Made(receiver[c].answered[1], receiver[c].answered[2], receiver[c].object, calls[c][k].id)
      /\ Fits(receiver[c].answered[1], receiver[c].answered[2], receiver[c].data)
  BY DEF ReceiverInv, FreshReceiver
<1>2. Len(calls[c]) \in Nat /\ Len(calls'[c]) \in Nat
  BY CallsType
<1>3. calls'[c][k].id = calls[c][k].id /\ calls'[c][k].method = calls[c][k].method
  BY <1>1 DEF Grow
<1>4. PICK r, id : r = receiver[c] /\ id = calls[c][k].id
  OBVIOUS
<1>5. Made(r.answered[1], r.answered[2], r.object, id) /\ Fits(r.answered[1], r.answered[2], r.data)
  BY <1>1, <1>4
<1>6. Made(r.answered[1], r.answered[2], r.object, id)' /\ Fits(r.answered[1], r.answered[2], r.data)'
  BY <1>5, MadeGrows
<1>7. /\ receiver'[c].call = k /\ receiver'[c].object = r.object /\ receiver'[c].data = r.data
      /\ receiver'[c].answered = r.answered /\ calls'[c][k].id = id
  BY <1>3, <1>4
<1>8. k \in 1..Len(calls'[c]) /\ Object(calls'[c][k].method) = receiver[c].object
  BY <1>1, <1>2, <1>3 DEF Grow
<1> HIDE DEF k
<1> QED BY <1>6, <1>7, <1>8, <1>4 DEF Made, Fits

LEMMA ReturnedKept ==
  ASSUME calls \in [Consumers -> Seq(Call)], calls' \in [Consumers -> Seq(Call)], ReturnedInv, Grow,
         \A c \in Consumers : \A k \in 1..Len(calls'[c]) : calls'[c][k].state = "Returned" =>
           /\ k \in 1..Len(calls[c]) /\ calls[c][k].state = "Returned"
           /\ calls'[c][k].returned = calls[c][k].returned
  PROVE  ReturnedInv'
<1> SUFFICES ASSUME NEW c \in Consumers, NEW k \in 1..Len(calls'[c]), calls'[c][k].state = "Returned"
             PROVE  /\ calls'[c][k].returned \in Consumers \X (1..MaxCalls)
                    /\ Made(calls[c][k].returned[1], calls[c][k].returned[2],
                            Object(calls[c][k].method), calls[c][k].id)'
  BY DEF ReturnedInv
<1>1. /\ k \in 1..Len(calls[c]) /\ calls'[c][k].returned = calls[c][k].returned
      /\ calls[c][k].returned \in Consumers \X (1..MaxCalls)
      /\ Made(calls[c][k].returned[1], calls[c][k].returned[2], Object(calls[c][k].method), calls[c][k].id)
  BY DEF ReturnedInv
<1>2. calls'[c][k].id = calls[c][k].id /\ calls'[c][k].method = calls[c][k].method
  BY <1>1 DEF Grow
<1>3. PICK call : call = calls[c][k]
  OBVIOUS
<1>4. Made(call.returned[1], call.returned[2], Object(call.method), call.id)
  BY <1>1, <1>3
<1>5. Made(call.returned[1], call.returned[2], Object(call.method), call.id)'
  BY <1>4, MadeGrows
<1> QED BY <1>1, <1>2, <1>3, <1>5

LEMMA ServingKept ==
  ASSUME calls \in [Consumers -> Seq(Call)], calls' \in [Consumers -> Seq(Call)], RequestsInv,
         FreshServing, Grow, serving' = serving, provider'["poll"] = provider["poll"]
  PROVE  FreshServing'
<1> SUFFICES ASSUME NEW r \in Request, serving = <<r>>
             PROVE  /\ r.method = "get" => provider'["poll"].step = "answer"
                    /\ Fits(r.call[1], r.call[2], Output(r))'
  BY DEF FreshServing
<1>1. PICK v : v = Output(r)
  OBVIOUS
<1>2. Made(r.call[1], r.call[2], Object(r.method), r.id) /\ Fits(r.call[1], r.call[2], v)
  BY <1>1 DEF RequestsInv, FreshServing, MadeRequest
<1>3. Fits(r.call[1], r.call[2], v)'
  BY <1>2, MadeGrows
<1> QED BY <1>1, <1>3 DEF FreshServing, Output, Fits

-----------------------------------------------------------------------------
(* Messages that are sent and taken.                                            *)

\* The messages in an inbox.
LEMMA InboxType ==
  ASSUME inbox \in [Consumers -> Seq(Message)], NEW c \in Consumers
  PROVE  /\ inbox[c] \in Seq(Message) /\ Len(inbox[c]) \in Nat
         /\ \A i \in 1..Len(inbox[c]) : inbox[c][i] \in Message
<1>1. inbox[c] \in Seq(Message)
  OBVIOUS
<1> QED BY <1>1, LenProperties, ElementOfSeq

\* A message is sent to all: an event, or the return of a call that was made.
LEMMA Sent ==
  ASSUME inbox \in [Consumers -> Seq(Message)], ReturnsInv, FreshReturns, UNCHANGED calls,
         NEW m \in Message, Broadcast(m), MadeReturn(m),
         m.kind = "return" => Fits(m.call[1], m.call[2], m.data)
  PROVE  inbox' \in [Consumers -> Seq(Message)] /\ ReturnsInv' /\ FreshReturns'
<1>1. ASSUME NEW c \in Consumers
      PROVE  /\ inbox'[c] \in Seq(Message) /\ Len(inbox'[c]) = Len(inbox[c]) + 1
             /\ \A i \in 1..Len(inbox[c]) : inbox'[c][i] = inbox[c][i]
             /\ inbox'[c][Len(inbox[c]) + 1] = m
  <2>1. inbox'[c] = Append(inbox[c], m)
    BY DEF Broadcast
  <2> QED BY <2>1, InboxType, AppendProperties
<1>2. inbox' \in [Consumers -> Seq(Message)]
  BY <1>1 DEF Broadcast
<1>3. ASSUME NEW c \in Consumers, NEW i \in 1..Len(inbox'[c])
      PROVE  (i \in 1..Len(inbox[c]) /\ inbox'[c][i] = inbox[c][i]) \/ inbox'[c][i] = m
  BY <1>1, InboxType
<1>4. ReturnsInv'
  <2> SUFFICES ASSUME NEW c \in Consumers, NEW i \in 1..Len(inbox'[c]) PROVE MadeReturn(inbox[c][i])'
    BY DEF ReturnsInv
  <2>1. CASE inbox'[c][i] = m
    BY <2>1 DEF MadeReturn, Made
  <2>2. CASE i \in 1..Len(inbox[c]) /\ inbox'[c][i] = inbox[c][i]
    BY <2>2 DEF ReturnsInv, MadeReturn, Made
  <2> QED BY <2>1, <2>2, <1>3
<1>5. FreshReturns'
  BY <1>3 DEF FreshReturns, Fits
<1> QED BY <1>2, <1>4, <1>5

\* A consumer takes the first message of its inbox.
LEMMA Received ==
  ASSUME inbox \in [Consumers -> Seq(Message)], ReturnsInv, FreshReturns, UNCHANGED calls,
         NEW c \in Consumers, inbox[c] # <<>>, inbox' = [inbox EXCEPT ![c] = Tail(@)]
  PROVE  /\ inbox' \in [Consumers -> Seq(Message)] /\ ReturnsInv' /\ FreshReturns'
         /\ Head(inbox[c]) \in Message /\ MadeReturn(Head(inbox[c]))
         /\ Head(inbox[c]).kind = "return" =>
              Fits(Head(inbox[c]).call[1], Head(inbox[c]).call[2], Head(inbox[c]).data)
<1>1. /\ Head(inbox[c]) \in Message /\ Tail(inbox[c]) \in Seq(Message)
      /\ Len(Tail(inbox[c])) = Len(inbox[c]) - 1
      /\ \A i \in 1..Len(Tail(inbox[c])) : Tail(inbox[c])[i] = inbox[c][i + 1]
  BY InboxType, HeadTailProperties
<1>2. Head(inbox[c]) = inbox[c][1] /\ 1 \in 1..Len(inbox[c])
  BY InboxType, EmptySeq
<1>3. ASSUME NEW d \in Consumers, NEW i \in 1..Len(inbox'[d])
      PROVE  \E j \in 1..Len(inbox[d]) : inbox'[d][i] = inbox[d][j]
  <2>1. CASE d = c
    <3>1. i \in 1..Len(Tail(inbox[c])) /\ inbox'[c][i] = Tail(inbox[c])[i]
      BY <2>1
    <3>2. i + 1 \in 1..Len(inbox[c])
      BY <3>1, <1>1, InboxType
    <3> QED BY <2>1, <3>1, <3>2, <1>1
  <2>2. CASE d # c
    BY <2>2
  <2> QED BY <2>1, <2>2
<1>4. ReturnsInv'
  <2> SUFFICES ASSUME NEW d \in Consumers, NEW i \in 1..Len(inbox'[d]) PROVE MadeReturn(inbox[d][i])'
    BY DEF ReturnsInv
  <2>1. PICK j \in 1..Len(inbox[d]) : inbox'[d][i] = inbox[d][j]
    BY <1>3
  <2>2. MadeReturn(inbox[d][j])
    BY DEF ReturnsInv
  <2> QED BY <2>1, <2>2 DEF MadeReturn, Made
<1>5. FreshReturns'
  <2> SUFFICES ASSUME NEW d \in Consumers, NEW i \in 1..Len(inbox'[d]), inbox'[d][i].kind = "return"
               PROVE  Fits(inbox[d][i].call[1], inbox[d][i].call[2], inbox[d][i].data)'
    BY DEF FreshReturns
  <2>1. PICK j \in 1..Len(inbox[d]) : inbox'[d][i] = inbox[d][j]
    BY <1>3
  <2> QED BY <2>1 DEF FreshReturns, Fits
<1>6. inbox' \in [Consumers -> Seq(Message)]
  BY <1>1
<1> QED BY <1>1, <1>2, <1>4, <1>5, <1>6 DEF ReturnsInv, FreshReturns

\* The provider takes the first request of a consumer.
LEMMA RequestTaken ==
  ASSUME requests \in [Consumers -> Seq(Request)], calls \in [Consumers -> Seq(Call)],
         calls' \in [Consumers -> Seq(Call)], Grow, RequestsInv,
         NEW c \in Consumers, requests[c] # <<>>, requests' = [requests EXCEPT ![c] = Tail(@)],
         serving' = <<Head(requests[c])>>
  PROVE  /\ requests' \in [Consumers -> Seq(Request)] /\ RequestsInv'
         /\ Head(requests[c]) \in Request /\ MadeRequest(Head(requests[c]))
<1>0. requests[c] \in Seq(Request) /\ Len(requests[c]) \in Nat /\ Len(requests[c]) # 0
  BY LenProperties, EmptySeq
<1>1. /\ Head(requests[c]) \in Request /\ Tail(requests[c]) \in Seq(Request)
      /\ Len(Tail(requests[c])) = Len(requests[c]) - 1
      /\ \A i \in 1..Len(Tail(requests[c])) : Tail(requests[c])[i] = requests[c][i + 1]
  BY <1>0, HeadTailProperties
<1>2. Head(requests[c]) = requests[c][1] /\ 1 \in 1..Len(requests[c])
  BY <1>0
<1>3. ASSUME NEW d \in Consumers, NEW i \in 1..Len(requests'[d])
      PROVE  \E j \in 1..Len(requests[d]) : requests'[d][i] = requests[d][j]
  <2>1. CASE d = c
    <3>1. i \in 1..Len(Tail(requests[c])) /\ requests'[c][i] = Tail(requests[c])[i]
      BY <2>1
    <3>2. i + 1 \in 1..Len(requests[c])
      BY <3>1, <1>1, <1>0
    <3> QED BY <2>1, <3>1, <3>2, <1>1
  <2>2. CASE d # c
    BY <2>2
  <2> QED BY <2>1, <2>2
<1>4. MadeRequest(Head(requests[c]))
  BY <1>2 DEF RequestsInv
<1>5. ASSUME NEW r, MadeRequest(r) PROVE MadeRequest(r)'
  BY <1>5, MadeGrows DEF MadeRequest
<1>6. RequestsInv'
  <2>1. ASSUME NEW d \in Consumers, NEW i \in 1..Len(requests'[d]) PROVE MadeRequest(requests[d][i])'
    <3>1. PICK j \in 1..Len(requests[d]) : requests'[d][i] = requests[d][j]
      BY <1>3
    <3>2. PICK r : r = requests[d][j]
      OBVIOUS
    <3>3. MadeRequest(r)'
      BY <3>2, <1>5 DEF RequestsInv
    <3> QED BY <3>1, <3>2, <3>3 DEF MadeRequest
  <2>2. ASSUME NEW r \in Request, serving' = <<r>> PROVE MadeRequest(r)'
    <3>1. r = Head(requests[c])
      BY <2>2
    <3> QED BY <3>1, <1>4, <1>5
  <2> QED BY <2>1, <2>2 DEF RequestsInv
<1>7. requests' \in [Consumers -> Seq(Request)]
  BY <1>1
<1> QED BY <1>1, <1>4, <1>6, <1>7

-----------------------------------------------------------------------------
(* The steps of the provider.                                                   *)

\* A call whose window has got the value v, if it waits.
Widened(call, v) == IF call.state = "Called" THEN [call EXCEPT !.window = @ \cup {v}] ELSE call

\* SetData keeps the calls, and the new value fits every call that waits.
LEMMA SetDataCalls ==
  ASSUME TypeOK, NEW t \in Threads, NEW v \in Values, SetData(t, v)
  PROVE  /\ mData' = v /\ calls' \in [Consumers -> Seq(Call)] /\ Grow /\ SameLengths
         /\ \A c \in Consumers : \A k \in 1..Len(calls[c]) :
              /\ calls'[c][k].state = calls[c][k].state
              /\ calls'[c][k].output = calls[c][k].output
              /\ calls'[c][k].returned = calls[c][k].returned
              /\ calls'[c][k].state = "Called" => v \in calls'[c][k].window
              /\ calls[c][k].state # "Called" => calls'[c][k] = calls[c][k]
<1>1. calls \in [Consumers -> Seq(Call)]
  BY DEF TypeOK
<1>2. \A call \in Call :
        /\ Widened(call, v) \in Call /\ Widened(call, v).method = call.method /\ Widened(call, v).id = call.id
        /\ Widened(call, v).state = call.state /\ Widened(call, v).output = call.output
        /\ Widened(call, v).returned = call.returned /\ call.window \subseteq Widened(call, v).window
        /\ call.state = "Called" => v \in Widened(call, v).window
  BY DEF Call, Widened
<1>3. \A c \in Consumers : calls'[c] = [k \in 1..Len(calls[c]) |-> Widened(calls[c][k], v)]
  BY <1>1, CallsType DEF SetData, Widened
<1>4. ASSUME NEW c \in Consumers
      PROVE  /\ calls'[c] \in Seq(Call) /\ Len(calls'[c]) = Len(calls[c])
             /\ \A k \in 1..Len(calls[c]) : calls'[c][k] = Widened(calls[c][k], v)
  <2>1. calls'[c] \in [1..Len(calls[c]) -> Call]
    BY <1>1, <1>2, <1>3, CallsType
  <2>2. calls'[c] \in Seq(Call)
    <3>1. Len(calls[c]) \in Nat
      BY <1>1, CallsType
    <3>2. calls'[c] \in UNION {[1..n -> Call] : n \in Nat}
      BY <2>1, <3>1
    <3> QED BY <3>2, SeqDef
  <2>3. DOMAIN calls'[c] = 1..Len(calls[c]) /\ DOMAIN calls'[c] = 1..Len(calls'[c])
    BY <2>1, <2>2, LenProperties
  <2>4. Len(calls'[c]) = Len(calls[c])
    BY <2>2, <2>3, <1>1, CallsType, LenProperties
  <2> QED BY <2>2, <2>4, <1>3
<1>5. calls' \in [Consumers -> Seq(Call)]
  BY <1>4 DEF SetData
<1>6. \A c \in Consumers : Len(calls[c]) \in Nat /\ \A k \in 1..Len(calls[c]) : calls[c][k] \in Call
  BY <1>1, CallsType
<1>7. \A c \in Consumers : \A k \in 1..Len(calls[c]) :
        /\ calls'[c][k].method = calls[c][k].method /\ calls'[c][k].id = calls[c][k].id
        /\ calls'[c][k].state = calls[c][k].state
        /\ calls[c][k].window \subseteq calls'[c][k].window
  BY <1>2, <1>4, <1>6
<1>8. SameLengths
  BY <1>4 DEF SameLengths
<1>9. Grow
  BY <1>6, <1>7, <1>8 DEF Grow, SameLengths
<1>10. \A c \in Consumers : \A k \in 1..Len(calls[c]) :
         /\ calls'[c][k].output = calls[c][k].output
         /\ calls'[c][k].returned = calls[c][k].returned
         /\ calls'[c][k].state = "Called" => v \in calls'[c][k].window
  BY <1>2, <1>4, <1>6
<1>11. \A c \in Consumers : \A k \in 1..Len(calls[c]) :
         calls[c][k].state # "Called" => calls'[c][k] = calls[c][k]
  BY <1>4 DEF Widened
<1>12. mData' = v
  BY DEF SetData
<1> QED BY <1>5, <1>7, <1>8, <1>9, <1>10, <1>11, <1>12

\* The parts that a SetData preserves.
LEMMA SetDataKeeps ==
  ASSUME CallInv, NEW t \in Threads, NEW v \in Values, SetData(t, v),
         UNCHANGED <<inbox, mNextRequestId, mPendingCallContexts, receiver>>
  PROVE  /\ IdsInv' /\ PendingInv' /\ ReturnsInv' /\ ReceiverInv' /\ ReturnedInv'
         /\ FreshCalls' /\ FreshReturns' /\ FreshReceiver'
<1>1. /\ mData' = v /\ calls' \in [Consumers -> Seq(Call)] /\ Grow /\ SameLengths
      /\ \A c \in Consumers : \A k \in 1..Len(calls[c]) :
           /\ calls'[c][k].state = calls[c][k].state
           /\ calls'[c][k].returned = calls[c][k].returned
           /\ calls'[c][k].state = "Called" => v \in calls'[c][k].window
  BY SetDataCalls DEF CallInv
<1>2. calls \in [Consumers -> Seq(Call)]
  BY DEF CallInv, TypeOK
<1>3. IdsInv'
  BY <1>1, IdsKept DEF CallInv
<1>4. PendingInv'
  BY <1>1, <1>2, PendingKept DEF CallInv
<1>5. ReturnsInv' /\ FreshReturns'
  BY <1>1, <1>2, ReturnsKept DEF CallInv
<1>6. ReceiverInv' /\ FreshReceiver'
  BY <1>1, <1>2, ReceiverKept DEF CallInv
<1>7. ReturnedInv'
  BY <1>1, <1>2, ReturnedKept DEF CallInv, SameLengths
<1>8. FreshCalls'
  BY <1>1 DEF FreshCalls, Fits, SameLengths
<1> QED BY <1>3, <1>4, <1>5, <1>6, <1>7, <1>8

LEMMA WriteStep ==
  ASSUME CallInv, NEW v \in Values, Write(v)
  PROVE  CallInv'
<1>1. SetData("app", v) /\ "app" \in Threads
  BY DEF Write, Threads
<1>2. calls' \in [Consumers -> Seq(Call)] /\ calls \in [Consumers -> Seq(Call)] /\ Grow
  BY <1>1, SetDataCalls DEF CallInv, TypeOK
<1>3. provider'["poll"] = provider["poll"] /\ provider' \in [Threads -> [step : {"idle", "notify", "transmit", "answer"}, data : Values]]
  BY <1>1 DEF CallInv, TypeOK, SetData, Threads, After
<1>4. TypeOK'
  <2>1. writes' \in 0..MaxWrites /\ mData' \in Values
    BY <1>1, BoundsAssumption DEF CallInv, TypeOK, Write, SetData
  <2> QED BY <2>1, <1>2, <1>3 DEF CallInv, TypeOK, Write
<1>5. RequestsInv'
  BY <1>2, RequestsKept DEF CallInv, Write
<1>6. FreshServing'
  BY <1>2, <1>3, ServingKept DEF CallInv, Write
<1> QED BY <1>1, <1>4, <1>5, <1>6, SetDataKeeps DEF CallInv, Write

LEMMA CopyDataStep ==
  ASSUME CallInv, NEW t \in Threads, CopyData(t)
  PROVE  CallInv'
<1>1. Grow /\ SameLengths /\ calls' = calls /\ calls \in [Consumers -> Seq(Call)]
  BY SameCalls DEF CallInv, TypeOK, CopyData, consuming
<1>2. TypeOK'
  BY DEF CallInv, TypeOK, CopyData, consuming, Threads
<1>3. FreshServing'
  BY DEF CallInv, CopyData, consuming, FreshServing, Fits, Output, TypeOK, Threads
<1>4. IdsInv' /\ PendingInv' /\ RequestsInv' /\ ReturnsInv' /\ ReceiverInv' /\ ReturnedInv'
  BY <1>1, IdsKept, PendingKept, RequestsKept, ReturnsKept, ReceiverKept, ReturnedKept
     DEF CallInv, CopyData, consuming
<1>5. FreshCalls' /\ FreshReturns' /\ FreshReceiver'
  BY <1>1, ReturnsKept, ReceiverKept DEF CallInv, CopyData, consuming, FreshCalls, Fits
<1> QED BY <1>2, <1>3, <1>4, <1>5 DEF CallInv

LEMMA TransmitStep ==
  ASSUME CallInv, NEW t \in Threads, TransmitDOMember(t)
  PROVE  CallInv'
<1>1. Grow /\ SameLengths /\ calls' = calls /\ calls \in [Consumers -> Seq(Call)]
  BY SameCalls DEF CallInv, TypeOK, TransmitDOMember, consuming
<1>2. PICK m : m = [kind |-> "event", data |-> provider[t].data]
  OBVIOUS
<1>3. m \in Message /\ m.kind = "event"
  BY <1>2 DEF CallInv, TypeOK, Message
<1>4. inbox' \in [Consumers -> Seq(Message)] /\ ReturnsInv' /\ FreshReturns'
  BY <1>1, <1>2, <1>3, Sent DEF CallInv, TypeOK, TransmitDOMember, MadeReturn
<1>5. TypeOK'
  BY <1>4 DEF CallInv, TypeOK, TransmitDOMember, consuming, Threads, After
<1>6. FreshServing'
  BY DEF CallInv, TransmitDOMember, consuming, FreshServing, Fits, Output, TypeOK, Threads
<1>7. IdsInv' /\ PendingInv' /\ RequestsInv' /\ ReceiverInv' /\ ReturnedInv'
  BY <1>1, IdsKept, PendingKept, RequestsKept, ReceiverKept, ReturnedKept
     DEF CallInv, TransmitDOMember, consuming
<1>8. FreshCalls' /\ FreshReceiver'
  BY <1>1, ReceiverKept DEF CallInv, TransmitDOMember, consuming, FreshCalls, Fits
<1> QED BY <1>4, <1>5, <1>6, <1>7, <1>8 DEF CallInv

LEMMA OnReceiveRequestStep ==
  ASSUME CallInv, NEW c \in Consumers, OnReceiveRequest(c)
  PROVE  CallInv'
<1> DEFINE request == Head(requests[c])
<1>1. calls \in [Consumers -> Seq(Call)] /\ requests \in [Consumers -> Seq(Request)]
  BY DEF CallInv, TypeOK
<1>2. request \in Request /\ MadeRequest(request)
  <2>1. requests[c] \in Seq(Request) /\ requests[c] # <<>>
    BY <1>1 DEF OnReceiveRequest
  <2> QED BY <2>1, HeadTailProperties, LenProperties, EmptySeq DEF CallInv, RequestsInv
<1>3. PICK r \in Request : r = request
  BY <1>2
<1>4. /\ serving = <<>> /\ requests[c] # <<>> /\ requests' = [requests EXCEPT ![c] = Tail(@)]
      /\ serving' = <<Head(requests[c])>> /\ serving' = <<r>>
      /\ UNCHANGED <<writes, inbox, value, mNextRequestId, mPendingCallContexts, receiver>>
  BY <1>3 DEF OnReceiveRequest
<1>5. r.call[1] \in Consumers /\ r.call[2] \in 1..Len(calls[r.call[1]])
  BY <1>2, <1>3 DEF MadeRequest, Made
<1>6. ASSUME calls' \in [Consumers -> Seq(Call)], Grow,
             mData' \in Values, provider' \in [Threads -> [step : {"idle", "notify", "transmit", "answer"}, data : Values]],
             provider'["poll"].step # "idle"
      PROVE  TypeOK' /\ RequestsInv'
  <2>1. requests' \in [Consumers -> Seq(Request)] /\ RequestsInv'
    BY <1>1, <1>4, <1>6, RequestTaken DEF CallInv
  <2> QED BY <1>4, <1>6, <2>1 DEF CallInv, TypeOK
<1>7. CASE r.method = "get"
  <2>1. provider' = [provider EXCEPT !["poll"] = [step |-> "answer", data |-> mData]] /\ UNCHANGED <<mData, calls>>
    BY <1>3, <1>7 DEF OnReceiveRequest
  <2>2. Grow /\ SameLengths /\ calls' = calls
    BY <1>1, <2>1, SameCalls
  <2>3. TypeOK' /\ RequestsInv'
    BY <1>1, <1>6, <2>1, <2>2 DEF CallInv, TypeOK, Threads
  <2>4. FreshServing'
    <3>1. provider'["poll"].step = "answer" /\ provider'["poll"].data = mData
      BY <2>1 DEF CallInv, TypeOK, Threads
    <3>2. Fits(r.call[1], r.call[2], mData)
      BY <1>5 DEF CallInv, FreshCalls
    <3> QED BY <1>4, <1>7, <2>1, <3>1, <3>2 DEF FreshServing, Fits, Output
  <2>5. IdsInv' /\ PendingInv' /\ ReturnsInv' /\ ReceiverInv' /\ ReturnedInv'
    BY <1>1, <1>4, <2>2, IdsKept, PendingKept, ReturnsKept, ReceiverKept, ReturnedKept DEF CallInv
  <2>6. FreshCalls' /\ FreshReturns' /\ FreshReceiver'
    BY <1>1, <1>4, <2>1, <2>2, ReturnsKept, ReceiverKept DEF CallInv, FreshCalls, Fits
  <2> QED BY <2>3, <2>4, <2>5, <2>6 DEF CallInv
<1>8. CASE r.method # "get"
  <2>1. SetData("poll", r.input) /\ "poll" \in Threads /\ r.input \in Values
    BY <1>2, <1>3, <1>8 DEF OnReceiveRequest, Threads, Request
  <2>2. /\ mData' = r.input /\ calls' \in [Consumers -> Seq(Call)] /\ Grow
        /\ \A d \in Consumers : \A k \in 1..Len(calls[d]) :
             calls'[d][k].state = "Called" => r.input \in calls'[d][k].window
    BY <2>1, SetDataCalls DEF CallInv
  <2>3. /\ provider' \in [Threads -> [step : {"idle", "notify", "transmit", "answer"}, data : Values]]
        /\ provider'["poll"].step # "idle"
    BY <2>1 DEF SetData, After, CallInv, TypeOK, Threads
  <2>4. TypeOK' /\ RequestsInv'
    BY <1>6, <2>1, <2>2, <2>3
  <2>5. FreshServing'
    BY <1>4, <1>5, <1>8, <2>2 DEF FreshServing, Fits, Output
  <2> QED BY <1>4, <2>1, <2>4, <2>5, SetDataKeeps DEF CallInv
<1> QED BY <1>7, <1>8

LEMMA SendResponseStep ==
  ASSUME CallInv, SendResponse
  PROVE  CallInv'
<1>1. Grow /\ SameLengths /\ calls' = calls /\ calls \in [Consumers -> Seq(Call)]
  BY SameCalls DEF CallInv, TypeOK, SendResponse, consuming
<1>2. PICK r \in Request : serving = <<r>>
  BY DEF CallInv, TypeOK, SendResponse
<1>3. inbox' \in [Consumers -> Seq(Message)] /\ ReturnsInv' /\ FreshReturns'
  <2>1. CASE Answers /\ r.method # "setOneWay"
    <3>1. PICK m : m = Return(r)
      OBVIOUS
    <3>2. Output(r) \in Values /\ Object(r.method) \in Objects
      BY <1>2 DEF CallInv, TypeOK, Output, Request, Threads, Object, Objects
    <3>3. m \in Message /\ Broadcast(m)
      BY <1>2, <2>1, <3>1, <3>2 DEF Return, Message, Request, SendResponse
    <3>4. MadeReturn(m) /\ Fits(m.call[1], m.call[2], m.data)
      BY <1>2, <3>1 DEF CallInv, RequestsInv, FreshServing, MadeRequest, MadeReturn, Return
    <3> QED BY <1>1, <3>3, <3>4, Sent DEF CallInv, TypeOK
  <2>2. CASE ~(Answers /\ r.method # "setOneWay")
    BY <1>1, <1>2, <2>2, ReturnsKept DEF CallInv, TypeOK, SendResponse
  <2> QED BY <2>1, <2>2
<1>4. TypeOK'
  BY <1>3 DEF CallInv, TypeOK, SendResponse, consuming, Threads
<1>5. RequestsInv' /\ FreshServing'
  <2>1. requests' = requests /\ calls' = calls /\ \A q \in Request : serving' # <<q>>
    BY <1>1 DEF SendResponse
  <2>2. RequestsInv
    BY DEF CallInv
  <2>3. ASSUME NEW c \in Consumers, NEW i \in 1..Len(requests'[c]) PROVE MadeRequest(requests[c][i])'
    BY <2>1, <2>2 DEF RequestsInv, MadeRequest, Made
  <2> QED BY <2>1, <2>3 DEF RequestsInv, FreshServing
<1>6. IdsInv' /\ PendingInv' /\ ReceiverInv' /\ ReturnedInv'
  BY <1>1, IdsKept, PendingKept, ReceiverKept, ReturnedKept DEF CallInv, SendResponse, consuming
<1>7. FreshCalls' /\ FreshReceiver'
  BY <1>1, ReceiverKept DEF CallInv, SendResponse, consuming, FreshCalls, Fits
<1> QED BY <1>3, <1>4, <1>5, <1>6, <1>7 DEF CallInv

-----------------------------------------------------------------------------
(* The steps of the application of a consumer.                                  *)

\* A call is added to those of a consumer.
LEMMA CallAdded ==
  ASSUME calls \in [Consumers -> Seq(Call)], NEW c \in Consumers, NEW new \in Call,
         calls' = [calls EXCEPT ![c] = Append(@, new)]
  PROVE  /\ calls' \in [Consumers -> Seq(Call)] /\ Grow
         /\ Len(calls'[c]) = Len(calls[c]) + 1 /\ calls'[c][Len(calls[c]) + 1] = new
         /\ \A k \in 1..Len(calls[c]) : calls'[c][k] = calls[c][k]
         /\ \A d \in Consumers : d # c => calls'[d] = calls[d]
<1>1. calls'[c] = Append(calls[c], new) /\ \A d \in Consumers : d # c => calls'[d] = calls[d]
  OBVIOUS
<1>2. /\ calls'[c] \in Seq(Call) /\ Len(calls'[c]) = Len(calls[c]) + 1
      /\ calls'[c][Len(calls[c]) + 1] = new
      /\ \A k \in 1..Len(calls[c]) : calls'[c][k] = calls[c][k]
  BY <1>1, CallsType, AppendProperties
<1>3. calls' \in [Consumers -> Seq(Call)]
  BY <1>2
<1>4. \A d \in Consumers : Len(calls[d]) \in Nat
  BY CallsType
<1>5. \A d \in Consumers : Len(calls[d]) <= Len(calls'[d]) /\ \A k \in 1..Len(calls[d]) : calls'[d][k] = calls[d][k]
  BY <1>1, <1>2, <1>4
<1>6. Grow
  BY <1>5 DEF Grow
<1> QED BY <1>1, <1>2, <1>3, <1>6

\* An id is erased.
LEMMA IdErased ==
  ASSUME mPendingCallContexts \in [Consumers -> [Objects -> Pending]],
         NEW c \in Consumers, NEW o \in Objects, NEW id,
         mPendingCallContexts' = [mPendingCallContexts EXCEPT ![c][o] = Erase(@, id)]
  PROVE  /\ mPendingCallContexts' \in [Consumers -> [Objects -> Pending]]
         /\ \A d \in Consumers, p \in Objects :
              /\ DOMAIN mPendingCallContexts'[d][p] \subseteq DOMAIN mPendingCallContexts[d][p]
              /\ \A i \in DOMAIN mPendingCallContexts'[d][p] :
                   mPendingCallContexts'[d][p][i] = mPendingCallContexts[d][p][i]
<1>1. \A d \in Consumers, p \in Objects :
        mPendingCallContexts'[d][p] =
          IF d = c /\ p = o THEN Erase(mPendingCallContexts[c][o], id) ELSE mPendingCallContexts[d][p]
  OBVIOUS
<1>2. mPendingCallContexts[c][o] \in Pending
  OBVIOUS
<1>3. /\ Erase(mPendingCallContexts[c][o], id) \in Pending
      /\ DOMAIN Erase(mPendingCallContexts[c][o], id) = DOMAIN mPendingCallContexts[c][o] \ {id}
      /\ \A i \in DOMAIN mPendingCallContexts[c][o] \ {id} :
           Erase(mPendingCallContexts[c][o], id)[i] = mPendingCallContexts[c][o][i]
  BY <1>2, PendingErased
<1>4. mPendingCallContexts' \in [Consumers -> [Objects -> Pending]]
  BY <1>3
<1> QED BY <1>1, <1>3, <1>4

LEMMA CreateStep ==
  ASSUME CallInv, NEW c \in Consumers, NEW m \in Methods, NEW v \in Values, CreateCallContext(c, m, v)
  PROVE  CallInv'
<1>0. PICK n, o : n = Len(calls[c]) /\ o = Object(m)
  OBVIOUS
<1>1. PICK id : id = mNextRequestId[c][o]
  OBVIOUS
<1>2. PICK new : new = [method |-> m, id |-> id, input |-> v, state |-> "Initial", held |-> TRUE,
                        output |-> 0, window |-> {}, returned |-> <<>>]
  OBVIOUS
<1>3. /\ n < MaxCalls /\ mNextRequestId' = [mNextRequestId EXCEPT ![c][o] = @ + 1]
      /\ mPendingCallContexts' = [mPendingCallContexts EXCEPT ![c][o] = Insert(@, id, n + 1)]
      /\ calls' = [calls EXCEPT ![c] = Append(@, new)]
      /\ UNCHANGED <<providing, requests, inbox, value, receiver>>
  BY <1>0, <1>1, <1>2 DEF CreateCallContext, CreateUniqueRequestId
<1>4. /\ calls \in [Consumers -> Seq(Call)] /\ n \in Nat /\ o \in Objects
      /\ mNextRequestId \in [Consumers -> [Objects -> 1..(MaxCalls + 1)]]
      /\ mPendingCallContexts \in [Consumers -> [Objects -> Pending]]
  BY <1>0, CallsType DEF CallInv, TypeOK, Object, Objects
<1>21. n \in Nat /\ \A d \in Consumers : Len(calls[d]) \in Nat
  BY <1>4, CallsType
<1>5. id \in 1..MaxCalls /\ id <= n + 1 /\ n + 1 \in 1..MaxCalls
  BY <1>0, <1>1, <1>3, <1>4, BoundsAssumption DEF CallInv, IdsInv
<1>6. new \in Call
  BY <1>2, <1>5, BoundsAssumption DEF Call, Values
<1>7. /\ calls' \in [Consumers -> Seq(Call)] /\ Grow
      /\ Len(calls'[c]) = n + 1 /\ calls'[c][n + 1] = new
      /\ \A k \in 1..n : calls'[c][k] = calls[c][k]
      /\ \A d \in Consumers : d # c => calls'[d] = calls[d]
  BY <1>0, <1>3, <1>4, <1>6, CallAdded
<1>8. \A d \in Consumers, p \in Objects :
        /\ mNextRequestId'[d][p] = IF d = c /\ p = o THEN id + 1 ELSE mNextRequestId[d][p]
        /\ mPendingCallContexts'[d][p] =
             IF d = c /\ p = o THEN Insert(mPendingCallContexts[c][o], id, n + 1)
             ELSE mPendingCallContexts[d][p]
  BY <1>1, <1>3, <1>4
<1>9. mPendingCallContexts[c][o] \in Pending
  BY <1>4
<1>10. /\ Insert(mPendingCallContexts[c][o], id, n + 1) \in Pending
       /\ DOMAIN Insert(mPendingCallContexts[c][o], id, n + 1) = DOMAIN mPendingCallContexts[c][o] \cup {id}
       /\ Insert(mPendingCallContexts[c][o], id, n + 1)[id] = n + 1
       /\ \A i \in DOMAIN mPendingCallContexts[c][o] \ {id} :
            Insert(mPendingCallContexts[c][o], id, n + 1)[i] = mPendingCallContexts[c][o][i]
  BY <1>5, <1>9, PendingInserted
<1>11. TypeOK'
  <2>1. mPendingCallContexts' \in [Consumers -> [Objects -> Pending]]
    BY <1>3, <1>4, <1>10
  <2>2. id + 1 \in 1..(MaxCalls + 1)
    BY <1>5, BoundsAssumption
  <2>3. mNextRequestId' \in [Consumers -> [Objects -> 1..(MaxCalls + 1)]]
    BY <1>1, <1>3, <1>4, <2>2
  <2> QED BY <1>3, <1>7, <2>1, <2>3 DEF CallInv, TypeOK, providing
<1>12. IdsInv'
  <2> SUFFICES ASSUME NEW d \in Consumers
               PROVE  /\ Len(calls'[d]) <= MaxCalls
                      /\ \A p \in Objects : mNextRequestId'[d][p] <= Len(calls'[d]) + 1
                      /\ \A k \in 1..Len(calls'[d]) :
                           calls'[d][k].id < mNextRequestId'[d][Object(calls'[d][k].method)]
                      /\ \A j, k \in 1..Len(calls'[d]) :
                           Object(calls'[d][j].method) = Object(calls'[d][k].method)
                             /\ calls'[d][j].id = calls'[d][k].id => j = k
    BY DEF IdsInv
  <2>1. CASE d # c
    <3>1. calls'[d] = calls[d] /\ \A p \in Objects : mNextRequestId'[d][p] = mNextRequestId[d][p]
      BY <2>1, <1>7, <1>8
    <3>2. \A k \in 1..Len(calls[d]) : Object(calls[d][k].method) \in Objects
      BY DEF Object, Objects
    <3> QED BY <3>1, <3>2 DEF CallInv, IdsInv
  <2>2. CASE d = c
    <3>1. \A k \in 1..n : calls[c][k] \in Call /\ Object(calls[c][k].method) \in Objects
      BY <1>0, <1>4, CallsType DEF Object, Objects
    <3>2. new.id = id /\ Object(new.method) = o
      BY <1>0, <1>2
    <3>3. \A k \in 1..n : calls[c][k].id \in Nat /\ calls[c][k].id < mNextRequestId[c][Object(calls[c][k].method)]
      BY <1>0, <3>1 DEF CallInv, IdsInv, Call
    <3>4. \A p \in Objects : mNextRequestId[c][p] \in Nat /\ mNextRequestId[c][p] <= n + 1
      BY <1>0, <1>4 DEF CallInv, IdsInv
    <3>5. Len(calls'[c]) <= MaxCalls /\ \A p \in Objects : mNextRequestId'[c][p] <= Len(calls'[c]) + 1
      <4>1. n + 1 <= MaxCalls /\ Len(calls'[c]) = n + 1
        BY <1>3, <1>4, <1>7, BoundsAssumption
      <4>2. \A p \in Objects : mNextRequestId'[c][p] <= (n + 1) + 1
        BY <1>21, <1>5, <1>8, <3>4
      <4> QED BY <4>1, <4>2
    <3>6. ASSUME NEW k \in 1..Len(calls'[c])
          PROVE  calls'[c][k].id < mNextRequestId'[c][Object(calls'[c][k].method)]
      <4>1. CASE k = n + 1
        BY <4>1, <1>4, <1>5, <1>7, <1>8, <3>2
      <4>2. CASE k \in 1..n
        <5>1. calls'[c][k] = calls[c][k] /\ Object(calls[c][k].method) \in Objects
          BY <4>2, <1>7, <3>1
        <5>2. mNextRequestId[c][Object(calls[c][k].method)] <= mNextRequestId'[c][Object(calls[c][k].method)]
          BY <5>1, <1>1, <1>5, <1>8, <3>4
        <5> QED BY <5>1, <5>2, <4>2, <3>3, <3>4, <1>1, <1>5, <1>8
      <4> QED BY <4>1, <4>2, <1>4, <1>7
    <3>7. ASSUME NEW k \in 1..n, Object(calls[c][k].method) = o PROVE calls[c][k].id # id
      BY <3>7, <3>3, <1>1, <1>5
    <3>8. \A j, k \in 1..Len(calls'[c]) :
            Object(calls'[c][j].method) = Object(calls'[c][k].method) /\ calls'[c][j].id = calls'[c][k].id
              => j = k
      <4>1. \A j, k \in 1..n :
              Object(calls[c][j].method) = Object(calls[c][k].method) /\ calls[c][j].id = calls[c][k].id
                => j = k
        BY <1>0 DEF CallInv, IdsInv
      <4>2. \A k \in 1..Len(calls'[c]) : (k \in 1..n /\ calls'[c][k] = calls[c][k]) \/ (k = n + 1 /\ calls'[c][k] = new)
        BY <1>4, <1>7
      <4> QED BY <3>2, <3>7, <4>1, <4>2
    <3> QED BY <2>2, <3>5, <3>6, <3>8
  <2> QED BY <2>1, <2>2
<1>13. PendingInv'
  <2> SUFFICES ASSUME NEW d \in Consumers, NEW p \in Objects, NEW i \in DOMAIN mPendingCallContexts'[d][p]
               PROVE  LET k == mPendingCallContexts'[d][p][i]
                      IN k \in 1..Len(calls'[d]) /\ calls'[d][k].id = i /\ Object(calls'[d][k].method) = p
    BY DEF PendingInv
  <2>1. CASE d = c /\ p = o /\ i = id
    BY <2>1, <1>0, <1>2, <1>4, <1>7, <1>8, <1>10
  <2>2. CASE ~(d = c /\ p = o /\ i = id)
    <3>1. i \in DOMAIN mPendingCallContexts[d][p] /\ mPendingCallContexts'[d][p][i] = mPendingCallContexts[d][p][i]
      BY <2>2, <1>8, <1>10
    <3>2. LET k == mPendingCallContexts[d][p][i]
          IN k \in 1..Len(calls[d]) /\ calls[d][k].id = i /\ Object(calls[d][k].method) = p
      BY <3>1 DEF CallInv, PendingInv
    <3>3. Len(calls[d]) \in Nat
      BY <1>4, CallsType
    <3>4. Len(calls[d]) <= Len(calls'[d]) /\ \A k \in 1..Len(calls[d]) : calls'[d][k] = calls[d][k]
      <4>1. CASE d = c
        BY <4>1, <1>0, <1>21, <1>7
      <4>2. CASE d # c
        BY <4>2, <1>21, <1>7
      <4> QED BY <4>1, <4>2
    <3>5. Len(calls'[d]) \in Nat
      BY <1>7, CallsType
    <3> QED BY <3>1, <3>2, <3>3, <3>4, <3>5
  <2> QED BY <2>1, <2>2
<1>14. RequestsInv' /\ ReturnsInv' /\ ReceiverInv' /\ FreshReturns' /\ FreshReceiver'
  <2>1. UNCHANGED <<requests, serving, inbox, receiver>>
    BY <1>3 DEF providing
  <2>2. RequestsInv'
    BY <2>1, <1>4, <1>7, RequestsKept DEF CallInv
  <2>3. ReturnsInv' /\ FreshReturns'
    BY <2>1, <1>4, <1>7, ReturnsKept DEF CallInv
  <2>4. ReceiverInv' /\ FreshReceiver'
    BY <2>1, <1>4, <1>7, ReceiverKept DEF CallInv
  <2> QED BY <2>2, <2>3, <2>4
<1>15. ASSUME NEW d \in Consumers, NEW k \in 1..Len(calls'[d])
       PROVE  (k \in 1..Len(calls[d]) /\ calls'[d][k] = calls[d][k]) \/ calls'[d][k].state = "Initial"
  <2>1. CASE d # c
    BY <2>1, <1>7
  <2>2. CASE d = c
    <3>1. k \in 1..n \/ k = n + 1
      BY <2>2, <1>21, <1>7
    <3>2. new.state = "Initial"
      BY <1>2
    <3> QED BY <2>2, <3>1, <3>2, <1>0, <1>7
  <2> QED BY <2>1, <2>2
<1>16. ReturnedInv' /\ FreshCalls'
  <2>1. ReturnedInv'
    BY <1>4, <1>7, <1>15, ReturnedKept DEF CallInv
  <2>2. FreshCalls'
    BY <1>3, <1>15 DEF CallInv, FreshCalls, Fits, providing
  <2> QED BY <2>1, <2>2
<1>17. FreshServing'
  BY <1>3, <1>4, <1>7, ServingKept DEF CallInv, providing
<1> QED BY <1>11, <1>12, <1>13, <1>14, <1>16, <1>17 DEF CallInv

\* A request is sent by a consumer.
LEMMA RequestSent ==
  ASSUME requests \in [Consumers -> Seq(Request)], calls \in [Consumers -> Seq(Call)],
         calls' \in [Consumers -> Seq(Call)], Grow, RequestsInv, UNCHANGED serving,
         NEW c \in Consumers, NEW r \in Request, MadeRequest(r)',
         requests' = [requests EXCEPT ![c] = Append(@, r)]
  PROVE  requests' \in [Consumers -> Seq(Request)] /\ RequestsInv'
<1>1. requests[c] \in Seq(Request) /\ Len(requests[c]) \in Nat
  BY LenProperties
<1>2. /\ requests'[c] \in Seq(Request) /\ Len(requests'[c]) = Len(requests[c]) + 1
      /\ \A i \in 1..Len(requests[c]) : requests'[c][i] = requests[c][i]
      /\ requests'[c][Len(requests[c]) + 1] = r
  <2>1. requests'[c] = Append(requests[c], r)
    OBVIOUS
  <2> QED BY <2>1, <1>1, AppendProperties
<1>3. requests' \in [Consumers -> Seq(Request)]
  BY <1>2
<1>4. ASSUME NEW d \in Consumers, NEW i \in 1..Len(requests'[d])
      PROVE  (i \in 1..Len(requests[d]) /\ requests'[d][i] = requests[d][i]) \/ requests'[d][i] = r
  BY <1>1, <1>2
<1>5. ASSUME NEW q, MadeRequest(q) PROVE MadeRequest(q)'
  BY <1>5, MadeGrows DEF MadeRequest
<1>6. ASSUME NEW d \in Consumers, NEW i \in 1..Len(requests'[d]) PROVE MadeRequest(requests[d][i])'
  <2>1. CASE requests'[d][i] = r
    BY <2>1 DEF MadeRequest, Made
  <2>2. CASE i \in 1..Len(requests[d]) /\ requests'[d][i] = requests[d][i]
    <3>1. PICK q : q = requests[d][i]
      OBVIOUS
    <3>2. MadeRequest(q)'
      BY <2>2, <3>1, <1>5 DEF RequestsInv
    <3> QED BY <2>2, <3>1, <3>2 DEF MadeRequest, Made
  <2> QED BY <2>1, <2>2, <1>4
<1>7. \A q \in Request : serving' = <<q>> => MadeRequest(q)'
  BY <1>5 DEF RequestsInv
<1> QED BY <1>3, <1>6, <1>7 DEF RequestsInv

LEMMA CallAsyncStep ==
  ASSUME CallInv, NEW c \in Consumers, NEW k \in DOMAIN calls[c], CallAsync(c, k)
  PROVE  CallInv'
<1>1. /\ calls \in [Consumers -> Seq(Call)] /\ requests \in [Consumers -> Seq(Request)]
      /\ mPendingCallContexts \in [Consumers -> [Objects -> Pending]] /\ mData \in Values
  BY DEF CallInv, TypeOK
<1>2. k \in 1..Len(calls[c]) /\ Len(calls[c]) \in Nat
  BY <1>1, CallsType
<1>3. PICK call \in Call : call = calls[c][k]
  BY <1>1, <1>2, CallsType
<1>4. PICK new : new = [call EXCEPT !.state = "Called", !.window = {mData}]
  OBVIOUS
<1>5. /\ new \in Call /\ new.state = "Called" /\ new.window = {mData}
      /\ new.method = call.method /\ new.id = call.id /\ new.returned = call.returned
  BY <1>1, <1>3, <1>4 DEF Call
<1>6. CallBecomes(c, k, new)
  BY <1>1, <1>2, <1>3, <1>4, CallsType DEF CallBecomes, CallAsync
<1>7. /\ calls' \in [Consumers -> Seq(Call)] /\ SameLengths
      /\ \A d \in Consumers : \A j \in 1..Len(calls[d]) :
           calls'[d][j] = IF d = c /\ j = k THEN new ELSE calls[d][j]
  BY <1>1, <1>2, <1>5, <1>6, OneCallChanges
<1>8. calls[c][k].state = "Initial" /\ UNCHANGED <<providing, inbox, value, mNextRequestId, receiver>>
  BY DEF CallAsync
<1>21. \A d \in Consumers : Len(calls[d]) \in Nat
  BY <1>1, CallsType
<1>9. Grow
  BY <1>21, <1>3, <1>5, <1>7, <1>8 DEF Grow, SameLengths
<1>10. PICK r : r = [method |-> call.method, id |-> call.id, input |-> call.input, call |-> <<c, k>>]
  OBVIOUS
<1>11. r \in Request
  <2>1. k \in 1..MaxCalls
    BY <1>2, BoundsAssumption DEF CallInv, IdsInv
  <2> QED BY <2>1, <1>3, <1>10 DEF Request, Call
<1>12. MadeRequest(r)'
  <2>1. calls'[c][k] = new /\ k \in 1..Len(calls'[c])
    BY <1>2, <1>7 DEF SameLengths
  <2> QED BY <2>1, <1>5, <1>10 DEF MadeRequest, Made
<1>13. requests' \in [Consumers -> Seq(Request)] /\ RequestsInv'
  <2>1. requests' = [requests EXCEPT ![c] = Append(@, r)]
    BY <1>3, <1>10 DEF CallAsync
  <2> QED BY <2>1, <1>1, <1>7, <1>8, <1>9, <1>11, <1>12, RequestSent DEF CallInv, providing
<1>14. /\ mPendingCallContexts' \in [Consumers -> [Objects -> Pending]]
       /\ \A d \in Consumers, p \in Objects :
            /\ DOMAIN mPendingCallContexts'[d][p] \subseteq DOMAIN mPendingCallContexts[d][p]
            /\ \A i \in DOMAIN mPendingCallContexts'[d][p] :
                 mPendingCallContexts'[d][p][i] = mPendingCallContexts[d][p][i]
  <2>1. CASE call.method = "setOneWay"
    BY <2>1, <1>1, <1>3, IdErased DEF CallAsync, Objects
  <2>2. CASE call.method # "setOneWay"
    BY <2>2, <1>1, <1>3 DEF CallAsync
  <2> QED BY <2>1, <2>2
<1>15. TypeOK'
  BY <1>7, <1>8, <1>13, <1>14 DEF CallInv, TypeOK, providing
<1>16. IdsInv' /\ PendingInv'
  BY <1>1, <1>7, <1>8, <1>9, <1>14, IdsKept, PendingKept DEF CallInv
<1>17. ReturnsInv' /\ FreshReturns' /\ ReceiverInv' /\ FreshReceiver'
  BY <1>1, <1>7, <1>8, <1>9, ReturnsKept, ReceiverKept DEF CallInv
<1>18. ReturnedInv'
  BY <1>1, <1>5, <1>7, <1>9, ReturnedKept DEF CallInv, SameLengths
<1>19. FreshCalls'
  BY <1>5, <1>7, <1>8 DEF CallInv, FreshCalls, Fits, SameLengths, providing
<1>20. FreshServing'
  BY <1>1, <1>7, <1>8, <1>9, ServingKept DEF CallInv, providing
<1> QED BY <1>13, <1>15, <1>16, <1>17, <1>18, <1>19, <1>20 DEF CallInv

LEMMA ReleaseStep ==
  ASSUME CallInv, NEW c \in Consumers, NEW k \in DOMAIN calls[c], Release(c, k)
  PROVE  CallInv'
<1>1. /\ calls \in [Consumers -> Seq(Call)]
      /\ mPendingCallContexts \in [Consumers -> [Objects -> Pending]]
  BY DEF CallInv, TypeOK
<1>2. k \in 1..Len(calls[c]) /\ \A d \in Consumers : Len(calls[d]) \in Nat
  BY <1>1, CallsType
<1>3. PICK call \in Call : call = calls[c][k]
  BY <1>1, <1>2, CallsType
<1>4. PICK new : new = [call EXCEPT !.held = FALSE]
  OBVIOUS
<1>5. /\ new \in Call /\ new.state = call.state /\ new.window = call.window
      /\ new.method = call.method /\ new.id = call.id /\ new.returned = call.returned
  BY <1>3, <1>4 DEF Call
<1>6. CallBecomes(c, k, new)
  BY <1>1, <1>2, <1>3, <1>4, CallsType DEF CallBecomes, Release
<1>7. /\ calls' \in [Consumers -> Seq(Call)] /\ SameLengths
      /\ \A d \in Consumers : \A j \in 1..Len(calls[d]) :
           calls'[d][j] = IF d = c /\ j = k THEN new ELSE calls[d][j]
  BY <1>1, <1>2, <1>5, <1>6, OneCallChanges
<1>8. UNCHANGED <<providing, requests, inbox, value, mNextRequestId, receiver>>
  BY DEF Release
<1>9. Grow
  BY <1>2, <1>3, <1>5, <1>7 DEF Grow, SameLengths
<1>10. /\ mPendingCallContexts' \in [Consumers -> [Objects -> Pending]]
       /\ \A d \in Consumers, p \in Objects :
            /\ DOMAIN mPendingCallContexts'[d][p] \subseteq DOMAIN mPendingCallContexts[d][p]
            /\ \A i \in DOMAIN mPendingCallContexts'[d][p] :
                 mPendingCallContexts'[d][p][i] = mPendingCallContexts[d][p][i]
  <2>1. Object(call.method) \in Objects
    BY DEF Object, Objects
  <2>2. CASE mPendingCallContexts' = mPendingCallContexts
    BY <2>2, <1>1
  <2>3. CASE mPendingCallContexts' = [mPendingCallContexts EXCEPT ![c][Object(call.method)] = Erase(@, call.id)]
    BY <2>1, <2>3, <1>1, IdErased
  <2> QED BY <2>2, <2>3, <1>3 DEF Release
<1>11. TypeOK'
  BY <1>7, <1>8, <1>10 DEF CallInv, TypeOK, providing
<1>12. IdsInv' /\ PendingInv' /\ RequestsInv'
  BY <1>1, <1>7, <1>8, <1>9, <1>10, IdsKept, PendingKept, RequestsKept DEF CallInv, providing
<1>13. ReturnsInv' /\ FreshReturns' /\ ReceiverInv' /\ FreshReceiver'
  BY <1>1, <1>7, <1>8, <1>9, ReturnsKept, ReceiverKept DEF CallInv
<1>14. ReturnedInv'
  BY <1>1, <1>3, <1>5, <1>7, <1>9, ReturnedKept DEF CallInv, SameLengths
<1>15. FreshCalls'
  BY <1>3, <1>5, <1>7, <1>8 DEF CallInv, FreshCalls, Fits, SameLengths, providing
<1>16. FreshServing'
  BY <1>1, <1>7, <1>8, <1>9, ServingKept DEF CallInv, providing
<1> QED BY <1>11, <1>12, <1>13, <1>14, <1>15, <1>16 DEF CallInv

-----------------------------------------------------------------------------
(* The steps of the poll thread of a consumer.                                  *)

LEMMA OnReceiveEventStep ==
  ASSUME CallInv, NEW c \in Consumers, OnReceiveEvent(c)
  PROVE  CallInv'
<1>1. /\ calls' = calls /\ calls \in [Consumers -> Seq(Call)] /\ inbox \in [Consumers -> Seq(Message)]
      /\ inbox[c] # <<>> /\ inbox' = [inbox EXCEPT ![c] = Tail(@)]
  BY DEF CallInv, TypeOK, OnReceiveEvent
<1>2. Grow /\ SameLengths
  BY <1>1, SameCalls
<1>3. inbox' \in [Consumers -> Seq(Message)] /\ ReturnsInv' /\ FreshReturns' /\ Head(inbox[c]) \in Message
  BY <1>1, Received DEF CallInv
<1>4. Head(inbox[c]).data \in Values
  BY <1>3 DEF Message
<1>5. TypeOK'
  BY <1>3, <1>4 DEF CallInv, TypeOK, OnReceiveEvent, providing
<1>6. IdsInv' /\ PendingInv' /\ RequestsInv' /\ ReturnedInv'
  BY <1>1, <1>2, IdsKept, PendingKept, RequestsKept, ReturnedKept DEF CallInv, OnReceiveEvent, providing
<1>7. ReceiverInv' /\ FreshReceiver' /\ FreshServing'
  BY <1>1, <1>2, ReceiverKept, ServingKept DEF CallInv, OnReceiveEvent, providing
<1>8. FreshCalls'
  BY <1>1 DEF CallInv, FreshCalls, Fits, OnReceiveEvent, providing
<1> QED BY <1>3, <1>5, <1>6, <1>7, <1>8 DEF CallInv

LEMMA PopStep ==
  ASSUME CallInv, NEW c \in Consumers, PopCallContext(c)
  PROVE  CallInv'
<1>1. /\ calls' = calls /\ calls \in [Consumers -> Seq(Call)] /\ inbox \in [Consumers -> Seq(Message)]
      /\ mPendingCallContexts \in [Consumers -> [Objects -> Pending]]
      /\ inbox[c] # <<>> /\ inbox' = [inbox EXCEPT ![c] = Tail(@)]
      /\ UNCHANGED <<providing, requests, value, mNextRequestId>>
  BY DEF CallInv, TypeOK, PopCallContext
<1>2. Grow /\ SameLengths
  BY <1>1, SameCalls
<1>3. PICK m : m = Head(inbox[c])
  OBVIOUS
<1>4. inbox' \in [Consumers -> Seq(Message)] /\ ReturnsInv' /\ FreshReturns'
  BY <1>1, Received DEF CallInv
<1>5. /\ m \in Message /\ m.kind = "return"
      /\ Made(m.call[1], m.call[2], m.object, m.id) /\ Fits(m.call[1], m.call[2], m.data)
  <2>1. m.kind = "return"
    BY <1>3 DEF PopCallContext
  <2> QED BY <2>1, <1>1, <1>3, Received DEF CallInv, MadeReturn
<1>6. m.object \in Objects /\ m.id \in 1..MaxCalls /\ m.data \in Values /\ m.call \in Consumers \X (1..MaxCalls)
  BY <1>5 DEF Message
<1>7. IdsInv' /\ RequestsInv' /\ ReturnedInv' /\ FreshServing'
  BY <1>1, <1>2, IdsKept, RequestsKept, ReturnedKept, ServingKept DEF CallInv, providing
<1>8. FreshCalls'
  BY <1>1 DEF CallInv, FreshCalls, Fits, providing
<1>9. CASE Find(c, m.object, m.id) = {}
  <2>1. UNCHANGED <<mPendingCallContexts, receiver>>
    BY <1>3, <1>9 DEF PopCallContext
  <2>2. TypeOK'
    BY <1>1, <1>4, <2>1 DEF CallInv, TypeOK, providing
  <2>3. PendingInv'
    BY <1>1, <1>2, <2>1, PendingKept DEF CallInv
  <2>4. ReceiverInv' /\ FreshReceiver'
    BY <1>1, <1>2, <2>1, ReceiverKept DEF CallInv
  <2> QED BY <1>4, <1>7, <1>8, <2>2, <2>3, <2>4 DEF CallInv
<1>10. CASE Find(c, m.object, m.id) # {}
  <2>1. PICK k \in Find(c, m.object, m.id) :
          /\ mPendingCallContexts' = [mPendingCallContexts EXCEPT ![c][m.object] = Erase(@, calls[c][k].id)]
          /\ receiver' = [receiver EXCEPT ![c] = [step |-> "popping", object |-> m.object, call |-> k,
                                                 data |-> m.data, answered |-> m.call]]
    BY <1>3, <1>10 DEF PopCallContext
  <2>2. k \in 1..Len(calls[c]) /\ calls[c][k].id = m.id /\ Object(calls[c][k].method) = m.object
    BY <1>6, <2>1 DEF CallInv, PendingInv, Find
  <2>3. k \in 1..MaxCalls
    <3>1. Len(calls[c]) \in Nat /\ Len(calls[c]) <= MaxCalls
      BY <1>1, CallsType DEF CallInv, IdsInv
    <3> QED BY <2>2, <3>1, BoundsAssumption
  <2>4. /\ mPendingCallContexts' \in [Consumers -> [Objects -> Pending]]
        /\ PendingInv'
    <3>1. PICK id : id = calls[c][k].id
      OBVIOUS
    <3>2. mPendingCallContexts' = [mPendingCallContexts EXCEPT ![c][m.object] = Erase(@, id)]
      BY <2>1, <3>1
    <3> QED BY <1>1, <1>2, <1>6, <3>2, IdErased, PendingKept DEF CallInv
  <2>5. PICK new : new = [step |-> "popping", object |-> m.object, call |-> k,
                          data |-> m.data, answered |-> m.call]
    OBVIOUS
  <2>6. new \in Receiver
    BY <1>6, <2>3, <2>5 DEF Receiver
  <2>7. TypeOK'
    BY <1>1, <1>4, <2>1, <2>4, <2>5, <2>6 DEF CallInv, TypeOK, providing
  <2>8. ASSUME NEW d \in Consumers, receiver'[d].step # "idle"
        PROVE  /\ receiver'[d].call \in 1..Len(calls[d])
               /\ Object(calls[d][receiver'[d].call].method) = receiver'[d].object
               /\ Made(receiver'[d].answered[1], receiver'[d].answered[2], receiver'[d].object,
                       calls[d][receiver'[d].call].id)
               /\ Fits(receiver'[d].answered[1], receiver'[d].answered[2], receiver'[d].data)
    <3>1. CASE d = c
      <4>1. receiver'[d] = new
        BY <3>1, <2>1, <2>5 DEF CallInv, TypeOK
      <4> QED BY <3>1, <4>1, <1>5, <2>2, <2>5
    <3>2. CASE d # c
      <4>1. receiver'[d] = receiver[d]
        BY <3>2, <2>1 DEF CallInv, TypeOK
      <4> QED BY <4>1, <2>8 DEF CallInv, ReceiverInv, FreshReceiver
    <3> QED BY <3>1, <3>2
  <2>9. ReceiverInv' /\ FreshReceiver'
    BY <1>1, <2>8 DEF ReceiverInv, FreshReceiver, Made, Fits
  <2> QED BY <1>4, <1>7, <1>8, <2>4, <2>7, <2>9 DEF CallInv
<1> QED BY <1>9, <1>10

LEMMA EndPopStep ==
  ASSUME CallInv, NEW c \in Consumers, EndPop(c)
  PROVE  CallInv'
<1>1. /\ calls' = calls /\ calls \in [Consumers -> Seq(Call)]
      /\ UNCHANGED <<providing, requests, inbox, value, mNextRequestId, mPendingCallContexts>>
  BY DEF CallInv, TypeOK, EndPop
<1>2. Grow /\ SameLengths
  BY <1>1, SameCalls
<1>3. \E step \in {"popped", "blocked"} : receiver' = [receiver EXCEPT ![c].step = step]
  BY DEF EndPop
<1>4. receiver \in [Consumers -> Receiver] /\ receiver[c].step = "popping"
  BY DEF CallInv, TypeOK, EndPop
<1>5. receiver' \in [Consumers -> Receiver]
  BY <1>3, <1>4 DEF Receiver
<1>6. \A d \in Consumers : receiver'[d].step # "idle" =>
        /\ receiver[d].step # "idle" /\ receiver'[d].call = receiver[d].call
        /\ receiver'[d].object = receiver[d].object /\ receiver'[d].data = receiver[d].data
        /\ receiver'[d].answered = receiver[d].answered
  BY <1>3, <1>4 DEF Receiver
<1>7. TypeOK'
  BY <1>1, <1>5 DEF CallInv, TypeOK, providing
<1>8. IdsInv' /\ PendingInv' /\ RequestsInv' /\ ReturnedInv'
  BY <1>1, <1>2, IdsKept, PendingKept, RequestsKept, ReturnedKept DEF CallInv, providing
<1>9. ReturnsInv' /\ FreshReturns' /\ FreshServing'
  BY <1>1, <1>2, ReturnsKept, ServingKept DEF CallInv, providing
<1>10. ReceiverInv' /\ FreshReceiver'
  BY <1>1, <1>2, <1>6, ReceiverKept DEF CallInv
<1>11. FreshCalls'
  BY <1>1 DEF CallInv, FreshCalls, Fits, providing
<1> QED BY <1>7, <1>8, <1>9, <1>10, <1>11 DEF CallInv

LEMMA UpdateValueStep ==
  ASSUME CallInv, NEW c \in Consumers, UpdateValue(c)
  PROVE  CallInv'
<1>1. /\ calls' = calls /\ calls \in [Consumers -> Seq(Call)]
      /\ UNCHANGED <<providing, requests, inbox, mNextRequestId, mPendingCallContexts>>
  BY DEF CallInv, TypeOK, UpdateValue
<1>2. Grow /\ SameLengths
  BY <1>1, SameCalls
<1>3. /\ receiver \in [Consumers -> Receiver] /\ receiver[c].step = "update"
      /\ receiver' = [receiver EXCEPT ![c] = [step |-> "idle"]]
      /\ value' = [value EXCEPT ![c] = receiver[c].data]
  BY DEF CallInv, TypeOK, UpdateValue
<1>4. receiver' \in [Consumers -> Receiver] /\ receiver[c].data \in Values
  BY <1>3 DEF Receiver
<1>5. \A d \in Consumers : receiver'[d].step # "idle" => receiver'[d] = receiver[d]
  BY <1>3
<1>6. TypeOK'
  BY <1>1, <1>3, <1>4 DEF CallInv, TypeOK, providing
<1>7. IdsInv' /\ PendingInv' /\ RequestsInv' /\ ReturnedInv'
  BY <1>1, <1>2, IdsKept, PendingKept, RequestsKept, ReturnedKept DEF CallInv, providing
<1>8. ReturnsInv' /\ FreshReturns' /\ FreshServing'
  BY <1>1, <1>2, ReturnsKept, ServingKept DEF CallInv, providing
<1>9. ReceiverInv' /\ FreshReceiver'
  BY <1>1, <1>2, <1>5, ReceiverKept DEF CallInv
<1>10. FreshCalls'
  BY <1>1 DEF CallInv, FreshCalls, Fits, providing
<1> QED BY <1>6, <1>7, <1>8, <1>9, <1>10 DEF CallInv

LEMMA OnReturnStep ==
  ASSUME CallInv, NEW c \in Consumers, OnReturn(c)
  PROVE  CallInv'
<1> DEFINE k == receiver[c].call
<1>1. /\ calls \in [Consumers -> Seq(Call)] /\ receiver \in [Consumers -> Receiver]
      /\ receiver[c].step = "popped"
      /\ UNCHANGED <<providing, requests, inbox, value, mNextRequestId, mPendingCallContexts>>
  BY DEF CallInv, TypeOK, OnReturn
<1>2. PICK r \in Receiver : r = receiver[c]
  BY <1>1
<1>3. PICK j : j = k
  OBVIOUS
<1>4. /\ j \in 1..Len(calls[c]) /\ r.answered \in Consumers \X (1..MaxCalls) /\ r.data \in Values
      /\ \A d \in Consumers : Len(calls[d]) \in Nat
  BY <1>1, <1>2, <1>3, CallsType DEF CallInv, ReceiverInv, Receiver
<1> HIDE DEF k
<1>5. CASE ~(calls[c][j].held /\ calls[c][j].state = "Called")
  <2>1. calls' = calls /\ receiver' = [receiver EXCEPT ![c] = [step |-> "idle"]]
    BY <1>3, <1>5 DEF OnReturn, k
  <2>2. Grow /\ SameLengths
    BY <1>1, <2>1, SameCalls
  <2>3. \A d \in Consumers : receiver'[d].step # "idle" => receiver'[d] = receiver[d]
    BY <1>1, <2>1
  <2>4. receiver' \in [Consumers -> Receiver]
    BY <1>1, <2>1 DEF Receiver
  <2>5. TypeOK'
    BY <1>1, <2>1, <2>4 DEF CallInv, TypeOK, providing
  <2>6. IdsInv' /\ PendingInv' /\ RequestsInv' /\ ReturnedInv'
    BY <1>1, <2>1, <2>2, IdsKept, PendingKept, RequestsKept, ReturnedKept DEF CallInv, providing
  <2>7. ReturnsInv' /\ FreshReturns' /\ FreshServing'
    BY <1>1, <2>1, <2>2, ReturnsKept, ServingKept DEF CallInv, providing
  <2>8. ReceiverInv' /\ FreshReceiver'
    BY <1>1, <2>1, <2>2, <2>3, ReceiverKept DEF CallInv
  <2>9. FreshCalls'
    BY <1>1, <2>1 DEF CallInv, FreshCalls, Fits, providing
  <2> QED BY <2>5, <2>6, <2>7, <2>8, <2>9 DEF CallInv
<1>6. CASE calls[c][j].held /\ calls[c][j].state = "Called"
  <2>1. PICK call \in Call : call = calls[c][j]
    BY <1>1, <1>4, CallsType
  <2>2. PICK new : new = [call EXCEPT !.state = "Returned", !.output = r.data, !.returned = r.answered]
    OBVIOUS
  <2>3. /\ new \in Call /\ new.state = "Returned" /\ new.window = call.window
        /\ new.method = call.method /\ new.id = call.id /\ new.returned = r.answered
    BY <1>4, <2>1, <2>2 DEF Call
  <2>4. CallBecomes(c, j, new) /\ receiver' = [receiver EXCEPT ![c].step = "update"]
    <3>1. /\ calls' = [calls EXCEPT ![c][j].state = "Returned", ![c][j].output = r.data,
                                    ![c][j].returned = r.answered]
          /\ receiver' = [receiver EXCEPT ![c].step = "update"]
      BY <1>2, <1>3, <1>6 DEF OnReturn, k
    <3>2. calls[c] \in Seq(Call) /\ calls[c][j] = call
      BY <1>1, <2>1
    <3> QED BY <3>1, <3>2, <1>1, <1>4, <2>2, CallsType DEF CallBecomes
  <2>5. /\ calls' \in [Consumers -> Seq(Call)] /\ SameLengths
        /\ \A d \in Consumers : \A i \in 1..Len(calls[d]) :
             calls'[d][i] = IF d = c /\ i = j THEN new ELSE calls[d][i]
    BY <1>1, <1>4, <2>3, <2>4, OneCallChanges
  <2>6. Grow
    <3>1. calls[c][j].state = "Called" /\ calls[c][j] = call
      BY <1>6, <2>1
    <3>2. \A d \in Consumers : Len(calls[d]) <= Len(calls'[d])
      BY <1>4, <2>5 DEF SameLengths
    <3>3. ASSUME NEW d \in Consumers, NEW i \in 1..Len(calls[d])
          PROVE  /\ calls'[d][i].method = calls[d][i].method /\ calls'[d][i].id = calls[d][i].id
                 /\ calls'[d][i].state = calls[d][i].state \/ calls'[d][i].state = "Returned"
                 /\ calls'[d][i].window = calls[d][i].window
      BY <3>1, <2>3, <2>5
    <3> QED BY <3>2, <3>3 DEF Grow
  <2>7. receiver' \in [Consumers -> Receiver]
    <3>1. receiver \in [Consumers -> Receiver] /\ receiver[c].step = "popped"
      BY <1>1
    <3>2. [receiver[c] EXCEPT !.step = "update"] \in Receiver
      BY <3>1 DEF Receiver
    <3> QED BY <3>1, <3>2, <2>4
  <2>8. \A d \in Consumers : receiver'[d].step # "idle" =>
          /\ receiver[d].step # "idle" /\ receiver'[d].call = receiver[d].call
          /\ receiver'[d].object = receiver[d].object /\ receiver'[d].data = receiver[d].data
          /\ receiver'[d].answered = receiver[d].answered
    BY <1>1, <2>4 DEF Receiver
  <2>9. TypeOK'
    BY <1>1, <2>5, <2>7 DEF CallInv, TypeOK, providing
  <2>10. IdsInv' /\ PendingInv' /\ RequestsInv'
    BY <1>1, <2>5, <2>6, IdsKept, PendingKept, RequestsKept DEF CallInv, providing
  <2>11. ReturnsInv' /\ FreshReturns' /\ FreshServing'
    BY <1>1, <2>5, <2>6, ReturnsKept, ServingKept DEF CallInv, providing
  <2>12. ReceiverInv' /\ FreshReceiver'
    BY <1>1, <2>5, <2>6, <2>8, ReceiverKept DEF CallInv
  <2>13. FreshCalls'
    BY <1>1, <2>3, <2>5 DEF CallInv, FreshCalls, Fits, SameLengths, providing
  <2>14. ReturnedInv'
    <3> SUFFICES ASSUME NEW d \in Consumers, NEW i \in 1..Len(calls'[d]), calls'[d][i].state = "Returned"
                 PROVE  /\ calls'[d][i].returned \in Consumers \X (1..MaxCalls)
                        /\ Made(calls[d][i].returned[1], calls[d][i].returned[2],
                                Object(calls[d][i].method), calls[d][i].id)'
      BY DEF ReturnedInv
    <3>1. PICK old : old = calls'[d][i]
      OBVIOUS
    <3>2. old.returned \in Consumers \X (1..MaxCalls) /\ Made(old.returned[1], old.returned[2], Object(old.method), old.id)
      <4>1. CASE d = c /\ i = j
        <5>1. old = new
          BY <4>1, <3>1, <2>5, <1>4
        <5>2. Made(r.answered[1], r.answered[2], r.object, call.id) /\ Object(call.method) = r.object
          BY <1>1, <1>2, <1>3, <2>1 DEF CallInv, ReceiverInv, k
        <5>3. r.answered \in Consumers \X (1..MaxCalls)
          BY <1>4
        <5> QED BY <5>1, <5>2, <5>3, <2>3
      <4>2. CASE ~(d = c /\ i = j)
        <5>1. i \in 1..Len(calls[d]) /\ old = calls[d][i]
          BY <4>2, <3>1, <2>5 DEF SameLengths
        <5> QED BY <5>1, <3>1 DEF CallInv, ReturnedInv
      <4> QED BY <4>1, <4>2
    <3>3. Made(old.returned[1], old.returned[2], Object(old.method), old.id)'
      BY <1>1, <2>5, <2>6, <3>2, MadeGrows
    <3> QED BY <3>1, <3>2, <3>3 DEF Made
  <2> QED BY <2>9, <2>10, <2>11, <2>12, <2>13, <2>14 DEF CallInv
<1> QED BY <1>5, <1>6

-----------------------------------------------------------------------------
(* The theorems.                                                                *)

LEMMA CallInit ==
  ASSUME Init
  PROVE  CallInv
<1>1. \A S : <<>> \in Seq(S) /\ Len(<<>>) = 0
  BY EmptySeq
<1>2. TypeOK
  <2>1. [o \in Objects |-> <<>>] \in [Objects -> Pending]
    BY NothingPending
  <2> QED BY <1>1, <2>1, BoundsAssumption DEF Init, TypeOK, Values, Threads, Receiver
<1>3. \A c \in Consumers : /\ calls[c] = <<>> /\ requests[c] = <<>> /\ inbox[c] = <<>>
                          /\ receiver[c].step = "idle"
                          /\ \A o \in Objects : mNextRequestId[c][o] = 1 /\ DOMAIN mPendingCallContexts[c][o] = {}
  BY NothingPending DEF Init
<1>4. \A c \in Consumers : Len(calls[c]) = 0 /\ Len(requests[c]) = 0 /\ Len(inbox[c]) = 0
  BY <1>1, <1>3
<1>5. IdsInv /\ PendingInv /\ ReturnsInv /\ ReceiverInv /\ ReturnedInv
  BY <1>3, <1>4, BoundsAssumption DEF IdsInv, PendingInv, ReturnsInv, ReceiverInv, ReturnedInv
<1>6. RequestsInv /\ FreshServing
  BY <1>4 DEF Init, RequestsInv, FreshServing
<1>7. FreshCalls /\ FreshReturns /\ FreshReceiver
  BY <1>3, <1>4 DEF FreshCalls, FreshReturns, FreshReceiver
<1> QED BY <1>2, <1>5, <1>6, <1>7 DEF CallInv

\* Every step preserves the invariant.
LEMMA CallNext ==
  ASSUME CallInv, [Next]_vars
  PROVE  CallInv'
<1>1. ASSUME NEW v \in Values, Write(v) PROVE CallInv'
  BY <1>1, WriteStep
<1>2. ASSUME NEW c \in Consumers, NEW v \in Values, NEW m \in Methods, CreateCallContext(c, m, v)
      PROVE  CallInv'
  BY <1>2, CreateStep
<1>3. ASSUME NEW c \in Consumers, NEW k \in DOMAIN calls[c], CallAsync(c, k) \/ Release(c, k)
      PROVE  CallInv'
  BY <1>3, CallAsyncStep, ReleaseStep
<1>4. ASSUME NEW t \in Threads, ProviderStep(t) PROVE CallInv'
  BY <1>4, CopyDataStep, TransmitStep DEF ProviderStep
<1>5. CASE SendResponse
  BY <1>5, SendResponseStep
<1>6. ASSUME NEW c \in Consumers, OnReceiveRequest(c) PROVE CallInv'
  BY <1>6, OnReceiveRequestStep
<1>7. ASSUME NEW c \in Consumers, ConsumerPoll(c) PROVE CallInv'
  BY <1>7, OnReceiveEventStep, PopStep, EndPopStep, OnReturnStep, UpdateValueStep DEF ConsumerPoll
<1>8. CASE UNCHANGED vars
  <2>1. calls \in [Consumers -> Seq(Call)] /\ calls' = calls
    BY <1>8 DEF CallInv, TypeOK, vars, consuming
  <2>2. Grow /\ SameLengths
    BY <2>1, SameCalls
  <2>3. UNCHANGED <<providing, requests, inbox, value, mNextRequestId, mPendingCallContexts, receiver>>
    BY <1>8 DEF vars, consuming
  <2>4. TypeOK'
    BY <2>1, <2>3 DEF CallInv, TypeOK, providing
  <2>5. IdsInv' /\ PendingInv' /\ RequestsInv' /\ ReturnedInv'
    BY <2>1, <2>2, <2>3, IdsKept, PendingKept, RequestsKept, ReturnedKept DEF CallInv, providing
  <2>6. ReturnsInv' /\ FreshReturns' /\ FreshServing' /\ ReceiverInv' /\ FreshReceiver'
    BY <2>1, <2>2, <2>3, ReturnsKept, ServingKept, ReceiverKept DEF CallInv, providing
  <2>7. FreshCalls'
    BY <2>1, <2>3 DEF CallInv, FreshCalls, Fits, providing
  <2> QED BY <2>4, <2>5, <2>6, <2>7 DEF CallInv
<1>9. "app" \in Threads /\ "poll" \in Threads
  BY DEF Threads
<1> QED BY <1>1, <1>2, <1>3, <1>4, <1>5, <1>6, <1>7, <1>8, <1>9 DEF Next, Application, ProviderPoll

\* The invariant holds throughout, with any number of consumers.
THEOREM CallsAreRight == Spec => []CallInv
<1>1. Init => CallInv
  BY CallInit
<1>2. CallInv /\ [Next]_vars => CallInv'
  BY CallNext
<1> QED BY <1>1, <1>2, PTL DEF Spec

\* Type correctness: what is on its way, what is pending and what the calls hold has the
\* type it should have, and ids and calls stay within their bounds.
THEOREM TypeCorrect == Spec => []TypeOK
<1>1. CallInv => TypeOK
  BY DEF CallInv
<1> QED BY <1>1, CallsAreRight, PTL

\* With one consumer, a call that has returned has the return of its own request: the
\* ids of a consumer's method object are unique, however calls, returns and dropped
\* contexts interleave.
THEOREM ReturnMatchesCallCorrect ==
  ASSUME \A c, d \in Consumers : c = d
  PROVE  Spec => []ReturnMatchesCall
<1>1. CallInv => ReturnMatchesCall
  <2> SUFFICES ASSUME CallInv, NEW c \in Consumers, NEW k \in DOMAIN calls[c],
                      calls[c][k].state = "Returned"
               PROVE  calls[c][k].returned = <<c, k>>
    BY DEF ReturnMatchesCall
  <2>1. calls \in [Consumers -> Seq(Call)]
    BY DEF CallInv, TypeOK
  <2>2. k \in 1..Len(calls[c]) /\ calls[c][k] \in Call
    BY <2>1, CallsType
  <2>3. PICK r : r = calls[c][k].returned
    OBVIOUS
  <2>4. Made(r[1], r[2], Object(calls[c][k].method), calls[c][k].id)
    BY <2>2, <2>3 DEF CallInv, ReturnedInv
  <2>5. r[1] = c /\ r[2] = k
    BY <2>2, <2>4 DEF CallInv, IdsInv, Made
  <2>6. r \in Consumers \X (1..MaxCalls)
    BY <2>2, <2>3 DEF Call, CallInv, ReturnedInv
  <2> QED BY <2>3, <2>5, <2>6
<1> QED BY <1>1, CallsAreRight, PTL

-----------------------------------------------------------------------------
(* Fresh returns.                                                               *)

\* A call that has returned had returned before, or returns a value of its window now.
StaysFresh ==
  \A c \in Consumers : \A k \in 1..Len(calls'[c]) : calls'[c][k].state = "Returned" =>
    \/ k \in 1..Len(calls[c]) /\ calls'[c][k].output = calls[c][k].output
       /\ calls'[c][k].window = calls[c][k].window /\ calls[c][k].state = "Returned"
    \/ calls'[c][k].output \in calls'[c][k].window

LEMMA SetDataStaysFresh ==
  ASSUME CallInv, NEW t \in Threads, NEW v \in Values, SetData(t, v)
  PROVE  StaysFresh
<1>1. /\ SameLengths
      /\ \A c \in Consumers : \A k \in 1..Len(calls[c]) :
           /\ calls'[c][k].state = calls[c][k].state
           /\ calls[c][k].state # "Called" => calls'[c][k] = calls[c][k]
  BY SetDataCalls DEF CallInv
<1> QED BY <1>1 DEF StaysFresh, SameLengths

LEMMA ApplicationStaysFresh ==
  ASSUME CallInv, NEW c \in Consumers,
         \/ \E v \in Values, m \in Methods : CreateCallContext(c, m, v)
         \/ \E k \in DOMAIN calls[c] : CallAsync(c, k) \/ Release(c, k)
  PROVE  StaysFresh
<1>1. calls \in [Consumers -> Seq(Call)] /\ calls[c] \in Seq(Call)
  BY DEF CallInv, TypeOK
<1>2. Len(calls[c]) \in Nat /\ DOMAIN calls[c] = 1..Len(calls[c])
  BY <1>1, CallsType
<1>3. ASSUME NEW v, NEW m, CreateCallContext(c, m, v) PROVE StaysFresh
  <2>1. PICK new : new.state = "Initial" /\ calls' = [calls EXCEPT ![c] = Append(@, new)]
    BY <1>3 DEF CreateCallContext
  <2>2. /\ \A d \in Consumers : d # c => calls'[d] = calls[d]
        /\ calls'[c] = Append(calls[c], new)
    BY <1>1, <2>1
  <2>3. /\ Len(calls'[c]) = Len(calls[c]) + 1 /\ calls'[c][Len(calls[c]) + 1] = new
        /\ \A k \in 1..Len(calls[c]) : calls'[c][k] = calls[c][k]
    BY <1>1, <1>2, <2>2
  <2>4. \A k \in 1..Len(calls'[c]) : k \in 1..Len(calls[c]) \/ k = Len(calls[c]) + 1
    BY <1>2, <2>3
  <2> QED BY <2>1, <2>2, <2>3, <2>4 DEF StaysFresh
<1>4. ASSUME NEW k \in DOMAIN calls[c], CallAsync(c, k) \/ Release(c, k) PROVE StaysFresh
  <2>1. PICK call \in Call : call = calls[c][k]
    BY <1>1, <1>2, CallsType
  <2>2. PICK new \in Call :
          /\ CallBecomes(c, k, new)
          /\ new.state = "Returned" =>
               call.state = "Returned" /\ new.output = call.output /\ new.window = call.window
    <3>1. CASE CallAsync(c, k)
      <4>1. PICK new : new = [call EXCEPT !.state = "Called", !.window = {mData}]
        OBVIOUS
      <4>2. new \in Call /\ new.state = "Called"
        BY <2>1, <4>1 DEF Call, CallInv, TypeOK
      <4>3. CallBecomes(c, k, new)
        BY <1>1, <1>2, <2>1, <3>1, <4>1, CallsType DEF CallBecomes, CallAsync
      <4> QED BY <4>2, <4>3
    <3>2. CASE Release(c, k)
      <4>1. PICK new : new = [call EXCEPT !.held = FALSE]
        OBVIOUS
      <4>2. /\ new \in Call /\ new.state = call.state /\ new.output = call.output
            /\ new.window = call.window
        BY <2>1, <4>1 DEF Call
      <4>3. CallBecomes(c, k, new)
        BY <1>1, <1>2, <2>1, <3>2, <4>1, CallsType DEF CallBecomes, Release
      <4> QED BY <4>2, <4>3
    <3> QED BY <1>4, <3>1, <3>2
  <2>3. /\ SameLengths
        /\ \A d \in Consumers : \A j \in 1..Len(calls[d]) :
             calls'[d][j] = IF d = c /\ j = k THEN new ELSE calls[d][j]
    BY <1>1, <1>2, <2>2, OneCallChanges
  <2> QED BY <2>1, <2>2, <2>3 DEF StaysFresh, SameLengths
<1> QED BY <1>3, <1>4

\* With one consumer, the return that a waiting call is given is its own, and fits.
LEMMA OnReturnStaysFresh ==
  ASSUME CallInv, NEW c \in Consumers, OnReturn(c), \A d, e \in Consumers : d = e
  PROVE  StaysFresh
<1> DEFINE k == receiver[c].call
<1>1. /\ calls \in [Consumers -> Seq(Call)] /\ receiver \in [Consumers -> Receiver]
      /\ receiver[c].step = "popped"
  BY DEF CallInv, TypeOK, OnReturn
<1>2. PICK r \in Receiver : r = receiver[c]
  BY <1>1
<1>3. PICK j : j = k
  OBVIOUS
<1>4. j \in 1..Len(calls[c]) /\ r.answered \in Consumers \X (1..MaxCalls) /\ r.data \in Values
  BY <1>1, <1>2, <1>3 DEF CallInv, ReceiverInv, Receiver
<1> HIDE DEF k
<1>5. CASE ~(calls[c][j].held /\ calls[c][j].state = "Called")
  <2>1. calls' = calls
    BY <1>3, <1>5 DEF OnReturn, k
  <2> QED BY <2>1 DEF StaysFresh
<1>6. CASE calls[c][j].held /\ calls[c][j].state = "Called"
  <2>1. PICK call \in Call : call = calls[c][j]
    BY <1>1, <1>4, CallsType
  <2>2. PICK new : new = [call EXCEPT !.state = "Returned", !.output = r.data, !.returned = r.answered]
    OBVIOUS
  <2>3. new \in Call /\ new.output = r.data /\ new.window = call.window
    BY <1>4, <2>1, <2>2 DEF Call
  <2>4. CallBecomes(c, j, new)
    <3>1. calls' = [calls EXCEPT ![c][j].state = "Returned", ![c][j].output = r.data,
                                 ![c][j].returned = r.answered]
      BY <1>2, <1>3, <1>6 DEF OnReturn, k
    <3>2. calls[c] \in Seq(Call) /\ calls[c][j] = call
      BY <1>1, <2>1
    <3> QED BY <3>1, <3>2, <1>1, <1>4, <2>2, CallsType DEF CallBecomes
  <2>5. /\ SameLengths
        /\ \A d \in Consumers : \A i \in 1..Len(calls[d]) :
             calls'[d][i] = IF d = c /\ i = j THEN new ELSE calls[d][i]
    BY <1>1, <1>4, <2>3, <2>4, OneCallChanges
  <2>6. r.data \in call.window
    <3>1. PICK d, i : d = r.answered[1] /\ i = r.answered[2]
      OBVIOUS
    <3>2. Made(d, i, r.object, call.id) /\ Object(call.method) = r.object /\ Fits(d, i, r.data)
      BY <1>1, <1>2, <1>3, <2>1, <3>1 DEF CallInv, ReceiverInv, FreshReceiver, k
    <3>3. d = c /\ i = j
      BY <1>4, <2>1, <3>2 DEF CallInv, IdsInv, Made
    <3> QED BY <1>6, <2>1, <3>2, <3>3 DEF Fits
  <2> QED BY <2>1, <2>3, <2>5, <2>6 DEF StaysFresh, SameLengths
<1> QED BY <1>5, <1>6

\* With one consumer, what a call returned was the value of the provided field at some
\* moment between the call and its return, although the value is copied, transmitted and
\* handed over in separate steps.
THEOREM ReturnIsFreshCorrect ==
  ASSUME \A c, d \in Consumers : c = d
  PROVE  Spec => []ReturnIsFresh
<1>1. Init => ReturnIsFresh
  BY EmptySeq DEF Init, ReturnIsFresh
<1>2. ASSUME CallInv, CallInv', ReturnIsFresh, [Next]_vars PROVE ReturnIsFresh'
  <2>1. StaysFresh
    <3>2. ASSUME NEW v \in Values, Write(v) PROVE StaysFresh
      BY <1>2, <3>2, SetDataStaysFresh DEF Write, Threads
    <3>3. ASSUME NEW c \in Consumers, OnReceiveRequest(c) PROVE StaysFresh
      <4>1. requests \in [Consumers -> Seq(Request)] /\ requests[c] # <<>>
        BY <1>2, <3>3 DEF CallInv, TypeOK, OnReceiveRequest
      <4>2. Head(requests[c]) \in Request
        BY <4>1, HeadTailProperties
      <4>3. CASE calls' = calls
        BY <4>3 DEF StaysFresh
      <4>4. CASE SetData("poll", Head(requests[c]).input)
        BY <1>2, <4>2, <4>4, SetDataStaysFresh DEF Request, Threads
      <4> QED BY <3>3, <4>3, <4>4 DEF OnReceiveRequest
    <3>4. ASSUME NEW c \in Consumers,
                 \/ \E v \in Values, m \in Methods : CreateCallContext(c, m, v)
                 \/ \E k \in DOMAIN calls[c] : CallAsync(c, k) \/ Release(c, k)
          PROVE  StaysFresh
      BY <1>2, <3>4, ApplicationStaysFresh
    <3>5. ASSUME NEW t \in Threads, ProviderStep(t) PROVE StaysFresh
      BY <3>5 DEF ProviderStep, CopyData, TransmitDOMember, consuming, StaysFresh
    <3>6. CASE SendResponse
      BY <3>6 DEF SendResponse, consuming, StaysFresh
    <3>7. ASSUME NEW c \in Consumers, ConsumerPoll(c) PROVE StaysFresh
      <4>1. CASE OnReturn(c)
        BY <1>2, <4>1, OnReturnStaysFresh
      <4>2. CASE OnReceiveEvent(c) \/ PopCallContext(c) \/ EndPop(c) \/ UpdateValue(c)
        BY <4>2 DEF OnReceiveEvent, PopCallContext, EndPop, UpdateValue, StaysFresh
      <4> QED BY <3>7, <4>1, <4>2 DEF ConsumerPoll
    <3>8. CASE UNCHANGED vars
      BY <3>8 DEF vars, consuming, StaysFresh
    <3>9. "app" \in Threads /\ "poll" \in Threads
      BY DEF Threads
    <3> QED BY <1>2, <3>2, <3>3, <3>4, <3>5, <3>6, <3>7, <3>8, <3>9
          DEF Next, Application, ProviderPoll
  <2>2. \A c \in Consumers : DOMAIN calls[c] = 1..Len(calls[c]) /\ DOMAIN calls'[c] = 1..Len(calls'[c])
    BY <1>2, CallsType, LenProperties DEF CallInv, TypeOK
  <2> QED BY <1>2, <2>1, <2>2 DEF StaysFresh, ReturnIsFresh
<1> QED BY <1>1, <1>2, CallsAreRight, PTL DEF Spec

-----------------------------------------------------------------------------
(* The consumers and the provider agree in the end, where only the poll thread  *)
(* of the provider sets the field, for the callers of the setters.              *)

OnlySetters == MaxWrites = 0

\* Only the poll thread of the provider is busy, what it transmits or answers is the value, ...
SettersInv ==
  /\ provider["app"].step = "idle"
  /\ \A t \in Threads : provider[t].step = "transmit" => provider[t].data = mData
  /\ \A r \in Request : serving = <<r>> => Output(r) = mData

\* ... and unless it is about to transmit the value each consumer follows it: what is on its
\* way to it from some event on, or all of it and what it has, carries the value.
CarryValue(c, n) == \A i \in 1..Len(inbox[c]) : n <= i => inbox[c][i].data = mData
Has(c) == value[c] = mData /\ (receiver[c].step # "idle" => receiver[c].data = mData)
Follows(c) ==
  \/ \E n \in 1..Len(inbox[c]) : inbox[c][n].kind = "event" /\ CarryValue(c, n)
  \/ CarryValue(c, 1) /\ Has(c)
Transmitting == \E t \in Threads : provider[t].step \in {"notify", "transmit"}
FollowInv == Transmitting \/ \A c \in Consumers : Follows(c)

\* A message with the value that is sent to all keeps that.
LEMMA FollowsSent ==
  ASSUME TypeOK, NEW m \in Message, Broadcast(m), m.data = mData, NEW c \in Consumers,
         UNCHANGED <<mData, value, receiver>>, Follows(c) \/ m.kind = "event"
  PROVE  Follows(c)'
<1>1. /\ inbox'[c] = Append(inbox[c], m) /\ inbox[c] \in Seq(Message) /\ Len(inbox[c]) \in Nat
      /\ Len(inbox'[c]) = Len(inbox[c]) + 1 /\ inbox'[c][Len(inbox[c]) + 1] = m
      /\ \A i \in 1..Len(inbox[c]) : inbox'[c][i] = inbox[c][i]
  <2>1. inbox'[c] = Append(inbox[c], m) /\ inbox[c] \in Seq(Message)
    BY DEF Broadcast, TypeOK
  <2> QED BY <2>1, AppendProperties, LenProperties
<1>2. \A i \in 1..Len(inbox'[c]) : i \in 1..Len(inbox[c]) \/ i = Len(inbox[c]) + 1
  BY <1>1
<1>3. ASSUME NEW n, CarryValue(c, n) PROVE CarryValue(c, n)'
  BY <1>1, <1>2, <1>3 DEF CarryValue
<1>4. CASE m.kind = "event"
  <2>1. PICK n : n = Len(inbox[c]) + 1
    OBVIOUS
  <2>2. CarryValue(c, n)'
    BY <1>1, <1>2, <2>1 DEF CarryValue
  <2>3. n \in 1..Len(inbox'[c]) /\ inbox'[c][n].kind = "event"
    BY <1>1, <1>4, <2>1
  <2> QED BY <2>2, <2>3 DEF Follows
<1>5. ASSUME NEW n \in 1..Len(inbox[c]), inbox[c][n].kind = "event", CarryValue(c, n)
      PROVE  Follows(c)'
  BY <1>1, <1>3, <1>5 DEF Follows
<1>6. CASE CarryValue(c, 1) /\ Has(c)
  BY <1>3, <1>6 DEF Follows, Has
<1> QED BY <1>4, <1>5, <1>6 DEF Follows

\* A consumer takes a message: an event with the value becomes its value, the data of a
\* return may.
LEMMA FollowsTaken ==
  ASSUME TypeOK, NEW c \in Consumers, inbox[c] # <<>>, inbox' = [inbox EXCEPT ![c] = Tail(@)],
         UNCHANGED mData, receiver[c].step = "idle", Follows(c),
         \/ Head(inbox[c]).kind = "event" /\ value'[c] = Head(inbox[c]).data /\ receiver' = receiver
         \/ /\ Head(inbox[c]).kind = "return" /\ value' = value
            /\ receiver'[c].step = "idle" \/ receiver'[c].data = Head(inbox[c]).data
  PROVE  Follows(c)'
<1>1. /\ inbox[c] \in Seq(Message) /\ Len(inbox[c]) \in Nat /\ Len(inbox[c]) >= 1
      /\ inbox'[c] = Tail(inbox[c]) /\ Len(inbox'[c]) = Len(inbox[c]) - 1
      /\ Head(inbox[c]) = inbox[c][1]
      /\ \A i \in 1..Len(inbox'[c]) : i + 1 \in 1..Len(inbox[c]) /\ inbox'[c][i] = inbox[c][i + 1]
  <2>1. inbox[c] \in Seq(Message) /\ inbox'[c] = Tail(inbox[c])
    BY DEF TypeOK
  <2>2. PICK q : q = inbox[c]
    OBVIOUS
  <2>3. /\ Len(q) \in Nat /\ Len(q) >= 1 /\ Len(Tail(q)) = Len(q) - 1 /\ Head(q) = q[1]
        /\ \A i \in 1..Len(Tail(q)) : Tail(q)[i] = q[i + 1]
    BY <2>1, <2>2, HeadTailProperties, LenProperties, EmptySeq
  <2>4. \A i \in 1..(Len(q) - 1) : i + 1 \in 1..Len(q)
    BY <2>3
  <2> QED BY <2>1, <2>2, <2>3, <2>4
<1>2. ASSUME NEW n \in Nat, n >= 1, CarryValue(c, n + 1) PROVE CarryValue(c, n)'
  <2> SUFFICES ASSUME NEW i \in 1..Len(inbox'[c]), n <= i PROVE inbox'[c][i].data = mData
    BY DEF CarryValue
  <2>1. i + 1 \in 1..Len(inbox[c]) /\ n + 1 <= i + 1 /\ inbox'[c][i] = inbox[c][i + 1]
    BY <1>1
  <2> QED BY <1>2, <2>1 DEF CarryValue
<1>3. CarryValue(c, 1) => CarryValue(c, 2)
  BY DEF CarryValue
<1>4. CASE CarryValue(c, 1) /\ (Has(c) \/ inbox[c][1].kind = "event")
  <2>1. inbox[c][1].data = mData
    BY <1>1, <1>4 DEF CarryValue
  <2>2. Has(c)'
    BY <1>1, <1>4, <2>1 DEF Has
  <2> QED BY <1>2, <1>3, <1>4, <2>2 DEF Follows
<1>5. ASSUME NEW n \in 1..Len(inbox[c]), inbox[c][n].kind = "event", CarryValue(c, n), n # 1
      PROVE  Follows(c)'
  <2>1. PICK p : p = n - 1
    OBVIOUS
  <2>2. p \in Nat /\ p >= 1 /\ n = p + 1 /\ p \in 1..Len(inbox'[c]) /\ inbox'[c][p] = inbox[c][n]
    BY <1>1, <1>5, <2>1
  <2>3. CarryValue(c, p)'
    BY <1>2, <1>5, <2>2
  <2> QED BY <1>5, <2>2, <2>3 DEF Follows
<1> QED BY <1>4, <1>5 DEF Follows

\* What concerns another consumer, or nobody.
LEMMA FollowsSame ==
  ASSUME NEW c, inbox'[c] = inbox[c], value'[c] = value[c], receiver'[c] = receiver[c],
         UNCHANGED mData, Follows(c)
  PROVE  Follows(c)'
BY DEF Follows, CarryValue, Has

\* The provider's value is set for a caller.
LEMMA SettersSet ==
  ASSUME TypeOK, NEW t, t = "poll", NEW v \in Values, SetData(t, v), SettersInv, FollowInv,
         provider[t].step = "idle", UNCHANGED <<inbox, value, receiver>>,
         \A r \in Request : serving' = <<r>> => r.method # "get" /\ r.input = v
  PROVE  SettersInv' /\ FollowInv'
<1>1. /\ mData' = v
      /\ provider' = [provider EXCEPT ![t].step =
                        IF Transmits(v # mData) THEN "notify" ELSE After(t)]
  BY DEF SetData
<1>0. PICK step : step = IF Transmits(v # mData) THEN "notify" ELSE After(t)
  OBVIOUS
<1>7. "app" \in Threads /\ "poll" \in Threads /\ \A s \in Threads : s # t => s = "app"
  BY DEF Threads
<1>2. /\ provider'[t].step = step /\ provider'[t].data = provider[t].data
      /\ \A s \in Threads : s # t => provider'[s] = provider[s]
  BY <1>0, <1>1, <1>7 DEF TypeOK
<1>3. provider'[t].step # "transmit"
  BY <1>0, <1>2 DEF After
<1>4. SettersInv'
  <2>1. \A s \in Threads : provider'[s].step # "transmit"
    BY <1>2, <1>3, <1>7 DEF SettersInv
  <2>2. \A r \in Request : serving' = <<r>> => Output(r)' = mData'
    BY <1>1 DEF Output
  <2> QED BY <1>2, <1>7, <2>1, <2>2 DEF SettersInv
<1>5. CASE Transmits(v # mData)
  BY <1>0, <1>2, <1>4, <1>5, <1>7 DEF FollowInv, Transmitting
<1>6. CASE ~Transmits(v # mData)
  <2>1. mData' = mData
    BY <1>1, <1>6 DEF Transmits
  <2>2. ~Transmitting
    BY <1>7 DEF Transmitting, SettersInv
  <2>3. ASSUME NEW c \in Consumers PROVE Follows(c)'
    BY <2>1, <2>2, FollowsSame DEF FollowInv
  <2> QED BY <1>4, <2>3 DEF FollowInv
<1> QED BY <1>4, <1>5, <1>6

\* A request is served.
LEMMA RequestFollows ==
  ASSUME TypeOK, NEW c \in Consumers, OnReceiveRequest(c), SettersInv, FollowInv
  PROVE  SettersInv' /\ FollowInv'
<1>1. PICK r : r = Head(requests[c])
  OBVIOUS
<1>2. /\ serving = <<>> /\ requests[c] # <<>> /\ serving' = <<r>>
      /\ UNCHANGED <<writes, inbox, value, receiver>>
  BY <1>1 DEF OnReceiveRequest
<1>3. r \in Request
  <2>1. requests[c] \in Seq(Request)
    BY DEF TypeOK
  <2> QED BY <1>1, <1>2, <2>1, HeadTailProperties, EmptySeq
<1>4. provider["app"].step = "idle"
  BY DEF SettersInv
<1>5. provider["poll"].step = "idle"
  BY <1>2 DEF TypeOK
<1>6. \A q \in Request : serving' = <<q>> => q = r
  BY <1>2
<1>7. CASE r.method = "get"
  <2>1. /\ provider' = [provider EXCEPT !["poll"] = [step |-> "answer", data |-> mData]]
        /\ mData' = mData
    BY <1>1, <1>7 DEF OnReceiveRequest
  <2>2. /\ provider'["poll"] = [step |-> "answer", data |-> mData]
        /\ provider'["app"] = provider["app"]
    BY <2>1 DEF TypeOK, Threads
  <2>3. SettersInv'
    <3>1. Output(r)' = mData'
      BY <1>7, <2>1, <2>2 DEF Output
    <3> QED BY <1>4, <1>6, <2>2, <3>1 DEF SettersInv, Threads
  <2>4. ~Transmitting
    BY <1>4, <1>5 DEF Transmitting, Threads
  <2> QED BY <1>2, <2>1, <2>3, <2>4, FollowsSame DEF FollowInv
<1>8. CASE r.method # "get"
  <2>1. SetData("poll", r.input) /\ "poll" \in Threads /\ r.input \in Values
    BY <1>1, <1>3, <1>8 DEF OnReceiveRequest, Threads, Request
  <2> QED BY <1>2, <1>5, <1>6, <1>8, <2>1, SettersSet
<1> QED BY <1>7, <1>8

\* A thread copies the value to transmit it, ...
LEMMA CopyFollows ==
  ASSUME TypeOK, NEW t \in Threads, CopyData(t), SettersInv
  PROVE  SettersInv' /\ FollowInv'
<1>1. /\ provider[t].step = "notify" /\ UNCHANGED <<mData, serving>>
      /\ provider' = [provider EXCEPT ![t] = [step |-> "transmit", data |-> mData]]
  BY DEF CopyData
<1>2. /\ provider'[t] = [step |-> "transmit", data |-> mData]
      /\ \A s \in Threads : s # t => provider'[s] = provider[s]
  BY <1>1 DEF TypeOK
<1>3. FollowInv'
  BY <1>2 DEF FollowInv, Transmitting
<1>4. \A r \in Request : serving' = <<r>> => Output(r)' = mData'
  <2> SUFFICES ASSUME NEW r \in Request, serving' = <<r>> PROVE Output(r)' = mData'
    OBVIOUS
  <2>1. serving = <<r>> /\ Output(r) = mData
    BY <1>1 DEF SettersInv
  <2> QED BY <1>1, <1>2, <2>1 DEF Output, Threads
<1>5. \A s \in Threads : provider'[s].step = "transmit" => provider'[s].data = mData'
  BY <1>1, <1>2 DEF SettersInv
<1>6. provider'["app"].step = "idle"
  BY <1>1, <1>2 DEF SettersInv, Threads
<1> QED BY <1>3, <1>4, <1>5, <1>6 DEF SettersInv

\* ... and transmits it.
LEMMA TransmitFollows ==
  ASSUME TypeOK, NEW t \in Threads, TransmitDOMember(t), SettersInv
  PROVE  SettersInv' /\ FollowInv'
<1>1. /\ provider[t].step = "transmit" /\ UNCHANGED <<mData, serving, value, receiver>>
      /\ provider' = [provider EXCEPT ![t].step = After(t)]
      /\ Broadcast([kind |-> "event", data |-> provider[t].data])
  BY DEF TransmitDOMember, consuming
<1>2. /\ provider'[t].step = After(t) /\ provider'[t].data = provider[t].data
      /\ \A s \in Threads : s # t => provider'[s] = provider[s]
  BY <1>1 DEF TypeOK
<1>3. PICK m : m = [kind |-> "event", data |-> mData]
  OBVIOUS
<1>4. provider[t].data = mData /\ m \in Message /\ Broadcast(m) /\ m.kind = "event" /\ m.data = mData
  BY <1>1, <1>3 DEF SettersInv, TypeOK, Message
<1>5. FollowInv'
  BY <1>1, <1>4, FollowsSent DEF FollowInv
<1>6. \A r \in Request : serving' = <<r>> => Output(r)' = mData'
  <2> SUFFICES ASSUME NEW r \in Request, serving' = <<r>> PROVE Output(r)' = mData'
    OBVIOUS
  <2>1. serving = <<r>> /\ Output(r) = mData
    BY <1>1 DEF SettersInv
  <2>2. provider'["poll"].data = provider["poll"].data
    BY <1>2 DEF Threads
  <2> QED BY <1>1, <2>1, <2>2 DEF Output
<1>7. \A s \in Threads : provider'[s].step = "transmit" => provider'[s].data = mData'
  BY <1>1, <1>2 DEF SettersInv, After
<1>8. provider'["app"].step = "idle"
  BY <1>1, <1>2 DEF SettersInv, Threads, After
<1> QED BY <1>5, <1>6, <1>7, <1>8 DEF SettersInv

\* A request is answered.
LEMMA ResponseFollows ==
  ASSUME CallInv, SendResponse, SettersInv, FollowInv
  PROVE  SettersInv' /\ FollowInv'
<1>1. /\ TypeOK /\ serving # <<>> /\ provider["poll"].step = "answer" /\ serving' = <<>>
      /\ provider' = [provider EXCEPT !["poll"].step = "idle"]
      /\ UNCHANGED <<mData, value, receiver>>
  BY DEF CallInv, SendResponse, consuming
<1>2. PICK r \in Request : serving = <<r>>
  BY <1>1 DEF TypeOK
<1>3. /\ provider'["poll"].step = "idle" /\ provider'["app"] = provider["app"]
  BY <1>1 DEF TypeOK, Threads
<1>4. SettersInv'
  BY <1>1, <1>3 DEF SettersInv, Threads
<1>5. ~Transmitting
  BY <1>1 DEF SettersInv, Transmitting, Threads
<1>6. CASE inbox' = inbox
  <2>1. ASSUME NEW c \in Consumers PROVE Follows(c)'
    BY <1>1, <1>5, <1>6, FollowsSame DEF FollowInv
  <2> QED BY <1>4, <2>1 DEF FollowInv
<1>7. CASE Answers /\ r.method # "setOneWay" /\ Broadcast(Return(r))
  <2>1. Return(r) \in Message /\ Return(r).data = mData
    <3>1. Output(r) = mData
      BY <1>2 DEF SettersInv
    <3> QED BY <1>1, <3>1 DEF Return, Message, Request, Objects, Object, TypeOK
  <2>2. PICK m \in Message : m = Return(r)
    BY <2>1
  <2>3. ASSUME NEW c \in Consumers PROVE Follows(c)'
    BY <1>1, <1>5, <1>7, <2>1, <2>2, FollowsSent DEF FollowInv
  <2> QED BY <1>4, <2>3 DEF FollowInv
<1>8. Head(serving) = r
  BY <1>2
<1> QED BY <1>6, <1>7, <1>8 DEF SendResponse

\* The steps of a consumer's poll thread.
LEMMA ConsumerFollows ==
  ASSUME TypeOK, NEW c \in Consumers, ConsumerPoll(c), SettersInv, FollowInv
  PROVE  SettersInv' /\ FollowInv'
<1>1. UNCHANGED providing
  BY DEF ConsumerPoll, OnReceiveEvent, PopCallContext, EndPop, OnReturn, UpdateValue
<1>2. SettersInv'
  BY <1>1 DEF providing, SettersInv, Output
<1>3. CASE Transmitting
  BY <1>1, <1>2, <1>3 DEF FollowInv, Transmitting, providing
<1>4. mData' = mData
  BY <1>1 DEF providing
<1>5. CASE \A d \in Consumers : Follows(d)
  <2>1. CASE OnReceiveEvent(c)
    <3>1. /\ receiver[c].step = "idle" /\ inbox[c] # <<>> /\ Head(inbox[c]).kind = "event"
          /\ value'[c] = Head(inbox[c]).data /\ inbox' = [inbox EXCEPT ![c] = Tail(@)]
          /\ receiver' = receiver
          /\ \A d \in Consumers : d # c => value'[d] = value[d] /\ inbox'[d] = inbox[d]
      BY <2>1 DEF OnReceiveEvent, TypeOK
    <3>2. Follows(c)'
      BY <1>4, <1>5, <3>1, FollowsTaken
    <3> QED BY <1>2, <1>4, <1>5, <3>1, <3>2, FollowsSame DEF FollowInv
  <2>2. CASE PopCallContext(c)
    <3>1. /\ receiver[c].step = "idle" /\ inbox[c] # <<>> /\ Head(inbox[c]).kind = "return"
          /\ value' = value /\ inbox' = [inbox EXCEPT ![c] = Tail(@)]
          /\ \A d \in Consumers : d # c => inbox'[d] = inbox[d]
      BY <2>2 DEF PopCallContext, TypeOK
    <3>2. /\ receiver'[c].step = "idle" \/ receiver'[c].data = Head(inbox[c]).data
          /\ \A d \in Consumers : d # c => receiver'[d] = receiver[d]
      BY <2>2, <3>1 DEF PopCallContext, TypeOK
    <3>3. Follows(c)'
      BY <1>4, <1>5, <3>1, <3>2, FollowsTaken
    <3> QED BY <1>2, <1>4, <1>5, <3>1, <3>2, <3>3, FollowsSame DEF FollowInv
  <2>3. CASE EndPop(c) \/ OnReturn(c)
    <3>1. /\ receiver[c].step # "idle" /\ UNCHANGED <<inbox, value>>
          /\ receiver'[c].step = "idle" \/ receiver'[c].data = receiver[c].data
          /\ \A d \in Consumers : d # c => receiver'[d] = receiver[d]
      <4>1. receiver \in [Consumers -> Receiver] /\ receiver[c].step # "idle"
            /\ UNCHANGED <<inbox, value>>
        BY <2>3 DEF EndPop, OnReturn, TypeOK
      <4>2. \/ receiver' = [receiver EXCEPT ![c] = [step |-> "idle"]]
            \/ \E step : receiver' = [receiver EXCEPT ![c].step = step]
        BY <2>3 DEF EndPop, OnReturn
      <4>3. CASE receiver' = [receiver EXCEPT ![c] = [step |-> "idle"]]
        BY <4>1, <4>3
      <4>4. ASSUME NEW step, receiver' = [receiver EXCEPT ![c].step = step]
            PROVE  /\ receiver'[c].data = receiver[c].data
                   /\ \A d \in Consumers : d # c => receiver'[d] = receiver[d]
        BY <4>1, <4>4 DEF Receiver
      <4> QED BY <4>1, <4>2, <4>3, <4>4
    <3>2. Follows(c)'
      BY <1>4, <1>5, <3>1 DEF Follows, CarryValue, Has
    <3> QED BY <1>2, <1>4, <1>5, <3>1, <3>2, FollowsSame DEF FollowInv
  <2>4. CASE UpdateValue(c)
    <3>1. /\ receiver[c].step = "update" /\ UNCHANGED inbox
          /\ receiver'[c].step = "idle" /\ value'[c] = receiver[c].data
          /\ \A d \in Consumers : d # c => receiver'[d] = receiver[d] /\ value'[d] = value[d]
      BY <2>4 DEF UpdateValue, TypeOK
    <3>2. Follows(c)'
      BY <1>4, <1>5, <3>1 DEF Follows, CarryValue, Has
    <3> QED BY <1>2, <1>4, <1>5, <3>1, <3>2, FollowsSame DEF FollowInv
  <2> QED BY <2>1, <2>2, <2>3, <2>4 DEF ConsumerPoll
<1> QED BY <1>3, <1>5 DEF FollowInv

\* Each step keeps it.
LEMMA FollowStep ==
  ASSUME CallInv, OnlySetters, SettersInv, FollowInv, [Next]_vars
  PROVE  SettersInv' /\ FollowInv'
<1>0. TypeOK
  BY DEF CallInv
<1>1. ASSUME NEW v \in Values, Write(v) PROVE FALSE
  BY <1>0, <1>1, BoundsAssumption DEF Write, OnlySetters, TypeOK
<1>2. ASSUME UNCHANGED <<providing, inbox, value, receiver>> PROVE SettersInv' /\ FollowInv'
  <2>1. SettersInv'
    BY <1>2 DEF SettersInv, providing, Output
  <2>2. FollowInv'
    BY <1>2 DEF FollowInv, Transmitting, Follows, CarryValue, Has, providing
  <2> QED BY <2>1, <2>2
<1>3. ASSUME NEW c \in Consumers,
             \/ \E v \in Values, m \in Methods : CreateCallContext(c, m, v)
             \/ \E k \in DOMAIN calls[c] : CallAsync(c, k) \/ Release(c, k)
      PROVE  SettersInv' /\ FollowInv'
  BY <1>2, <1>3 DEF CreateCallContext, CallAsync, Release
<1>4. ASSUME NEW t \in Threads, ProviderStep(t) PROVE SettersInv' /\ FollowInv'
  BY <1>0, <1>4, CopyFollows, TransmitFollows DEF ProviderStep
<1>5. CASE SendResponse
  BY <1>5, ResponseFollows
<1>6. ASSUME NEW c \in Consumers, OnReceiveRequest(c) PROVE SettersInv' /\ FollowInv'
  BY <1>0, <1>6, RequestFollows
<1>7. ASSUME NEW c \in Consumers, ConsumerPoll(c) PROVE SettersInv' /\ FollowInv'
  BY <1>0, <1>7, ConsumerFollows
<1>8. CASE UNCHANGED vars
  BY <1>2, <1>8 DEF vars, consuming
<1>9. "app" \in Threads /\ "poll" \in Threads
  BY DEF Threads
<1> QED BY <1>1, <1>3, <1>4, <1>5, <1>6, <1>7, <1>8, <1>9 DEF Next, Application, ProviderPoll

\* When all is delivered every consumer has the provider's value (ValueEntity::SetData,
\* OnReceiveResponse), with any number of consumers that call getters and setters in any order,
\* if the application of the provider does not set the field itself.  Where it does, a return
\* with an older copy of the value can follow the event.
THEOREM ConsumersConvergeCorrect ==
  ASSUME MaxWrites = 0
  PROVE  Spec => []ConsumersConverge
<1>1. Init => SettersInv /\ FollowInv
  <2> SUFFICES ASSUME Init PROVE SettersInv /\ FollowInv
    OBVIOUS
  <2>1. \A t \in Threads : provider[t].step = "idle"
    BY DEF Init
  <2>2. "app" \in Threads /\ "poll" \in Threads
    BY DEF Threads
  <2>3. SettersInv
    BY <2>1, <2>2 DEF SettersInv, Init
  <2>4. ASSUME NEW c \in Consumers PROVE Follows(c)
    <3>1. inbox[c] = <<>> /\ value[c] = mData /\ receiver[c].step = "idle"
      BY DEF Init
    <3> QED BY <3>1 DEF Follows, CarryValue, Has
  <2> QED BY <2>3, <2>4 DEF FollowInv
<1>2. CallInv /\ SettersInv /\ FollowInv /\ [Next]_vars => SettersInv' /\ FollowInv'
  BY FollowStep DEF OnlySetters
<1>3. CallInv /\ FollowInv => ConsumersConverge
  <2> SUFFICES ASSUME FollowInv, Quiescent, NEW c \in Consumers PROVE value[c] = mData
    BY DEF ConsumersConverge
  <2>1. Follows(c)
    BY DEF FollowInv, Quiescent, Transmitting
  <2>2. \A n : n \notin 1..Len(inbox[c])
    BY DEF Quiescent
  <2> QED BY <2>1, <2>2 DEF Follows, Has
<1> QED BY <1>1, <1>2, <1>3, CallsAreRight, PTL DEF Spec

=============================================================================
