-------------------------- MODULE DOService_proofs ---------------------------
(* Theorems about DOService, for every value of its constants: types, and that   *)
(* it keeps the promise of LastValue, as the order of what is transmitted through *)
(* a source is kept on its way through the buffer, the source, the RTI and the    *)
(* queue of the reader.                                                          *)
EXTENDS DOService, FiniteSetTheorems, SequenceTheorems, WellFoundedInduction, TLAPS

-----------------------------------------------------------------------------
(* Sequences and sets.                                                          *)

\* What find_if finds is the first entry.
LEMMA FirstIsFirst ==
  ASSUME NEW S, S \subseteq Nat, S # {}
  PROVE  First(S) \in S /\ \A j \in S : First(S) <= j
<1> DEFINE R == {ss \in Nat \X Nat : ss[1] < ss[2]}
<1>1. OpToRel(<, Nat) = R
  BY DEF OpToRel
<1>2. IsWellFoundedOn(R, Nat)
  BY <1>1, NatLessThanWellFounded
<1>3. \E i \in S : \A j \in S : ~(<<j, i>> \in R)
  BY <1>2, WFMin
<1>4. ASSUME NEW i \in Nat, NEW j \in Nat, j < i PROVE <<j, i>> \in R
  <2>1. <<j, i>> \in Nat \X Nat /\ <<j, i>>[1] < <<j, i>>[2]
    BY <1>4
  <2> QED BY <2>1
<1> HIDE DEF R
<1>5. PICK i \in S : \A j \in S : ~(<<j, i>> \in R)
  BY <1>3
<1>6. ASSUME NEW j \in S PROVE i <= j
  <2>1. i \in Nat /\ j \in Nat /\ ~(j < i)
    BY <1>4, <1>5
  <2> QED BY <2>1
<1> QED BY <1>6 DEF First

\* What is left of a vector when an entry is erased.
LEMMA RemoveAtFacts ==
  ASSUME NEW S, NEW s \in Seq(S), NEW n \in DOMAIN s
  PROVE  /\ RemoveAt(s, n) \in Seq(S)
         /\ Len(RemoveAt(s, n)) = Len(s) - 1
         /\ \A i \in 1..(Len(s) - 1) : RemoveAt(s, n)[i] = IF i < n THEN s[i] ELSE s[i + 1]
<1>0. Len(s) \in Nat /\ DOMAIN s = 1..Len(s) /\ n \in 1..Len(s) /\ \A i \in 1..Len(s) : s[i] \in S
  BY LenProperties
<1>1. PICK a : a = SubSeq(s, 1, n - 1)
  OBVIOUS
<1>2. PICK b : b = SubSeq(s, n + 1, Len(s))
  OBVIOUS
<1>3. a \in Seq(S) /\ Len(a) = n - 1 /\ \A i \in 1..(n - 1) : a[i] = s[i]
  <2>1. \A i \in 1..(n - 1) : s[i] \in S
    BY <1>0
  <2>2. 1 \in Int /\ n - 1 \in Int
    BY <1>0
  <2>3. /\ SubSeq(s, 1, n - 1) \in Seq(S)
        /\ Len(SubSeq(s, 1, n - 1)) = IF 1 <= n - 1 THEN (n - 1) - 1 + 1 ELSE 0
        /\ \A i \in 1..((n - 1) - 1 + 1) : SubSeq(s, 1, n - 1)[i] = s[1 + i - 1]
    BY <2>1, <2>2, SubSeqProperties
  <2> QED BY <1>0, <1>1, <2>3
<1>4. b \in Seq(S) /\ Len(b) = Len(s) - n /\ \A i \in 1..(Len(s) - n) : b[i] = s[n + i]
  <2>1. \A i \in (n + 1)..Len(s) : s[i] \in S
    BY <1>0
  <2>2. n + 1 \in Int /\ Len(s) \in Int
    BY <1>0
  <2>3. /\ SubSeq(s, n + 1, Len(s)) \in Seq(S)
        /\ Len(SubSeq(s, n + 1, Len(s))) = IF n + 1 <= Len(s) THEN Len(s) - (n + 1) + 1 ELSE 0
        /\ \A i \in 1..(Len(s) - (n + 1) + 1) : SubSeq(s, n + 1, Len(s))[i] = s[n + 1 + i - 1]
    BY <2>1, <2>2, SubSeqProperties
  <2> QED BY <1>0, <1>2, <2>3
<1>5. RemoveAt(s, n) = a \o b
  BY <1>1, <1>2 DEF RemoveAt
<1>6. /\ a \o b \in Seq(S)
      /\ Len(a \o b) = Len(s) - 1
      /\ \A i \in 1..(Len(s) - 1) : (a \o b)[i] = IF i <= n - 1 THEN a[i] ELSE b[i - (n - 1)]
  <2>1. /\ a \o b \in Seq(S)
        /\ Len(a \o b) = Len(a) + Len(b)
        /\ \A i \in 1..(Len(a) + Len(b)) : (a \o b)[i] = IF i <= Len(a) THEN a[i] ELSE b[i - Len(a)]
    BY <1>3, <1>4, ConcatProperties
  <2>2. Len(a) + Len(b) = Len(s) - 1 /\ Len(a) = n - 1
    BY <1>0, <1>3, <1>4
  <2> QED BY <2>1, <2>2
<1>7. ASSUME NEW i \in 1..(Len(s) - 1)
      PROVE  (a \o b)[i] = IF i < n THEN s[i] ELSE s[i + 1]
  <2>1. CASE i < n
    BY <1>0, <1>3, <1>6, <2>1
  <2>2. CASE ~(i < n)
    <3>1. i - (n - 1) \in 1..(Len(s) - n) /\ n + (i - (n - 1)) = i + 1 /\ ~(i <= n - 1)
      BY <1>0, <2>2
    <3> QED BY <1>4, <1>6, <2>2, <3>1
  <2> QED BY <2>1, <2>2
<1> QED BY <1>5, <1>6, <1>7

\* The elements of a finite set, one after the other.
LEMMA SetToSeqFacts ==
  ASSUME NEW S, IsFiniteSet(S)
  PROVE  /\ Cardinality(S) \in Nat
         /\ SetToSeq(S) \in [1..Cardinality(S) -> S]
         /\ SetToSeq(S) \in Seq(S)
         /\ \A x \in S : \E i \in 1..Cardinality(S) : SetToSeq(S)[i] = x
<1>1. Cardinality(S) \in Nat /\ ExistsBijection(1..Cardinality(S), S)
  BY FS_CardinalityType
<1>2. \E q \in [1..Cardinality(S) -> S] : IsInjective(q)
  BY <1>1 DEF ExistsBijection, Bijection, Injection
<1>3. SetToSeq(S) \in [1..Cardinality(S) -> S] /\ IsInjective(SetToSeq(S))
  BY <1>2 DEF SetToSeq
<1>4. SetToSeq(S) \in Seq(S)
  BY <1>1, <1>3
<1>5. PICK q : q = SetToSeq(S)
  OBVIOUS
<1>6. IsFiniteSet(1..Cardinality(S)) /\ Cardinality(1..Cardinality(S)) = Cardinality(S)
  <2>1. 1 \in Int /\ Cardinality(S) \in Int
    BY <1>1
  <2>2. /\ IsFiniteSet(1..Cardinality(S))
        /\ Cardinality(1..Cardinality(S)) = IF 1 > Cardinality(S) THEN 0 ELSE Cardinality(S) - 1 + 1
    BY <2>1, FS_Interval
  <2> QED BY <1>1, <2>2
<1>7. q \in Injection(1..Cardinality(S), S)
  BY <1>3, <1>5 DEF Injection
<1>8. q \in Surjection(1..Cardinality(S), S)
  BY <1>6, <1>7, FS_Injection
<1> QED BY <1>1, <1>3, <1>4, <1>5, <1>8 DEF Surjection

-----------------------------------------------------------------------------
(* Types.                                                                       *)

\* What the queues of callbacks, the phases and the buffer of transmissions are.
Queues == [Federates -> Seq(Message)]
Phases == {"idle", "evoke", "targets", "sources", "transmits"}
Transmission == [handle : Handles, value : 1..MaxValues]

\* The poll thread processes the buffers, or evokes callbacks, of a federate that is
\* about to be or is online.
PhaseInv ==
  \A f \in Federates : phase[f] # "idle" => mState[f] \in {"InitFederate", "Online"}

\* A federate uses one object name for every registration and once more for every
\* registration each time it joins: the bound of the object names is no restriction.
Entries(f) == Len(buffered[f]["source"]) + Len(buffered[f]["target"])
Joins(f) == issued[f].leaves + (IF Joined(f) THEN 1 ELSE 0)
CountersInv ==
  \A f \in Federates :
    /\ \A k \in Kinds : Len(persistent[f][k]) <= issued[f][k] /\ issued[f][k] <= MaxHandles
    /\ issued[f].leaves <= MaxLeaves /\ issued[f].values <= MaxValues
NamesInv ==
  \A f \in Federates :
    issued[f].names + Entries(f)
      <= issued[f].source + issued[f].target + 2 * MaxHandles * Joins(f)

TypeInv == TypeOK /\ IsFiniteSet(objects) /\ PhaseInv /\ CountersInv /\ NamesInv

\* The bounds are numbers.
LEMMA Bounds ==
  /\ MaxHandles \in Nat /\ MaxValues \in Nat /\ MaxLeaves \in Nat
  /\ 0 \in 0..MaxValues /\ 0 \in 0..MaxHandles
BY BoundsAssumption

\* There are two kinds of registrations and three more counters.
LEMMA CounterTypes ==
  /\ "source" \in Kinds /\ "target" \in Kinds /\ Kinds \subseteq Counters
  /\ "names" \in Counters /\ "values" \in Counters /\ "leaves" \in Counters
  /\ "names" \notin Kinds /\ "values" \notin Kinds /\ "leaves" \notin Kinds
BY DEF Kinds, Counters

\* No object has the empty name.
LEMMA NoNameIsNoName ==
  NoName \notin Names
BY DEF Names, NoName

\* The messages of an object are messages.
LEMMA MessageTypes ==
  ASSUME NEW obj \in Objects, NEW named \in BOOLEAN, NEW v \in 0..MaxValues
  PROVE  /\ Reserved(obj) \in Message /\ Discover(obj) \in Message /\ Removed(obj) \in Message
         /\ Provide(obj, named) \in Message /\ Update(obj, named, v) \in Message
BY Bounds DEF Reserved, Discover, Removed, Provide, Update, Message

\* What the RTI is given to distribute are queues of messages.
LEMMA OutTypes ==
  ASSUME NEW f \in Federates, NEW m \in Message
  PROVE  /\ Nothing \in Queues /\ To(f, m) \in Queues /\ ToOthers(f, m) \in Queues
         /\ ToSubscribers(f, m) \in Queues
<1>1. <<>> \in Seq(Message) /\ <<m>> \in Seq(Message)
  OBVIOUS
<1>2. Nothing \in Queues
  BY <1>1 DEF Nothing, Queues
<1>3. To(f, m) \in Queues
  BY <1>1, <1>2 DEF To, Queues
<1> QED BY <1>1, <1>2, <1>3 DEF ToOthers, ToSubscribers, Queues

\* Two distributions, one after the other.
LEMMA ThenTypes ==
  ASSUME NEW o1 \in Queues, NEW o2 \in Queues
  PROVE  Then(o1, o2) \in Queues
BY DEF Then, Queues

\* What is sent arrives behind what is there.
LEMMA SendTypes ==
  ASSUME NEW queue \in Queues, NEW out \in Queues, event \in [Federates -> BOOLEAN],
         Send(queue, out)
  PROVE  /\ inbox' \in Queues /\ event' \in [Federates -> BOOLEAN]
         /\ \A g \in Federates : inbox'[g] = queue[g] \o out[g]
<1>1. \A g \in Federates : queue[g] \o out[g] \in Seq(Message)
  BY DEF Queues
<1>2. \A g \in Federates : (event[g] \/ out[g] # <<>>) \in BOOLEAN
  OBVIOUS
<1>3. event' = [g \in Federates |-> event[g] \/ out[g] # <<>>]
  BY DEF Send
<1>4. event' \in [Federates -> BOOLEAN]
  BY <1>2, <1>3
<1> QED BY <1>1, <1>4 DEF Send, Queues

\* Taking the message at the head leaves queues.
LEMMA RestTypes ==
  ASSUME inbox \in Queues, NEW f \in Federates, inbox[f] # <<>>
  PROVE  Rest(f) \in Queues /\ Head(inbox[f]) \in Message
<1>1. inbox[f] \in Seq(Message)
  BY DEF Queues
<1>2. Tail(inbox[f]) \in Seq(Message) /\ Head(inbox[f]) \in Message
  BY <1>1, HeadTailProperties
<1> QED BY <1>2 DEF Rest, Queues

\* A member of a local vector, its name and its object.
LEMMA LocalTypes ==
  ASSUME TypeOK, NEW f \in Federates, NEW k \in Kinds, NEW i \in DOMAIN locals[f][k]
  PROVE  /\ locals[f][k] \in Seq(Local) /\ DOMAIN locals[f][k] = 1..Len(locals[f][k])
         /\ i \in Nat /\ locals[f][k][i] \in Local
         /\ locals[f][k][i].name \in Names /\ locals[f][k][i].handle \in Handles
         /\ locals[f][k][i].last \in 0..MaxValues /\ locals[f][k][i].registered \in BOOLEAN
         /\ [name |-> locals[f][k][i].name, kind |-> k] \in Objects
<1>1. locals[f][k] \in Seq(Local)
  BY DEF TypeOK
<1>2. DOMAIN locals[f][k] = 1..Len(locals[f][k]) /\ i \in Nat /\ locals[f][k][i] \in Local
  BY <1>1, LenProperties, ElementOfSeq
<1> QED BY <1>1, <1>2 DEF Local, Objects

\* The RTI's answer to a change of name or data is a distribution.
LEMMA UpdateTypes ==
  ASSUME NEW f \in Federates, NEW k \in Kinds, NEW l \in Local, NEW v \in 0..MaxValues
  PROVE  UpdateName(f, k, l) \in Queues /\ UpdateDOSourceObjectData(f, l, v) \in Queues
<1>1. l.name \in Names /\ l.last \in 0..MaxValues
  BY DEF Local
<1>2. \A j \in Kinds : [name |-> l.name, kind |-> j] \in Objects
  BY <1>1 DEF Objects
<1>3. \A j \in Kinds, b \in BOOLEAN, w \in 0..MaxValues :
        Update([name |-> l.name, kind |-> j], b, w) \in Message
  BY <1>2, MessageTypes
<1>4. "source" \in Kinds /\ "target" \in Kinds /\ TRUE \in BOOLEAN /\ FALSE \in BOOLEAN
  BY CounterTypes
<1>5. UpdateDOSourceObjectName(f, l) \in Queues /\ UpdateDOTargetObjectName(f, l) \in Queues
      /\ UpdateDOSourceObjectData(f, l, v) \in Queues
  BY <1>1, <1>3, <1>4, Bounds, OutTypes
     DEF UpdateDOSourceObjectName, UpdateDOTargetObjectName, UpdateDOSourceObjectData
<1> QED BY <1>5 DEF UpdateName

\* Sums and products of numbers.
LEMMA Sums ==
  ASSUME NEW a \in Nat, NEW b \in Nat
  PROVE  a + b \in Nat /\ (a # 0 \/ b # 0 => a + b >= 1)
OBVIOUS

\* Products.
LEMMA Multiples ==
  ASSUME NEW n \in Nat, NEW a \in Nat, NEW b \in Nat, a <= b
  PROVE  /\ n * a \in Nat /\ n * a <= n * b
         /\ n * (a + 1) = n * a + n
OBVIOUS

\* The counters and the buffers of a federate, as numbers and sequences.
LEMMA CounterValues ==
  ASSUME TypeOK, NEW f \in Federates
  PROVE  /\ \A c \in Counters : issued[f][c] \in Nat
         /\ \A k \in Kinds : /\ persistent[f][k] \in Seq(Registration)
                             /\ buffered[f][k] \in Seq(Registration)
                             /\ Len(persistent[f][k]) \in Nat /\ Len(buffered[f][k]) \in Nat
         /\ Entries(f) \in Nat /\ Joins(f) \in Nat
<1>1. /\ issued \in [Federates -> [Counters -> Nat]]
      /\ persistent \in [Federates -> [Kinds -> Seq(Registration)]]
      /\ buffered \in [Federates -> [Kinds -> Seq(Registration)]]
  BY DEF TypeOK
<1>2. \A k \in Kinds : /\ persistent[f][k] \in Seq(Registration)
                       /\ buffered[f][k] \in Seq(Registration)
                       /\ Len(persistent[f][k]) \in Nat /\ Len(buffered[f][k]) \in Nat
  BY <1>1, LenProperties
<1>3. Entries(f) \in Nat
  <2>1. Len(buffered[f]["source"]) \in Nat /\ Len(buffered[f]["target"]) \in Nat
    BY <1>2, CounterTypes
  <2> QED BY <2>1, Sums, Zenon DEF Entries
<1>4. issued[f].leaves \in Nat /\ \A c \in Counters : issued[f][c] \in Nat
  BY <1>1, CounterTypes
<1> QED BY <1>2, <1>3, <1>4 DEF Joins

\* As long as something is to be registered there is a name for it.
LEMMA FreshIsName ==
  ASSUME TypeInv, NEW f \in Federates, NEW k \in Kinds, buffered[f][k] # <<>>
  PROVE  Fresh(f) \in Names
<1>1. /\ issued[f].names \in Nat /\ issued[f].source \in Nat /\ issued[f].target \in Nat
      /\ issued[f].leaves \in Nat /\ Entries(f) \in Nat /\ Joins(f) \in Nat
      /\ issued[f].source <= MaxHandles /\ issued[f].target <= MaxHandles
      /\ issued[f].leaves <= MaxLeaves
      /\ Len(buffered[f]["source"]) \in Nat /\ Len(buffered[f]["target"]) \in Nat
  BY CounterTypes, CounterValues DEF TypeInv, CountersInv
<1>2. /\ MaxHandles \in Nat /\ MaxLeaves \in Nat
      /\ issued[f].names + Entries(f)
           <= issued[f].source + issued[f].target + 2 * MaxHandles * Joins(f)
  BY Bounds DEF TypeInv, NamesInv
<1>3. Joins(f) <= MaxLeaves + 1
  BY <1>1, <1>2 DEF Joins
<1>4. Entries(f) >= 1
  <2>1. buffered[f][k] \in Seq(Registration) /\ Len(buffered[f][k]) # 0
    BY CounterValues DEF TypeInv
  <2>2. k = "source" \/ k = "target"
    BY DEF Kinds
  <2>3. Len(buffered[f]["source"]) # 0 \/ Len(buffered[f]["target"]) # 0
    BY <2>1, <2>2
  <2> QED BY <1>1, <2>3, Sums, Zenon DEF Entries
<1>5. PICK n : n = 2 * MaxHandles
  OBVIOUS
<1>6. PICK all : all = n * (MaxLeaves + 1)
  OBVIOUS
<1>7. n \in Nat /\ all \in Nat /\ n * Joins(f) \in Nat /\ n * Joins(f) <= all /\ n <= all
  <2>1. n \in Nat /\ MaxLeaves + 1 \in Nat /\ 1 \in Nat /\ 1 <= MaxLeaves + 1
    BY <1>2, <1>5
  <2>2. n * Joins(f) \in Nat /\ n * Joins(f) <= n * (MaxLeaves + 1)
    BY <1>1, <1>3, <2>1, Multiples
  <2>3. n * 1 <= n * (MaxLeaves + 1) /\ n * (MaxLeaves + 1) \in Nat
    BY <2>1, Multiples
  <2> QED BY <1>6, <2>1, <2>2, <2>3
<1>8. 4 * MaxHandles * (MaxLeaves + 1) = all + all
  BY <1>2, <1>5, <1>6
<1>9. issued[f].names + 1 \in 1..(4 * MaxHandles * (MaxLeaves + 1))
  <2>1. PICK a, e, b, c, m : /\ a = issued[f].names /\ e = Entries(f)
                            /\ b = issued[f].source /\ c = issued[f].target
                            /\ m = n * Joins(f)
    OBVIOUS
  <2>2. /\ a \in Nat /\ e \in Nat /\ b \in Nat /\ c \in Nat /\ e >= 1 /\ m \in Nat
        /\ b <= MaxHandles /\ c <= MaxHandles /\ MaxHandles \in Nat
        /\ a + e <= b + c + m /\ m <= all /\ n <= all /\ n = 2 * MaxHandles /\ all \in Nat
    BY <1>1, <1>2, <1>4, <1>5, <1>7, <2>1
  <2>3. a + 1 \in 1..(all + all)
    BY <2>2
  <2> QED BY <1>8, <2>1, <2>3
<1> QED BY <1>9 DEF Fresh, Names

\* The types hold initially.
LEMMA TypesInit ==
  Init => TypeInv
<1> SUFFICES ASSUME Init PROVE TypeInv
  OBVIOUS
<1>1. /\ <<>> \in Seq(Registration) /\ <<>> \in Seq(Local) /\ <<>> \in Seq(Message)
      /\ <<>> \in Seq(Transmission) /\ Len(<<>>) = 0
  OBVIOUS
<1>2. TypeOK
  BY <1>1, Bounds, NoNameIsNoName, CounterTypes
     DEF Init, TypeOK, States, NoValues, Nothing, Transmission, Counters
<1>3. IsFiniteSet(objects)
  BY FS_EmptySet DEF Init
<1>4. PhaseInv /\ CountersInv
  BY <1>1, Bounds, CounterTypes DEF Init, PhaseInv, CountersInv
<1>5. NamesInv
  <2> SUFFICES ASSUME NEW f \in Federates
               PROVE  issued[f].names + Entries(f)
                        <= issued[f].source + issued[f].target + 2 * MaxHandles * Joins(f)
    BY DEF NamesInv
  <2>1. issued[f].names = 0 /\ issued[f].source = 0 /\ issued[f].target = 0 /\ issued[f].leaves = 0
    BY CounterTypes DEF Init
  <2>2. Entries(f) = 0
    BY <1>1, CounterTypes DEF Init, Entries
  <2>3. Joins(f) = 0
    BY <2>1 DEF Init, Joins, Joined
  <2> QED BY <2>1, <2>2, <2>3, Bounds
<1> QED BY <1>2, <1>3, <1>4, <1>5 DEF TypeInv

\* What callbacks and distributions change, typed.
EvokedTypes ==
  /\ event \in [Federates -> BOOLEAN]
  /\ locals \in [Federates -> [Kinds -> Seq(Local)]]
  /\ byHandle \in [Federates -> [Handles -> Names \cup {NoName}]]
  /\ remote \in [Federates -> SUBSET Objects]
  /\ callback \in [Federates -> 0..MaxHandles]
  /\ objects \subseteq Objects /\ IsFiniteSet(objects)
  /\ unsub \in [Federates -> SUBSET Objects]
  /\ inbox \in Queues
  /\ got \in [Federates -> [Names -> 0..MaxValues]]
  /\ written \in [Names -> 0..MaxValues]

\* An entry of a nested function is replaced by one of its type.
LEMMA ExceptTypes ==
  ASSUME NEW F, NEW K, NEW S, NEW h \in [F -> [K -> S]], NEW f \in F, NEW k \in K, NEW s \in S
  PROVE  /\ [h EXCEPT ![f][k] = s] \in [F -> [K -> S]]
         /\ \A g \in F, j \in K : [h EXCEPT ![f][k] = s][g][j] = IF g = f /\ j = k THEN s ELSE h[g][j]
OBVIOUS

\* The first local member of a name is one.
LEMMA NamedTypes ==
  ASSUME TypeOK, NEW f \in Federates, NEW obj \in Objects, Named(f, obj) # {}
  PROVE  /\ First(Named(f, obj)) \in DOMAIN locals[f][obj.kind]
         /\ locals[f][obj.kind][First(Named(f, obj))].name = obj.name
         /\ obj.kind \in Kinds /\ obj.name \in Names
<1>1. obj.kind \in Kinds /\ obj.name \in Names
  BY DEF Objects
<1>2. locals[f][obj.kind] \in Seq(Local)
  BY <1>1 DEF TypeOK
<1>3. DOMAIN locals[f][obj.kind] = 1..Len(locals[f][obj.kind]) /\ Len(locals[f][obj.kind]) \in Nat
  BY <1>2, LenProperties
<1>4. Named(f, obj) \subseteq Nat
  BY <1>3 DEF Named
<1>5. First(Named(f, obj)) \in Named(f, obj)
  BY <1>4, FirstIsFirst
<1> QED BY <1>1, <1>5 DEF Named

\* The name of the object of the local member l at i was reserved.
ReservationStep(f, obj, i, l) ==
  /\ obj.kind \in Kinds /\ obj.name \in Names
  /\ i \in DOMAIN locals[f][obj.kind] /\ l = locals[f][obj.kind][i] /\ l \in Local
  /\ l.handle \in Handles /\ l.last \in 0..MaxValues /\ l.name = obj.name
  /\ locals' = [locals EXCEPT ![f][obj.kind] =
                  [locals[f][obj.kind] EXCEPT ![i] = [l EXCEPT !.registered = TRUE]]]
  /\ byHandle' = IF obj.kind = "source"
                   THEN [byHandle EXCEPT ![f][l.handle] = obj.name] ELSE byHandle
  /\ objects' = objects \cup {obj}
  /\ written' = [written EXCEPT ![obj.name] = l.last]
  /\ Send(Rest(f), Then(ToOthers(f, Discover(obj)), UpdateName(f, obj.kind, l)))
  /\ UNCHANGED <<remote, callback, unsub, got>>

\* Nothing wants the name any more.
ReservationUnused(f) ==
  /\ Send(Rest(f), Nothing)
  /\ UNCHANGED <<locals, byHandle, objects, written, remote, callback, unsub, got>>

\* The name of the first member that has it is reserved, or nobody's.
LEMMA ReservationSteps ==
  ASSUME TypeOK, NEW f \in Federates, NEW obj \in Objects, OnDOObjectReservationCompleted(f, obj)
  PROVE  ReservationUnused(f) \/ \E i, l : ReservationStep(f, obj, i, l)
<1>1. CASE Named(f, obj) = {}
  BY <1>1 DEF OnDOObjectReservationCompleted, ReservationUnused
<1>2. CASE Named(f, obj) # {}
  <2>1. PICK i, l : i = First(Named(f, obj)) /\ l = locals[f][obj.kind][i]
    OBVIOUS
  <2>2. /\ i \in DOMAIN locals[f][obj.kind] /\ obj.kind \in Kinds /\ obj.name \in Names
        /\ l.name = obj.name
    BY <1>2, <2>1, NamedTypes
  <2>3. l \in Local /\ l.handle \in Handles /\ l.last \in 0..MaxValues
    BY <2>1, <2>2, LocalTypes
  <2>4. /\ locals' = [locals EXCEPT ![f][obj.kind][i].registered = TRUE]
        /\ byHandle' = IF obj.kind = "source"
                         THEN [byHandle EXCEPT ![f][l.handle] = obj.name] ELSE byHandle
        /\ objects' = objects \cup {obj}
        /\ written' = [written EXCEPT ![obj.name] = l.last]
        /\ Send(Rest(f), Then(ToOthers(f, Discover(obj)), UpdateName(f, obj.kind, l)))
        /\ UNCHANGED <<remote, callback, unsub, got>>
    BY <1>2, <2>1 DEF OnDOObjectReservationCompleted
  <2>5. locals \in [Federates -> [Kinds -> Seq(Local)]]
    BY DEF TypeOK
  <2>6. locals' = [locals EXCEPT ![f][obj.kind] =
                     [locals[f][obj.kind] EXCEPT ![i] = [l EXCEPT !.registered = TRUE]]]
    BY <2>1, <2>2, <2>4, <2>5
  <2>7. ReservationStep(f, obj, i, l)
    BY <2>1, <2>2, <2>3, <2>4, <2>6 DEF ReservationStep
  <2> QED BY <2>7
<1> QED BY <1>1, <1>2

\* A completed reservation keeps the types.
LEMMA ReservationTypes ==
  ASSUME TypeOK, IsFiniteSet(objects), NEW f \in Federates, inbox[f] # <<>>,
         NEW obj \in Objects, OnDOObjectReservationCompleted(f, obj)
  PROVE  EvokedTypes'
<1>0. /\ inbox \in Queues /\ event \in [Federates -> BOOLEAN]
      /\ locals \in [Federates -> [Kinds -> Seq(Local)]]
      /\ written \in [Names -> 0..MaxValues] /\ objects \subseteq Objects
      /\ byHandle \in [Federates -> [Handles -> Names \cup {NoName}]]
  BY DEF TypeOK, Queues
<1>1. Rest(f) \in Queues
  BY <1>0, RestTypes
<1>2. /\ remote' \in [Federates -> SUBSET Objects] /\ callback' \in [Federates -> 0..MaxHandles]
      /\ unsub' \in [Federates -> SUBSET Objects]
      /\ got' \in [Federates -> [Names -> 0..MaxValues]]
  BY DEF OnDOObjectReservationCompleted, TypeOK
<1>3. Discover(obj) \in Message
  BY MessageTypes, Bounds
<1>4. CASE ReservationUnused(f)
  <2>1. Nothing \in Queues
    BY <1>3, OutTypes
  <2>2. inbox' \in Queues /\ event' \in [Federates -> BOOLEAN]
    BY <1>0, <1>1, <1>4, <2>1, SendTypes DEF ReservationUnused
  <2> QED BY <1>0, <1>2, <1>4, <2>2 DEF EvokedTypes, ReservationUnused
<1>5. ASSUME NEW i, NEW l, ReservationStep(f, obj, i, l) PROVE EvokedTypes'
  <2>2. /\ i \in DOMAIN locals[f][obj.kind] /\ obj.kind \in Kinds /\ obj.name \in Names
        /\ l \in Local /\ l.handle \in Handles /\ l.last \in 0..MaxValues
    BY <1>5 DEF ReservationStep
  <2>5. PICK q : q = [locals[f][obj.kind] EXCEPT ![i] = [l EXCEPT !.registered = TRUE]]
    OBVIOUS
  <2>4. /\ locals' = [locals EXCEPT ![f][obj.kind] = q]
        /\ byHandle' = IF obj.kind = "source"
                         THEN [byHandle EXCEPT ![f][l.handle] = obj.name] ELSE byHandle
        /\ objects' = objects \cup {obj}
        /\ written' = [written EXCEPT ![obj.name] = l.last]
        /\ Send(Rest(f), Then(ToOthers(f, Discover(obj)), UpdateName(f, obj.kind, l)))
    BY <1>5, <2>5 DEF ReservationStep
  <2>6. [l EXCEPT !.registered = TRUE] \in Local
    BY <2>2 DEF Local
  <2>7. q \in Seq(Local)
    <3>1. locals[f][obj.kind] \in Seq(Local) /\ i \in 1..Len(locals[f][obj.kind])
      BY <2>2, LocalTypes
    <3> QED BY <2>5, <2>6, <3>1, ExceptSeq
  <2>9. locals' \in [Federates -> [Kinds -> Seq(Local)]]
    BY <1>0, <2>2, <2>4, <2>7
  <2>10. byHandle' \in [Federates -> [Handles -> Names \cup {NoName}]]
    BY <1>0, <2>2, <2>4
  <2>11. objects' \subseteq Objects /\ IsFiniteSet(objects')
    BY <1>0, <2>4, FS_AddElement
  <2>12. written' \in [Names -> 0..MaxValues]
    BY <1>0, <2>2, <2>4
  <2>13. Then(ToOthers(f, Discover(obj)), UpdateName(f, obj.kind, l)) \in Queues
    BY <1>3, <2>2, OutTypes, UpdateTypes, ThenTypes
  <2>14. inbox' \in Queues /\ event' \in [Federates -> BOOLEAN]
    BY <1>0, <1>1, <2>4, <2>13, SendTypes
  <2> QED BY <1>2, <2>9, <2>10, <2>11, <2>12, <2>14 DEF EvokedTypes
<1> QED BY <1>4, <1>5, ReservationSteps

\* The other callbacks.
LEMMA CallbackTypes ==
  ASSUME TypeOK, IsFiniteSet(objects), NEW f \in Federates, inbox[f] # <<>>,
         NEW m \in Message,
         \/ m.type = "discover" /\ discoverObjectInstance(f, m.obj)
         \/ m.type = "remove" /\ removeObjectInstance(f, m.obj)
         \/ m.type = "update" /\ reflectAttributeValues(f, m)
         \/ m.type = "provide" /\ provideAttributeValueUpdate(f, m)
  PROVE  EvokedTypes'
<1>0. /\ inbox \in Queues /\ event \in [Federates -> BOOLEAN]
      /\ locals \in [Federates -> [Kinds -> Seq(Local)]]
      /\ written \in [Names -> 0..MaxValues] /\ objects \subseteq Objects
      /\ byHandle \in [Federates -> [Handles -> Names \cup {NoName}]]
      /\ remote \in [Federates -> SUBSET Objects] /\ unsub \in [Federates -> SUBSET Objects]
      /\ got \in [Federates -> [Names -> 0..MaxValues]]
      /\ callback \in [Federates -> 0..MaxHandles]
  BY DEF TypeOK, Queues
<1>1. Rest(f) \in Queues /\ m.obj \in Objects
  BY <1>0, RestTypes DEF Message
<1>2. Nothing \in Queues
  BY OutTypes
<1>3. CASE m.type = "discover" /\ discoverObjectInstance(f, m.obj)
  <2>1. Request(m.obj, TRUE) \in Queues
    <3>1. Provide(m.obj, TRUE) \in Message
      BY <1>1, Bounds, MessageTypes
    <3>2. Owner(m.obj) \in Federates
      BY <1>1 DEF Objects, Names, Owner
    <3> QED BY <1>2, <3>1, <3>2, OutTypes DEF Request
  <2>2. Send(Rest(f), Request(m.obj, TRUE)) /\ unsub' = [unsub EXCEPT ![f] = @ \ {m.obj}]
        /\ UNCHANGED <<localVars, objects, got, written>>
    BY <1>3 DEF discoverObjectInstance
  <2>3. inbox' \in Queues /\ event' \in [Federates -> BOOLEAN]
    BY <1>0, <1>1, <2>1, <2>2, SendTypes
  <2> QED BY <1>0, <2>2, <2>3 DEF EvokedTypes, localVars
<1>4. CASE m.type = "remove" /\ removeObjectInstance(f, m.obj)
  <2>1. inbox' \in Queues /\ event' \in [Federates -> BOOLEAN]
    BY <1>0, <1>1, <1>2, <1>4, SendTypes DEF removeObjectInstance
  <2> QED BY <1>0, <1>4, <2>1 DEF EvokedTypes, removeObjectInstance
<1>5. CASE m.type = "update" /\ reflectAttributeValues(f, m)
  <2>1. inbox' \in Queues /\ event' \in [Federates -> BOOLEAN]
    BY <1>0, <1>1, <1>2, <1>5, SendTypes DEF reflectAttributeValues
  <2>2. m.obj.name \in Names /\ m.value \in 0..MaxValues
    BY <1>5 DEF Message, Objects
  <2>3. /\ remote' \in [Federates -> SUBSET Objects] /\ unsub' \in [Federates -> SUBSET Objects]
        /\ got' \in [Federates -> [Names -> 0..MaxValues]]
    <3>1. CASE UNCHANGED <<remote, unsub, got>>
      BY <1>0, <3>1
    <3>2. CASE HandleDOSourceObjectUpdate(f, m)
      <4>1. \E b \in BOOLEAN : got' = IF b THEN [got EXCEPT ![f][m.obj.name] = m.value] ELSE got
        BY <3>2 DEF HandleDOSourceObjectUpdate
      <4>2. got' \in [Federates -> [Names -> 0..MaxValues]]
        BY <1>0, <2>2, <4>1
      <4>3. \E b \in BOOLEAN : remote' = [remote EXCEPT ![f] = IF b THEN @ \cup {m.obj} ELSE @]
        <5>1. (m.named = TRUE) \in BOOLEAN /\ m.named \in BOOLEAN
          BY <1>5 DEF Message
        <5> QED BY <3>2, <5>1 DEF HandleDOSourceObjectUpdate
      <4>4. \E b \in BOOLEAN : unsub' = [unsub EXCEPT ![f] = IF b THEN @ \cup {m.obj} ELSE @]
        BY <3>2 DEF HandleDOSourceObjectUpdate
      <4> QED BY <1>0, <1>1, <4>2, <4>3, <4>4
    <3>3. CASE HandleDOTargetObjectUpdate(f, m)
      BY <1>0, <1>1, <3>3 DEF HandleDOTargetObjectUpdate
    <3> QED BY <1>5, <3>1, <3>2, <3>3 DEF reflectAttributeValues
  <2> QED BY <1>0, <1>5, <2>1, <2>3 DEF EvokedTypes, reflectAttributeValues
<1>6. CASE m.type = "provide" /\ provideAttributeValueUpdate(f, m)
  <2>1. UNCHANGED <<localVars, objects, unsub, got, written>>
    BY <1>6 DEF provideAttributeValueUpdate
  <2>2. \E out \in Queues : Send(Rest(f), out)
    <3>1. CASE Named(f, m.obj) = {}
      BY <1>2, <1>6, <3>1 DEF provideAttributeValueUpdate
    <3>2. CASE Named(f, m.obj) # {}
      <4>1. PICK l : l = locals[f][m.obj.kind][First(Named(f, m.obj))]
        OBVIOUS
      <4>2. l \in Local /\ m.obj.kind \in Kinds /\ l.last \in 0..MaxValues
        BY <1>1, <3>2, <4>1, NamedTypes, LocalTypes
      <4>3. UpdateName(f, m.obj.kind, l) \in Queues /\ UpdateDOSourceObjectData(f, l, l.last) \in Queues
        BY <4>2, UpdateTypes
      <4> QED BY <1>2, <1>6, <3>2, <4>1, <4>3 DEF provideAttributeValueUpdate
    <3> QED BY <3>1, <3>2
  <2>3. inbox' \in Queues /\ event' \in [Federates -> BOOLEAN]
    BY <1>0, <1>1, <2>2, SendTypes
  <2> QED BY <1>0, <2>1, <2>3 DEF EvokedTypes, localVars
<1> QED BY <1>3, <1>4, <1>5, <1>6

\* A callback keeps the types of what it changes and leaves the rest alone.
LEMMA EvokeTypes ==
  ASSUME TypeOK, IsFiniteSet(objects), NEW f \in Federates, evokeCallback(f)
  PROVE  EvokedTypes' /\ UNCHANGED <<mState, persistent, buffered, toTransmit, lastSent, issued>>
<1>1. inbox \in Queues /\ inbox[f] # <<>>
  BY DEF TypeOK, Queues, evokeCallback
<1>2. PICK m : m = Head(inbox[f])
  OBVIOUS
<1>3. m \in Message
  BY <1>1, <1>2, RestTypes
<1>4. m.obj \in Objects
  BY <1>3 DEF Message
<1>5. \/ m.type = "reserved" /\ OnDOObjectReservationCompleted(f, m.obj)
      \/ m.type = "discover" /\ discoverObjectInstance(f, m.obj)
      \/ m.type = "remove" /\ removeObjectInstance(f, m.obj)
      \/ m.type = "update" /\ reflectAttributeValues(f, m)
      \/ m.type = "provide" /\ provideAttributeValueUpdate(f, m)
  BY <1>2 DEF evokeCallback
<1>6. EvokedTypes'
  BY <1>1, <1>3, <1>4, <1>5, ReservationTypes, CallbackTypes
<1> QED BY <1>6 DEF evokeCallback, keptByCallbacks, regVars

\* A local member with a fresh name, and its object.
LEMMA NewLocal ==
  ASSUME NEW h \in Handles, NEW n \in Names, NEW v \in 0..MaxValues, NEW k \in Kinds
  PROVE  /\ [handle |-> h, name |-> n, registered |-> FALSE, last |-> v] \in Local
         /\ [name |-> n, kind |-> k] \in Objects
BY DEF Local, Objects

\* What a target asks for when it is created: the value of every known source.
LEMMA AskedTypes ==
  ASSUME NEW S \in SUBSET Objects, IsFiniteSet(S)
  PROVE  /\ [i \in 1..Cardinality(S) |-> Provide(SetToSeq(S)[i], FALSE)] \in Seq(Message)
         /\ \A i \in 1..Cardinality(S) : SetToSeq(S)[i] \in S
<1>1. Cardinality(S) \in Nat /\ SetToSeq(S) \in [1..Cardinality(S) -> S]
  BY SetToSeqFacts
<1>2. \A i \in 1..Cardinality(S) : SetToSeq(S)[i] \in S
  BY <1>1
<1>3. \A i \in 1..Cardinality(S) : Provide(SetToSeq(S)[i], FALSE) \in Message
  BY <1>2, Bounds, MessageTypes
<1>4. PICK q : q = [i \in 1..Cardinality(S) |-> Provide(SetToSeq(S)[i], FALSE)]
  OBVIOUS
<1>5. q \in [1..Cardinality(S) -> Message]
  BY <1>3, <1>4
<1>6. q \in Seq(Message)
  BY <1>1, <1>5
<1> QED BY <1>2, <1>4, <1>6

\* What a new target of f asks the other federates for.
Asked(f) ==
  [g \in Federates |->
     LET asked == {o \in {p \in remote[f] : p.kind = "source"} \cap objects : Owner(o) = g}
     IN [i \in 1..Cardinality(asked) |-> Provide(SetToSeq(asked)[i], FALSE)]]

\* These are messages.
LEMMA AskedQueues ==
  ASSUME TypeOK, IsFiniteSet(objects), NEW f \in Federates
  PROVE  Asked(f) \in Queues
<1>1. objects \subseteq Objects
  BY DEF TypeOK
<1> SUFFICES ASSUME NEW g \in Federates PROVE Asked(f)[g] \in Seq(Message)
  BY DEF Asked, Queues
<1>2. PICK asked :
        asked = {o \in {p \in remote[f] : p.kind = "source"} \cap objects : Owner(o) = g}
  OBVIOUS
<1>3. asked \in SUBSET objects
  BY <1>2
<1>4. asked \in SUBSET Objects /\ IsFiniteSet(asked)
  BY <1>1, <1>3, FS_Subset
<1>5. Asked(f)[g] = [i \in 1..Cardinality(asked) |-> Provide(SetToSeq(asked)[i], FALSE)]
  BY <1>2 DEF Asked
<1> QED BY <1>4, <1>5, AskedTypes

\* One more entry has been taken out of the buffer and got a name.
LEMMA NamesTaken ==
  ASSUME TypeInv, NEW f \in Federates, NEW k \in Kinds, buffered[f][k] # <<>>,
         buffered' = [buffered EXCEPT ![f][k] = Tail(@)], ReserveName(f),
         UNCHANGED <<mState, phase, persistent>>
  PROVE  /\ buffered' \in [Federates -> [Kinds -> Seq(Registration)]]
         /\ issued' \in [Federates -> [Counters -> Nat]]
         /\ PhaseInv' /\ CountersInv' /\ NamesInv'
<1>0. /\ buffered \in [Federates -> [Kinds -> Seq(Registration)]]
      /\ issued \in [Federates -> [Counters -> Nat]]
      /\ issued' = [issued EXCEPT ![f]["names"] = @ + 1]
      /\ buffered[f][k] \in Seq(Registration)
  BY DEF TypeInv, TypeOK, ReserveName
<1>1. /\ Tail(buffered[f][k]) \in Seq(Registration)
      /\ Len(Tail(buffered[f][k])) = Len(buffered[f][k]) - 1
  BY <1>0, HeadTailProperties
<1>2. buffered' \in [Federates -> [Kinds -> Seq(Registration)]]
  BY <1>0, <1>1
<1>3. issued' \in [Federates -> [Counters -> Nat]]
  BY <1>0, CounterTypes
<1>4. PhaseInv'
  BY DEF TypeInv, PhaseInv
<1>5. \A g \in Federates, c \in Counters : c # "names" => issued'[g][c] = issued[g][c]
  BY <1>0
<1>6. CountersInv'
  BY <1>5, CounterTypes DEF TypeInv, CountersInv
<1>7. ASSUME NEW g \in Federates
      PROVE  issued'[g].names + Entries(g)'
               <= issued'[g].source + issued'[g].target + 2 * MaxHandles * Joins(g)'
  <2>1. /\ issued'[g].source = issued[g].source /\ issued'[g].target = issued[g].target
        /\ issued'[g].leaves = issued[g].leaves
    BY <1>5, CounterTypes
  <2>2. Joins(g)' = Joins(g)
    BY <2>1 DEF Joins, Joined
  <2>3. issued[g].names + Entries(g)
          <= issued[g].source + issued[g].target + 2 * MaxHandles * Joins(g)
    BY DEF TypeInv, NamesInv
  <2>4. issued[g].names \in Nat
    BY CounterValues, CounterTypes DEF TypeInv
  <2>5. issued'[g].names + Entries(g)' = issued[g].names + Entries(g)
    <3>1. CASE g # f
      <4>1. issued'[g].names = issued[g].names /\ buffered'[g] = buffered[g]
        BY <1>0, <3>1
      <4> QED BY <4>1 DEF Entries
    <3>2. CASE g = f
      <4>1. issued'[g].names = issued[g].names + 1
        BY <1>0, <3>2, CounterTypes
      <4>2. /\ Len(buffered[f]["source"]) \in Nat /\ Len(buffered[f]["target"]) \in Nat
        BY CounterValues, CounterTypes DEF TypeInv
      <4>3. /\ Len(buffered'[f][k]) = Len(buffered[f][k]) - 1
            /\ \A j \in Kinds : j # k => buffered'[f][j] = buffered[f][j]
        BY <1>0, <1>1
      <4>4. (k = "source" \/ k = "target") /\ "source" # "target"
        BY DEF Kinds
      <4>5. Entries(f)' = Entries(f) - 1
        <5>1. PICK a, b : a = Len(buffered[f]["source"]) /\ b = Len(buffered[f]["target"])
          OBVIOUS
        <5>2. a \in Nat /\ b \in Nat /\ (a - 1) + b = (a + b) - 1 /\ a + (b - 1) = (a + b) - 1
          BY <4>2, <5>1
        <5>3. CASE k = "source"
          <6>1. Entries(f)' = (a - 1) + b /\ Entries(f) = a + b
            BY <4>3, <4>4, <5>1, <5>3, CounterTypes DEF Entries
          <6> QED BY <5>2, <6>1
        <5>4. CASE k = "target"
          <6>1. Entries(f)' = a + (b - 1) /\ Entries(f) = a + b
            BY <4>3, <4>4, <5>1, <5>4, CounterTypes DEF Entries
          <6> QED BY <5>2, <6>1
        <5> QED BY <4>4, <5>3, <5>4
      <4>6. Entries(f) \in Nat
        BY CounterValues DEF TypeInv
      <4> QED BY <2>4, <3>2, <4>1, <4>5, <4>6
    <3> QED BY <3>1, <3>2
  <2> QED BY <2>1, <2>2, <2>3, <2>5
<1> QED BY <1>2, <1>3, <1>4, <1>6, <1>7 DEF NamesInv

\* A step that changes no counter and no registration and joins or leaves nobody.
LEMMA NamesKept ==
  ASSUME TypeInv, UNCHANGED <<persistent, buffered, issued>>,
         \A g \in Federates : Joined(g)' = Joined(g)
  PROVE  CountersInv' /\ NamesInv'
<1>1. \A g \in Federates : Entries(g)' = Entries(g) /\ Joins(g)' = Joins(g)
  BY DEF Entries, Joins
<1>2. CountersInv' /\ NamesInv'
  BY <1>1 DEF TypeInv, CountersInv, NamesInv
<1> QED BY <1>2

\* What they leave alone, typed.
OwnTypes ==
  /\ mState \in [Federates -> States]
  /\ phase \in [Federates -> Phases]
  /\ persistent \in [Federates -> [Kinds -> Seq(Registration)]]
  /\ buffered \in [Federates -> [Kinds -> Seq(Registration)]]
  /\ toTransmit \in [Federates -> Seq(Transmission)]
  /\ lastSent \in [Federates -> [Handles -> 0..MaxValues]]
  /\ issued \in [Federates -> [Counters -> Nat]]

\* The two together are all types.
LEMMA TypeParts ==
  TypeOK /\ IsFiniteSet(objects) <=> OwnTypes /\ EvokedTypes
BY DEF TypeOK, OwnTypes, EvokedTypes, Phases, Queues, Transmission

\* An entry at the head of a buffer is a registration.
LEMMA HeadTypes ==
  ASSUME TypeOK, NEW f \in Federates, NEW k \in Kinds, buffered[f][k] # <<>>
  PROVE  /\ Head(buffered[f][k]) \in Registration
         /\ Head(buffered[f][k]).handle \in Handles /\ Head(buffered[f][k]).last \in 0..MaxValues
<1>1. buffered[f][k] \in Seq(Registration)
  BY DEF TypeOK
<1>2. Head(buffered[f][k]) \in Registration
  BY <1>1, HeadTailProperties
<1> QED BY <1>2 DEF Registration

\* A target, or a source, taken from the buffer becomes a local member.
LEMMA RegisterTargetTypes ==
  ASSUME TypeInv, NEW f \in Federates, NEW r \in Registration, Fresh(f) \in Names,
         RegisterBufferedDOTarget(f, r), UNCHANGED <<objects, written>>
  PROVE  EvokedTypes'
<1>0. EvokedTypes /\ TypeOK /\ IsFiniteSet(objects)
  BY TypeParts DEF TypeInv
<1>1. r.handle \in Handles /\ r.handle \in 0..MaxHandles /\ "target" \in Kinds
  <2>1. r.handle \in Handles
    BY DEF Registration
  <2> QED BY <2>1, Bounds, CounterTypes DEF Handles
<1>2. PICK new, obj : /\ new = [handle |-> r.handle, name |-> Fresh(f), registered |-> FALSE, last |-> 0]
                      /\ obj = [name |-> Fresh(f), kind |-> "target"]
  OBVIOUS
<1>3. new \in Local /\ obj \in Objects
  BY <1>1, <1>2, Bounds, NewLocal
<1>4. /\ locals' = [locals EXCEPT ![f]["target"] = Append(@, new)]
      /\ callback' = [callback EXCEPT ![f] = r.handle]
      /\ got' = [got EXCEPT ![f] = NoValues]
      /\ unsub' = [unsub EXCEPT ![f] = @ \ {o \in remote[f] : o.kind = "source"}]
      /\ Send(inbox, Then(To(f, Reserved(obj)), Asked(f)))
      /\ UNCHANGED <<byHandle, remote>>
  BY <1>2 DEF RegisterBufferedDOTarget, Asked
<1>5. locals[f]["target"] \in Seq(Local) /\ locals \in [Federates -> [Kinds -> Seq(Local)]]
  BY <1>0, <1>1 DEF EvokedTypes
<1>6. Append(locals[f]["target"], new) \in Seq(Local)
  BY <1>3, <1>5, AppendProperties
<1>7. locals' \in [Federates -> [Kinds -> Seq(Local)]]
  BY <1>1, <1>4, <1>5, <1>6
<1>8. NoValues \in [Names -> 0..MaxValues]
  BY Bounds DEF NoValues
<1>9. /\ callback' \in [Federates -> 0..MaxHandles]
      /\ got' \in [Federates -> [Names -> 0..MaxValues]]
      /\ unsub' \in [Federates -> SUBSET Objects]
  BY <1>0, <1>1, <1>4, <1>8 DEF EvokedTypes
<1>10. Then(To(f, Reserved(obj)), Asked(f)) \in Queues
  <2>1. Reserved(obj) \in Message
    BY <1>3, MessageTypes, Bounds
  <2>2. To(f, Reserved(obj)) \in Queues
    BY <2>1, OutTypes
  <2> QED BY <1>0, <2>2, AskedQueues, ThenTypes
<1>11. inbox' \in Queues /\ event' \in [Federates -> BOOLEAN]
  BY <1>0, <1>4, <1>10, SendTypes DEF EvokedTypes
<1> QED BY <1>0, <1>4, <1>7, <1>9, <1>11 DEF EvokedTypes

\* For a source its name is filed under its handle, too.
LEMMA RegisterSourceTypes ==
  ASSUME TypeInv, NEW f \in Federates, NEW r \in Registration, Fresh(f) \in Names,
         RegisterBufferedDOSource(f, r), UNCHANGED <<objects, written>>
  PROVE  EvokedTypes'
<1>0. EvokedTypes
  BY TypeParts DEF TypeInv
<1>1. r.handle \in Handles /\ r.last \in 0..MaxValues /\ "source" \in Kinds
  BY CounterTypes DEF Registration
<1>2. PICK new, obj : /\ new = [handle |-> r.handle, name |-> Fresh(f), registered |-> FALSE,
                                last |-> r.last]
                      /\ obj = [name |-> Fresh(f), kind |-> "source"]
  OBVIOUS
<1>3. new \in Local /\ obj \in Objects
  BY <1>1, <1>2, NewLocal
<1>4. /\ locals' = [locals EXCEPT ![f]["source"] = Append(@, new)]
      /\ Send(inbox, To(f, Reserved(obj)))
      /\ UNCHANGED <<byHandle, remote, callback, unsub, got>>
  BY <1>2 DEF RegisterBufferedDOSource
<1>5. locals[f]["source"] \in Seq(Local) /\ locals \in [Federates -> [Kinds -> Seq(Local)]]
  BY <1>0, <1>1 DEF EvokedTypes
<1>6. Append(locals[f]["source"], new) \in Seq(Local)
  BY <1>3, <1>5, AppendProperties
<1>7. locals' \in [Federates -> [Kinds -> Seq(Local)]]
  BY <1>1, <1>4, <1>5, <1>6
<1>8. To(f, Reserved(obj)) \in Queues
  BY <1>3, MessageTypes, Bounds, OutTypes
<1>9. inbox' \in Queues /\ event' \in [Federates -> BOOLEAN]
  BY <1>0, <1>4, <1>8, SendTypes DEF EvokedTypes
<1> QED BY <1>0, <1>4, <1>7, <1>9 DEF EvokedTypes

\* ProcessBuffers registers what is buffered.
LEMMA RegisterBufferedTypes ==
  ASSUME TypeInv, NEW f \in Federates, ProcessTargets(f) \/ ProcessSources(f)
  PROVE  TypeInv'
<1>0. TypeOK /\ OwnTypes /\ EvokedTypes /\ f \in Federates /\ "source" \in Kinds /\ "target" \in Kinds
  BY TypeParts, CounterTypes DEF TypeInv
<1>1. UNCHANGED <<mState, persistent, toTransmit, objects, written, lastSent>>
  BY DEF ProcessTargets, ProcessSources
<1>2. CASE phase[f] = "targets" /\ buffered[f]["target"] # <<>>
  <2>1. PICK r : r = Head(buffered[f]["target"])
    OBVIOUS
  <2>2. /\ RegisterBufferedDOTarget(f, r) /\ ReserveName(f)
        /\ buffered' = [buffered EXCEPT ![f]["target"] = Tail(@)] /\ UNCHANGED phase
    BY <1>2, <2>1 DEF ProcessTargets, ProcessSources
  <2>3. Fresh(f) \in Names /\ r \in Registration
    BY <1>0, <1>2, <2>1, FreshIsName, HeadTypes
  <2>4. EvokedTypes'
    BY <1>1, <2>2, <2>3, RegisterTargetTypes
  <2>5. /\ buffered' \in [Federates -> [Kinds -> Seq(Registration)]]
        /\ issued' \in [Federates -> [Counters -> Nat]]
        /\ PhaseInv' /\ CountersInv' /\ NamesInv'
    BY <1>0, <1>1, <1>2, <2>2, NamesTaken
  <2>6. OwnTypes'
    BY <1>0, <1>1, <2>2, <2>5 DEF OwnTypes
  <2> QED BY <2>4, <2>5, <2>6, TypeParts, PTL DEF TypeInv
<1>3. CASE phase[f] = "sources" /\ buffered[f]["source"] # <<>>
  <2>1. PICK r : r = Head(buffered[f]["source"])
    OBVIOUS
  <2>2. /\ RegisterBufferedDOSource(f, r) /\ ReserveName(f)
        /\ buffered' = [buffered EXCEPT ![f]["source"] = Tail(@)] /\ UNCHANGED phase
    BY <1>3, <2>1 DEF ProcessTargets, ProcessSources
  <2>3. Fresh(f) \in Names /\ r \in Registration
    BY <1>0, <1>3, <2>1, FreshIsName, HeadTypes
  <2>4. EvokedTypes'
    BY <1>1, <2>2, <2>3, RegisterSourceTypes
  <2>5. /\ buffered' \in [Federates -> [Kinds -> Seq(Registration)]]
        /\ issued' \in [Federates -> [Counters -> Nat]]
        /\ PhaseInv' /\ CountersInv' /\ NamesInv'
    BY <1>0, <1>1, <1>3, <2>2, NamesTaken
  <2>6. OwnTypes'
    BY <1>0, <1>1, <2>2, <2>5 DEF OwnTypes
  <2> QED BY <2>4, <2>5, <2>6, TypeParts, PTL DEF TypeInv
<1>4. CASE \E p \in {"sources", "transmits"} :
             /\ phase[f] \in {"targets", "sources"} /\ phase' = [phase EXCEPT ![f] = p]
             /\ UNCHANGED <<event, buffered, localVars, unsub, inbox, got, issued>>
  <2>1. OwnTypes' /\ EvokedTypes'
    BY <1>0, <1>1, <1>4 DEF OwnTypes, EvokedTypes, localVars, Phases
  <2>2. PhaseInv' /\ \A g \in Federates : Joined(g)' = Joined(g)
    <3>1. \A g \in Federates : /\ phase[g] # "idle" <=> phase'[g] # "idle"
                               /\ mState'[g] = mState[g]
      BY <1>0, <1>1, <1>4 DEF OwnTypes
    <3> QED BY <3>1 DEF TypeInv, PhaseInv, Joined
  <2>3. CountersInv' /\ NamesInv'
    BY <1>1, <1>4, <2>2, NamesKept
  <2> QED BY <2>1, <2>2, <2>3, TypeParts, PTL DEF TypeInv
<1> QED BY <1>2, <1>3, <1>4 DEF ProcessTargets, ProcessSources

\* What BufferedTransmitDOMember finds: the transmission, and the source of its handle.
\* The source is there: see HandlesKnown.
TransmitFound(f, n, t, i, l) ==
  /\ n = First(Transmittable(f)) /\ t = toTransmit[f][n]
  /\ i = CHOOSE j \in DOMAIN locals[f]["source"] :
           locals[f]["source"][j].name = byHandle[f][t.handle]
  /\ l = locals[f]["source"][i]

\* A handle of a source whose HLA object exists belongs to that source.
HandlesKnown ==
  \A f \in Federates, h \in Handles : byHandle[f][h] # NoName =>
    \E i \in DOMAIN locals[f]["source"] :
      /\ locals[f]["source"][i].name = byHandle[f][h]
      /\ locals[f]["source"][i].handle = h /\ locals[f]["source"][i].registered

\* What is known of the entry and the source of a transmission.
LEMMA TransmitFacts ==
  ASSUME TypeOK, HandlesKnown, NEW f \in Federates, Transmittable(f) # {},
         NEW n, NEW t, NEW i, NEW l, TransmitFound(f, n, t, i, l)
  PROVE  /\ n \in DOMAIN toTransmit[f] /\ t \in Transmission /\ t.handle \in Handles
         /\ t.value \in 1..MaxValues /\ t.value \in 0..MaxValues
         /\ \A j \in DOMAIN toTransmit[f] : byHandle[f][toTransmit[f][j].handle] # NoName => n <= j
         /\ byHandle[f][t.handle] # NoName
         /\ i \in DOMAIN locals[f]["source"] /\ l \in Local /\ l.name = byHandle[f][t.handle]
<1>1. toTransmit[f] \in Seq(Transmission)
  BY DEF TypeOK, Transmission
<1>2. DOMAIN toTransmit[f] = 1..Len(toTransmit[f]) /\ Len(toTransmit[f]) \in Nat
  BY <1>1, LenProperties
<1>3. Transmittable(f) \subseteq Nat
  BY <1>2 DEF Transmittable
<1>4. n \in Transmittable(f) /\ \A j \in Transmittable(f) : n <= j
  BY <1>3, FirstIsFirst DEF TransmitFound
<1>5. n \in DOMAIN toTransmit[f] /\ t \in Transmission
  BY <1>1, <1>2, <1>4, ElementOfSeq DEF Transmittable, TransmitFound
<1>6. t.handle \in Handles /\ t.value \in 1..MaxValues
  BY <1>5 DEF Transmission
<1>7. byHandle[f][t.handle] # NoName
  BY <1>4 DEF Transmittable, TransmitFound
<1>8. \E j \in DOMAIN locals[f]["source"] : locals[f]["source"][j].name = byHandle[f][t.handle]
  BY <1>6, <1>7 DEF HandlesKnown
<1>9. i \in DOMAIN locals[f]["source"] /\ locals[f]["source"][i].name = byHandle[f][t.handle]
  BY <1>8 DEF TransmitFound
<1>10. l \in Local /\ l = locals[f]["source"][i]
  BY <1>9, LocalTypes, CounterTypes DEF TransmitFound
<1>11. t.value \in 0..MaxValues
  BY <1>6, Bounds
<1> QED BY <1>4, <1>5, <1>6, <1>7, <1>9, <1>10, <1>11 DEF Transmittable

\* A transmission of the buffer's entry n, which is t, by the source l at i.
TransmitStep(f, n, t, i, l) ==
  /\ n \in DOMAIN toTransmit[f] /\ t = toTransmit[f][n] /\ t.handle \in Handles
  /\ t.value \in 1..MaxValues /\ t.value \in 0..MaxValues
  /\ \A j \in DOMAIN toTransmit[f] : byHandle[f][toTransmit[f][j].handle] # NoName => n <= j
  /\ byHandle[f][t.handle] # NoName
  /\ i \in DOMAIN locals[f]["source"] /\ l \in Local /\ l = locals[f]["source"][i]
  /\ l.name = byHandle[f][t.handle] /\ l.name \in Names
  /\ locals' = [locals EXCEPT ![f]["source"] =
                  [locals[f]["source"] EXCEPT ![i] = [l EXCEPT !.last = t.value]]]
  /\ toTransmit' = [toTransmit EXCEPT ![f] = RemoveAt(toTransmit[f], n)]
  /\ written' = [written EXCEPT ![l.name] = t.value]
  /\ lastSent' = [lastSent EXCEPT ![f][t.handle] = t.value]
  /\ Send(inbox, UpdateDOSourceObjectData(f, l, t.value))
  /\ UNCHANGED <<mState, phase, persistent, buffered, byHandle, remote, callback,
                 objects, unsub, got, issued>>

\* A transmission of the buffer is one of these steps, ...
LEMMA TransmitSteps ==
  ASSUME TypeOK, HandlesKnown, NEW f \in Federates, BufferedTransmitDOMember(f)
  PROVE  \E n, t, i, l : TransmitStep(f, n, t, i, l)
<1>0. PICK n, t, i, l : TransmitFound(f, n, t, i, l)
  BY DEF TransmitFound
<1>1. Transmittable(f) # {}
  BY DEF BufferedTransmitDOMember
<1>2. locals \in [Federates -> [Kinds -> Seq(Local)]] /\ "source" \in Kinds
  BY CounterTypes DEF TypeOK
<1>3. /\ n \in DOMAIN toTransmit[f] /\ t.handle \in Handles
      /\ t.value \in 1..MaxValues /\ t.value \in 0..MaxValues
      /\ \A j \in DOMAIN toTransmit[f] : byHandle[f][toTransmit[f][j].handle] # NoName => n <= j
      /\ byHandle[f][t.handle] # NoName
      /\ i \in DOMAIN locals[f]["source"] /\ l \in Local /\ l.name = byHandle[f][t.handle]
  BY <1>0, <1>1, TransmitFacts
<1>4. t = toTransmit[f][n] /\ l = locals[f]["source"][i] /\ l.name \in Names
  BY <1>0, <1>3 DEF TransmitFound, Local
<1>5. /\ locals' = [locals EXCEPT ![f]["source"][i].last = t.value]
      /\ toTransmit' = [toTransmit EXCEPT ![f] = RemoveAt(@, n)]
      /\ written' = [written EXCEPT ![l.name] = t.value]
      /\ lastSent' = [lastSent EXCEPT ![f][t.handle] = t.value]
      /\ Send(inbox, UpdateDOSourceObjectData(f, l, t.value))
      /\ UNCHANGED <<mState, phase, persistent, buffered, byHandle, remote, callback,
                     objects, unsub, got, issued>>
  BY <1>0 DEF BufferedTransmitDOMember, TransmitFound
<1>6. locals' = [locals EXCEPT ![f]["source"] =
                   [locals[f]["source"] EXCEPT ![i] = [l EXCEPT !.last = t.value]]]
  BY <1>2, <1>3, <1>4, <1>5
<1>7. toTransmit' = [toTransmit EXCEPT ![f] = RemoveAt(toTransmit[f], n)]
  BY <1>5
<1>8. TransmitStep(f, n, t, i, l)
  BY <1>3, <1>4, <1>5, <1>6, <1>7 DEF TransmitStep
<1> QED BY <1>8

\* ... which keep the types.
LEMMA TransmitTypes ==
  ASSUME TypeInv, HandlesKnown, NEW f \in Federates, BufferedTransmitDOMember(f)
  PROVE  TypeInv'
<1>0. TypeOK /\ OwnTypes /\ EvokedTypes /\ "source" \in Kinds
  BY TypeParts, CounterTypes DEF TypeInv
<1>1. PICK n, t, i, l : TransmitStep(f, n, t, i, l)
  BY <1>0, TransmitSteps
<1>2. /\ locals' = [locals EXCEPT ![f]["source"] =
                      [locals[f]["source"] EXCEPT ![i] = [l EXCEPT !.last = t.value]]]
      /\ toTransmit' = [toTransmit EXCEPT ![f] = RemoveAt(toTransmit[f], n)]
      /\ written' = [written EXCEPT ![l.name] = t.value]
      /\ lastSent' = [lastSent EXCEPT ![f][t.handle] = t.value]
      /\ Send(inbox, UpdateDOSourceObjectData(f, l, t.value))
      /\ UNCHANGED <<mState, phase, persistent, buffered, byHandle, remote, callback,
                     objects, unsub, got, issued>>
  BY <1>1 DEF TransmitStep
<1>3. /\ n \in DOMAIN toTransmit[f] /\ t.handle \in Handles /\ t.value \in 0..MaxValues
      /\ i \in DOMAIN locals[f]["source"] /\ l \in Local
  BY <1>1 DEF TransmitStep
<1>4. l.name \in Names /\ [l EXCEPT !.last = t.value] \in Local
  BY <1>3 DEF Local
<1>5. locals[f]["source"] \in Seq(Local) /\ toTransmit[f] \in Seq(Transmission)
      /\ locals \in [Federates -> [Kinds -> Seq(Local)]]
      /\ toTransmit \in [Federates -> Seq(Transmission)]
  BY <1>0 DEF OwnTypes, EvokedTypes
<1>6. locals' \in [Federates -> [Kinds -> Seq(Local)]]
  <2>1. i \in 1..Len(locals[f]["source"])
    BY <1>3, <1>5, LenProperties
  <2>2. [locals[f]["source"] EXCEPT ![i] = [l EXCEPT !.last = t.value]] \in Seq(Local)
    BY <1>4, <1>5, <2>1, ExceptSeq
  <2> QED BY <1>0, <1>2, <1>5, <2>2
<1>7. toTransmit' \in [Federates -> Seq(Transmission)]
  <2>1. RemoveAt(toTransmit[f], n) \in Seq(Transmission)
    BY <1>3, <1>5, RemoveAtFacts
  <2> QED BY <1>2, <1>5, <2>1
<1>8. written' \in [Names -> 0..MaxValues] /\ lastSent' \in [Federates -> [Handles -> 0..MaxValues]]
  BY <1>0, <1>2, <1>3, <1>4 DEF OwnTypes, EvokedTypes
<1>9. inbox' \in Queues /\ event' \in [Federates -> BOOLEAN]
  <2>1. UpdateDOSourceObjectData(f, l, t.value) \in Queues
    BY <1>0, <1>3, UpdateTypes
  <2> QED BY <1>0, <1>2, <2>1, SendTypes DEF EvokedTypes
<1>10. EvokedTypes'
  BY <1>0, <1>2, <1>6, <1>8, <1>9 DEF EvokedTypes
<1>11. OwnTypes'
  BY <1>0, <1>2, <1>7, <1>8 DEF OwnTypes
<1>12. PhaseInv' /\ CountersInv' /\ NamesInv'
  <2>1. UNCHANGED <<persistent, buffered, issued>> /\ \A g \in Federates : Joined(g)' = Joined(g)
    BY <1>2 DEF Joined
  <2>2. PhaseInv'
    BY <1>2 DEF TypeInv, PhaseInv
  <2> QED BY <2>1, <2>2, NamesKept
<1> QED BY <1>10, <1>11, <1>12, TypeParts, PTL DEF TypeInv

\* A handle is looked up in a vector of registrations or of local members.
LEMMA LookUp ==
  ASSUME NEW S, NEW s \in Seq(S), NEW h, OfHandle(s, h) # {}
  PROVE  /\ First(OfHandle(s, h)) \in DOMAIN s /\ s[First(OfHandle(s, h))].handle = h
         /\ \A j \in DOMAIN s : s[j].handle = h => First(OfHandle(s, h)) <= j
<1>1. DOMAIN s = 1..Len(s) /\ Len(s) \in Nat
  BY LenProperties
<1>2. OfHandle(s, h) \subseteq Nat
  BY <1>1 DEF OfHandle
<1>3. First(OfHandle(s, h)) \in OfHandle(s, h) /\ \A j \in OfHandle(s, h) : First(OfHandle(s, h)) <= j
  BY <1>2, FirstIsFirst
<1> QED BY <1>3 DEF OfHandle

\* The three ways to erase what a handle stands for: the entry n of the buffer, nothing,
\* and the local member l at n with its object.
EraseEntry(f, k, h, n) ==
  /\ n \in DOMAIN buffered[f][k] /\ buffered[f][k][n].handle = h
  /\ buffered' = [buffered EXCEPT ![f][k] = RemoveAt(buffered[f][k], n)]
  /\ UNCHANGED <<event, locals, byHandle, objects, inbox>>
EraseNothing(f, k, h) ==
  /\ OfHandle(buffered[f][k], h) = {}
  /\ Of(f, k, h) # {} => /\ mState[f] = "Online"
                         /\ \E n \in Of(f, k, h) : /\ ~locals[f][k][n].registered
                                                   /\ \A j \in Of(f, k, h) : n <= j
  /\ UNCHANGED <<event, buffered, locals, byHandle, objects, inbox>>
EraseMember(f, k, h, n, l) ==
  /\ OfHandle(buffered[f][k], h) = {}
  /\ n \in DOMAIN locals[f][k] /\ l = locals[f][k][n] /\ l \in Local /\ l.handle = h
  /\ l.name \in Names /\ [name |-> l.name, kind |-> k] \in Objects
  /\ mState[f] = "Online" => l.registered
  /\ locals' = [locals EXCEPT ![f][k] = RemoveAt(locals[f][k], n)]
  /\ byHandle' = IF k = "source" THEN [byHandle EXCEPT ![f][h] = NoName] ELSE byHandle
  /\ objects' = IF mState[f] = "Online" THEN objects \ {[name |-> l.name, kind |-> k]} ELSE objects
  /\ Send(inbox, IF mState[f] = "Online" THEN ToOthers(f, Removed([name |-> l.name, kind |-> k]))
                                         ELSE Nothing)
  /\ UNCHANGED buffered

\* Erase does one of the three.
LEMMA EraseSteps ==
  ASSUME TypeOK, NEW f \in Federates, NEW k \in Kinds, NEW h \in Handles, Erase(f, k, h)
  PROVE  \/ \E n : EraseEntry(f, k, h, n)
         \/ EraseNothing(f, k, h)
         \/ \E n, l : EraseMember(f, k, h, n, l)
<1>1. buffered[f][k] \in Seq(Registration) /\ locals[f][k] \in Seq(Local)
      /\ buffered \in [Federates -> [Kinds -> Seq(Registration)]]
      /\ locals \in [Federates -> [Kinds -> Seq(Local)]]
  BY DEF TypeOK
<1>2. CASE OfHandle(buffered[f][k], h) # {}
  <2>1. PICK n : n = First(OfHandle(buffered[f][k], h))
    OBVIOUS
  <2>2. n \in DOMAIN buffered[f][k] /\ buffered[f][k][n].handle = h
    BY <1>1, <1>2, <2>1, LookUp
  <2>3. buffered' = [buffered EXCEPT ![f][k] = RemoveAt(@, n)]
        /\ UNCHANGED <<event, locals, byHandle, objects, inbox>>
    BY <1>2, <2>1 DEF Erase
  <2>4. buffered' = [buffered EXCEPT ![f][k] = RemoveAt(buffered[f][k], n)]
    BY <1>1, <2>3
  <2>5. EraseEntry(f, k, h, n)
    BY <2>2, <2>3, <2>4 DEF EraseEntry
  <2> QED BY <2>5
<1>3. CASE OfHandle(buffered[f][k], h) = {} /\ Of(f, k, h) = {}
  BY <1>3 DEF Erase, EraseNothing
<1>4. CASE OfHandle(buffered[f][k], h) = {} /\ Of(f, k, h) # {}
  <2>1. PICK n, l : n = First(Of(f, k, h)) /\ l = locals[f][k][n]
    OBVIOUS
  <2>2. /\ n \in DOMAIN locals[f][k] /\ locals[f][k][n].handle = h
        /\ \A j \in DOMAIN locals[f][k] : locals[f][k][j].handle = h => n <= j
    BY <1>1, <1>4, <2>1, LookUp DEF Of
  <2>3. n \in Of(f, k, h) /\ \A j \in Of(f, k, h) : n <= j
    BY <2>2 DEF Of, OfHandle
  <2>4. CASE mState[f] = "Online" /\ ~l.registered
    <3>1. UNCHANGED <<event, buffered, locals, byHandle, objects, inbox>>
      BY <1>4, <2>1, <2>4 DEF Erase
    <3> QED BY <1>4, <2>1, <2>3, <2>4, <3>1 DEF EraseNothing
  <2>5. CASE ~(mState[f] = "Online" /\ ~l.registered)
    <3>1. /\ locals' = [locals EXCEPT ![f][k] = RemoveAt(@, n)]
          /\ byHandle' = IF k = "source" THEN [byHandle EXCEPT ![f][h] = NoName] ELSE byHandle
          /\ objects' = IF mState[f] = "Online" THEN objects \ {[name |-> l.name, kind |-> k]}
                                                ELSE objects
          /\ Send(inbox, IF mState[f] = "Online"
                           THEN ToOthers(f, Removed([name |-> l.name, kind |-> k])) ELSE Nothing)
          /\ UNCHANGED buffered
      BY <1>4, <2>1, <2>5 DEF Erase
    <3>2. locals' = [locals EXCEPT ![f][k] = RemoveAt(locals[f][k], n)]
      BY <1>1, <3>1
    <3>3. l \in Local /\ l.name \in Names /\ [name |-> l.name, kind |-> k] \in Objects
      BY <2>1, <2>2, LocalTypes
    <3>4. EraseMember(f, k, h, n, l)
      BY <1>4, <2>1, <2>2, <2>5, <3>1, <3>2, <3>3 DEF EraseMember
    <3> QED BY <3>4
  <2> QED BY <2>4, <2>5
<1> QED BY <1>2, <1>3, <1>4

\* The registration that is taken back leaves the persistent ones.
UnregisterStep(f, k, h, p) ==
  /\ mState[f] \in UnregisterIn /\ (mState[f] = "Online" => phase[f] = "idle")
  /\ EarlyUnregister \/ Of(f, k, h) = {} \/ HandleExists(f, k, h)
  /\ p \in DOMAIN persistent[f][k] /\ persistent[f][k][p].handle = h
  /\ persistent' = [persistent EXCEPT ![f][k] = RemoveAt(persistent[f][k], p)]
  /\ \/ \E n : EraseEntry(f, k, h, n)
     \/ EraseNothing(f, k, h)
     \/ \E n, l : EraseMember(f, k, h, n, l)
  /\ UNCHANGED <<mState, phase, toTransmit, remote, callback, unsub, history, issued>>

\* An unregistration is such a step, ...
LEMMA UnregisterSteps ==
  ASSUME TypeOK, NEW f \in Federates, NEW k \in Kinds, NEW h \in Handles, Unregister(f, k, h)
  PROVE  \E p : UnregisterStep(f, k, h, p)
<1>1. persistent[f][k] \in Seq(Registration)
      /\ persistent \in [Federates -> [Kinds -> Seq(Registration)]]
  BY DEF TypeOK
<1>2. PICK p : p = First(OfHandle(persistent[f][k], h))
  OBVIOUS
<1>3. p \in DOMAIN persistent[f][k] /\ persistent[f][k][p].handle = h
  <2>1. OfHandle(persistent[f][k], h) # {}
    BY DEF Unregister
  <2> QED BY <1>1, <1>2, <2>1, LookUp
<1>4. persistent' = [persistent EXCEPT ![f][k] = RemoveAt(@, p)]
  BY <1>1, <1>2 DEF Unregister
<1>5. persistent' = [persistent EXCEPT ![f][k] = RemoveAt(persistent[f][k], p)]
  BY <1>1, <1>4
<1>6. \/ \E n : EraseEntry(f, k, h, n)
      \/ EraseNothing(f, k, h)
      \/ \E n, l : EraseMember(f, k, h, n, l)
  BY EraseSteps DEF Unregister
<1>7. UnregisterStep(f, k, h, p)
  BY <1>3, <1>5, <1>6 DEF Unregister, UnregisterStep
<1> QED BY <1>7

\* No federate has more names for fewer entries, registrations or departures.
LEMMA FewerEntries ==
  ASSUME TypeInv, NEW f \in Federates, NEW k \in Kinds, NEW b \in Seq(Registration),
         Len(b) <= Len(buffered[f][k]),
         buffered' = [buffered EXCEPT ![f][k] = b] \/ UNCHANGED buffered,
         UNCHANGED <<mState, phase, issued>>
  PROVE  NamesInv'
<1>0. buffered \in [Federates -> [Kinds -> Seq(Registration)]] /\ TypeOK
  BY DEF TypeInv, TypeOK
<1> SUFFICES ASSUME NEW g \in Federates
             PROVE  issued'[g].names + Entries(g)'
                      <= issued'[g].source + issued'[g].target + 2 * MaxHandles * Joins(g)'
  BY DEF NamesInv
<1>1. Joins(g)' = Joins(g) /\ issued' = issued
  BY DEF Joins, Joined
<1>2. issued[g].names + Entries(g)
        <= issued[g].source + issued[g].target + 2 * MaxHandles * Joins(g)
  BY DEF TypeInv, NamesInv
<1>3. Entries(g)' <= Entries(g) /\ Entries(g) \in Nat /\ Entries(g)' \in Nat
  <2>1. PICK a, c : a = Len(buffered[g]["source"]) /\ c = Len(buffered[g]["target"])
    OBVIOUS
  <2>2. PICK d, e : d = Len(buffered'[g]["source"]) /\ e = Len(buffered'[g]["target"])
    OBVIOUS
  <2>3. \A j \in Kinds : /\ Len(buffered'[g][j]) \in Nat /\ Len(buffered[g][j]) \in Nat
                         /\ Len(buffered'[g][j]) <= Len(buffered[g][j])
    <3> SUFFICES ASSUME NEW j \in Kinds
                 PROVE  /\ Len(buffered'[g][j]) \in Nat /\ Len(buffered[g][j]) \in Nat
                        /\ Len(buffered'[g][j]) <= Len(buffered[g][j])
      OBVIOUS
    <3>1. Len(buffered[g][j]) \in Nat /\ Len(b) \in Nat
      BY <1>0, LenProperties
    <3>2. buffered'[g][j] = buffered[g][j] \/ (g = f /\ j = k /\ buffered'[g][j] = b)
      BY <1>0
    <3> QED BY <3>1, <3>2
  <2>4. a \in Nat /\ c \in Nat /\ d \in Nat /\ e \in Nat /\ d <= a /\ e <= c
    BY <2>1, <2>2, <2>3, CounterTypes
  <2>5. d + e <= a + c /\ d + e \in Nat /\ a + c \in Nat
    BY <2>4
  <2> QED BY <2>1, <2>2, <2>5, Zenon DEF Entries
<1>4. PICK x, y, z, m : /\ x = issued[g].names /\ y = issued[g].source /\ z = issued[g].target
                        /\ m = 2 * MaxHandles * Joins(g)
  OBVIOUS
<1>5. x \in Nat /\ y \in Nat /\ z \in Nat /\ Joins(g) \in Nat
  BY <1>0, <1>4, CounterTypes, CounterValues
<1>6. m \in Nat
  BY <1>4, <1>5, Bounds
<1>7. PICK d, e : d = Entries(g)' /\ e = Entries(g)
  OBVIOUS
<1>8. x + d <= y + z + m
  <2>1. d \in Nat /\ e \in Nat /\ d <= e /\ x + e <= y + z + m
    BY <1>2, <1>3, <1>4, <1>7
  <2> QED BY <1>5, <1>6, <2>1
<1> QED BY <1>1, <1>4, <1>7, <1>8

\* ... which keeps the types.
LEMMA UnregisterTypes ==
  ASSUME TypeInv, NEW f \in Federates, NEW k \in Kinds, NEW h \in Handles, Unregister(f, k, h)
  PROVE  TypeInv'
<1>0. TypeOK /\ OwnTypes /\ EvokedTypes
  BY TypeParts DEF TypeInv
<1>1. PICK p : UnregisterStep(f, k, h, p)
  BY <1>0, UnregisterSteps
<1>2. /\ p \in DOMAIN persistent[f][k]
      /\ persistent' = [persistent EXCEPT ![f][k] = RemoveAt(persistent[f][k], p)]
      /\ UNCHANGED <<mState, phase, toTransmit, remote, callback, unsub, history, issued>>
      /\ persistent[f][k] \in Seq(Registration) /\ buffered[f][k] \in Seq(Registration)
      /\ locals[f][k] \in Seq(Local)
  BY <1>0, <1>1 DEF UnregisterStep, OwnTypes, EvokedTypes
<1>3. /\ RemoveAt(persistent[f][k], p) \in Seq(Registration)
      /\ Len(RemoveAt(persistent[f][k], p)) = Len(persistent[f][k]) - 1
  BY <1>2, RemoveAtFacts
<1>4. persistent' \in [Federates -> [Kinds -> Seq(Registration)]]
  BY <1>0, <1>2, <1>3 DEF OwnTypes
<1>5. PhaseInv'
  BY <1>2 DEF TypeInv, PhaseInv
<1>6. CountersInv'
  <2>1. ASSUME NEW g \in Federates, NEW j \in Kinds PROVE Len(persistent'[g][j]) <= issued'[g][j]
    <3>1. Len(persistent[g][j]) <= issued[g][j] /\ Len(persistent[g][j]) \in Nat
          /\ issued[g][j] \in Nat /\ issued'[g][j] = issued[g][j]
      BY <1>0, <1>2, CounterValues, CounterTypes DEF TypeInv, CountersInv
    <3>2. persistent'[g][j] = persistent[g][j]
          \/ (g = f /\ j = k /\ persistent'[g][j] = RemoveAt(persistent[f][k], p))
      BY <1>0, <1>2 DEF OwnTypes
    <3> QED BY <1>3, <3>1, <3>2
  <2> QED BY <1>2, <2>1 DEF TypeInv, CountersInv
<1>7. CASE \E n : EraseEntry(f, k, h, n)
  <2>1. PICK n : EraseEntry(f, k, h, n)
    BY <1>7
  <2>2. /\ n \in DOMAIN buffered[f][k]
        /\ buffered' = [buffered EXCEPT ![f][k] = RemoveAt(buffered[f][k], n)]
        /\ UNCHANGED <<event, locals, byHandle, objects, inbox>>
    BY <2>1 DEF EraseEntry
  <2>3. /\ RemoveAt(buffered[f][k], n) \in Seq(Registration)
        /\ Len(RemoveAt(buffered[f][k], n)) = Len(buffered[f][k]) - 1
    BY <1>2, <2>2, RemoveAtFacts
  <2>4. Len(RemoveAt(buffered[f][k], n)) <= Len(buffered[f][k])
    BY <1>2, <2>3, LenProperties
  <2>5. NamesInv'
    BY <1>2, <2>2, <2>3, <2>4, FewerEntries
  <2>6. OwnTypes'
    BY <1>0, <1>2, <1>4, <2>2, <2>3 DEF OwnTypes, history
  <2>7. EvokedTypes'
    BY <1>0, <1>2, <2>2 DEF EvokedTypes, history
  <2> QED BY <1>5, <1>6, <2>5, <2>6, <2>7, TypeParts, PTL DEF TypeInv
<1>8. CASE EraseNothing(f, k, h) \/ \E n, l : EraseMember(f, k, h, n, l)
  <2>1. UNCHANGED buffered
    BY <1>8 DEF EraseNothing, EraseMember
  <2>2. NamesInv'
    <3>1. Len(buffered[f][k]) <= Len(buffered[f][k])
      BY <1>2, LenProperties
    <3> QED BY <1>2, <2>1, <3>1, FewerEntries
  <2>3. OwnTypes'
    BY <1>0, <1>2, <1>4, <2>1 DEF OwnTypes, history
  <2>4. EvokedTypes'
    <3>1. CASE EraseNothing(f, k, h)
      BY <1>0, <1>2, <3>1 DEF EraseNothing, EvokedTypes, history
    <3>2. ASSUME NEW n, NEW l, EraseMember(f, k, h, n, l) PROVE EvokedTypes'
      <4>1. PICK obj : obj = [name |-> l.name, kind |-> k]
        OBVIOUS
      <4>2. /\ n \in DOMAIN locals[f][k] /\ obj \in Objects
            /\ locals' = [locals EXCEPT ![f][k] = RemoveAt(locals[f][k], n)]
            /\ byHandle' = IF k = "source" THEN [byHandle EXCEPT ![f][h] = NoName] ELSE byHandle
            /\ objects' \in SUBSET objects
            /\ Send(inbox, IF mState[f] = "Online" THEN ToOthers(f, Removed(obj)) ELSE Nothing)
        BY <3>2, <4>1 DEF EraseMember
      <4>3. RemoveAt(locals[f][k], n) \in Seq(Local)
        BY <1>2, <4>2, RemoveAtFacts
      <4>4. locals' \in [Federates -> [Kinds -> Seq(Local)]]
            /\ byHandle' \in [Federates -> [Handles -> Names \cup {NoName}]]
        BY <1>0, <4>2, <4>3 DEF EvokedTypes
      <4>5. objects' \subseteq Objects /\ IsFiniteSet(objects')
        BY <1>0, <4>2, FS_Subset DEF EvokedTypes
      <4>6. ToOthers(f, Removed(obj)) \in Queues /\ Nothing \in Queues
        BY <4>2, MessageTypes, Bounds, OutTypes
      <4>7. inbox' \in Queues /\ event' \in [Federates -> BOOLEAN]
        BY <1>0, <4>2, <4>6, SendTypes DEF EvokedTypes
      <4> QED BY <1>0, <1>2, <4>4, <4>5, <4>7 DEF EvokedTypes, history
    <3> QED BY <1>8, <3>1, <3>2
  <2> QED BY <1>5, <1>6, <2>2, <2>3, <2>4, TypeParts, PTL DEF TypeInv
<1> QED BY <1>1, <1>7, <1>8 DEF UnregisterStep

\* A registration with the next handle.
RegisterStep(f, k, r) ==
  /\ mState[f] \in RegisterIn /\ ~Processed(f, k)
  /\ r = [handle |-> issued[f][k] + 1, last |-> 0] /\ r \in Registration
  /\ issued[f][k] < MaxHandles
  /\ issued' = [issued EXCEPT ![f][k] = issued[f][k] + 1]
  /\ persistent' = [persistent EXCEPT ![f][k] = Append(persistent[f][k], r)]
  /\ buffered' = IF mState[f] \in {"Online", "InitFederate"}
                   THEN [buffered EXCEPT ![f][k] = Append(buffered[f][k], r)] ELSE buffered
  /\ UNCHANGED <<mState, phase, event, toTransmit, localVars, rtiVars, history>>

\* A registration is such a step, ...
LEMMA RegisterSteps ==
  ASSUME TypeOK, NEW f \in Federates, NEW k \in Kinds, Register(f, k)
  PROVE  \E r : RegisterStep(f, k, r)
<1>1. /\ persistent \in [Federates -> [Kinds -> Seq(Registration)]]
      /\ buffered \in [Federates -> [Kinds -> Seq(Registration)]]
      /\ issued \in [Federates -> [Counters -> Nat]] /\ k \in Counters /\ issued[f][k] \in Nat
  BY CounterTypes DEF TypeOK
<1>2. PICK r : r = [handle |-> issued[f][k] + 1, last |-> 0]
  OBVIOUS
<1>3. issued[f][k] + 1 \in Handles /\ issued[f][k] < MaxHandles
  BY <1>1, Bounds DEF Register, Handles
<1>4. r \in Registration
  BY <1>2, <1>3, Bounds DEF Registration
<1>5. /\ issued' = [issued EXCEPT ![f][k] = @ + 1]
      /\ persistent' = [persistent EXCEPT ![f][k] = Append(@, r)]
      /\ buffered' = IF mState[f] \in {"Online", "InitFederate"}
                       THEN [buffered EXCEPT ![f][k] = Append(@, r)] ELSE buffered
      /\ UNCHANGED <<mState, phase, event, toTransmit, localVars, rtiVars, history>>
      /\ mState[f] \in RegisterIn /\ ~Processed(f, k)
  BY <1>2 DEF Register
<1>6. issued' = [issued EXCEPT ![f][k] = issued[f][k] + 1]
  BY <1>1, <1>5
<1>7. persistent' = [persistent EXCEPT ![f][k] = Append(persistent[f][k], r)]
  BY <1>1, <1>5
<1>8. buffered' = IF mState[f] \in {"Online", "InitFederate"}
                    THEN [buffered EXCEPT ![f][k] = Append(buffered[f][k], r)] ELSE buffered
  BY <1>1, <1>5
<1>9. RegisterStep(f, k, r)
  BY <1>2, <1>3, <1>4, <1>5, <1>6, <1>7, <1>8 DEF RegisterStep
<1> QED BY <1>9

\* ... which keeps the types; the names that the new entry needs were accounted for.
LEMMA RegisterTypes ==
  ASSUME TypeInv, NEW f \in Federates, NEW k \in Kinds, Register(f, k)
  PROVE  TypeInv'
<1>0. TypeOK /\ OwnTypes /\ EvokedTypes
  BY TypeParts DEF TypeInv
<1>1. PICK r : RegisterStep(f, k, r)
  BY <1>0, RegisterSteps
<1>2. /\ r \in Registration /\ issued[f][k] < MaxHandles
      /\ issued' = [issued EXCEPT ![f][k] = issued[f][k] + 1]
      /\ persistent' = [persistent EXCEPT ![f][k] = Append(persistent[f][k], r)]
      /\ \/ buffered' = [buffered EXCEPT ![f][k] = Append(buffered[f][k], r)]
         \/ UNCHANGED buffered
      /\ UNCHANGED <<mState, phase, event, toTransmit, localVars, rtiVars, history>>
  BY <1>1 DEF RegisterStep
<1>3. /\ persistent[f][k] \in Seq(Registration) /\ buffered[f][k] \in Seq(Registration)
      /\ k \in Counters
      /\ \A g \in Federates : \A c \in Counters : issued[g][c] \in Nat
  BY <1>0, CounterTypes DEF OwnTypes
<1>4. /\ Append(persistent[f][k], r) \in Seq(Registration)
      /\ Len(Append(persistent[f][k], r)) = Len(persistent[f][k]) + 1
      /\ Append(buffered[f][k], r) \in Seq(Registration)
      /\ Len(Append(buffered[f][k], r)) = Len(buffered[f][k]) + 1
  BY <1>2, <1>3, AppendProperties
<1>5. /\ persistent' \in [Federates -> [Kinds -> Seq(Registration)]]
      /\ buffered' \in [Federates -> [Kinds -> Seq(Registration)]]
      /\ issued' \in [Federates -> [Counters -> Nat]]
  <2>1. /\ persistent \in [Federates -> [Kinds -> Seq(Registration)]]
        /\ buffered \in [Federates -> [Kinds -> Seq(Registration)]]
        /\ issued \in [Federates -> [Counters -> Nat]] /\ issued[f][k] + 1 \in Nat
    BY <1>0, <1>3 DEF OwnTypes
  <2>2. persistent' \in [Federates -> [Kinds -> Seq(Registration)]]
    BY <1>2, <1>4, <2>1, ExceptTypes
  <2>3. buffered' \in [Federates -> [Kinds -> Seq(Registration)]]
    <3>1. CASE buffered' = [buffered EXCEPT ![f][k] = Append(buffered[f][k], r)]
      BY <1>4, <2>1, <3>1, ExceptTypes
    <3>2. CASE UNCHANGED buffered
      BY <2>1, <3>2
    <3> QED BY <1>2, <3>1, <3>2
  <2>4. issued' \in [Federates -> [Counters -> Nat]]
    BY <1>2, <1>3, <2>1, ExceptTypes
  <2> QED BY <2>2, <2>3, <2>4
<1>6. OwnTypes'
  BY <1>0, <1>2, <1>5 DEF OwnTypes, history
<1>7. EvokedTypes'
  BY <1>0, <1>2 DEF EvokedTypes, history, localVars, rtiVars
<1>8. PhaseInv'
  BY <1>2 DEF TypeInv, PhaseInv
<1>9. \A g \in Federates, c \in Counters :
         issued'[g][c] = issued[g][c] + (IF g = f /\ c = k THEN 1 ELSE 0)
  BY <1>0, <1>2, <1>3 DEF OwnTypes
<1>10. CountersInv'
  <2>1. ASSUME NEW g \in Federates, NEW j \in Kinds
        PROVE  Len(persistent'[g][j]) <= issued'[g][j] /\ issued'[g][j] <= MaxHandles
    <3>1. Len(persistent[g][j]) <= issued[g][j] /\ Len(persistent[g][j]) \in Nat
          /\ issued[g][j] \in Nat /\ issued[g][j] <= MaxHandles /\ j \in Counters
      BY <1>0, CounterValues, CounterTypes DEF TypeInv, CountersInv
    <3>2. CASE g = f /\ j = k
      <4>1. persistent'[g][j] = Append(persistent[f][k], r)
        BY <1>0, <1>2, <3>2 DEF OwnTypes
      <4>2. issued'[g][j] = issued[f][k] + 1
        BY <1>0, <1>2, <1>3, <3>2 DEF OwnTypes
      <4>3. issued[f][k] < MaxHandles /\ MaxHandles \in Nat
        BY <1>2, Bounds
      <4> QED BY <1>4, <3>1, <3>2, <4>1, <4>2, <4>3
    <3>3. CASE ~(g = f /\ j = k)
      <4>1. persistent'[g][j] = persistent[g][j]
        BY <1>0, <1>2, <3>3 DEF OwnTypes
      <4>2. issued'[g][j] = issued[g][j]
        BY <1>0, <1>2, <1>3, <3>1, <3>3 DEF OwnTypes
      <4> QED BY <3>1, <4>1, <4>2
    <3> QED BY <3>2, <3>3
  <2>2. \A g \in Federates : /\ issued'[g]["leaves"] = issued[g]["leaves"]
                             /\ issued'[g]["values"] = issued[g]["values"]
    BY <1>3, <1>9, CounterTypes
  <2> QED BY <2>1, <2>2 DEF TypeInv, CountersInv
<1>11. NamesInv'
  <2> SUFFICES ASSUME NEW g \in Federates
               PROVE  issued'[g].names + Entries(g)'
                        <= issued'[g].source + issued'[g].target + 2 * MaxHandles * Joins(g)'
    BY DEF NamesInv
  <2>0. /\ issued'[g]["leaves"] = issued[g]["leaves"] /\ issued'[g]["names"] = issued[g]["names"]
    BY <1>3, <1>9, CounterTypes
  <2>1. Joins(g)' = Joins(g)
    BY <1>2, <2>0 DEF Joins, Joined
  <2>2. issued[g].names + Entries(g)
          <= issued[g].source + issued[g].target + 2 * MaxHandles * Joins(g)
    BY DEF TypeInv, NamesInv
  <2>3. CASE g # f
    <3>1. issued'[g] = issued[g] /\ buffered'[g] = buffered[g]
      BY <1>0, <1>2, <2>3 DEF OwnTypes
    <3>2. Entries(g)' = Entries(g)
      BY <3>1 DEF Entries
    <3> QED BY <2>1, <2>2, <3>1, <3>2
  <2>4. CASE g = f
    <3>1. PICK s, t, a, b, x, m : /\ s = issued[f]["source"] /\ t = issued[f]["target"]
                                  /\ a = Len(buffered[f]["source"])
                                  /\ b = Len(buffered[f]["target"])
                                  /\ x = issued[f].names /\ m = 2 * MaxHandles * Joins(f)
      OBVIOUS
    <3>2. /\ s \in Nat /\ t \in Nat /\ a \in Nat /\ b \in Nat /\ x \in Nat /\ Joins(f) \in Nat
      BY <1>0, <3>1, CounterTypes, CounterValues
    <3>3. m \in Nat
      BY <3>1, <3>2, Bounds
    <3>4. x + (a + b) <= s + t + m
      BY <2>2, <2>4, <3>1 DEF Entries
    <3>5. PICK d, e, s1, t1 : /\ d = Len(buffered'[f]["source"]) /\ e = Len(buffered'[f]["target"])
                              /\ s1 = issued'[f]["source"] /\ t1 = issued'[f]["target"]
      OBVIOUS
    <3>6. \/ (d = a \/ d = a + 1) /\ e = b /\ s1 = s + 1 /\ t1 = t
          \/ d = a /\ (e = b \/ e = b + 1) /\ s1 = s /\ t1 = t + 1
      <4>1. \A j \in Kinds : \/ buffered'[f][j] = buffered[f][j]
                             \/ j = k /\ Len(buffered'[f][j]) = Len(buffered[f][j]) + 1
        <5>1. buffered \in [Federates -> [Kinds -> Seq(Registration)]]
          BY <1>0 DEF OwnTypes
        <5>2. CASE UNCHANGED buffered
          <6>1. \A j \in Kinds : buffered'[f][j] = buffered[f][j]
            BY <5>2
          <6> QED BY <6>1
        <5>3. CASE buffered' = [buffered EXCEPT ![f][k] = Append(buffered[f][k], r)]
          <6>1. PICK q : q = Append(buffered[f][k], r)
            OBVIOUS
          <6>2. q \in Seq(Registration) /\ buffered' = [buffered EXCEPT ![f][k] = q]
            BY <1>4, <5>3, <6>1
          <6>3. \A j \in Kinds : buffered'[f][j] = IF j = k THEN q ELSE buffered[f][j]
            BY <5>1, <6>2, ExceptTypes
          <6> QED BY <1>4, <6>1, <6>3
        <5> QED BY <1>2, <5>2, <5>3
      <4>2. issued'[f][k] = issued[f][k] + 1 /\ \A j \in Kinds : j # k => issued'[f][j] = issued[f][j]
        BY <1>0, <1>2, <1>3, CounterTypes DEF OwnTypes
      <4>3. (k = "source" \/ k = "target") /\ "source" # "target"
        BY DEF Kinds
      <4>4. CASE k = "source"
        BY <3>1, <3>5, <4>1, <4>2, <4>3, <4>4, CounterTypes
      <4>5. CASE k = "target"
        BY <3>1, <3>5, <4>1, <4>2, <4>3, <4>5, CounterTypes
      <4> QED BY <4>3, <4>4, <4>5
    <3>7. x + (d + e) <= s1 + t1 + m
      BY <3>2, <3>3, <3>4, <3>6
    <3>8. Entries(f)' = d + e
      BY <3>5 DEF Entries
    <3> QED BY <2>0, <2>1, <2>4, <3>1, <3>5, <3>7, <3>8
  <2> QED BY <2>3, <2>4
<1> QED BY <1>6, <1>7, <1>8, <1>10, <1>11, TypeParts, PTL DEF TypeInv

\* A transmission gets the next number.
LEMMA TransmitDOMemberTypes ==
  ASSUME TypeInv, NEW f \in Federates, NEW h \in Handles, TransmitDOMember(f, h)
  PROVE  TypeInv'
<1>0. TypeOK /\ OwnTypes /\ EvokedTypes
  BY TypeParts DEF TypeInv
<1>1. issued \in [Federates -> [Counters -> Nat]] /\ issued[f].values \in Nat
      /\ issued[f].values < MaxValues /\ issued' = [issued EXCEPT ![f]["values"] = @ + 1]
  <2>1. issued \in [Federates -> [Counters -> Nat]] /\ issued[f].values \in Nat
    BY <1>0, CounterTypes DEF OwnTypes
  <2>2. issued[f].values < MaxValues /\ issued' = [issued EXCEPT ![f]["values"] = @ + 1]
    BY Zenon DEF TransmitDOMember
  <2> QED BY <2>1, <2>2
<1>2. issued'[f].values = issued[f].values + 1 /\ issued' \in [Federates -> [Counters -> Nat]]
  BY <1>1, CounterTypes
<1>3. PICK t : t = [handle |-> h, value |-> issued'[f].values]
  OBVIOUS
<1>4. issued'[f].values \in 1..MaxValues
  BY <1>1, <1>2, Bounds
<1>5. t \in Transmission
  BY <1>3, <1>4 DEF Transmission
<1>6. toTransmit' = [toTransmit EXCEPT ![f] = Append(@, t)]
      /\ event' = [event EXCEPT ![f] = @ \/ mState[f] = "Online"]
      /\ UNCHANGED <<mState, phase, persistent, buffered, localVars, rtiVars, history>>
  BY <1>3 DEF TransmitDOMember
<1>7. toTransmit' \in [Federates -> Seq(Transmission)]
  <2>1. toTransmit \in [Federates -> Seq(Transmission)]
    BY <1>0 DEF OwnTypes
  <2>2. Append(toTransmit[f], t) \in Seq(Transmission)
    BY <1>5, <2>1, AppendProperties
  <2> QED BY <1>6, <2>1, <2>2
<1>8. event' \in [Federates -> BOOLEAN]
  <2>1. (event[f] \/ mState[f] = "Online") \in BOOLEAN
    OBVIOUS
  <2> QED BY <1>0, <1>6, <2>1 DEF EvokedTypes
<1>9. OwnTypes'
  BY <1>0, <1>2, <1>6, <1>7 DEF OwnTypes, history
<1>10. EvokedTypes'
  BY <1>0, <1>6, <1>8 DEF EvokedTypes, history, localVars, rtiVars
<1>11. PhaseInv'
  BY <1>6 DEF TypeInv, PhaseInv
<1>12. \A g \in Federates, c \in Counters : c # "values" => issued'[g][c] = issued[g][c]
  BY <1>1
<1>13. CountersInv'
  <2>1. \A g \in Federates : issued'[g].values <= MaxValues
    <3>1. \A g \in Federates : issued[g].values <= MaxValues
      BY DEF TypeInv, CountersInv
    <3>2. \A g \in Federates : g # f => issued'[g] = issued[g]
      BY <1>1
    <3> QED BY <1>4, <3>1, <3>2
  <2> QED BY <1>6, <1>12, <2>1, CounterTypes DEF TypeInv, CountersInv
<1>14. NamesInv'
  <2>1. \A g \in Federates : /\ issued'[g].names = issued[g].names /\ issued'[g].leaves = issued[g].leaves
                             /\ issued'[g].source = issued[g].source
                             /\ issued'[g].target = issued[g].target
    BY <1>12, CounterTypes
  <2>2. \A g \in Federates : Entries(g)' = Entries(g) /\ Joins(g)' = Joins(g)
    BY <1>6, <2>1 DEF Entries, Joins, Joined
  <2> QED BY <2>1, <2>2 DEF TypeInv, NamesInv
<1> QED BY <1>9, <1>10, <1>11, <1>13, <1>14, TypeParts, PTL DEF TypeInv

\* A step of the poll thread that only goes on to another state.
LEMMA MoveTypes ==
  ASSUME TypeInv, UNCHANGED <<regVars, localVars, rtiVars, history, issued>>,
         mState' \in [Federates -> States], phase' \in [Federates -> Phases],
         event' \in [Federates -> BOOLEAN], PhaseInv',
         \A g \in Federates : Joined(g)' = Joined(g)
  PROVE  TypeInv'
<1>1. OwnTypes /\ EvokedTypes
  BY TypeParts DEF TypeInv
<1>2. OwnTypes'
  BY <1>1 DEF OwnTypes, regVars, history
<1>3. EvokedTypes'
  BY <1>1 DEF EvokedTypes, localVars, rtiVars, history
<1>4. CountersInv' /\ NamesInv'
  BY NamesKept DEF regVars
<1> QED BY <1>2, <1>3, <1>4, TypeParts, PTL DEF TypeInv

\* The poll thread joins, waits, is woken and comes to the end of ProcessBuffers.
LEMMA ThreadMoves ==
  ASSUME TypeInv, NEW f \in Federates,
         EnterInitFederate(f) \/ MeasurementStarts(f) \/ WaitForSingleEvent(f) \/ EndProcessBuffers(f)
  PROVE  TypeInv' /\ UNCHANGED <<regVars, localVars, rtiVars, history, issued>>
<1>0. /\ mState \in [Federates -> States] /\ phase \in [Federates -> Phases]
      /\ event \in [Federates -> BOOLEAN] /\ PhaseInv
  BY DEF TypeInv, TypeOK, Phases
<1>1. UNCHANGED <<regVars, localVars, rtiVars, history, issued>>
  BY DEF EnterInitFederate, MeasurementStarts, WaitForSingleEvent, EndProcessBuffers
<1>2. PICK st, ph, e :
        /\ mState' = [mState EXCEPT ![f] = st] /\ phase' = [phase EXCEPT ![f] = ph]
        /\ event' = [event EXCEPT ![f] = e] /\ e \in BOOLEAN
        /\ \/ mState[f] = "Offline" /\ st = "InitFederate" /\ ph = phase[f]
           \/ mState[f] = "WaitForMeasurementInit" /\ st = "Online" /\ ph = phase[f]
           \/ mState[f] = "Online" /\ st = "Online" /\ ph = "evoke"
           \/ phase[f] = "transmits" /\ ph = "idle" /\ st \in {"WaitForMeasurementInit", "Online"}
  <2>1. CASE EnterInitFederate(f)
    <3>1. /\ mState' = [mState EXCEPT ![f] = "InitFederate"] /\ phase' = [phase EXCEPT ![f] = phase[f]]
          /\ event' = [event EXCEPT ![f] = event[f]] /\ event[f] \in BOOLEAN /\ mState[f] = "Offline"
      BY <1>0, <2>1 DEF EnterInitFederate
    <3> QED BY <3>1
  <2>2. CASE MeasurementStarts(f)
    <3>1. /\ mState' = [mState EXCEPT ![f] = "Online"] /\ phase' = [phase EXCEPT ![f] = phase[f]]
          /\ event' = [event EXCEPT ![f] = TRUE] /\ mState[f] = "WaitForMeasurementInit"
      BY <1>0, <2>2 DEF MeasurementStarts
    <3> QED BY <3>1
  <2>3. CASE WaitForSingleEvent(f)
    <3>1. /\ mState' = [mState EXCEPT ![f] = "Online"] /\ phase' = [phase EXCEPT ![f] = "evoke"]
          /\ event' = [event EXCEPT ![f] = FALSE] /\ mState[f] = "Online"
      BY <1>0, <2>3 DEF WaitForSingleEvent
    <3> QED BY <3>1
  <2>4. CASE EndProcessBuffers(f)
    <3>1. PICK st : /\ st \in {"WaitForMeasurementInit", "Online"}
                    /\ mState' = [mState EXCEPT ![f] = st]
      BY <2>4 DEF EndProcessBuffers
    <3>2. PICK e \in BOOLEAN : event' = [event EXCEPT ![f] = e]
      BY <1>0, <2>4 DEF EndProcessBuffers
    <3>3. phase[f] = "transmits" /\ phase' = [phase EXCEPT ![f] = "idle"]
      BY <2>4 DEF EndProcessBuffers
    <3> QED BY <3>1, <3>2, <3>3
  <2> QED BY <2>1, <2>2, <2>3, <2>4
<1>3. st \in States /\ ph \in Phases
  BY <1>0, <1>2 DEF States, Phases
<1>4. /\ mState' \in [Federates -> States] /\ phase' \in [Federates -> Phases]
      /\ event' \in [Federates -> BOOLEAN]
  BY <1>0, <1>2, <1>3
<1>5. PhaseInv' /\ \A g \in Federates : Joined(g)' = Joined(g)
  BY <1>0, <1>2 DEF PhaseInv, Joined
<1> QED BY <1>1, <1>4, <1>5, MoveTypes

\* Callbacks are evoked while the federate waits and when it is woken.
LEMMA EvokingTypes ==
  ASSUME TypeInv, NEW f \in Federates, EvokeWhileWaiting(f) \/ EvokeCallbacks(f)
  PROVE  TypeInv'
<1>0. TypeOK /\ OwnTypes /\ EvokedTypes /\ IsFiniteSet(objects)
  BY TypeParts DEF TypeInv
<1>1. CASE evokeCallback(f) /\ UNCHANGED phase
  <2>1. EvokedTypes' /\ UNCHANGED <<mState, persistent, buffered, toTransmit, lastSent, issued>>
    BY <1>0, <1>1, EvokeTypes
  <2>2. OwnTypes'
    BY <1>0, <1>1, <2>1 DEF OwnTypes
  <2>3. PhaseInv'
    BY <1>1, <2>1 DEF TypeInv, PhaseInv
  <2>4. CountersInv' /\ NamesInv'
    BY <1>1, <2>1, NamesKept DEF Joined
  <2> QED BY <2>1, <2>2, <2>3, <2>4, TypeParts, PTL DEF TypeInv
<1>2. CASE /\ phase[f] = "evoke" /\ phase' = [phase EXCEPT ![f] = "targets"]
           /\ UNCHANGED <<mState, event, regVars, localVars, rtiVars, history, issued>>
  <2>1. phase' \in [Federates -> Phases] /\ mState' \in [Federates -> States]
        /\ event' \in [Federates -> BOOLEAN]
    BY <1>0, <1>2 DEF OwnTypes, EvokedTypes, Phases
  <2>2. PhaseInv' /\ \A g \in Federates : Joined(g)' = Joined(g)
    BY <1>0, <1>2 DEF TypeInv, PhaseInv, OwnTypes, Joined
  <2> QED BY <1>2, <2>1, <2>2, MoveTypes
<1> QED BY <1>1, <1>2 DEF EvokeWhileWaiting, EvokeCallbacks

\* The objects there are, announced to a federate that joins.
Announced(f, out) ==
  /\ out \in Queues /\ \A g \in Federates : g # f => out[g] = <<>>
  /\ \A i \in DOMAIN out[f] : \E o \in objects : out[f][i] = Discover(o)
  /\ \A o \in objects : \E i \in DOMAIN out[f] : out[f][i] = Discover(o)

\* A federate joins: all registrations are buffered.
JoinStep(f, out) ==
  /\ mState[f] = "InitFederate" /\ phase[f] = "idle"
  /\ Announced(f, out)
  /\ \A k \in Kinds : buffered'[f][k] = buffered[f][k] \o persistent[f][k]
  /\ \A g \in Federates : g # f => buffered'[g] = buffered[g]
  /\ buffered' \in [Federates -> [Kinds -> Seq(Registration)]]
  /\ Send(inbox, out)
  /\ phase' = [phase EXCEPT ![f] = "targets"]
  /\ UNCHANGED <<mState, persistent, toTransmit, localVars, objects, unsub, history, issued>>

\* OnJoined is such a step.
LEMMA JoinSteps ==
  ASSUME TypeOK, IsFiniteSet(objects), NEW f \in Federates, OnJoined(f)
  PROVE  \E out : JoinStep(f, out)
<1>1. PICK s : s = SetToSeq(objects)
  OBVIOUS
<1>2. /\ s \in Seq(objects) /\ s \in [1..Cardinality(objects) -> objects]
      /\ \A o \in objects : \E i \in DOMAIN s : s[i] = o
  BY <1>1, SetToSeqFacts
<1>3. PICK q : q = [i \in DOMAIN s |-> Discover(s[i])]
  OBVIOUS
<1>4. q \in Seq(Message)
  <2>1. DOMAIN s = 1..Len(s) /\ Len(s) \in Nat
    BY <1>2, LenProperties
  <2>2. \A i \in DOMAIN s : Discover(s[i]) \in Message
    BY <1>2, Bounds, MessageTypes DEF TypeOK
  <2> QED BY <1>3, <2>1, <2>2
<1>5. PICK out : out = [Nothing EXCEPT ![f] = q]
  OBVIOUS
<1>6. /\ out[f] = q /\ \A g \in Federates : g # f => out[g] = <<>>
      /\ out \in Queues
  <2>1. Nothing = [g \in Federates |-> <<>>] /\ <<>> \in Seq(Message)
    BY DEF Nothing
  <2>2. out[f] = q /\ \A g \in Federates : g # f => out[g] = <<>>
    BY <1>5, <2>1
  <2>3. out \in [Federates -> Seq(Message)]
    BY <1>4, <1>5, <2>1
  <2> QED BY <2>2, <2>3 DEF Queues
<1>7. Announced(f, out)
  <2>1. DOMAIN q = DOMAIN s /\ \A i \in DOMAIN s : q[i] = Discover(s[i]) /\ s[i] \in objects
    BY <1>2, <1>3
  <2> QED BY <1>2, <1>6, <2>1 DEF Announced
<1>8. /\ buffered' = [buffered EXCEPT ![f] = [k \in Kinds |-> @[k] \o persistent[f][k]]]
      /\ Send(inbox, out)
  BY <1>1, <1>3, <1>5 DEF OnJoined
<1>9. /\ \A k \in Kinds : buffered'[f][k] = buffered[f][k] \o persistent[f][k]
      /\ \A g \in Federates : g # f => buffered'[g] = buffered[g]
      /\ buffered' \in [Federates -> [Kinds -> Seq(Registration)]]
  <2>1. /\ buffered \in [Federates -> [Kinds -> Seq(Registration)]]
        /\ persistent \in [Federates -> [Kinds -> Seq(Registration)]]
    BY DEF TypeOK
  <2>2. PICK b : b = [k \in Kinds |-> buffered[f][k] \o persistent[f][k]]
    OBVIOUS
  <2>3. b \in [Kinds -> Seq(Registration)]
    BY <2>1, <2>2, ConcatProperties
  <2>4. buffered' = [buffered EXCEPT ![f] = b]
    BY <1>8, <2>1, <2>2
  <2> QED BY <2>1, <2>2, <2>3, <2>4
<1>10. JoinStep(f, out)
  BY <1>7, <1>8, <1>9 DEF OnJoined, JoinStep
<1> QED BY <1>10

\* Joining needs one more name for every registration.
LEMMA JoinTypes ==
  ASSUME TypeInv, NEW f \in Federates, OnJoined(f)
  PROVE  TypeInv'
<1>0. TypeOK /\ OwnTypes /\ EvokedTypes /\ IsFiniteSet(objects)
  BY TypeParts DEF TypeInv
<1>1. PICK out : JoinStep(f, out)
  BY <1>0, JoinSteps
<1>2. /\ mState[f] = "InitFederate" /\ phase[f] = "idle" /\ out \in Queues
      /\ \A k \in Kinds : buffered'[f][k] = buffered[f][k] \o persistent[f][k]
      /\ \A g \in Federates : g # f => buffered'[g] = buffered[g]
      /\ buffered' \in [Federates -> [Kinds -> Seq(Registration)]]
      /\ Send(inbox, out) /\ phase' = [phase EXCEPT ![f] = "targets"]
      /\ UNCHANGED <<mState, persistent, toTransmit, localVars, objects, unsub, history, issued>>
  BY <1>1 DEF JoinStep, Announced
<1>3. inbox' \in Queues /\ event' \in [Federates -> BOOLEAN]
  BY <1>0, <1>2, SendTypes DEF EvokedTypes
<1>4. OwnTypes'
  BY <1>0, <1>2 DEF OwnTypes, Phases, history
<1>5. EvokedTypes'
  BY <1>0, <1>2, <1>3 DEF EvokedTypes, localVars, history
<1>6. PhaseInv'
  BY <1>0, <1>2 DEF TypeInv, PhaseInv, OwnTypes
<1>7. CountersInv'
  BY <1>2 DEF TypeInv, CountersInv
<1>8. NamesInv'
  <2> SUFFICES ASSUME NEW g \in Federates
               PROVE  issued'[g].names + Entries(g)'
                        <= issued'[g].source + issued'[g].target + 2 * MaxHandles * Joins(g)'
    BY DEF NamesInv
  <2>1. issued[g].names + Entries(g)
          <= issued[g].source + issued[g].target + 2 * MaxHandles * Joins(g)
    BY DEF TypeInv, NamesInv
  <2>2. CASE g # f
    <3>1. phase'[g] = phase[g] /\ buffered'[g] = buffered[g] /\ issued' = issued /\ mState' = mState
      BY <1>0, <1>2, <2>2 DEF OwnTypes
    <3>2. Entries(g)' = Entries(g) /\ Joins(g)' = Joins(g)
      BY <3>1 DEF Entries, Joins, Joined
    <3> QED BY <2>1, <3>1, <3>2
  <2>3. CASE g = f
    <3>1. phase'[f] = "targets"
      BY <1>0, <1>2 DEF OwnTypes
    <3>2. ~Joined(f) /\ Joined(f)'
      BY <1>2, <3>1 DEF Joined
    <3>3. PICK x, y, j, n : /\ x = issued[f].names /\ y = issued[f].source + issued[f].target
                            /\ j = Joins(f) /\ n = 2 * MaxHandles
      OBVIOUS
    <3>4. x \in Nat /\ y \in Nat /\ j \in Nat /\ n \in Nat
      BY <1>0, <3>3, Bounds, CounterTypes, CounterValues
    <3>5. Joins(f)' = j + 1
      <4>1. Joins(f) = issued[f].leaves + 0 /\ Joins(f)' = issued[f].leaves + 1
        BY <1>2, <3>2 DEF Joins
      <4>2. issued[f].leaves \in Nat
        BY <1>0, CounterTypes, CounterValues
      <4> QED BY <3>3, <4>1, <4>2
    <3>6. PICK a, b, c, d : /\ a = Len(buffered[f]["source"]) /\ b = Len(buffered[f]["target"])
                            /\ c = Len(persistent[f]["source"]) /\ d = Len(persistent[f]["target"])
      OBVIOUS
    <3>7. a \in Nat /\ b \in Nat /\ c \in Nat /\ d \in Nat
      BY <1>0, <3>6, CounterTypes, CounterValues
    <3>8. Entries(f) = a + b /\ Entries(f)' = (a + c) + (b + d)
      <4>1. ASSUME NEW k \in Kinds
            PROVE  Len(buffered'[f][k]) = Len(buffered[f][k]) + Len(persistent[f][k])
        <5>1. buffered[f][k] \in Seq(Registration) /\ persistent[f][k] \in Seq(Registration)
          BY <1>0, CounterValues
        <5>2. Len(buffered[f][k] \o persistent[f][k]) = Len(buffered[f][k]) + Len(persistent[f][k])
          BY <5>1, ConcatProperties
        <5> QED BY <1>2, <5>2
      <4> QED BY <3>6, <4>1, CounterTypes DEF Entries
    <3>9. c <= MaxHandles /\ d <= MaxHandles /\ MaxHandles \in Nat
      <4>1. \A k \in Kinds : /\ Len(persistent[f][k]) <= issued[f][k] /\ issued[f][k] <= MaxHandles
                             /\ Len(persistent[f][k]) \in Nat /\ issued[f][k] \in Nat
        BY <1>0, CounterTypes, CounterValues DEF TypeInv, CountersInv
      <4> QED BY <3>6, <4>1, Bounds, CounterTypes
    <3>10. n * j \in Nat /\ n * (j + 1) = n * j + n
      BY <3>4, Multiples
    <3>11. PICK m : m = n * j
      OBVIOUS
    <3>12. x + ((a + c) + (b + d)) <= y + (m + n)
      <4>1. x + (a + b) <= y + m
        BY <2>1, <2>3, <3>3, <3>8, <3>11
      <4>2. c + d <= n
        BY <3>3, <3>7, <3>9
      <4> QED BY <3>4, <3>7, <3>10, <3>11, <4>1, <4>2
    <3> QED BY <1>2, <2>3, <3>3, <3>5, <3>8, <3>10, <3>11, <3>12
  <2> QED BY <2>2, <2>3
<1> QED BY <1>4, <1>5, <1>6, <1>7, <1>8, TypeParts, PTL DEF TypeInv

\* The persistent sources of a federate that leaves: each keeps its handle, and takes the
\* last data of the source of its handle, if there is any.
LEMMA KeptFacts ==
  ASSUME TypeOK, NEW f \in Federates
  PROVE  /\ KeepLastData(f) \in Seq(Registration)
         /\ Len(KeepLastData(f)) = Len(persistent[f]["source"])
         /\ \A i \in DOMAIN persistent[f]["source"] :
              /\ KeepLastData(f)[i].handle = persistent[f]["source"][i].handle
              /\ \/ /\ KeepLastData(f)[i] = persistent[f]["source"][i]
                    /\ \A j \in DOMAIN locals[f]["source"] :
                         locals[f]["source"][j].name = byHandle[f][persistent[f]["source"][i].handle]
                         => locals[f]["source"][j].last = 0
                 \/ \E j \in DOMAIN locals[f]["source"] :
                      /\ locals[f]["source"][j].name = byHandle[f][persistent[f]["source"][i].handle]
                      /\ KeepLastData(f)[i].last = locals[f]["source"][j].last
<1>1. /\ persistent[f]["source"] \in Seq(Registration) /\ locals[f]["source"] \in Seq(Local)
  BY CounterTypes DEF TypeOK
<1>2. PICK s, p : s = persistent[f]["source"] /\ p = locals[f]["source"]
  OBVIOUS
<1>3. /\ DOMAIN s = 1..Len(s) /\ Len(s) \in Nat /\ \A i \in DOMAIN s : s[i] \in Registration
      /\ DOMAIN p = 1..Len(p) /\ \A i \in DOMAIN p : p[i] \in Local
  BY <1>1, <1>2, LenProperties, ElementOfSeq
<1>4. PICK q : q = KeepLastData(f)
  OBVIOUS
<1>5. DOMAIN q = DOMAIN s
  BY <1>2, <1>4 DEF KeepLastData
<1>6. ASSUME NEW i \in DOMAIN s
      PROVE  /\ q[i] \in Registration /\ q[i].handle = s[i].handle
             /\ \/ q[i] = s[i] /\ \A j \in DOMAIN p : p[j].name = byHandle[f][s[i].handle] => p[j].last = 0
                \/ \E j \in DOMAIN p : p[j].name = byHandle[f][s[i].handle] /\ q[i].last = p[j].last
  <2>1. PICK kept : kept = {l \in Range(p) : l.name = byHandle[f][s[i].handle] /\ l.last # 0}
    OBVIOUS
  <2>2. q[i] = IF kept = {} THEN s[i] ELSE [s[i] EXCEPT !.last = (CHOOSE l \in kept : TRUE).last]
    BY <1>2, <1>4, <2>1 DEF KeepLastData
  <2>3. Range(p) = {p[j] : j \in DOMAIN p}
    BY DEF Range
  <2>4. CASE kept = {}
    BY <1>3, <2>1, <2>2, <2>3, <2>4
  <2>5. CASE kept # {}
    <3>1. PICK l : l = CHOOSE x \in kept : TRUE
      OBVIOUS
    <3>2. l \in kept
      BY <2>5, <3>1
    <3>3. PICK j \in DOMAIN p : l = p[j] /\ l.name = byHandle[f][s[i].handle]
      BY <2>1, <2>3, <3>2
    <3>4. q[i] = [s[i] EXCEPT !.last = l.last] /\ l.last \in 0..MaxValues /\ s[i] \in Registration
      BY <1>3, <2>2, <2>5, <3>1, <3>3 DEF Local
    <3>5. q[i] \in Registration /\ q[i].handle = s[i].handle /\ q[i].last = l.last
      BY <3>4 DEF Registration
    <3> QED BY <3>3, <3>5
  <2> QED BY <2>4, <2>5
<1>7. q \in Seq(Registration) /\ Len(q) = Len(s)
  <2>1. q = [i \in 1..Len(s) |-> q[i]]
    BY <1>2, <1>3, <1>4 DEF KeepLastData
  <2>2. \A i \in 1..Len(s) : q[i] \in Registration
    BY <1>3, <1>6
  <2> QED BY <1>3, <2>1, <2>2
<1> QED BY <1>2, <1>4, <1>6, <1>7

\* What the others are told of the objects of a federate that leaves.
Withdrawn(f, out) ==
  /\ out \in Queues
  /\ \A g \in Federates : g \notin Others(f) => out[g] = <<>>
  /\ \A g \in Federates : \A i \in DOMAIN out[g] :
       \E o \in objects : Owner(o) = f /\ out[g][i] = Removed(o)
  /\ \A g \in Others(f) : \A o \in objects :
       Owner(o) = f => \E i \in DOMAIN out[g] : out[g][i] = Removed(o)

\* A federate leaves.
ResetStep(f, out) ==
  /\ mState[f] \in {"WaitForMeasurementInit", "Online"} /\ phase[f] = "idle"
  /\ issued[f]["leaves"] < MaxLeaves
  /\ issued' = [issued EXCEPT ![f]["leaves"] = issued[f]["leaves"] + 1]
  /\ mState' = [mState EXCEPT ![f] = "Offline"]
  /\ persistent' = [persistent EXCEPT ![f]["source"] = KeepLastData(f)]
  /\ buffered' = [buffered EXCEPT ![f] = [k \in Kinds |-> <<>>]]
  /\ toTransmit' = [toTransmit EXCEPT ![f] = <<>>]
  /\ locals' = [locals EXCEPT ![f] = [k \in Kinds |-> <<>>]]
  /\ byHandle' = [byHandle EXCEPT ![f] = [h \in Handles |-> NoName]]
  /\ remote' = [remote EXCEPT ![f] = {}]
  /\ callback' = [callback EXCEPT ![f] = 0]
  /\ got' = [got EXCEPT ![f] = NoValues]
  /\ objects' = {o \in objects : Owner(o) # f}
  /\ Withdrawn(f, out) /\ Send([inbox EXCEPT ![f] = <<>>], out)
  /\ unsub' = [unsub EXCEPT ![f] = {}]
  /\ UNCHANGED <<phase, written, lastSent>>

\* Reset is such a step.
LEMMA ResetSteps ==
  ASSUME TypeOK, IsFiniteSet(objects), NEW f \in Federates, Reset(f)
  PROVE  \E out : ResetStep(f, out)
<1>1. PICK s : s = SetToSeq({o \in objects : Owner(o) = f})
  OBVIOUS
<1>2. PICK mine : mine = {o \in objects : Owner(o) = f}
  OBVIOUS
<1>3. mine \subseteq objects /\ IsFiniteSet(mine) /\ s = SetToSeq(mine)
  BY <1>1, <1>2, FS_Subset
<1>4. /\ s \in Seq(mine) /\ s \in [1..Cardinality(mine) -> mine]
      /\ \A o \in mine : \E i \in DOMAIN s : s[i] = o
  BY <1>3, SetToSeqFacts
<1>5. PICK q : q = [i \in DOMAIN s |-> Removed(s[i])]
  OBVIOUS
<1>6. q \in Seq(Message) /\ DOMAIN q = DOMAIN s /\ \A i \in DOMAIN s : q[i] = Removed(s[i]) /\ s[i] \in mine
  <2>1. DOMAIN s = 1..Len(s) /\ Len(s) \in Nat
    BY <1>4, LenProperties
  <2>2. \A i \in DOMAIN s : s[i] \in mine /\ s[i] \in Objects
    BY <1>3, <1>4 DEF TypeOK
  <2>3. \A i \in DOMAIN s : Removed(s[i]) \in Message
    BY <2>2, Bounds, MessageTypes
  <2>4. q \in Seq(Message)
    BY <1>5, <2>1, <2>3
  <2> QED BY <1>5, <2>2, <2>4
<1>7. PICK out : out = [g \in Federates |-> IF g \in Others(f) THEN q ELSE <<>>]
  OBVIOUS
<1>8. Withdrawn(f, out)
  <2>1. out \in Queues
    <3>1. <<>> \in Seq(Message)
      OBVIOUS
    <3> QED BY <1>6, <1>7, <3>1 DEF Queues
  <2>2. \A g \in Federates : g \notin Others(f) => out[g] = <<>>
    BY <1>7
  <2>3. \A g \in Others(f) : g \in Federates /\ out[g] = q
    BY <1>7 DEF Others
  <2>4. ASSUME NEW g \in Federates, NEW i \in DOMAIN out[g]
        PROVE  \E o \in objects : Owner(o) = f /\ out[g][i] = Removed(o)
    <3>1. CASE g \in Others(f)
      BY <1>2, <1>6, <2>3, <2>4, <3>1
    <3>2. CASE g \notin Others(f)
      BY <2>2, <2>4, <3>2
    <3> QED BY <3>1, <3>2
  <2>5. ASSUME NEW g \in Others(f), NEW o \in objects, Owner(o) = f
        PROVE  \E i \in DOMAIN out[g] : out[g][i] = Removed(o)
    <3>1. o \in mine /\ out[g] = q
      BY <1>2, <2>3, <2>5
    <3>2. PICK i \in DOMAIN s : s[i] = o
      BY <1>4, <3>1
    <3> QED BY <1>6, <3>1, <3>2
  <2> QED BY <2>1, <2>2, <2>4, <2>5 DEF Withdrawn
<1>9. /\ objects' = {o \in objects : Owner(o) # f}
      /\ Send([inbox EXCEPT ![f] = <<>>], out)
  BY <1>1, <1>5, <1>7 DEF Reset
<1>10. /\ issued \in [Federates -> [Counters -> Nat]]
       /\ persistent \in [Federates -> [Kinds -> Seq(Registration)]]
       /\ "source" \in Kinds /\ "leaves" \in Counters
  BY CounterTypes DEF TypeOK
<1>11. issued' = [issued EXCEPT ![f]["leaves"] = issued[f]["leaves"] + 1]
       /\ issued[f]["leaves"] < MaxLeaves
  <2>1. issued' = [issued EXCEPT ![f]["leaves"] = @ + 1] /\ issued[f]["leaves"] < MaxLeaves
    BY DEF Reset
  <2> QED BY <1>10, <2>1
<1>12. ResetStep(f, out)
  BY <1>8, <1>9, <1>11 DEF Reset, ResetStep
<1> QED BY <1>12

\* Leaving forgets everything but the registrations.
LEMMA ResetTypes ==
  ASSUME TypeInv, NEW f \in Federates, Reset(f)
  PROVE  TypeInv'
<1>0. TypeOK /\ OwnTypes /\ EvokedTypes /\ IsFiniteSet(objects) /\ PhaseInv
  BY TypeParts DEF TypeInv
<1>1. PICK out : ResetStep(f, out)
  BY <1>0, ResetSteps
<1>2. /\ persistent \in [Federates -> [Kinds -> Seq(Registration)]]
      /\ issued \in [Federates -> [Counters -> Nat]] /\ issued[f]["leaves"] \in Nat
      /\ "source" \in Kinds /\ "leaves" \in Counters
      /\ KeepLastData(f) \in Seq(Registration)
      /\ Len(KeepLastData(f)) = Len(persistent[f]["source"])
  BY <1>0, CounterTypes, KeptFacts DEF OwnTypes
<1>3. persistent' \in [Federates -> [Kinds -> Seq(Registration)]]
      /\ \A g \in Federates, k \in Kinds : Len(persistent'[g][k]) = Len(persistent[g][k])
  <2>1. persistent' = [persistent EXCEPT ![f]["source"] = KeepLastData(f)]
    BY <1>1 DEF ResetStep
  <2>2. PICK q : q = KeepLastData(f)
    OBVIOUS
  <2>3. /\ persistent' \in [Federates -> [Kinds -> Seq(Registration)]]
        /\ \A g \in Federates, k \in Kinds :
             persistent'[g][k] = IF g = f /\ k = "source" THEN q ELSE persistent[g][k]
    BY <1>2, <2>1, <2>2, ExceptTypes
  <2> QED BY <1>2, <2>2, <2>3
<1>4. issued' \in [Federates -> [Counters -> Nat]]
      /\ \A g \in Federates, c \in Counters :
           issued'[g][c] = IF g = f /\ c = "leaves" THEN issued[f]["leaves"] + 1 ELSE issued[g][c]
  <2>1. issued' = [issued EXCEPT ![f]["leaves"] = issued[f]["leaves"] + 1]
    BY <1>1 DEF ResetStep
  <2>2. PICK n : n = issued[f]["leaves"] + 1
    OBVIOUS
  <2>3. n \in Nat
    BY <1>2, <2>2
  <2> QED BY <1>2, <2>1, <2>2, <2>3, ExceptTypes
<1>5. [k \in Kinds |-> <<>>] \in [Kinds -> Seq(Registration)]
      /\ [k \in Kinds |-> <<>>] \in [Kinds -> Seq(Local)]
      /\ <<>> \in Seq(Transmission) /\ <<>> \in Seq(Message)
      /\ [h \in Handles |-> NoName] \in [Handles -> Names \cup {NoName}]
      /\ NoValues \in [Names -> 0..MaxValues] /\ 0 \in 0..MaxHandles /\ "Offline" \in States
  BY Bounds DEF NoValues, States
<1>6. PICK none, noNames : none = [k \in Kinds |-> <<>>] /\ noNames = [h \in Handles |-> NoName]
  OBVIOUS
<1>7. OwnTypes'
  <2>1. /\ mState' = [mState EXCEPT ![f] = "Offline"] /\ buffered' = [buffered EXCEPT ![f] = none]
        /\ toTransmit' = [toTransmit EXCEPT ![f] = <<>>] /\ UNCHANGED <<phase, lastSent>>
    BY <1>1, <1>6 DEF ResetStep
  <2> QED BY <1>0, <1>3, <1>4, <1>5, <1>6, <2>1 DEF OwnTypes
<1>8. inbox' \in Queues /\ event' \in [Federates -> BOOLEAN]
  <2>1. [inbox EXCEPT ![f] = <<>>] \in Queues
    BY <1>0, <1>5 DEF EvokedTypes, Queues
  <2>2. out \in Queues /\ Send([inbox EXCEPT ![f] = <<>>], out)
    BY <1>1 DEF ResetStep, Withdrawn
  <2> QED BY <1>0, <2>1, <2>2, SendTypes DEF EvokedTypes
<1>9. EvokedTypes'
  <2>1. /\ locals' = [locals EXCEPT ![f] = none] /\ byHandle' = [byHandle EXCEPT ![f] = noNames]
        /\ remote' = [remote EXCEPT ![f] = {}] /\ callback' = [callback EXCEPT ![f] = 0]
        /\ got' = [got EXCEPT ![f] = NoValues] /\ objects' \subseteq objects
        /\ unsub' = [unsub EXCEPT ![f] = {}] /\ written' = written
    BY <1>1, <1>6 DEF ResetStep
  <2>2. objects' \subseteq Objects /\ IsFiniteSet(objects')
    BY <1>0, <2>1, FS_Subset DEF EvokedTypes
  <2>3. /\ locals' \in [Federates -> [Kinds -> Seq(Local)]]
        /\ byHandle' \in [Federates -> [Handles -> Names \cup {NoName}]]
    BY <1>0, <1>5, <1>6, <2>1 DEF EvokedTypes
  <2>4. /\ remote' \in [Federates -> SUBSET Objects] /\ unsub' \in [Federates -> SUBSET Objects]
        /\ callback' \in [Federates -> 0..MaxHandles]
        /\ got' \in [Federates -> [Names -> 0..MaxValues]]
    BY <1>0, <1>5, <2>1 DEF EvokedTypes
  <2> QED BY <1>0, <1>8, <2>1, <2>2, <2>3, <2>4 DEF EvokedTypes
<1>10. /\ mState[f] \in {"WaitForMeasurementInit", "Online"} /\ phase[f] = "idle" /\ phase' = phase
       /\ mState' = [mState EXCEPT ![f] = "Offline"] /\ issued[f]["leaves"] < MaxLeaves
       /\ buffered' = [buffered EXCEPT ![f] = none]
  BY <1>1, <1>6 DEF ResetStep
<1>11. PhaseInv'
  BY <1>0, <1>10 DEF PhaseInv, OwnTypes
<1>12. CountersInv'
  <2>1. \A g \in Federates : issued'[g]["leaves"] <= MaxLeaves
    <3>1. \A g \in Federates : issued[g]["leaves"] <= MaxLeaves
      BY DEF TypeInv, CountersInv
    <3>2. issued[f]["leaves"] < MaxLeaves /\ issued[f]["leaves"] + 1 <= MaxLeaves
      BY <1>2, <1>10, Bounds
    <3>3. \A g \in Federates : issued'[g]["leaves"] = IF g = f THEN issued[f]["leaves"] + 1
                                                               ELSE issued[g]["leaves"]
      BY <1>2, <1>4
    <3> QED BY <3>1, <3>2, <3>3
  <2>2. \A g \in Federates, c \in Counters : c # "leaves" => issued'[g][c] = issued[g][c]
    BY <1>4
  <2> QED BY <1>3, <2>1, <2>2, CounterTypes DEF TypeInv, CountersInv
<1>13. NamesInv'
  <2> SUFFICES ASSUME NEW g \in Federates
               PROVE  issued'[g].names + Entries(g)'
                        <= issued'[g].source + issued'[g].target + 2 * MaxHandles * Joins(g)'
    BY DEF NamesInv
  <2>1. issued[g].names + Entries(g)
          <= issued[g].source + issued[g].target + 2 * MaxHandles * Joins(g)
    BY DEF TypeInv, NamesInv
  <2>2. /\ issued'[g].names = issued[g].names /\ issued'[g].source = issued[g].source
        /\ issued'[g].target = issued[g].target
    BY <1>4, CounterTypes
  <2>3. CASE g # f
    <3>1. /\ buffered'[g] = buffered[g] /\ issued'[g].leaves = issued[g].leaves
          /\ mState'[g] = mState[g] /\ phase'[g] = phase[g]
      BY <1>0, <1>2, <1>4, <1>10, <2>3 DEF OwnTypes
    <3>2. Entries(g)' = Entries(g) /\ Joins(g)' = Joins(g)
      BY <3>1 DEF Entries, Joins, Joined
    <3> QED BY <2>1, <2>2, <3>2
  <2>4. CASE g = f
    <3>1. Joins(f)' = Joins(f)
      <4>1. Joined(f) /\ ~Joined(f)'
        BY <1>0, <1>10 DEF Joined, OwnTypes
      <4>2. issued'[f].leaves = issued[f].leaves + 1
        BY <1>2, <1>4
      <4> QED BY <1>2, <4>1, <4>2 DEF Joins
    <3>2. Entries(f)' = 0
      <4>1. buffered'[f] = none
        BY <1>0, <1>10 DEF OwnTypes
      <4>2. Len(buffered'[f]["source"]) = 0 /\ Len(buffered'[f]["target"]) = 0
        BY <1>6, <4>1, CounterTypes
      <4> QED BY <4>2 DEF Entries
    <3>3. Entries(f) \in Nat /\ issued[f].names \in Nat
      BY <1>0, CounterTypes, CounterValues
    <3>4. PICK x, e, y : /\ x = issued[f].names /\ e = Entries(f)
                         /\ y = issued[f].source + issued[f].target + 2 * MaxHandles * Joins(f)
      OBVIOUS
    <3>5. y \in Nat
      <4>1. issued[f].source \in Nat /\ issued[f].target \in Nat /\ Joins(f) \in Nat
        BY <1>0, CounterTypes, CounterValues
      <4> QED BY <3>4, <4>1, Bounds
    <3>6. x + 0 <= y
      BY <2>1, <2>4, <3>3, <3>4, <3>5
    <3> QED BY <2>2, <2>4, <3>1, <3>2, <3>4, <3>6
  <2> QED BY <2>3, <2>4
<1> QED BY <1>7, <1>9, <1>11, <1>12, <1>13, TypeParts, PTL DEF TypeInv

-----------------------------------------------------------------------------
(* HandlesKnown, and with it the types.                                         *)

\* The entries that are left when one is erased are the others.
LEMMA RemoveAtEntries ==
  ASSUME NEW S, NEW s \in Seq(S), NEW n \in DOMAIN s, NEW q, q = RemoveAt(s, n)
  PROVE  /\ \A i \in DOMAIN q : \E j \in DOMAIN s : j # n /\ q[i] = s[j]
         /\ \A i, j \in DOMAIN q : i # j =>
              \E a, b \in DOMAIN s : a # b /\ a # n /\ b # n /\ q[i] = s[a] /\ q[j] = s[b]
         /\ \A j \in DOMAIN s : j # n => \E i \in DOMAIN q : q[i] = s[j]
<1>1. /\ q \in Seq(S) /\ Len(q) = Len(s) - 1
      /\ \A i \in 1..(Len(s) - 1) : q[i] = IF i < n THEN s[i] ELSE s[i + 1]
  BY RemoveAtFacts
<1>2. DOMAIN s = 1..Len(s) /\ Len(s) \in Nat /\ DOMAIN q = 1..(Len(s) - 1)
  BY <1>1, LenProperties
<1>3. \A i \in DOMAIN q : i \in DOMAIN s /\ i + 1 \in DOMAIN s /\ i \in Nat
  BY <1>2
<1>4. n \in Nat
  BY <1>2
<1>5. ASSUME NEW i \in DOMAIN q
      PROVE  LET a == IF i < n THEN i ELSE i + 1 IN a \in DOMAIN s /\ a # n /\ q[i] = s[a]
  BY <1>1, <1>2, <1>3, <1>4
<1>6. \A i \in DOMAIN q : \E j \in DOMAIN s : j # n /\ q[i] = s[j]
  BY <1>5
<1>7. ASSUME NEW i \in DOMAIN q, NEW j \in DOMAIN q, i # j
      PROVE  \E a, b \in DOMAIN s : a # b /\ a # n /\ b # n /\ q[i] = s[a] /\ q[j] = s[b]
  <2>1. PICK a, b : a = (IF i < n THEN i ELSE i + 1) /\ b = (IF j < n THEN j ELSE j + 1)
    OBVIOUS
  <2>2. a # b
    BY <1>3, <1>4, <1>7, <2>1
  <2> QED BY <1>5, <2>1, <2>2
<1>8. ASSUME NEW j \in DOMAIN s, j # n
      PROVE  \E i \in DOMAIN q : q[i] = s[j]
  <2>1. CASE j < n
    <3>1. j \in DOMAIN q
      BY <1>2, <2>1
    <3> QED BY <1>1, <1>2, <2>1, <3>1
  <2>2. CASE ~(j < n)
    <3>1. j - 1 \in DOMAIN q /\ ~(j - 1 < n) /\ (j - 1) + 1 = j
      BY <1>2, <1>4, <1>8, <2>2
    <3> QED BY <1>1, <1>2, <3>1
  <2> QED BY <2>1, <2>2
<1> QED BY <1>6, <1>7, <1>8

\* HandlesKnown of one federate, as a fact about its map and its local sources.
Known(b, s) ==
  \A h \in Handles : b[h] # NoName =>
    \E i \in DOMAIN s : s[i].name = b[h] /\ s[i].handle = h /\ s[i].registered

\* Taking the name of a handle away keeps the others.
LEMMA KnownErased ==
  ASSUME NEW s \in Seq(Local), NEW b \in [Handles -> Names \cup {NoName}], Known(b, s),
         NEW n \in DOMAIN s, NEW h \in Handles, s[n].handle = h
  PROVE  Known([b EXCEPT ![h] = NoName], RemoveAt(s, n))
<1>1. PICK q, c : q = RemoveAt(s, n) /\ c = [b EXCEPT ![h] = NoName]
  OBVIOUS
<1>2. \A j \in DOMAIN s : j # n => \E i \in DOMAIN q : q[i] = s[j]
  BY <1>1, RemoveAtEntries
<1>3. \A g \in Handles : c[g] = IF g = h THEN NoName ELSE b[g]
  BY <1>1
<1>4. ASSUME NEW g \in Handles, c[g] # NoName
      PROVE  \E i \in DOMAIN q : q[i].name = c[g] /\ q[i].handle = g /\ q[i].registered
  <2>1. g # h /\ c[g] = b[g]
    BY <1>3, <1>4
  <2>2. PICK j \in DOMAIN s : s[j].name = b[g] /\ s[j].handle = g /\ s[j].registered
    BY <1>4, <2>1 DEF Known
  <2>3. j # n
    BY <2>1, <2>2
  <2> QED BY <1>2, <2>1, <2>2, <2>3
<1> QED BY <1>1, <1>4 DEF Known

\* An entry that keeps its handle and its name, and stays registered, keeps the handles.
LEMMA KnownReplaced ==
  ASSUME NEW s \in Seq(Local), NEW b, Known(b, s), NEW n \in DOMAIN s, NEW l,
         l.handle = s[n].handle, l.name = s[n].name, s[n].registered => l.registered
  PROVE  Known(b, [s EXCEPT ![n] = l])
<1>1. PICK q : q = [s EXCEPT ![n] = l]
  OBVIOUS
<1>2. DOMAIN q = DOMAIN s /\ \A j \in DOMAIN s : q[j] = IF j = n THEN l ELSE s[j]
  BY <1>1
<1>3. ASSUME NEW h \in Handles, b[h] # NoName
      PROVE  \E i \in DOMAIN q : q[i].name = b[h] /\ q[i].handle = h /\ q[i].registered
  <2>1. PICK i \in DOMAIN s : s[i].name = b[h] /\ s[i].handle = h /\ s[i].registered
    BY <1>3 DEF Known
  <2>2. q[i].name = b[h] /\ q[i].handle = h /\ q[i].registered /\ i \in DOMAIN q
    BY <1>2, <2>1
  <2> QED BY <2>2
<1> QED BY <1>1, <1>3 DEF Known

\* A local member more keeps them.
LEMMA KnownAppended ==
  ASSUME NEW s \in Seq(Local), NEW b, Known(b, s), NEW l \in Local
  PROVE  Known(b, Append(s, l))
<1>1. PICK q : q = Append(s, l)
  OBVIOUS
<1>2. /\ DOMAIN s = 1..Len(s) /\ DOMAIN q = 1..(Len(s) + 1) /\ Len(s) \in Nat
      /\ \A i \in 1..Len(s) : q[i] = s[i]
  BY <1>1, AppendProperties, LenProperties
<1>3. \A i \in DOMAIN s : i \in DOMAIN q /\ q[i] = s[i]
  BY <1>2
<1> QED BY <1>1, <1>3 DEF Known

\* Known is HandlesKnown.
LEMMA KnownHandles ==
  HandlesKnown <=> \A f \in Federates : Known(byHandle[f], locals[f]["source"])
BY DEF HandlesKnown, Known

\* The reservation of a name gives the handle of a source its name.
LEMMA ReservationKnown ==
  ASSUME TypeOK, HandlesKnown, NEW f \in Federates, NEW obj, NEW i, NEW l,
         ReservationStep(f, obj, i, l)
  PROVE  HandlesKnown'
<1>0. /\ locals \in [Federates -> [Kinds -> Seq(Local)]] /\ "source" \in Kinds
      /\ byHandle \in [Federates -> [Handles -> Names \cup {NoName}]]
  BY CounterTypes DEF TypeOK
<1>1. /\ obj.kind \in Kinds /\ i \in DOMAIN locals[f][obj.kind] /\ l = locals[f][obj.kind][i]
      /\ l.name = obj.name /\ l.handle \in Handles /\ l \in Local
      /\ locals' = [locals EXCEPT ![f][obj.kind] =
                      [locals[f][obj.kind] EXCEPT ![i] = [l EXCEPT !.registered = TRUE]]]
      /\ byHandle' = IF obj.kind = "source"
                       THEN [byHandle EXCEPT ![f][l.handle] = obj.name] ELSE byHandle
  BY DEF ReservationStep
<1>2. PICK r, q : r = [l EXCEPT !.registered = TRUE] /\ q = [locals[f][obj.kind] EXCEPT ![i] = r]
  OBVIOUS
<1>3. /\ r.handle = l.handle /\ r.name = l.name /\ r.registered /\ r \in Local
  BY <1>1, <1>2 DEF Local
<1>4. q \in Seq(Local) /\ DOMAIN q = DOMAIN locals[f][obj.kind]
      /\ \A j \in DOMAIN q : q[j] = IF j = i THEN r ELSE locals[f][obj.kind][j]
  <2>1. locals[f][obj.kind] \in Seq(Local) /\ i \in 1..Len(locals[f][obj.kind])
    BY <1>0, <1>1, LenProperties
  <2>2. q \in Seq(Local)
    BY <1>2, <1>3, <2>1, ExceptSeq
  <2> QED BY <1>2, <2>1, <2>2
<1>5. \A g \in Federates, k \in Kinds :
         locals'[g][k] = IF g = f /\ k = obj.kind THEN q ELSE locals[g][k]
  BY <1>0, <1>1, <1>2, <1>4, ExceptTypes
<1> SUFFICES ASSUME NEW g \in Federates PROVE Known(byHandle'[g], locals'[g]["source"])
  BY DEF HandlesKnown, Known
<1>6. Known(byHandle[g], locals[g]["source"])
  BY KnownHandles
<1>7. CASE g # f \/ obj.kind # "source"
  <2>1. locals'[g]["source"] = locals[g]["source"]
    BY <1>0, <1>5, <1>7
  <2>2. byHandle'[g] = byHandle[g]
    BY <1>0, <1>1, <1>7
  <2> QED BY <1>6, <2>1, <2>2
<1>8. CASE g = f /\ obj.kind = "source"
  <2>1. Known(byHandle[f], q)
    <3>1. locals[f]["source"] \in Seq(Local)
      BY <1>0
    <3> QED BY <1>1, <1>2, <1>3, <1>6, <1>8, <3>1, KnownReplaced
  <2>2. \A h \in Handles : byHandle'[f][h] = IF h = l.handle THEN obj.name ELSE byHandle[f][h]
    BY <1>0, <1>1, <1>8
  <2>3. ASSUME NEW h \in Handles, byHandle'[f][h] # NoName
        PROVE  \E j \in DOMAIN q : q[j].name = byHandle'[f][h] /\ q[j].handle = h /\ q[j].registered
    <3>1. CASE h = l.handle
      <4>1. i \in DOMAIN q /\ q[i] = r
        BY <1>1, <1>4
      <4> QED BY <1>1, <1>3, <2>2, <3>1, <4>1
    <3>2. CASE h # l.handle
      BY <2>1, <2>2, <2>3, <3>2 DEF Known
    <3> QED BY <3>1, <3>2
  <2>4. locals'[f]["source"] = q
    BY <1>0, <1>5, <1>8
  <2> QED BY <1>8, <2>3, <2>4 DEF Known
<1> QED BY <1>7, <1>8

\* Every step keeps what is known of the handles.
LEMMA HandlesKnownStep ==
  ASSUME TypeInv, HandlesKnown, [Next]_vars
  PROVE  HandlesKnown'
<1>0. /\ TypeOK /\ IsFiniteSet(objects) /\ "source" \in Kinds /\ "target" \in Kinds
      /\ "source" # "target"
      /\ locals \in [Federates -> [Kinds -> Seq(Local)]]
      /\ byHandle \in [Federates -> [Handles -> Names \cup {NoName}]]
      /\ \A g \in Federates : Known(byHandle[g], locals[g]["source"])
  BY CounterTypes, KnownHandles DEF TypeInv, TypeOK
<1>1. CASE UNCHANGED <<locals, byHandle>>
  BY <1>1 DEF HandlesKnown
<1>2. ASSUME NEW f \in Federates, NEW k \in Kinds, NEW s, UNCHANGED byHandle,
             locals' = [locals EXCEPT ![f][k] = s], s \in Seq(Local),
             k = "source" => Known(byHandle[f], s)
      PROVE  HandlesKnown'
  <2>1. \A g \in Federates, j \in Kinds : locals'[g][j] = IF g = f /\ j = k THEN s ELSE locals[g][j]
    BY <1>0, <1>2, ExceptTypes
  <2>2. \A g \in Federates : Known(byHandle'[g], locals'[g]["source"])
    BY <1>0, <1>2, <2>1
  <2> QED BY <2>2 DEF HandlesKnown, Known
<1>3. ASSUME NEW f \in Federates, ProcessTargets(f) PROVE HandlesKnown'
  <2>1. CASE buffered[f]["target"] # <<>>
    <3>1. PICK r : r = Head(buffered[f]["target"])
      OBVIOUS
    <3>2. PICK l : l = [handle |-> r.handle, name |-> Fresh(f), registered |-> FALSE, last |-> 0]
      OBVIOUS
    <3>3. locals' = [locals EXCEPT ![f]["target"] = Append(@, l)] /\ UNCHANGED byHandle
      BY <1>3, <2>1, <3>1, <3>2 DEF ProcessTargets, RegisterBufferedDOTarget
    <3>4. Fresh(f) \in Names /\ r.handle \in Handles
      BY <1>0, <2>1, <3>1, FreshIsName, HeadTypes
    <3>5. l \in Local /\ locals[f]["target"] \in Seq(Local)
      BY <1>0, <3>2, <3>4, Bounds, NewLocal
    <3>6. PICK s : s = Append(locals[f]["target"], l)
      OBVIOUS
    <3>7. s \in Seq(Local) /\ locals' = [locals EXCEPT ![f]["target"] = s]
      BY <1>0, <3>3, <3>5, <3>6, AppendProperties
    <3> QED BY <1>0, <1>2, <3>3, <3>7
  <2>2. CASE buffered[f]["target"] = <<>>
    BY <1>1, <1>3, <2>2 DEF ProcessTargets, localVars
  <2> QED BY <2>1, <2>2
<1>4. ASSUME NEW f \in Federates, ProcessSources(f) PROVE HandlesKnown'
  <2>1. CASE buffered[f]["source"] # <<>>
    <3>1. PICK r : r = Head(buffered[f]["source"])
      OBVIOUS
    <3>2. PICK l : l = [handle |-> r.handle, name |-> Fresh(f), registered |-> FALSE,
                        last |-> r.last]
      OBVIOUS
    <3>3. locals' = [locals EXCEPT ![f]["source"] = Append(@, l)] /\ UNCHANGED byHandle
      BY <1>4, <2>1, <3>1, <3>2 DEF ProcessSources, RegisterBufferedDOSource
    <3>4. Fresh(f) \in Names /\ r.handle \in Handles /\ r.last \in 0..MaxValues
      BY <1>0, <2>1, <3>1, FreshIsName, HeadTypes
    <3>5. l \in Local /\ locals[f]["source"] \in Seq(Local)
      BY <1>0, <3>2, <3>4, NewLocal
    <3>6. PICK s : s = Append(locals[f]["source"], l)
      OBVIOUS
    <3>7. s \in Seq(Local) /\ locals' = [locals EXCEPT ![f]["source"] = s]
      BY <1>0, <3>3, <3>5, <3>6, AppendProperties
    <3>8. Known(byHandle[f], s)
      BY <1>0, <3>5, <3>6, KnownAppended
    <3> QED BY <1>0, <1>2, <3>3, <3>7, <3>8
  <2>2. CASE buffered[f]["source"] = <<>>
    BY <1>1, <1>4, <2>2 DEF ProcessSources, localVars
  <2> QED BY <2>1, <2>2
<1>5. ASSUME NEW f \in Federates, BufferedTransmitDOMember(f) PROVE HandlesKnown'
  <2>1. PICK n, t, i, l : TransmitStep(f, n, t, i, l)
    BY <1>0, <1>5, TransmitSteps
  <2>2. PICK r, s : r = [l EXCEPT !.last = t.value] /\ s = [locals[f]["source"] EXCEPT ![i] = r]
    OBVIOUS
  <2>3. /\ i \in DOMAIN locals[f]["source"] /\ l \in Local /\ l = locals[f]["source"][i]
        /\ locals' = [locals EXCEPT ![f]["source"] = s] /\ UNCHANGED byHandle
        /\ t.value \in 0..MaxValues
    BY <2>1, <2>2 DEF TransmitStep
  <2>4. r \in Local /\ r.handle = l.handle /\ r.name = l.name /\ r.registered = l.registered
    BY <2>2, <2>3 DEF Local
  <2>5. locals[f]["source"] \in Seq(Local) /\ i \in 1..Len(locals[f]["source"])
    BY <1>0, <2>3, LenProperties
  <2>6. s \in Seq(Local)
    BY <2>2, <2>4, <2>5, ExceptSeq
  <2>7. Known(byHandle[f], s)
    BY <1>0, <2>2, <2>3, <2>4, <2>5, KnownReplaced
  <2> QED BY <1>0, <1>2, <2>3, <2>6, <2>7
<1>6. ASSUME NEW f \in Federates, evokeCallback(f) PROVE HandlesKnown'
  <2>1. PICK m : m = Head(inbox[f])
    OBVIOUS
  <2>2. m \in Message /\ m.obj \in Objects
    <3>1. inbox \in Queues /\ inbox[f] # <<>>
      BY <1>0, <1>6 DEF TypeOK, Queues, evokeCallback
    <3>2. m \in Message
      BY <2>1, <3>1, RestTypes
    <3> QED BY <3>2 DEF Message
  <2>3. CASE OnDOObjectReservationCompleted(f, m.obj)
    <3>1. CASE ReservationUnused(f)
      BY <1>1, <3>1 DEF ReservationUnused
    <3>2. CASE \E i, l : ReservationStep(f, m.obj, i, l)
      BY <1>0, <3>2, ReservationKnown
    <3> QED BY <1>0, <2>2, <2>3, <3>1, <3>2, ReservationSteps
  <2>4. CASE UNCHANGED localVars
    BY <1>1, <2>4 DEF localVars
  <2>5. CASE UNCHANGED <<locals, byHandle>>
    BY <1>1, <2>5
  <2> QED BY <1>6, <2>1, <2>3, <2>4, <2>5
          DEF evokeCallback, discoverObjectInstance, removeObjectInstance, reflectAttributeValues,
              provideAttributeValueUpdate
<1>7. ASSUME NEW f \in Federates, Reset(f) PROVE HandlesKnown'
  <2>1. PICK out : ResetStep(f, out)
    BY <1>0, <1>7, ResetSteps
  <2>2. PICK none : none = [h \in Handles |-> NoName]
    OBVIOUS
  <2>3. byHandle' = [byHandle EXCEPT ![f] = none] /\ \A g \in Federates : g # f => locals'[g] = locals[g]
    BY <1>0, <2>1, <2>2 DEF ResetStep
  <2>4. \A h \in Handles : byHandle'[f][h] = NoName
    BY <1>0, <2>2, <2>3
  <2>5. \A g \in Federates : g # f => byHandle'[g] = byHandle[g]
    BY <1>0, <2>3
  <2>6. ASSUME NEW g \in Federates PROVE Known(byHandle'[g], locals'[g]["source"])
    <3>1. CASE g = f
      BY <2>4, <3>1 DEF Known
    <3>2. CASE g # f
      BY <1>0, <2>3, <2>5, <3>2
    <3> QED BY <3>1, <3>2
  <2> QED BY <2>6 DEF HandlesKnown, Known
<1>8. ASSUME NEW f \in Federates, NEW k \in Kinds, NEW h \in Handles, Unregister(f, k, h)
      PROVE  HandlesKnown'
  <2>1. CASE UNCHANGED <<locals, byHandle>>
    BY <1>1, <2>1
  <2>2. ASSUME NEW n, NEW l, EraseMember(f, k, h, n, l) PROVE HandlesKnown'
    <3>1. /\ n \in DOMAIN locals[f][k] /\ locals[f][k][n].handle = h
          /\ locals' = [locals EXCEPT ![f][k] = RemoveAt(locals[f][k], n)]
          /\ byHandle' = IF k = "source" THEN [byHandle EXCEPT ![f][h] = NoName] ELSE byHandle
      BY <2>2 DEF EraseMember
    <3>2. PICK s : s = RemoveAt(locals[f][k], n)
      OBVIOUS
    <3>3. locals[f][k] \in Seq(Local) /\ s \in Seq(Local) /\ locals' = [locals EXCEPT ![f][k] = s]
      BY <1>0, <3>1, <3>2, RemoveAtFacts
    <3>4. CASE k # "source"
      BY <1>2, <3>1, <3>3, <3>4
    <3>5. CASE k = "source"
      <4>1. PICK c : c = [byHandle[f] EXCEPT ![h] = NoName]
        OBVIOUS
      <4>2. byHandle' = [byHandle EXCEPT ![f] = c]
        BY <1>0, <3>1, <3>5, <4>1
      <4>3. Known(c, s)
        BY <1>0, <3>1, <3>2, <3>3, <3>5, <4>1, KnownErased
      <4>4. \A g \in Federates : locals'[g]["source"] = IF g = f THEN s ELSE locals[g]["source"]
        BY <1>0, <3>3, <3>5, ExceptTypes
      <4>5. \A g \in Federates : byHandle'[g] = IF g = f THEN c ELSE byHandle[g]
        BY <1>0, <4>2
      <4>6. \A g \in Federates : Known(byHandle'[g], locals'[g]["source"])
        BY <1>0, <4>3, <4>4, <4>5
      <4> QED BY <4>6 DEF HandlesKnown, Known
    <3> QED BY <3>4, <3>5
  <2>3. PICK p : UnregisterStep(f, k, h, p)
    BY <1>0, <1>8, UnregisterSteps
  <2> QED BY <2>1, <2>2, <2>3 DEF UnregisterStep, EraseEntry, EraseNothing
<1>9. CASE \E f \in Federates : \/ EnterInitFederate(f) \/ MeasurementStarts(f)
                                \/ WaitForSingleEvent(f) \/ EndProcessBuffers(f) \/ OnJoined(f)
                                \/ \E k \in Kinds : Register(f, k)
                                \/ \E h \in Handles : TransmitDOMember(f, h)
  <2>1. UNCHANGED localVars
    BY <1>9 DEF EnterInitFederate, MeasurementStarts, WaitForSingleEvent, EndProcessBuffers,
                OnJoined, Register, TransmitDOMember
  <2> QED BY <1>1, <2>1 DEF localVars
<1>10. CASE \E f \in Federates : phase[f] = "evoke" /\ UNCHANGED localVars
  BY <1>1, <1>10 DEF localVars
<1>11. CASE UNCHANGED vars
  BY <1>1, <1>11 DEF vars, localVars
<1> QED BY <1>0, <1>3, <1>4, <1>5, <1>6, <1>7, <1>8, <1>9, <1>10, <1>11
        DEF Next, Thread, Application, ProcessBuffers, EvokeWhileWaiting, EvokeCallbacks

\* Every step keeps the types.
LEMMA TypesStep ==
  ASSUME TypeInv, HandlesKnown, [Next]_vars
  PROVE  TypeInv'
<1>1. CASE UNCHANGED vars
  <2>1. TypeOK /\ IsFiniteSet(objects) /\ OwnTypes /\ EvokedTypes
    BY TypeParts DEF TypeInv
  <2>2. OwnTypes' /\ EvokedTypes'
    BY <1>1, <2>1 DEF vars, regVars, localVars, rtiVars, history, OwnTypes, EvokedTypes
  <2>3. PhaseInv' /\ \A g \in Federates : Joined(g)' = Joined(g)
    BY <1>1 DEF vars, TypeInv, PhaseInv, Joined
  <2>4. CountersInv' /\ NamesInv'
    BY <1>1, <2>3, NamesKept DEF vars, regVars
  <2> QED BY <2>2, <2>3, <2>4, TypeParts, PTL DEF TypeInv
<1>2. CASE Next
  <2>1. PICK f \in Federates : Thread(f) \/ Reset(f) \/ Application(f)
    BY <1>2 DEF Next
  <2>2. CASE Thread(f)
    <3>1. CASE EnterInitFederate(f) \/ MeasurementStarts(f) \/ WaitForSingleEvent(f)
               \/ EndProcessBuffers(f)
      BY <3>1, ThreadMoves
    <3>2. CASE EvokeWhileWaiting(f) \/ EvokeCallbacks(f)
      BY <3>2, EvokingTypes
    <3>3. CASE ProcessTargets(f) \/ ProcessSources(f)
      BY <3>3, RegisterBufferedTypes
    <3>4. CASE BufferedTransmitDOMember(f)
      BY <3>4, TransmitTypes
    <3>5. CASE OnJoined(f)
      BY <3>5, JoinTypes
    <3> QED BY <2>2, <3>1, <3>2, <3>3, <3>4, <3>5 DEF Thread, ProcessBuffers
  <2>3. CASE Application(f)
    BY <2>3, CounterTypes, RegisterTypes, UnregisterTypes, TransmitDOMemberTypes DEF Application
  <2> QED BY <2>1, <2>2, <2>3, ResetTypes
<1> QED BY <1>1, <1>2

\* Initially there is nothing to know.
LEMMA HandlesKnownInit ==
  Init => HandlesKnown
BY DEF Init, HandlesKnown

\* The inductive invariant, for every value of the constants.
LEMMA TypesHold ==
  Spec => [](TypeInv /\ HandlesKnown)
<1>1. Init => TypeInv /\ HandlesKnown
  BY TypesInit, HandlesKnownInit
<1>2. TypeInv /\ HandlesKnown /\ [Next]_vars => (TypeInv /\ HandlesKnown)'
  BY TypesStep, HandlesKnownStep
<1> QED BY <1>1, <1>2, PTL DEF Spec

\* The types of DOService hold for any number of federates, registrations, transmissions
\* and departures: the object names never run out, and a source that transmits is there.
THEOREM TypeCorrect == Spec => []TypeOK
<1>1. TypeInv => TypeOK
  BY DEF TypeInv
<1> QED BY <1>1, TypesHold, PTL

-----------------------------------------------------------------------------
(* What a step can do to the local members, to what was written and to what was  *)
(* transmitted: nothing, or one of the following.                               *)

\* Local member i, which is l, becomes r: its HLA object is registered, or it transmits.
Replaced(f, k, i, l, r) ==
  /\ f \in Federates /\ k \in Kinds
  /\ i \in DOMAIN locals[f][k] /\ l = locals[f][k][i] /\ l \in Local /\ r \in Local
  /\ r.name = l.name /\ r.handle = l.handle /\ (l.registered => r.registered)
  /\ locals' = [locals EXCEPT ![f][k] = [locals[f][k] EXCEPT ![i] = r]]
  /\ written' = [written EXCEPT ![l.name] = r.last]
  /\ \/ r.registered /\ r.last = l.last /\ UNCHANGED lastSent
     \/ k = "source" /\ \E n, t : TransmitStep(f, n, t, i, l) /\ r.last = t.value
  /\ UNCHANGED issued

\* A registration from the buffer becomes the local member l.
Created(f, k, l) ==
  /\ f \in Federates /\ k \in Kinds /\ l \in Local /\ buffered[f][k] # <<>>
  /\ l.name = Fresh(f) /\ ~l.registered /\ l.handle = Head(buffered[f][k]).handle
  /\ l.last = IF k = "source" THEN Head(buffered[f][k]).last ELSE 0
  /\ locals' = [locals EXCEPT ![f][k] = Append(locals[f][k], l)]
  /\ buffered' = [buffered EXCEPT ![f][k] = Tail(buffered[f][k])]
  /\ ReserveName(f) /\ phase[f] # "idle"
  /\ UNCHANGED <<written, lastSent, persistent, mState, phase>>

\* Local member n is unregistered.
Erased(f, k, n) ==
  /\ f \in Federates /\ k \in Kinds /\ n \in DOMAIN locals[f][k]
  /\ locals' = [locals EXCEPT ![f][k] = RemoveAt(locals[f][k], n)]
  /\ UNCHANGED <<written, lastSent, issued>>

\* All are forgotten.
Forgotten(f) ==
  /\ f \in Federates
  /\ locals' = [locals EXCEPT ![f] = [k \in Kinds |-> <<>>]]
  /\ \A g \in Federates : issued'[g]["names"] = issued[g]["names"]
  /\ UNCHANGED <<written, lastSent>>

\* Nothing happens to them.
Untouched ==
  /\ UNCHANGED <<locals, written, lastSent>>
  /\ \A g \in Federates : issued'[g]["names"] = issued[g]["names"]

\* What any step does to the local members.
LocalChange ==
  \/ \E f, k, i, l, r : Replaced(f, k, i, l, r)
  \/ \E f, k, l : Created(f, k, l)
  \/ \E f, k, n : Erased(f, k, n)
  \/ \E f : Forgotten(f)
  \/ Untouched

\* A registration is taken from the buffer.
LEMMA Creating ==
  ASSUME TypeInv, NEW f \in Federates, ProcessTargets(f) \/ ProcessSources(f)
  PROVE  (\E k, l : Created(f, k, l)) \/ (Untouched /\ UNCHANGED <<buffered, issued>>)
<1>0. /\ TypeOK /\ locals \in [Federates -> [Kinds -> Seq(Local)]]
      /\ buffered \in [Federates -> [Kinds -> Seq(Registration)]]
      /\ "source" \in Kinds /\ "target" \in Kinds /\ "source" # "target"
  BY CounterTypes DEF TypeInv, TypeOK
<1>1. ASSUME NEW k \in Kinds, buffered[f][k] # <<>>, NEW l, NEW r, r = Head(buffered[f][k]),
             l = [handle |-> r.handle, name |-> Fresh(f), registered |-> FALSE,
                  last |-> IF k = "source" THEN r.last ELSE 0],
             locals' = [locals EXCEPT ![f][k] = Append(@, l)], ReserveName(f),
             buffered' = [buffered EXCEPT ![f][k] = Tail(@)], phase[f] # "idle",
             UNCHANGED <<written, lastSent, persistent, mState, phase>>
      PROVE  Created(f, k, l)
  <2>1. Fresh(f) \in Names /\ r.handle \in Handles /\ r.last \in 0..MaxValues
    BY <1>0, <1>1, FreshIsName, HeadTypes
  <2>2. PICK v : v = IF k = "source" THEN r.last ELSE 0
    OBVIOUS
  <2>3. v \in 0..MaxValues
    BY <2>1, <2>2, Bounds
  <2>4. l \in Local
    BY <1>1, <2>1, <2>2, <2>3, NewLocal
  <2>5. l.name = Fresh(f) /\ ~l.registered /\ l.handle = r.handle /\ l.last = v
    BY <1>1, <2>2
  <2>6. /\ locals' = [locals EXCEPT ![f][k] = Append(locals[f][k], l)]
        /\ buffered' = [buffered EXCEPT ![f][k] = Tail(buffered[f][k])]
    BY <1>0, <1>1
  <2> QED BY <1>1, <2>2, <2>4, <2>5, <2>6 DEF Created
<1>2. CASE phase[f] = "targets" /\ buffered[f]["target"] # <<>>
  <2>1. PICK r, l : /\ r = Head(buffered[f]["target"])
                    /\ l = [handle |-> r.handle, name |-> Fresh(f), registered |-> FALSE, last |-> 0]
    OBVIOUS
  <2>2. /\ locals' = [locals EXCEPT ![f]["target"] = Append(@, l)] /\ ReserveName(f)
        /\ buffered' = [buffered EXCEPT ![f]["target"] = Tail(@)] /\ phase[f] # "idle"
        /\ UNCHANGED <<written, lastSent, persistent, mState, phase>>
    BY <1>2, <2>1 DEF ProcessTargets, ProcessSources, RegisterBufferedDOTarget
  <2>3. l = [handle |-> r.handle, name |-> Fresh(f), registered |-> FALSE,
             last |-> IF "target" = "source" THEN r.last ELSE 0]
    BY <2>1
  <2> QED BY <1>0, <1>1, <1>2, <2>1, <2>2, <2>3
<1>3. CASE phase[f] = "sources" /\ buffered[f]["source"] # <<>>
  <2>1. PICK r, l : /\ r = Head(buffered[f]["source"])
                    /\ l = [handle |-> r.handle, name |-> Fresh(f), registered |-> FALSE,
                            last |-> r.last]
    OBVIOUS
  <2>2. /\ locals' = [locals EXCEPT ![f]["source"] = Append(@, l)] /\ ReserveName(f)
        /\ buffered' = [buffered EXCEPT ![f]["source"] = Tail(@)] /\ phase[f] # "idle"
        /\ UNCHANGED <<written, lastSent, persistent, mState, phase>>
    BY <1>3, <2>1 DEF ProcessTargets, ProcessSources, RegisterBufferedDOSource
  <2>3. l = [handle |-> r.handle, name |-> Fresh(f), registered |-> FALSE,
             last |-> IF "source" = "source" THEN r.last ELSE 0]
    BY <2>1
  <2> QED BY <1>0, <1>1, <1>3, <2>1, <2>2, <2>3
<1>4. CASE UNCHANGED <<locals, issued, written, lastSent, buffered>>
  BY <1>4 DEF Untouched
<1> QED BY <1>2, <1>3, <1>4 DEF ProcessTargets, ProcessSources, localVars

\* The callbacks: only the completion of a reservation touches the local members.
LEMMA EvokeChange ==
  ASSUME TypeInv, NEW f \in Federates, evokeCallback(f)
  PROVE  (\E k, i, l, r : Replaced(f, k, i, l, r)) \/ Untouched
<1>0. TypeOK /\ IsFiniteSet(objects) /\ UNCHANGED <<lastSent, issued>>
  BY DEF TypeInv, evokeCallback, keptByCallbacks
<1>1. PICK m : m = Head(inbox[f])
  OBVIOUS
<1>2. m \in Message /\ m.obj \in Objects
  <2>1. inbox \in Queues /\ inbox[f] # <<>>
    BY <1>0 DEF TypeOK, Queues, evokeCallback
  <2>2. m \in Message
    BY <1>1, <2>1, RestTypes
  <2> QED BY <2>2 DEF Message
<1>3. CASE OnDOObjectReservationCompleted(f, m.obj)
  <2>1. CASE ReservationUnused(f)
    BY <1>0, <2>1 DEF ReservationUnused, Untouched
  <2>2. ASSUME NEW i, NEW l, ReservationStep(f, m.obj, i, l)
        PROVE  \E k, j, p, r : Replaced(f, k, j, p, r)
    <3>1. PICK r, k : r = [l EXCEPT !.registered = TRUE] /\ k = m.obj.kind
      OBVIOUS
    <3>2. /\ k \in Kinds /\ i \in DOMAIN locals[f][k] /\ l = locals[f][k][i] /\ l \in Local
          /\ l.name = m.obj.name
          /\ locals' = [locals EXCEPT ![f][k] = [locals[f][k] EXCEPT ![i] = r]]
          /\ written' = [written EXCEPT ![m.obj.name] = l.last]
      BY <2>2, <3>1 DEF ReservationStep
    <3>3. /\ r \in Local /\ r.name = l.name /\ r.handle = l.handle /\ r.registered
          /\ r.last = l.last
      BY <3>1, <3>2 DEF Local
    <3>4. Replaced(f, k, i, l, r)
      BY <1>0, <3>2, <3>3 DEF Replaced
    <3> QED BY <3>4
  <2> QED BY <1>0, <1>2, <1>3, <2>1, <2>2, ReservationSteps
<1>4. CASE UNCHANGED <<locals, written>>
  BY <1>0, <1>4 DEF Untouched
<1> QED BY <1>1, <1>3, <1>4
        DEF evokeCallback, discoverObjectInstance, removeObjectInstance, reflectAttributeValues,
            provideAttributeValueUpdate, localVars

\* A source transmits.
LEMMA TransmitReplaces ==
  ASSUME TypeOK, HandlesKnown, NEW f \in Federates, BufferedTransmitDOMember(f)
  PROVE  \E k, i, l, r : Replaced(f, k, i, l, r)
<1>1. PICK n, t, i, l : TransmitStep(f, n, t, i, l)
  BY TransmitSteps
<1>2. PICK r : r = [l EXCEPT !.last = t.value]
  OBVIOUS
<1>3. /\ i \in DOMAIN locals[f]["source"] /\ l = locals[f]["source"][i] /\ l \in Local
      /\ t.value \in 0..MaxValues /\ "source" \in Kinds
      /\ locals' = [locals EXCEPT ![f]["source"] = [locals[f]["source"] EXCEPT ![i] = r]]
      /\ written' = [written EXCEPT ![l.name] = t.value] /\ UNCHANGED issued
  BY <1>1, <1>2, CounterTypes DEF TransmitStep
<1>4. /\ r \in Local /\ r.name = l.name /\ r.handle = l.handle /\ r.last = t.value
      /\ r.registered = l.registered
  BY <1>2, <1>3 DEF Local
<1>5. Replaced(f, "source", i, l, r)
  BY <1>1, <1>3, <1>4 DEF Replaced
<1> QED BY <1>5

\* Every step is one of these.
LEMMA LocalSteps ==
  ASSUME TypeInv, HandlesKnown, [Next]_vars
  PROVE  LocalChange
<1>0. /\ TypeOK /\ IsFiniteSet(objects) /\ issued \in [Federates -> [Counters -> Nat]]
      /\ locals \in [Federates -> [Kinds -> Seq(Local)]] /\ "names" \in Counters
  BY CounterTypes DEF TypeInv, TypeOK
<1>1. ASSUME NEW f \in Federates, ProcessTargets(f) \/ ProcessSources(f) PROVE LocalChange
  BY <1>1, Creating DEF LocalChange
<1>2. ASSUME NEW f \in Federates, evokeCallback(f) PROVE LocalChange
  BY <1>2, EvokeChange DEF LocalChange
<1>3. ASSUME NEW f \in Federates, BufferedTransmitDOMember(f) PROVE LocalChange
  BY <1>0, <1>3, TransmitReplaces DEF LocalChange
<1>4. ASSUME NEW f \in Federates, Reset(f) PROVE LocalChange
  <2>1. PICK out : ResetStep(f, out)
    BY <1>0, <1>4, ResetSteps
  <2>2. /\ issued' = [issued EXCEPT ![f]["leaves"] = issued[f]["leaves"] + 1]
        /\ locals' = [locals EXCEPT ![f] = [k \in Kinds |-> <<>>]] /\ UNCHANGED <<written, lastSent>>
    BY <2>1 DEF ResetStep
  <2>3. \A g \in Federates : issued'[g]["names"] = issued[g]["names"]
    BY <1>0, <2>2
  <2> QED BY <2>2, <2>3 DEF LocalChange, Forgotten
<1>5. ASSUME NEW f \in Federates, NEW k \in Kinds, NEW h \in Handles, Unregister(f, k, h)
      PROVE  LocalChange
  <2>1. PICK p : UnregisterStep(f, k, h, p)
    BY <1>0, <1>5, UnregisterSteps
  <2>2. UNCHANGED <<written, lastSent, issued>>
    BY <2>1 DEF UnregisterStep, history
  <2>3. CASE \E n, l : EraseMember(f, k, h, n, l)
    <3>1. \E n : Erased(f, k, n)
      BY <2>2, <2>3 DEF EraseMember, Erased
    <3> QED BY <3>1 DEF LocalChange
  <2>4. CASE UNCHANGED locals
    BY <2>2, <2>4 DEF LocalChange, Untouched
  <2> QED BY <2>1, <2>3, <2>4 DEF UnregisterStep, EraseEntry, EraseNothing
<1>6. ASSUME UNCHANGED <<localVars, history, issued>> PROVE LocalChange
  BY <1>6 DEF LocalChange, Untouched, localVars, history
<1>7. ASSUME NEW f \in Federates, NEW k \in Kinds, Register(f, k) PROVE LocalChange
  <2>1. k # "names"
    BY DEF Kinds
  <2>2. issued' = [issued EXCEPT ![f][k] = @ + 1] /\ UNCHANGED <<localVars, history>>
    BY <1>7 DEF Register
  <2>3. \A g \in Federates : issued'[g]["names"] = issued[g]["names"]
    BY <1>0, <2>1, <2>2
  <2> QED BY <2>2, <2>3 DEF LocalChange, Untouched, localVars, history
<1>8. ASSUME NEW f \in Federates, NEW h \in Handles, TransmitDOMember(f, h) PROVE LocalChange
  <2>1. issued' = [issued EXCEPT ![f]["values"] = @ + 1] /\ UNCHANGED <<localVars, history>>
    BY <1>8, Zenon DEF TransmitDOMember
  <2>2. \A g \in Federates : issued'[g]["names"] = issued[g]["names"]
    BY <1>0, <2>1
  <2> QED BY <2>1, <2>2 DEF LocalChange, Untouched, localVars, history
<1>9. CASE \E f \in Federates : \/ EnterInitFederate(f) \/ MeasurementStarts(f)
                                \/ WaitForSingleEvent(f) \/ EndProcessBuffers(f) \/ OnJoined(f)
                                \/ EvokeCallbacks(f) /\ inbox[f] = <<>>
  <2>1. UNCHANGED <<localVars, history, issued>>
    BY <1>9 DEF EnterInitFederate, MeasurementStarts, WaitForSingleEvent, EndProcessBuffers,
                OnJoined, EvokeCallbacks, evokeCallback
  <2> QED BY <1>6, <2>1
<1>10. CASE UNCHANGED vars
  BY <1>6, <1>10 DEF vars
<1>11. \A f \in Federates : EvokeCallbacks(f) => evokeCallback(f) \/ (EvokeCallbacks(f) /\ inbox[f] = <<>>)
  BY DEF EvokeCallbacks
<1> QED BY <1>1, <1>2, <1>3, <1>4, <1>5, <1>7, <1>8, <1>9, <1>10, <1>11, CounterTypes
        DEF Next, Thread, Application, ProcessBuffers, EvokeWhileWaiting

-----------------------------------------------------------------------------
(* The local members after such a step.                                         *)

\* A member is replaced, the others are as they were.
LEMMA ReplacedEntries ==
  ASSUME TypeOK, NEW f, NEW k, NEW i, NEW l, NEW r, Replaced(f, k, i, l, r)
  PROVE  \A g \in Federates, j \in Kinds :
           /\ DOMAIN locals'[g][j] = DOMAIN locals[g][j]
           /\ \A m \in DOMAIN locals[g][j] :
                locals'[g][j][m] = IF g = f /\ j = k /\ m = i THEN r ELSE locals[g][j][m]
<1>0. /\ locals \in [Federates -> [Kinds -> Seq(Local)]] /\ f \in Federates /\ k \in Kinds
      /\ i \in DOMAIN locals[f][k] /\ r \in Local
      /\ locals' = [locals EXCEPT ![f][k] = [locals[f][k] EXCEPT ![i] = r]]
  BY DEF TypeOK, Replaced
<1>1. PICK s : s = [locals[f][k] EXCEPT ![i] = r]
  OBVIOUS
<1>2. s \in Seq(Local)
  <2>1. locals[f][k] \in Seq(Local) /\ i \in 1..Len(locals[f][k])
    BY <1>0, LenProperties
  <2> QED BY <1>0, <1>1, <2>1, ExceptSeq
<1>3. \A g \in Federates, j \in Kinds : locals'[g][j] = IF g = f /\ j = k THEN s ELSE locals[g][j]
  BY <1>0, <1>1, <1>2, ExceptTypes
<1>4. DOMAIN s = DOMAIN locals[f][k]
      /\ \A m \in DOMAIN locals[f][k] : s[m] = IF m = i THEN r ELSE locals[f][k][m]
  BY <1>1
<1> QED BY <1>3, <1>4

\* A member is added behind the others.
LEMMA CreatedEntries ==
  ASSUME TypeOK, NEW f, NEW k, NEW l, Created(f, k, l)
  PROVE  /\ \A g \in Federates, j \in Kinds :
              g # f \/ j # k => locals'[g][j] = locals[g][j]
         /\ \A m \in DOMAIN locals'[f][k] :
              \/ m \in DOMAIN locals[f][k] /\ locals'[f][k][m] = locals[f][k][m]
              \/ m \notin DOMAIN locals[f][k] /\ locals'[f][k][m] = l
         /\ \A m \in DOMAIN locals[f][k] : m \in DOMAIN locals'[f][k]
         /\ \A m, a \in DOMAIN locals'[f][k] :
              m \notin DOMAIN locals[f][k] /\ a \notin DOMAIN locals[f][k] => m = a
<1>0. /\ locals \in [Federates -> [Kinds -> Seq(Local)]] /\ f \in Federates /\ k \in Kinds
      /\ l \in Local /\ locals' = [locals EXCEPT ![f][k] = Append(locals[f][k], l)]
  BY DEF TypeOK, Created
<1>1. PICK s : s = Append(locals[f][k], l)
  OBVIOUS
<1>2. PICK p : p = locals[f][k]
  OBVIOUS
<1>3. /\ p \in Seq(Local) /\ s \in Seq(Local) /\ Len(p) \in Nat
      /\ DOMAIN p = 1..Len(p) /\ DOMAIN s = 1..(Len(p) + 1)
      /\ \A m \in 1..Len(p) : s[m] = p[m]
      /\ s[Len(p) + 1] = l
  BY <1>0, <1>1, <1>2, AppendProperties, LenProperties
<1>4. \A g \in Federates, j \in Kinds : locals'[g][j] = IF g = f /\ j = k THEN s ELSE locals[g][j]
  BY <1>0, <1>1, <1>3, ExceptTypes
<1>5. locals'[f][k] = s
  BY <1>0, <1>4
<1>6. \A m \in DOMAIN s : (m \in DOMAIN p /\ s[m] = p[m]) \/ (m = Len(p) + 1 /\ s[m] = l)
  BY <1>3
<1>7. Len(p) + 1 \notin DOMAIN p /\ \A m \in DOMAIN p : m \in DOMAIN s
  BY <1>3
<1> QED BY <1>2, <1>4, <1>5, <1>6, <1>7

\* A member is erased, the others are still there.
LEMMA ErasedEntries ==
  ASSUME TypeOK, NEW f, NEW k, NEW n, Erased(f, k, n)
  PROVE  /\ \A g \in Federates, j \in Kinds :
              g # f \/ j # k => locals'[g][j] = locals[g][j]
         /\ \A m \in DOMAIN locals'[f][k] :
              \E a \in DOMAIN locals[f][k] : a # n /\ locals'[f][k][m] = locals[f][k][a]
         /\ \A m, o \in DOMAIN locals'[f][k] : m # o =>
              \E a, b \in DOMAIN locals[f][k] :
                a # b /\ locals'[f][k][m] = locals[f][k][a] /\ locals'[f][k][o] = locals[f][k][b]
         /\ \A a \in DOMAIN locals[f][k] :
              a # n => \E m \in DOMAIN locals'[f][k] : locals'[f][k][m] = locals[f][k][a]
<1>0. /\ locals \in [Federates -> [Kinds -> Seq(Local)]] /\ f \in Federates /\ k \in Kinds
      /\ n \in DOMAIN locals[f][k]
      /\ locals' = [locals EXCEPT ![f][k] = RemoveAt(locals[f][k], n)]
  BY DEF TypeOK, Erased
<1>1. PICK s, p : s = RemoveAt(locals[f][k], n) /\ p = locals[f][k]
  OBVIOUS
<1>2. p \in Seq(Local) /\ s \in Seq(Local)
  BY <1>0, <1>1, RemoveAtFacts
<1>3. \A g \in Federates, j \in Kinds : locals'[g][j] = IF g = f /\ j = k THEN s ELSE locals[g][j]
  BY <1>0, <1>1, <1>2, ExceptTypes
<1>4. /\ \A i \in DOMAIN s : \E j \in DOMAIN p : j # n /\ s[i] = p[j]
      /\ \A i, j \in DOMAIN s : i # j =>
           \E a, b \in DOMAIN p : a # b /\ a # n /\ b # n /\ s[i] = p[a] /\ s[j] = p[b]
      /\ \A j \in DOMAIN p : j # n => \E i \in DOMAIN s : s[i] = p[j]
  <2>1. s = RemoveAt(p, n) /\ n \in DOMAIN p
    BY <1>0, <1>1
  <2> QED BY <1>2, <2>1, RemoveAtEntries
<1>5. locals'[f][k] = s
  BY <1>0, <1>3
<1> QED BY <1>1, <1>3, <1>4, <1>5

\* All members of a federate are forgotten.
LEMMA ForgottenEntries ==
  ASSUME TypeOK, NEW f, Forgotten(f)
  PROVE  /\ \A g \in Federates : g # f => locals'[g] = locals[g]
         /\ \A k \in Kinds : locals'[f][k] = <<>> /\ DOMAIN locals'[f][k] = {}
<1>1. PICK none : none = [k \in Kinds |-> <<>>]
  OBVIOUS
<1>2. locals' = [locals EXCEPT ![f] = none] /\ f \in Federates
      /\ locals \in [Federates -> [Kinds -> Seq(Local)]]
  BY <1>1 DEF Forgotten, TypeOK
<1>3. locals'[f] = none /\ \A g \in Federates : g # f => locals'[g] = locals[g]
  BY <1>2
<1> QED BY <1>1, <1>3

-----------------------------------------------------------------------------
(* Names.                                                                       *)

\* The names of a federate's local members are its own and were given out.
NamesOwned ==
  \A f \in Federates, k \in Kinds : \A i \in DOMAIN locals[f][k] :
    Owner(locals[f][k][i]) = f /\ locals[f][k][i].name[2] <= issued[f]["names"]

\* No two local members of a federate have one name.
UniqueNames ==
  \A f \in Federates, k, j \in Kinds : \A i \in DOMAIN locals[f][k], m \in DOMAIN locals[f][j] :
    locals[f][k][i].name = locals[f][j][m].name => k = j /\ i = m

\* The parts of a name.
LEMMA NameParts ==
  ASSUME NEW n \in Names
  PROVE  n[1] \in Federates /\ n[2] \in Nat /\ n = <<n[1], n[2]>>
BY DEF Names

\* What the counters of names do.
LEMMA NamesGrow ==
  ASSUME TypeOK, LocalChange
  PROVE  /\ \A g \in Federates : issued[g]["names"] \in Nat /\ issued'[g]["names"] \in Nat
                                 /\ issued[g]["names"] <= issued'[g]["names"]
         /\ \A f, k, l : Created(f, k, l) => issued'[f]["names"] = issued[f]["names"] + 1
<1>1. issued \in [Federates -> [Counters -> Nat]] /\ "names" \in Counters
  BY CounterTypes DEF TypeOK
<1>2. ASSUME NEW f, NEW k, NEW l, Created(f, k, l)
      PROVE  /\ issued'[f]["names"] = issued[f]["names"] + 1
             /\ \A g \in Federates : issued'[g]["names"] = issued[g]["names"] + (IF g = f THEN 1 ELSE 0)
  <2>1. issued' = [issued EXCEPT ![f]["names"] = @ + 1] /\ f \in Federates
    BY <1>2 DEF Created, ReserveName
  <2> QED BY <1>1, <2>1
<1>3. (\E f, k, l : Created(f, k, l)) \/ \A g \in Federates : issued'[g]["names"] = issued[g]["names"]
  BY DEF LocalChange, Replaced, Erased, Forgotten, Untouched
<1> QED BY <1>1, <1>2, <1>3

\* A fresh name is nobody's.
LEMMA FreshNames ==
  ASSUME TypeOK, NamesOwned, NEW f \in Federates
  PROVE  /\ Fresh(f)[1] = f /\ Fresh(f)[2] = issued[f]["names"] + 1
         /\ \A k \in Kinds : \A i \in DOMAIN locals[f][k] : locals[f][k][i].name # Fresh(f)
<1>1. Fresh(f)[1] = f /\ Fresh(f)[2] = issued[f]["names"] + 1
  BY DEF Fresh
<1>2. ASSUME NEW k \in Kinds, NEW i \in DOMAIN locals[f][k] PROVE locals[f][k][i].name # Fresh(f)
  <2>1. locals[f][k][i].name[2] <= issued[f]["names"] /\ locals[f][k][i].name \in Names
    BY LocalTypes DEF NamesOwned
  <2>2. locals[f][k][i].name[2] \in Nat /\ issued[f]["names"] \in Nat
    BY <2>1, NameParts, CounterTypes, CounterValues
  <2>3. locals[f][k][i].name[2] # issued[f]["names"] + 1
    BY <2>1, <2>2
  <2> QED BY <1>1, <2>3
<1> QED BY <1>1, <1>2

\* Names stay owned and unique, whatever happens to the local members.
LEMMA NamesStep ==
  ASSUME TypeOK, NamesOwned, UniqueNames, LocalChange
  PROVE  NamesOwned' /\ UniqueNames'
<1>0. \A g \in Federates, j \in Kinds : \A m \in DOMAIN locals[g][j] :
        locals[g][j][m].name[2] \in Nat
  BY LocalTypes, NameParts
<1>1. /\ \A g \in Federates : issued[g]["names"] \in Nat /\ issued'[g]["names"] \in Nat
                              /\ issued[g]["names"] <= issued'[g]["names"]
      /\ \A f, k, l : Created(f, k, l) => issued'[f]["names"] = issued[f]["names"] + 1
  BY NamesGrow
<1>2. \A g \in Federates, j \in Kinds : \A m \in DOMAIN locals[g][j] :
        Owner(locals[g][j][m]) = g /\ locals[g][j][m].name[2] <= issued'[g]["names"]
  BY <1>0, <1>1 DEF NamesOwned
<1>3. ASSUME NEW f, NEW k, NEW i, NEW l, NEW r, Replaced(f, k, i, l, r)
      PROVE  NamesOwned' /\ UniqueNames'
  <2>1. \A g \in Federates, j \in Kinds :
          /\ DOMAIN locals'[g][j] = DOMAIN locals[g][j]
          /\ \A m \in DOMAIN locals[g][j] : locals'[g][j][m].name = locals[g][j][m].name
    BY <1>3, ReplacedEntries DEF Replaced
  <2> QED BY <1>2, <2>1 DEF NamesOwned, UniqueNames, Owner
<1>4. ASSUME NEW f, NEW k, NEW l, Created(f, k, l)
      PROVE  NamesOwned' /\ UniqueNames'
  <2>0. f \in Federates /\ k \in Kinds /\ l.name = Fresh(f)
    BY <1>4 DEF Created
  <2>1. /\ l.name[1] = f /\ l.name[2] = issued'[f]["names"]
        /\ \A j \in Kinds : \A m \in DOMAIN locals[f][j] : locals[f][j][m].name # l.name
    BY <1>1, <1>4, <2>0, FreshNames
  <2>2. /\ \A g \in Federates, j \in Kinds : g # f \/ j # k => locals'[g][j] = locals[g][j]
        /\ \A m \in DOMAIN locals'[f][k] :
             \/ m \in DOMAIN locals[f][k] /\ locals'[f][k][m] = locals[f][k][m]
             \/ m \notin DOMAIN locals[f][k] /\ locals'[f][k][m] = l
        /\ \A m, a \in DOMAIN locals'[f][k] :
             m \notin DOMAIN locals[f][k] /\ a \notin DOMAIN locals[f][k] => m = a
    BY <1>4, CreatedEntries
  <2>3. \A g \in Federates, j \in Kinds : \A m \in DOMAIN locals'[g][j] :
          \/ m \in DOMAIN locals[g][j] /\ locals'[g][j][m] = locals[g][j][m]
          \/ g = f /\ j = k /\ m \notin DOMAIN locals[f][k] /\ locals'[g][j][m] = l
    BY <2>2
  <2>4. NamesOwned'
    <3>1. issued'[f]["names"] <= issued'[f]["names"]
      BY <1>1, <2>0
    <3> QED BY <1>2, <2>1, <2>3, <3>1 DEF NamesOwned, Owner
  <2>5. UniqueNames'
    BY <2>1, <2>2, <2>3 DEF UniqueNames
  <2> QED BY <2>4, <2>5
<1>5. ASSUME NEW f, NEW k, NEW n, Erased(f, k, n)
      PROVE  NamesOwned' /\ UniqueNames'
  <2>1. /\ \A g \in Federates, j \in Kinds : g # f \/ j # k => locals'[g][j] = locals[g][j]
        /\ \A m \in DOMAIN locals'[f][k] :
             \E a \in DOMAIN locals[f][k] : locals'[f][k][m] = locals[f][k][a]
        /\ \A m, o \in DOMAIN locals'[f][k] : m # o =>
             \E a, b \in DOMAIN locals[f][k] :
               a # b /\ locals'[f][k][m] = locals[f][k][a] /\ locals'[f][k][o] = locals[f][k][b]
    BY <1>5, ErasedEntries
  <2>2. \A g \in Federates, j \in Kinds : \A m \in DOMAIN locals'[g][j] :
          \E a \in DOMAIN locals[g][j] : locals'[g][j][m] = locals[g][j][a]
    BY <2>1
  <2>3. NamesOwned'
    BY <1>2, <2>2 DEF NamesOwned
  <2>4. UniqueNames'
    <3> SUFFICES ASSUME NEW g \in Federates, NEW j \in Kinds, NEW c \in Kinds,
                        NEW m \in DOMAIN locals'[g][j], NEW o \in DOMAIN locals'[g][c],
                        locals'[g][j][m].name = locals'[g][c][o].name
                 PROVE  j = c /\ m = o
      BY DEF UniqueNames
    <3>1. j = c
      BY <2>2 DEF UniqueNames
    <3>2. CASE g = f /\ j = k
      BY <2>1, <3>1, <3>2 DEF UniqueNames
    <3>3. CASE ~(g = f /\ j = k)
      BY <2>1, <3>1, <3>3 DEF UniqueNames
    <3> QED BY <3>1, <3>2, <3>3
  <2> QED BY <2>3, <2>4
<1>6. ASSUME NEW f, Forgotten(f) PROVE NamesOwned' /\ UniqueNames'
  <2>1. \A g \in Federates, j \in Kinds : \A m \in DOMAIN locals'[g][j] : locals'[g] = locals[g]
    BY <1>6, ForgottenEntries
  <2> QED BY <1>2, <2>1 DEF NamesOwned, UniqueNames
<1>7. CASE Untouched
  BY <1>2, <1>7 DEF NamesOwned, UniqueNames, Untouched
<1> QED BY <1>3, <1>4, <1>5, <1>6, <1>7 DEF LocalChange

-----------------------------------------------------------------------------
(* Registrations.                                                               *)

\* What is left of a queue or a buffer, two of them one after the other, one with one more.
LEMMA TailEntries ==
  ASSUME NEW S, NEW s \in Seq(S), s # <<>>
  PROVE  /\ Tail(s) \in Seq(S)
         /\ \A i \in DOMAIN Tail(s) : i + 1 \in DOMAIN s /\ i \in Nat /\ Tail(s)[i] = s[i + 1]
<1>1. PICK q : q = Tail(s)
  OBVIOUS
<1>2. /\ q \in Seq(S) /\ Len(q) = Len(s) - 1 /\ Len(s) \in Nat
      /\ \A i \in 1..Len(q) : q[i] = s[i + 1]
  BY <1>1, HeadTailProperties, LenProperties
<1>3. DOMAIN q = 1..Len(q) /\ DOMAIN s = 1..Len(s)
  BY <1>2, LenProperties
<1> QED BY <1>1, <1>2, <1>3

\* Two sequences, one after the other.
LEMMA ConcatEntries ==
  ASSUME NEW S, NEW s \in Seq(S), NEW t \in Seq(S)
  PROVE  /\ s \o t \in Seq(S)
         /\ \A i \in DOMAIN (s \o t) :
              \/ i \in DOMAIN s /\ (s \o t)[i] = s[i]
              \/ i \notin DOMAIN s /\ i - Len(s) \in DOMAIN t /\ (s \o t)[i] = t[i - Len(s)]
         /\ \A i \in DOMAIN s : i \in DOMAIN (s \o t)
         /\ \A j \in DOMAIN t : Len(s) + j \in DOMAIN (s \o t) /\ (s \o t)[Len(s) + j] = t[j]
<1>1. PICK q : q = s \o t
  OBVIOUS
<1>2. /\ q \in Seq(S) /\ Len(q) = Len(s) + Len(t)
      /\ \A i \in 1..(Len(s) + Len(t)) : q[i] = IF i <= Len(s) THEN s[i] ELSE t[i - Len(s)]
  BY <1>1, ConcatProperties
<1>3. /\ DOMAIN q = 1..(Len(s) + Len(t)) /\ DOMAIN s = 1..Len(s) /\ DOMAIN t = 1..Len(t)
      /\ Len(s) \in Nat /\ Len(t) \in Nat
  BY <1>2, LenProperties
<1>4. ASSUME NEW i \in DOMAIN q
      PROVE  \/ i \in DOMAIN s /\ q[i] = s[i]
             \/ i \notin DOMAIN s /\ i - Len(s) \in DOMAIN t /\ q[i] = t[i - Len(s)]
  BY <1>2, <1>3
<1>5. ASSUME NEW j \in DOMAIN t
      PROVE  Len(s) + j \in DOMAIN q /\ q[Len(s) + j] = t[j]
  <2>1. Len(s) + j \in 1..(Len(s) + Len(t)) /\ ~(Len(s) + j <= Len(s)) /\ (Len(s) + j) - Len(s) = j
    BY <1>3
  <2> QED BY <1>2, <1>3, <2>1
<1>6. \A i \in DOMAIN s : i \in DOMAIN q
  BY <1>3
<1> QED BY <1>1, <1>2, <1>4, <1>5, <1>6

\* One more.
LEMMA AppendEntries ==
  ASSUME NEW S, NEW s \in Seq(S), NEW x \in S
  PROVE  /\ Append(s, x) \in Seq(S)
         /\ \A i \in DOMAIN Append(s, x) :
              \/ i \in DOMAIN s /\ Append(s, x)[i] = s[i]
              \/ i \notin DOMAIN s /\ i = Len(s) + 1 /\ Append(s, x)[i] = x
         /\ \A i \in DOMAIN s : i \in DOMAIN Append(s, x)
         /\ Len(s) + 1 \in DOMAIN Append(s, x) /\ Append(s, x)[Len(s) + 1] = x
<1>1. PICK q : q = Append(s, x)
  OBVIOUS
<1>2. /\ q \in Seq(S) /\ Len(q) = Len(s) + 1 /\ q[Len(s) + 1] = x
      /\ \A i \in 1..Len(s) : q[i] = s[i]
  BY <1>1, AppendProperties
<1>3. /\ DOMAIN q = 1..(Len(s) + 1) /\ DOMAIN s = 1..Len(s) /\ Len(s) \in Nat
  BY <1>2, LenProperties
<1>4. \A i \in DOMAIN q : (i \in DOMAIN s /\ q[i] = s[i]) \/ (i \notin DOMAIN s /\ i = Len(s) + 1 /\ q[i] = x)
  BY <1>2, <1>3
<1>5. Len(s) + 1 \in DOMAIN q /\ \A i \in DOMAIN s : i \in DOMAIN q
  BY <1>3
<1> QED BY <1>1, <1>2, <1>4, <1>5

\* Where the persistent registrations of a source come from: they were there, are new, or
\* have taken the last data of the source of their handle when the federate left.
PersistentOrigin(f, r) ==
  \/ \E j \in DOMAIN persistent[f]["source"] : r = persistent[f]["source"][j]
  \/ r.last = 0
  \/ \E j \in DOMAIN locals[f]["source"] :
       r.handle \in Handles /\ locals[f]["source"][j].name = byHandle[f][r.handle]
       /\ r.last = locals[f]["source"][j].last

\* ... and the buffered ones.
BufferedOrigin(f, r) ==
  \/ \E j \in DOMAIN buffered[f]["source"] : r = buffered[f]["source"][j]
  \/ \E j \in DOMAIN persistent[f]["source"] : r = persistent[f]["source"][j]
  \/ r.last = 0

Origins ==
  \A g \in Federates :
    /\ \A i \in DOMAIN persistent'[g]["source"] : PersistentOrigin(g, persistent'[g]["source"][i])
    /\ \A i \in DOMAIN buffered'[g]["source"] : BufferedOrigin(g, buffered'[g]["source"][i])

\* A federate leaves.
LEMMA ResetOrigins ==
  ASSUME TypeInv, NEW f \in Federates, Reset(f)
  PROVE  Origins
<1>0. /\ TypeOK /\ IsFiniteSet(objects) /\ "source" \in Kinds
      /\ persistent \in [Federates -> [Kinds -> Seq(Registration)]]
      /\ buffered \in [Federates -> [Kinds -> Seq(Registration)]]
  BY CounterTypes DEF TypeInv, TypeOK
<1>1. PICK out : ResetStep(f, out)
  BY <1>0, ResetSteps
<1>2. PICK q, none : q = KeepLastData(f) /\ none = [k \in Kinds |-> <<>>]
  OBVIOUS
<1>3. /\ persistent' = [persistent EXCEPT ![f]["source"] = q] /\ buffered' = [buffered EXCEPT ![f] = none]
  BY <1>1, <1>2 DEF ResetStep
<1>4. /\ q \in Seq(Registration) /\ Len(q) = Len(persistent[f]["source"])
      /\ \A i \in DOMAIN persistent[f]["source"] :
           \/ q[i] = persistent[f]["source"][i]
           \/ \E j \in DOMAIN locals[f]["source"] :
                /\ locals[f]["source"][j].name = byHandle[f][persistent[f]["source"][i].handle]
                /\ q[i].last = locals[f]["source"][j].last
                /\ q[i].handle = persistent[f]["source"][i].handle
  BY <1>0, <1>2, KeptFacts
<1>5. \A g \in Federates : persistent'[g]["source"] = IF g = f THEN q ELSE persistent[g]["source"]
  BY <1>0, <1>3, <1>4, ExceptTypes
<1>6. \A g \in Federates : buffered'[g]["source"] = IF g = f THEN <<>> ELSE buffered[g]["source"]
  BY <1>0, <1>2, <1>3
<1>7. DOMAIN q = DOMAIN persistent[f]["source"]
  BY <1>0, <1>4, LenProperties
<1>8. \A i \in DOMAIN q : q[i].handle \in Handles
  <2>1. \A i \in DOMAIN q : q[i] \in Registration
    BY <1>4, ElementOfSeq, LenProperties
  <2> QED BY <2>1 DEF Registration
<1>9. ASSUME NEW g \in Federates, NEW i \in DOMAIN persistent'[g]["source"]
      PROVE  PersistentOrigin(g, persistent'[g]["source"][i])
  <2>1. CASE g = f
    <3>1. i \in DOMAIN q /\ persistent'[g]["source"][i] = q[i]
      BY <1>5, <2>1
    <3> QED BY <1>4, <1>7, <1>8, <2>1, <3>1 DEF PersistentOrigin
  <2>2. CASE g # f
    BY <1>5, <1>9, <2>2 DEF PersistentOrigin
  <2> QED BY <2>1, <2>2
<1>10. ASSUME NEW g \in Federates, NEW i \in DOMAIN buffered'[g]["source"]
       PROVE  BufferedOrigin(g, buffered'[g]["source"][i])
  BY <1>6, <1>10 DEF BufferedOrigin
<1> QED BY <1>9, <1>10 DEF Origins

\* Every step.
LEMMA OriginsStep ==
  ASSUME TypeInv, [Next]_vars
  PROVE  Origins
<1>0. /\ TypeOK /\ IsFiniteSet(objects) /\ "source" \in Kinds /\ "target" \in Kinds
      /\ persistent \in [Federates -> [Kinds -> Seq(Registration)]]
      /\ buffered \in [Federates -> [Kinds -> Seq(Registration)]]
  BY CounterTypes DEF TypeInv, TypeOK
<1>1. ASSUME NEW f \in Federates, NEW k \in Kinds, NEW p, NEW b,
             p \in Seq(Registration), b \in Seq(Registration),
             UNCHANGED persistent \/ persistent' = [persistent EXCEPT ![f][k] = p],
             UNCHANGED buffered \/ buffered' = [buffered EXCEPT ![f][k] = b],
             k = "source" => \A i \in DOMAIN p : PersistentOrigin(f, p[i]),
             k = "source" => \A i \in DOMAIN b : BufferedOrigin(f, b[i])
      PROVE  Origins
  <2>1. \A g \in Federates : \/ persistent'[g]["source"] = persistent[g]["source"]
                             \/ g = f /\ k = "source" /\ persistent'[g]["source"] = p
    <3>1. CASE UNCHANGED persistent
      BY <3>1
    <3>2. CASE persistent' = [persistent EXCEPT ![f][k] = p]
      BY <1>0, <1>1, <3>2, ExceptTypes
    <3> QED BY <1>1, <3>1, <3>2
  <2>2. \A g \in Federates : \/ buffered'[g]["source"] = buffered[g]["source"]
                             \/ g = f /\ k = "source" /\ buffered'[g]["source"] = b
    <3>1. CASE UNCHANGED buffered
      BY <3>1
    <3>2. CASE buffered' = [buffered EXCEPT ![f][k] = b]
      BY <1>0, <1>1, <3>2, ExceptTypes
    <3> QED BY <1>1, <3>1, <3>2
  <2>3. \A g \in Federates : \A i \in DOMAIN persistent[g]["source"] :
          PersistentOrigin(g, persistent[g]["source"][i])
    BY DEF PersistentOrigin
  <2>4. \A g \in Federates : \A i \in DOMAIN buffered[g]["source"] :
          BufferedOrigin(g, buffered[g]["source"][i])
    BY DEF BufferedOrigin
  <2>5. ASSUME NEW g \in Federates, NEW i \in DOMAIN persistent'[g]["source"]
        PROVE  PersistentOrigin(g, persistent'[g]["source"][i])
    BY <1>1, <2>1, <2>3, <2>5
  <2>6. ASSUME NEW g \in Federates, NEW i \in DOMAIN buffered'[g]["source"]
        PROVE  BufferedOrigin(g, buffered'[g]["source"][i])
    BY <1>1, <2>2, <2>4, <2>6
  <2> QED BY <2>5, <2>6 DEF Origins
<1>2. \A f \in Federates, k \in Kinds :
        /\ persistent[f][k] \in Seq(Registration) /\ buffered[f][k] \in Seq(Registration)
        /\ \A i \in DOMAIN persistent[f]["source"] : PersistentOrigin(f, persistent[f]["source"][i])
        /\ \A i \in DOMAIN buffered[f]["source"] : BufferedOrigin(f, buffered[f]["source"][i])
  BY <1>0 DEF PersistentOrigin, BufferedOrigin
<1>3. CASE UNCHANGED <<persistent, buffered>>
  BY <1>3 DEF Origins, PersistentOrigin, BufferedOrigin
<1>4. ASSUME NEW f \in Federates, NEW k \in Kinds, UNCHANGED persistent, buffered[f][k] # <<>>,
             buffered' = [buffered EXCEPT ![f][k] = Tail(@)]
      PROVE  Origins
  <2>1. PICK b : b = Tail(buffered[f][k])
    OBVIOUS
  <2>2. b \in Seq(Registration) /\ \A i \in DOMAIN b : i + 1 \in DOMAIN buffered[f][k]
                                                      /\ b[i] = buffered[f][k][i + 1]
    BY <1>2, <1>4, <2>1, TailEntries
  <2>3. buffered' = [buffered EXCEPT ![f][k] = b]
    BY <1>0, <1>4, <2>1
  <2>4. k = "source" => \A i \in DOMAIN b : BufferedOrigin(f, b[i])
    BY <2>2 DEF BufferedOrigin
  <2>5. PICK p : p = persistent[f][k]
    OBVIOUS
  <2>6. p \in Seq(Registration) /\ (k = "source" => \A i \in DOMAIN p : PersistentOrigin(f, p[i]))
    BY <1>2, <2>5
  <2> QED BY <1>1, <1>4, <2>2, <2>3, <2>4, <2>6
<1>5. ASSUME NEW f \in Federates, OnJoined(f) PROVE Origins
  <2>1. PICK out : JoinStep(f, out)
    BY <1>0, <1>5, JoinSteps
  <2>2. /\ \A k \in Kinds : buffered'[f][k] = buffered[f][k] \o persistent[f][k]
        /\ \A g \in Federates : g # f => buffered'[g] = buffered[g]
        /\ UNCHANGED persistent
    BY <2>1 DEF JoinStep
  <2>3. PICK b, p, c : b = buffered[f]["source"] /\ p = persistent[f]["source"] /\ c = b \o p
    OBVIOUS
  <2>4. \A i \in DOMAIN c : BufferedOrigin(f, c[i])
    <3>1. b \in Seq(Registration) /\ p \in Seq(Registration)
      BY <1>0, <1>2, <2>3
    <3>2. \A i \in DOMAIN c : \/ i \in DOMAIN b /\ c[i] = b[i]
                              \/ i - Len(b) \in DOMAIN p /\ c[i] = p[i - Len(b)]
      <4>1. \A i \in DOMAIN (b \o p) : \/ i \in DOMAIN b /\ (b \o p)[i] = b[i]
                                       \/ i \notin DOMAIN b /\ i - Len(b) \in DOMAIN p
                                          /\ (b \o p)[i] = p[i - Len(b)]
        BY <3>1, ConcatEntries
      <4>2. c = b \o p
        BY <2>3
      <4> QED BY <4>1, <4>2
    <3> QED BY <2>3, <3>2 DEF BufferedOrigin
  <2>5. ASSUME NEW g \in Federates, NEW i \in DOMAIN buffered'[g]["source"]
        PROVE  BufferedOrigin(g, buffered'[g]["source"][i])
    <3>1. CASE g = f
      BY <1>0, <2>2, <2>3, <2>4, <2>5, <3>1
    <3>2. CASE g # f
      BY <1>0, <1>2, <2>2, <2>5, <3>2
    <3> QED BY <3>1, <3>2
  <2>6. \A g \in Federates : \A i \in DOMAIN persistent'[g]["source"] :
          PersistentOrigin(g, persistent'[g]["source"][i])
    BY <1>0, <1>2, <2>2
  <2> QED BY <2>5, <2>6 DEF Origins
<1>6. ASSUME NEW f \in Federates, NEW k \in Kinds, Register(f, k) PROVE Origins
  <2>1. PICK r : RegisterStep(f, k, r)
    BY <1>0, <1>6, RegisterSteps
  <2>2. PICK p, b : p = Append(persistent[f][k], r) /\ b = Append(buffered[f][k], r)
    OBVIOUS
  <2>3. /\ r \in Registration /\ r.last = 0
        /\ persistent' = [persistent EXCEPT ![f][k] = p]
        /\ UNCHANGED buffered \/ buffered' = [buffered EXCEPT ![f][k] = b]
    BY <2>1, <2>2 DEF RegisterStep
  <2>4. /\ p \in Seq(Registration)
        /\ \A i \in DOMAIN p : p[i] = r \/ (i \in DOMAIN persistent[f][k] /\ p[i] = persistent[f][k][i])
    BY <1>2, <2>2, <2>3, AppendEntries
  <2>5. /\ b \in Seq(Registration)
        /\ \A i \in DOMAIN b : b[i] = r \/ (i \in DOMAIN buffered[f][k] /\ b[i] = buffered[f][k][i])
    BY <1>2, <2>2, <2>3, AppendEntries
  <2>6. k = "source" => \A i \in DOMAIN p : PersistentOrigin(f, p[i])
    BY <2>3, <2>4 DEF PersistentOrigin
  <2>7. k = "source" => \A i \in DOMAIN b : BufferedOrigin(f, b[i])
    BY <2>3, <2>5 DEF BufferedOrigin
  <2> QED BY <1>1, <2>3, <2>4, <2>5, <2>6, <2>7
<1>7. ASSUME NEW f \in Federates, NEW k \in Kinds, NEW h \in Handles, Unregister(f, k, h)
      PROVE  Origins
  <2>1. PICK n : UnregisterStep(f, k, h, n)
    BY <1>0, <1>7, UnregisterSteps
  <2>2. PICK p : p = RemoveAt(persistent[f][k], n)
    OBVIOUS
  <2>3. n \in DOMAIN persistent[f][k] /\ persistent' = [persistent EXCEPT ![f][k] = p]
    BY <2>1, <2>2 DEF UnregisterStep
  <2>4. p \in Seq(Registration)
        /\ \A i \in DOMAIN p : \E j \in DOMAIN persistent[f][k] : p[i] = persistent[f][k][j]
    BY <1>2, <2>2, <2>3, RemoveAtFacts, RemoveAtEntries
  <2>5. k = "source" => \A i \in DOMAIN p : PersistentOrigin(f, p[i])
    BY <2>4 DEF PersistentOrigin
  <2>6. CASE UNCHANGED buffered
    BY <1>1, <1>2, <2>3, <2>4, <2>5, <2>6
  <2>7. ASSUME NEW m, EraseEntry(f, k, h, m) PROVE Origins
    <3>1. PICK b : b = RemoveAt(buffered[f][k], m)
      OBVIOUS
    <3>2. m \in DOMAIN buffered[f][k] /\ buffered' = [buffered EXCEPT ![f][k] = b]
      BY <2>7, <3>1 DEF EraseEntry
    <3>3. b \in Seq(Registration)
          /\ \A i \in DOMAIN b : \E j \in DOMAIN buffered[f][k] : b[i] = buffered[f][k][j]
      BY <1>2, <3>1, <3>2, RemoveAtFacts, RemoveAtEntries
    <3>4. k = "source" => \A i \in DOMAIN b : BufferedOrigin(f, b[i])
      BY <3>3 DEF BufferedOrigin
    <3> QED BY <1>1, <2>3, <2>4, <2>5, <3>2, <3>3, <3>4
  <2> QED BY <2>1, <2>6, <2>7 DEF UnregisterStep, EraseNothing, EraseMember
<1>8. ASSUME NEW f \in Federates, ProcessTargets(f) \/ ProcessSources(f) PROVE Origins
  <2>1. CASE UNCHANGED <<persistent, buffered>>
    BY <1>3, <2>1
  <2>2. CASE \E k \in Kinds : /\ UNCHANGED persistent /\ buffered[f][k] # <<>>
                              /\ buffered' = [buffered EXCEPT ![f][k] = Tail(@)]
    BY <1>4, <2>2
  <2> QED BY <1>0, <1>8, <2>1, <2>2 DEF ProcessTargets, ProcessSources
<1>9. CASE \E f \in Federates : \/ EnterInitFederate(f) \/ MeasurementStarts(f)
                                \/ WaitForSingleEvent(f) \/ EndProcessBuffers(f)
                                \/ EvokeCallbacks(f) \/ EvokeWhileWaiting(f)
                                \/ BufferedTransmitDOMember(f)
                                \/ \E h \in Handles : TransmitDOMember(f, h)
  <2>1. UNCHANGED <<persistent, buffered>>
    BY <1>9 DEF EnterInitFederate, MeasurementStarts, WaitForSingleEvent, EndProcessBuffers,
                EvokeCallbacks, EvokeWhileWaiting, evokeCallback, keptByCallbacks,
                BufferedTransmitDOMember, TransmitDOMember, regVars
  <2> QED BY <1>3, <2>1
<1>10. CASE UNCHANGED vars
  BY <1>3, <1>10 DEF vars, regVars
<1> QED BY <1>0, <1>5, <1>6, <1>7, <1>8, <1>9, <1>10, ResetOrigins
        DEF Next, Thread, Application, ProcessBuffers

-----------------------------------------------------------------------------
(* Values: what is in the buffer of transmissions is newer than what was sent     *)
(* through its handle, which is not older than what a source of the handle holds, *)
(* which is not older than what was written of it.                                *)

\* What a local member holds is not older than what was written of its name, and is just
\* that once it has an HLA object; it was transmitted through its handle.
LocalValues ==
  \A f \in Federates, k \in Kinds : \A i \in DOMAIN locals[f][k] :
    /\ written[locals[f][k][i].name] <= locals[f][k][i].last
    /\ locals[f][k][i].registered => written[locals[f][k][i].name] = locals[f][k][i].last
    /\ k = "target" => locals[f][k][i].last = 0
    /\ k = "source" => locals[f][k][i].last <= lastSent[f][locals[f][k][i].handle]

\* Nothing was written of a name that was not given out.
FreshUnwritten ==
  \A n \in Names : n[2] > issued[n[1]]["names"] => written[n] = 0

\* Transmissions wait in their order, behind what was sent.
TransmitOrder ==
  \A f \in Federates :
    /\ \A i \in DOMAIN toTransmit[f] :
         /\ lastSent[f][toTransmit[f][i].handle] < toTransmit[f][i].value
         /\ toTransmit[f][i].value <= issued[f]["values"]
    /\ \A i, j \in DOMAIN toTransmit[f] : i < j => toTransmit[f][i].value < toTransmit[f][j].value
    /\ \A h \in Handles : lastSent[f][h] <= issued[f]["values"]

\* The data kept with a registration was transmitted through its handle.
LastOfRegistrations ==
  \A f \in Federates :
    /\ \A i \in DOMAIN persistent[f]["source"] :
         persistent[f]["source"][i].last <= lastSent[f][persistent[f]["source"][i].handle]
    /\ \A i \in DOMAIN buffered[f]["source"] :
         buffered[f]["source"][i].last <= lastSent[f][buffered[f]["source"][i].handle]

ValuesInv == NamesOwned /\ UniqueNames /\ LocalValues /\ FreshUnwritten /\ TransmitOrder
             /\ LastOfRegistrations

\* What values are.
LEMMA ValueTypes ==
  ASSUME TypeOK
  PROVE  /\ \A n \in Names : written[n] \in Nat
         /\ \A f \in Federates, h \in Handles : lastSent[f][h] \in Nat
         /\ \A f \in Federates, k \in Kinds : \A i \in DOMAIN locals[f][k] : locals[f][k][i].last \in Nat
         /\ \A f \in Federates, k \in Kinds : \A i \in DOMAIN persistent[f][k] :
              persistent[f][k][i].last \in Nat /\ persistent[f][k][i].handle \in Handles
         /\ \A f \in Federates, k \in Kinds : \A i \in DOMAIN buffered[f][k] :
              buffered[f][k][i].last \in Nat /\ buffered[f][k][i].handle \in Handles
         /\ \A f \in Federates : \A i \in DOMAIN toTransmit[f] :
              i \in Nat /\ toTransmit[f][i].value \in Nat /\ toTransmit[f][i].handle \in Handles
         /\ \A f \in Federates : issued[f]["values"] \in Nat
<1>1. \A v \in 0..MaxValues : v \in Nat
  BY Bounds
<1>2. \A n \in Names : written[n] \in Nat
  BY <1>1 DEF TypeOK
<1>3. \A f \in Federates, h \in Handles : lastSent[f][h] \in Nat
  BY <1>1 DEF TypeOK
<1>4. \A f \in Federates, k \in Kinds : \A i \in DOMAIN locals[f][k] : locals[f][k][i].last \in Nat
  BY <1>1, LocalTypes
<1>5. ASSUME NEW s \in Seq(Registration), NEW i \in DOMAIN s
      PROVE  s[i].last \in Nat /\ s[i].handle \in Handles
  <2>1. s[i] \in Registration
    BY LenProperties, ElementOfSeq
  <2> QED BY <1>1, <2>1 DEF Registration
<1>6. \A f \in Federates, k \in Kinds : /\ persistent[f][k] \in Seq(Registration)
                                        /\ buffered[f][k] \in Seq(Registration)
  BY DEF TypeOK
<1>7. ASSUME NEW f \in Federates, NEW i \in DOMAIN toTransmit[f]
      PROVE  i \in Nat /\ toTransmit[f][i].value \in Nat /\ toTransmit[f][i].handle \in Handles
  <2>1. toTransmit[f] \in Seq(Transmission)
    BY DEF TypeOK, Transmission
  <2>2. i \in Nat /\ toTransmit[f][i] \in Transmission
    BY <2>1, LenProperties, ElementOfSeq
  <2> QED BY <2>2, Bounds DEF Transmission
<1>8. \A f \in Federates : issued[f]["values"] \in Nat
  BY CounterTypes, CounterValues
<1> QED BY <1>2, <1>3, <1>4, <1>5, <1>6, <1>7, <1>8

\* The source a handle stands for is the one with the handle.
LEMMA HandleOfName ==
  ASSUME TypeOK, HandlesKnown, UniqueNames, NEW f \in Federates, NEW h \in Handles,
         NEW i \in DOMAIN locals[f]["source"], locals[f]["source"][i].name = byHandle[f][h]
  PROVE  locals[f]["source"][i].handle = h /\ locals[f]["source"][i].registered
<1>1. byHandle[f][h] # NoName /\ "source" \in Kinds
  BY LocalTypes, NoNameIsNoName, CounterTypes
<1>2. PICK j \in DOMAIN locals[f]["source"] :
        /\ locals[f]["source"][j].name = byHandle[f][h]
        /\ locals[f]["source"][j].handle = h /\ locals[f]["source"][j].registered
  BY <1>1 DEF HandlesKnown
<1>3. i = j
  BY <1>1, <1>2 DEF UniqueNames
<1> QED BY <1>2, <1>3

\* What is transmitted is newer than what its source holds.
LEMMA TransmitNewer ==
  ASSUME TypeOK, HandlesKnown, UniqueNames, LocalValues, TransmitOrder,
         NEW f \in Federates, NEW n, NEW t, NEW i, NEW l, TransmitStep(f, n, t, i, l)
  PROVE  /\ l.handle = t.handle /\ l.registered /\ t.value \in Nat
         /\ lastSent[f][t.handle] < t.value /\ written[l.name] < t.value
         /\ t.value <= issued[f]["values"]
         /\ \A g \in Federates, h \in Handles :
              /\ lastSent'[g][h] = IF g = f /\ h = t.handle THEN t.value ELSE lastSent[g][h]
              /\ lastSent[g][h] <= lastSent'[g][h]
<1>1. /\ n \in DOMAIN toTransmit[f] /\ t = toTransmit[f][n] /\ t.handle \in Handles
      /\ i \in DOMAIN locals[f]["source"] /\ l = locals[f]["source"][i] /\ l.name \in Names
      /\ l.name = byHandle[f][t.handle]
      /\ lastSent' = [lastSent EXCEPT ![f][t.handle] = t.value] /\ "source" \in Kinds
  BY CounterTypes DEF TransmitStep
<1>2. l.handle = t.handle /\ l.registered
  BY <1>1, HandleOfName
<1>3. /\ t.value \in Nat /\ lastSent[f][t.handle] < t.value /\ t.value <= issued[f]["values"]
      /\ lastSent[f][t.handle] \in Nat
  BY <1>1, ValueTypes DEF TransmitOrder
<1>4. written[l.name] < t.value
  <2>1. written[l.name] <= l.last /\ l.last <= lastSent[f][t.handle]
    BY <1>1, <1>2 DEF LocalValues
  <2>2. written[l.name] \in Nat /\ l.last \in Nat
    BY <1>1, ValueTypes
  <2> QED BY <1>3, <2>1, <2>2
<1>5. lastSent \in [Federates -> [Handles -> 0..MaxValues]]
  BY DEF TypeOK
<1>6. \A g \in Federates, h \in Handles :
        lastSent'[g][h] = IF g = f /\ h = t.handle THEN t.value ELSE lastSent[g][h]
  BY <1>1, <1>5
<1>7. \A g \in Federates, h \in Handles : lastSent[g][h] <= lastSent'[g][h]
  <2>1. \A g \in Federates, h \in Handles : lastSent[g][h] \in Nat
    BY ValueTypes
  <2> QED BY <1>3, <1>6, <2>1
<1> QED BY <1>2, <1>3, <1>4, <1>6, <1>7

\* What the steps do to what was written and sent: a name and a handle get newer values.
LEMMA ValuesGrow ==
  ASSUME TypeOK, HandlesKnown, ValuesInv, LocalChange
  PROVE  /\ \A g \in Federates, h \in Handles : lastSent[g][h] <= lastSent'[g][h]
                                                /\ lastSent'[g][h] \in Nat
         /\ \A n \in Names : written[n] <= written'[n] /\ written'[n] \in Nat
         /\ \A f, k, i, l, r : Replaced(f, k, i, l, r) =>
              /\ l.name \in Names /\ r.last \in Nat
              /\ \A n \in Names : written'[n] = IF n = l.name THEN r.last ELSE written[n]
              /\ r.registered /\ (k = "target" => r.last = 0)
              /\ k = "source" => r.last <= lastSent'[f][r.handle]
<1>0. /\ \A n \in Names : written[n] \in Nat
      /\ \A f \in Federates, h \in Handles : lastSent[f][h] \in Nat
      /\ written \in [Names -> 0..MaxValues]
  BY ValueTypes DEF TypeOK
<1>1. ASSUME NEW f, NEW k, NEW i, NEW l, NEW r, Replaced(f, k, i, l, r)
      PROVE  /\ \A g \in Federates, h \in Handles : lastSent[g][h] <= lastSent'[g][h]
                                                    /\ lastSent'[g][h] \in Nat
             /\ l.name \in Names /\ r.last \in Nat /\ written[l.name] <= r.last
             /\ \A n \in Names : written'[n] = IF n = l.name THEN r.last ELSE written[n]
             /\ r.registered /\ (k = "target" => r.last = 0)
             /\ k = "source" => r.last <= lastSent'[f][r.handle]
  <2>1. /\ f \in Federates /\ k \in Kinds /\ i \in DOMAIN locals[f][k] /\ l = locals[f][k][i]
        /\ l \in Local /\ r \in Local /\ r.name = l.name /\ r.handle = l.handle
        /\ (l.registered => r.registered) /\ written' = [written EXCEPT ![l.name] = r.last]
    BY <1>1 DEF Replaced
  <2>2. l.name \in Names /\ r.last \in Nat /\ l.last \in Nat /\ l.handle \in Handles
    BY <2>1, Bounds DEF Local
  <2>3. \A n \in Names : written'[n] = IF n = l.name THEN r.last ELSE written[n]
    BY <1>0, <2>1, <2>2
  <2>4. CASE r.registered /\ r.last = l.last /\ UNCHANGED lastSent
    BY <1>0, <2>1, <2>2, <2>3, <2>4 DEF ValuesInv, LocalValues
  <2>5. ASSUME NEW n, NEW t, k = "source", TransmitStep(f, n, t, i, l), r.last = t.value
        PROVE  /\ \A g \in Federates, h \in Handles : lastSent[g][h] <= lastSent'[g][h]
                                                      /\ lastSent'[g][h] \in Nat
               /\ written[l.name] <= r.last /\ r.registered
               /\ r.last <= lastSent'[f][r.handle]
    <3>1. /\ l.handle = t.handle /\ l.registered /\ t.value \in Nat
          /\ written[l.name] < t.value
          /\ \A g \in Federates, h \in Handles :
               /\ lastSent'[g][h] = IF g = f /\ h = t.handle THEN t.value ELSE lastSent[g][h]
               /\ lastSent[g][h] <= lastSent'[g][h]
      BY <2>1, <2>5, TransmitNewer DEF ValuesInv
    <3>2. \A g \in Federates, h \in Handles : lastSent'[g][h] \in Nat
      BY <1>0, <3>1
    <3>3. r.last = lastSent'[f][r.handle] /\ r.last = t.value
      BY <2>1, <2>2, <2>5, <3>1
    <3> QED BY <1>0, <2>1, <2>2, <3>1, <3>2, <3>3
  <2>6. k = "source" => k # "target"
    OBVIOUS
  <2> QED BY <1>1, <2>2, <2>3, <2>4, <2>5, <2>6 DEF Replaced
<1>2. CASE \E f, k, i, l, r : Replaced(f, k, i, l, r)
  BY <1>0, <1>1, <1>2
<1>3. CASE UNCHANGED <<written, lastSent>>
  BY <1>0, <1>1, <1>3
<1> QED BY <1>2, <1>3 DEF LocalChange, Created, Erased, Forgotten, Untouched

\* Local members hold what was written of them.
LEMMA LocalValuesStep ==
  ASSUME TypeOK, HandlesKnown, ValuesInv, LocalChange
  PROVE  LocalValues' /\ FreshUnwritten'
<1>0. /\ \A g \in Federates, h \in Handles : lastSent[g][h] <= lastSent'[g][h]
                                             /\ lastSent'[g][h] \in Nat
      /\ \A n \in Names : written[n] <= written'[n] /\ written'[n] \in Nat
      /\ \A f, k, i, l, r : Replaced(f, k, i, l, r) =>
           /\ l.name \in Names /\ r.last \in Nat
           /\ \A n \in Names : written'[n] = IF n = l.name THEN r.last ELSE written[n]
           /\ r.registered /\ (k = "target" => r.last = 0)
           /\ k = "source" => r.last <= lastSent'[f][r.handle]
      /\ (\E f, k, i, l, r : Replaced(f, k, i, l, r)) \/ UNCHANGED written
  BY ValuesGrow DEF LocalChange, Created, Erased, Forgotten, Untouched
<1>1. /\ \A n \in Names : written[n] \in Nat /\ n[1] \in Federates /\ n[2] \in Nat
      /\ \A f \in Federates, h \in Handles : lastSent[f][h] \in Nat
      /\ \A f \in Federates, k \in Kinds : \A i \in DOMAIN locals[f][k] :
           /\ locals[f][k][i].last \in Nat /\ locals[f][k][i].handle \in Handles
           /\ locals[f][k][i].name \in Names
  BY ValueTypes, LocalTypes, NameParts
<1>2. \A g \in Federates : issued[g]["names"] \in Nat /\ issued'[g]["names"] \in Nat
                           /\ issued[g]["names"] <= issued'[g]["names"]
  BY NamesGrow
\* A member stays all right unless something is written of its name.
<1>3. ASSUME NEW g \in Federates, NEW j \in Kinds, NEW m \in DOMAIN locals[g][j],
             written'[locals[g][j][m].name] = written[locals[g][j][m].name]
      PROVE  /\ written'[locals[g][j][m].name] <= locals[g][j][m].last
             /\ locals[g][j][m].registered => written'[locals[g][j][m].name] = locals[g][j][m].last
             /\ j = "target" => locals[g][j][m].last = 0
             /\ j = "source" => locals[g][j][m].last <= lastSent'[g][locals[g][j][m].handle]
  <2>1. PICK v, a, b : /\ v = locals[g][j][m].last /\ a = lastSent[g][locals[g][j][m].handle]
                       /\ b = lastSent'[g][locals[g][j][m].handle]
    OBVIOUS
  <2>2. v \in Nat /\ a \in Nat /\ b \in Nat /\ a <= b
    BY <1>0, <1>1, <2>1
  <2>3. j = "source" => v <= a
    BY <2>1 DEF ValuesInv, LocalValues
  <2>4. j = "source" => v <= b
    BY <2>2, <2>3
  <2> QED BY <1>3, <2>1, <2>4 DEF ValuesInv, LocalValues
<1>4. FreshUnwritten'
  <2> SUFFICES ASSUME NEW n \in Names, n[2] > issued'[n[1]]["names"] PROVE written'[n] = 0
    BY DEF FreshUnwritten
  <2>1. n[2] > issued[n[1]]["names"]
    BY <1>1, <1>2
  <2>2. written[n] = 0
    BY <2>1 DEF ValuesInv, FreshUnwritten
  <2>3. ASSUME NEW f, NEW k, NEW i, NEW l, NEW r, Replaced(f, k, i, l, r) PROVE n # l.name
    <3>1. f \in Federates /\ k \in Kinds /\ i \in DOMAIN locals[f][k] /\ l = locals[f][k][i]
      BY <2>3 DEF Replaced
    <3>2. l.name[1] = f /\ l.name[2] <= issued[f]["names"] /\ l.name \in Names
      BY <1>1, <3>1 DEF ValuesInv, NamesOwned, Owner
    <3> QED BY <1>1, <1>2, <2>1, <3>1, <3>2
  <2> QED BY <1>0, <2>2, <2>3
<1>5. ASSUME NEW f, NEW k, NEW i, NEW l, NEW r, Replaced(f, k, i, l, r) PROVE LocalValues'
  <2>1. /\ f \in Federates /\ k \in Kinds /\ i \in DOMAIN locals[f][k] /\ l = locals[f][k][i]
        /\ r.name = l.name /\ r.handle = l.handle
    BY <1>5 DEF Replaced
  <2>2. \A g \in Federates, j \in Kinds :
          /\ DOMAIN locals'[g][j] = DOMAIN locals[g][j]
          /\ \A m \in DOMAIN locals[g][j] :
               locals'[g][j][m] = IF g = f /\ j = k /\ m = i THEN r ELSE locals[g][j][m]
    BY <1>5, ReplacedEntries
  <2>3. /\ l.name \in Names /\ r.last \in Nat
        /\ \A n \in Names : written'[n] = IF n = l.name THEN r.last ELSE written[n]
        /\ r.registered /\ (k = "target" => r.last = 0)
        /\ k = "source" => r.last <= lastSent'[f][r.handle]
    BY <1>0, <1>5
  <2> SUFFICES ASSUME NEW g \in Federates, NEW j \in Kinds, NEW m \in DOMAIN locals'[g][j]
               PROVE  /\ written'[locals'[g][j][m].name] <= locals'[g][j][m].last
                      /\ locals'[g][j][m].registered
                           => written'[locals'[g][j][m].name] = locals'[g][j][m].last
                      /\ j = "target" => locals'[g][j][m].last = 0
                      /\ j = "source" => locals'[g][j][m].last <= lastSent'[g][locals'[g][j][m].handle]
    BY DEF LocalValues
  <2>4. CASE g = f /\ j = k /\ m = i
    <3>1. locals'[g][j][m] = r
      BY <2>1, <2>2, <2>4
    <3>2. written'[r.name] = r.last /\ r.last <= r.last
      BY <2>1, <2>3
    <3> QED BY <2>3, <2>4, <3>1, <3>2
  <2>5. CASE ~(g = f /\ j = k /\ m = i)
    <3>1. m \in DOMAIN locals[g][j] /\ locals'[g][j][m] = locals[g][j][m]
      BY <2>2, <2>5
    <3>2. locals[g][j][m].name # l.name
      <4>1. CASE g = f
        BY <2>1, <2>5, <3>1, <4>1 DEF ValuesInv, UniqueNames
      <4>2. CASE g # f
        <5>1. locals[g][j][m].name[1] = g /\ l.name[1] = f
          BY <2>1, <3>1 DEF ValuesInv, NamesOwned, Owner
        <5> QED BY <4>2, <5>1
      <4> QED BY <4>1, <4>2
    <3>3. written'[locals[g][j][m].name] = written[locals[g][j][m].name]
      BY <1>1, <2>3, <3>1, <3>2
    <3> QED BY <1>3, <3>1, <3>3
  <2> QED BY <2>4, <2>5
<1>6. ASSUME NEW f, NEW k, NEW l, Created(f, k, l) PROVE LocalValues'
  <2>0. /\ f \in Federates /\ k \in Kinds /\ l \in Local /\ l.name = Fresh(f) /\ ~l.registered
        /\ UNCHANGED <<written, lastSent>>
        /\ buffered[f][k] # <<>> /\ l.handle = Head(buffered[f][k]).handle
        /\ l.last = IF k = "source" THEN Head(buffered[f][k]).last ELSE 0
    BY <1>6 DEF Created
  <2>1. \A g \in Federates, j \in Kinds : \A m \in DOMAIN locals'[g][j] :
          \/ m \in DOMAIN locals[g][j] /\ locals'[g][j][m] = locals[g][j][m]
          \/ g = f /\ j = k /\ locals'[g][j][m] = l
    BY <1>6, CreatedEntries
  <2>2. written'[l.name] = 0 /\ l.last \in Nat /\ l.name \in Names
    <3>1. l.name \in Names /\ l.last \in Nat
      BY <2>0, Bounds DEF Local
    <3>2. l.name[1] = f /\ l.name[2] = issued[f]["names"] + 1
      BY <2>0, FreshNames DEF ValuesInv
    <3>3. l.name[2] > issued[l.name[1]]["names"]
      BY <1>2, <2>0, <3>2
    <3> QED BY <2>0, <3>1, <3>3 DEF ValuesInv, FreshUnwritten
  <2>3. (k = "target" => l.last = 0) /\ (k = "source" => l.last <= lastSent'[f][l.handle])
    <3>1. CASE k = "target"
      BY <2>0, <3>1
    <3>2. CASE k = "source"
      <4>1. buffered[f]["source"] \in Seq(Registration) /\ buffered[f]["source"] # <<>>
        BY <2>0, <3>2, CounterTypes DEF TypeOK
      <4>2. 1 \in DOMAIN buffered[f]["source"]
            /\ Head(buffered[f]["source"]) = buffered[f]["source"][1]
        BY <4>1
      <4>3. buffered[f]["source"][1].last <= lastSent[f][buffered[f]["source"][1].handle]
        BY <2>0, <4>2 DEF ValuesInv, LastOfRegistrations
      <4> QED BY <2>0, <3>2, <4>2, <4>3
    <3> QED BY <2>0, <3>1, <3>2 DEF Kinds
  <2> SUFFICES ASSUME NEW g \in Federates, NEW j \in Kinds, NEW m \in DOMAIN locals'[g][j]
               PROVE  /\ written'[locals'[g][j][m].name] <= locals'[g][j][m].last
                      /\ locals'[g][j][m].registered
                           => written'[locals'[g][j][m].name] = locals'[g][j][m].last
                      /\ j = "target" => locals'[g][j][m].last = 0
                      /\ j = "source" => locals'[g][j][m].last <= lastSent'[g][locals'[g][j][m].handle]
    BY DEF LocalValues
  <2>4. CASE g = f /\ j = k /\ locals'[g][j][m] = l
    <3>1. written'[l.name] <= l.last
      BY <2>2
    <3> QED BY <2>0, <2>3, <2>4, <3>1
  <2>5. CASE m \in DOMAIN locals[g][j] /\ locals'[g][j][m] = locals[g][j][m]
    BY <1>3, <2>0, <2>5
  <2> QED BY <2>1, <2>4, <2>5
<1>7. ASSUME UNCHANGED written,
             \A g \in Federates, j \in Kinds : \A m \in DOMAIN locals'[g][j] :
               \E a \in DOMAIN locals[g][j] : locals'[g][j][m] = locals[g][j][a]
      PROVE  LocalValues'
  <2> SUFFICES ASSUME NEW g \in Federates, NEW j \in Kinds, NEW m \in DOMAIN locals'[g][j]
               PROVE  /\ written'[locals'[g][j][m].name] <= locals'[g][j][m].last
                      /\ locals'[g][j][m].registered
                           => written'[locals'[g][j][m].name] = locals'[g][j][m].last
                      /\ j = "target" => locals'[g][j][m].last = 0
                      /\ j = "source" => locals'[g][j][m].last <= lastSent'[g][locals'[g][j][m].handle]
    BY DEF LocalValues
  <2>1. PICK a \in DOMAIN locals[g][j] : locals'[g][j][m] = locals[g][j][a]
    BY <1>7
  <2>2. written'[locals[g][j][a].name] = written[locals[g][j][a].name]
    BY <1>7
  <2> QED BY <1>3, <2>1, <2>2
<1>8. ASSUME NEW f, NEW k, NEW n, Erased(f, k, n) PROVE LocalValues'
  <2>1. \A g \in Federates, j \in Kinds : \A m \in DOMAIN locals'[g][j] :
          \E a \in DOMAIN locals[g][j] : locals'[g][j][m] = locals[g][j][a]
    BY <1>8, ErasedEntries
  <2> QED BY <1>7, <1>8, <2>1 DEF Erased
<1>9. ASSUME NEW f, Forgotten(f) PROVE LocalValues'
  <2>1. \A g \in Federates, j \in Kinds : \A m \in DOMAIN locals'[g][j] :
          \E a \in DOMAIN locals[g][j] : locals'[g][j][m] = locals[g][j][a]
    BY <1>9, ForgottenEntries
  <2> QED BY <1>7, <1>9, <2>1 DEF Forgotten
<1>10. CASE Untouched
  <2>1. locals' = locals /\ written' = written
    BY <1>10 DEF Untouched
  <2>2. ASSUME NEW g \in Federates, NEW j \in Kinds, NEW m \in DOMAIN locals'[g][j]
        PROVE  \E a \in DOMAIN locals[g][j] : locals'[g][j][m] = locals[g][j][a]
    <3>1. m \in DOMAIN locals[g][j] /\ locals'[g][j][m] = locals[g][j][m]
      BY <2>1
    <3> QED BY <3>1
  <2> QED BY <1>4, <1>7, <2>1, <2>2
<1> QED BY <1>4, <1>5, <1>6, <1>8, <1>9, <1>10 DEF LocalChange

\* The data kept with registrations stays what was transmitted.
LEMMA LastOfRegistrationsStep ==
  ASSUME TypeInv, HandlesKnown, ValuesInv, [Next]_vars
  PROVE  LastOfRegistrations'
<1>0. TypeOK /\ LocalChange /\ Origins
  BY LocalSteps, OriginsStep DEF TypeInv
<1>1. \A g \in Federates, h \in Handles : /\ lastSent[g][h] <= lastSent'[g][h]
                                          /\ lastSent'[g][h] \in Nat /\ lastSent[g][h] \in Nat
  BY <1>0, ValuesGrow, ValueTypes
<1>2. ASSUME NEW g \in Federates, NEW r, r.handle \in Handles, PersistentOrigin(g, r)
      PROVE  r.last <= lastSent'[g][r.handle]
  <2>1. CASE \E j \in DOMAIN persistent[g]["source"] : r = persistent[g]["source"][j]
    <3>1. r.last <= lastSent[g][r.handle] /\ r.last \in Nat
      BY <1>0, <2>1, ValueTypes, CounterTypes DEF ValuesInv, LastOfRegistrations
    <3> QED BY <1>1, <1>2, <3>1
  <2>2. CASE r.last = 0
    BY <1>1, <1>2, <2>2
  <2>3. ASSUME NEW j \in DOMAIN locals[g]["source"],
               locals[g]["source"][j].name = byHandle[g][r.handle],
               r.last = locals[g]["source"][j].last
        PROVE  r.last <= lastSent'[g][r.handle]
    <3>1. locals[g]["source"][j].handle = r.handle
      BY <1>0, <1>2, <2>3, HandleOfName DEF ValuesInv
    <3>2. r.last <= lastSent[g][r.handle] /\ r.last \in Nat
      BY <1>0, <2>3, <3>1, ValueTypes, CounterTypes DEF ValuesInv, LocalValues
    <3> QED BY <1>1, <1>2, <3>2
  <2> QED BY <1>2, <2>1, <2>2, <2>3 DEF PersistentOrigin
<1>3. ASSUME NEW g \in Federates, NEW r, r.handle \in Handles, BufferedOrigin(g, r)
      PROVE  r.last <= lastSent'[g][r.handle]
  <2>1. CASE \/ \E j \in DOMAIN persistent[g]["source"] : r = persistent[g]["source"][j]
             \/ \E j \in DOMAIN buffered[g]["source"] : r = buffered[g]["source"][j]
    <3>1. r.last <= lastSent[g][r.handle] /\ r.last \in Nat
      BY <1>0, <2>1, ValueTypes, CounterTypes DEF ValuesInv, LastOfRegistrations
    <3> QED BY <1>1, <1>3, <3>1
  <2>2. CASE r.last = 0
    BY <1>1, <1>3, <2>2
  <2> QED BY <1>3, <2>1, <2>2 DEF BufferedOrigin
<1>4. TypeOK'
  BY TypesStep DEF TypeInv
<1>5. \A g \in Federates : /\ \A i \in DOMAIN persistent'[g]["source"] :
                                persistent'[g]["source"][i].handle \in Handles
                           /\ \A i \in DOMAIN buffered'[g]["source"] :
                                buffered'[g]["source"][i].handle \in Handles
  <2>1. ASSUME NEW s \in Seq(Registration), NEW i \in DOMAIN s PROVE s[i].handle \in Handles
    <3>1. s[i] \in Registration
      BY LenProperties, ElementOfSeq
    <3> QED BY <3>1 DEF Registration
  <2>2. \A g \in Federates : /\ persistent'[g]["source"] \in Seq(Registration)
                             /\ buffered'[g]["source"] \in Seq(Registration)
    BY <1>4, CounterTypes DEF TypeOK
  <2> QED BY <2>1, <2>2
<1> QED BY <1>0, <1>2, <1>3, <1>5 DEF LastOfRegistrations, Origins

\* Transmissions stay in their order.
LEMMA TransmitOrderStep ==
  ASSUME TypeInv, HandlesKnown, ValuesInv, [Next]_vars
  PROVE  TransmitOrder'
<1>0. /\ TypeOK /\ IsFiniteSet(objects) /\ "source" \in Kinds
      /\ toTransmit \in [Federates -> Seq(Transmission)]
      /\ issued \in [Federates -> [Counters -> Nat]] /\ "values" \in Counters
      /\ lastSent \in [Federates -> [Handles -> 0..MaxValues]]
  BY CounterTypes DEF TypeInv, TypeOK, Transmission
<1>1. /\ \A f \in Federates, h \in Handles : lastSent[f][h] \in Nat
      /\ \A f \in Federates : \A i \in DOMAIN toTransmit[f] :
           i \in Nat /\ toTransmit[f][i].value \in Nat /\ toTransmit[f][i].handle \in Handles
      /\ \A f \in Federates : issued[f]["values"] \in Nat
  BY <1>0, ValueTypes
<1>2. ASSUME UNCHANGED <<toTransmit, lastSent>>,
             \A g \in Federates : issued'[g]["values"] = issued[g]["values"]
      PROVE  TransmitOrder'
  BY <1>2 DEF ValuesInv, TransmitOrder
<1>3. ASSUME NEW f \in Federates, BufferedTransmitDOMember(f) PROVE TransmitOrder'
  <2>1. PICK n, t, i, l : TransmitStep(f, n, t, i, l)
    BY <1>0, <1>3, TransmitSteps
  <2>2. /\ t.value \in Nat /\ lastSent[f][t.handle] < t.value /\ t.value <= issued[f]["values"]
        /\ \A g \in Federates, h \in Handles :
             lastSent'[g][h] = IF g = f /\ h = t.handle THEN t.value ELSE lastSent[g][h]
    BY <1>0, <2>1, TransmitNewer DEF ValuesInv
  <2>3. PICK q, s : q = RemoveAt(toTransmit[f], n) /\ s = toTransmit[f]
    OBVIOUS
  <2>4. /\ n \in DOMAIN s /\ t = s[n] /\ toTransmit' = [toTransmit EXCEPT ![f] = q]
        /\ \A j \in DOMAIN s : byHandle[f][s[j].handle] # NoName => n <= j
        /\ byHandle[f][t.handle] # NoName /\ UNCHANGED issued /\ s \in Seq(Transmission)
    BY <1>0, <2>1, <2>3 DEF TransmitStep
  <2>5. /\ Len(q) = Len(s) - 1 /\ q \in Seq(Transmission)
        /\ \A j \in 1..(Len(s) - 1) : q[j] = IF j < n THEN s[j] ELSE s[j + 1]
    <3>1. q = RemoveAt(s, n)
      BY <2>3
    <3> QED BY <2>4, <3>1, RemoveAtFacts
  <2>6. DOMAIN s = 1..Len(s) /\ Len(s) \in Nat /\ DOMAIN q = 1..(Len(s) - 1) /\ n \in Nat
    BY <2>4, <2>5, LenProperties
  \* Where the entries of the shorter buffer were.
  <2>7. \A j \in DOMAIN q : \E a \in DOMAIN s :
          /\ a = IF j < n THEN j ELSE j + 1
          /\ a # n /\ q[j] = s[a]
    BY <2>5, <2>6
  <2>8. /\ \A j \in DOMAIN s : /\ lastSent[f][s[j].handle] < s[j].value
                               /\ s[j].value <= issued[f]["values"]
                               /\ j \in Nat /\ s[j].value \in Nat /\ s[j].handle \in Handles
        /\ \A j, m \in DOMAIN s : j < m => s[j].value < s[m].value
    BY <1>1, <2>3 DEF ValuesInv, TransmitOrder
  <2>9. ASSUME NEW j \in DOMAIN s, j # n
        PROVE  lastSent'[f][s[j].handle] < s[j].value
    <3>1. CASE s[j].handle = t.handle
      <4>1. n < j
        BY <2>4, <2>6, <2>8, <2>9, <3>1
      <4>2. t.value < s[j].value
        BY <2>4, <2>8, <4>1
      <4> QED BY <2>2, <2>8, <3>1, <4>2
    <3>2. CASE s[j].handle # t.handle
      BY <2>2, <2>8, <3>2
    <3> QED BY <3>1, <3>2
  <2>10. ASSUME NEW j \in DOMAIN q, NEW m \in DOMAIN q, j < m PROVE q[j].value < q[m].value
    <3>1. PICK a, b : a = (IF j < n THEN j ELSE j + 1) /\ b = (IF m < n THEN m ELSE m + 1)
      OBVIOUS
    <3>2. a \in DOMAIN s /\ b \in DOMAIN s /\ q[j] = s[a] /\ q[m] = s[b]
      BY <2>7, <3>1
    <3>3. j \in Nat /\ m \in Nat
      BY <2>6
    <3>4. a < b
      BY <2>6, <2>10, <3>1, <3>3
    <3> QED BY <2>8, <3>2, <3>4
  <2>11. ASSUME NEW j \in DOMAIN q
         PROVE  lastSent'[f][q[j].handle] < q[j].value /\ q[j].value <= issued'[f]["values"]
    BY <2>4, <2>7, <2>8, <2>9
  <2>12. toTransmit'[f] = q /\ \A g \in Federates : g # f => toTransmit'[g] = toTransmit[g]
    BY <1>0, <2>4
  <2>13. \A g \in Federates, h \in Handles : lastSent'[g][h] <= issued'[g]["values"]
    <3>1. \A g \in Federates, h \in Handles : lastSent[g][h] <= issued[g]["values"]
      BY DEF ValuesInv, TransmitOrder
    <3> QED BY <2>2, <2>4, <3>1
  <2>14. ASSUME NEW g \in Federates, g # f, NEW j \in DOMAIN toTransmit'[g]
         PROVE  /\ lastSent'[g][toTransmit'[g][j].handle] < toTransmit'[g][j].value
                /\ toTransmit'[g][j].value <= issued'[g]["values"]
                /\ \A m \in DOMAIN toTransmit'[g] :
                     j < m => toTransmit'[g][j].value < toTransmit'[g][m].value
    <3>1. toTransmit'[g] = toTransmit[g] /\ j \in DOMAIN toTransmit[g]
      BY <2>12, <2>14
    <3>2. lastSent'[g][toTransmit[g][j].handle] = lastSent[g][toTransmit[g][j].handle]
      BY <1>1, <2>2, <2>14, <3>1
    <3> QED BY <2>4, <3>1, <3>2 DEF ValuesInv, TransmitOrder
  <2> QED BY <2>10, <2>11, <2>12, <2>13, <2>14 DEF TransmitOrder
<1>4. ASSUME NEW f \in Federates, NEW h \in Handles, TransmitDOMember(f, h) PROVE TransmitOrder'
  <2>1. PICK v, t, q : /\ v = issued[f]["values"] + 1 /\ t = [handle |-> h, value |-> v]
                       /\ q = Append(toTransmit[f], t)
    OBVIOUS
  <2>2. issued' = [issued EXCEPT ![f]["values"] = v]
    <3>1. issued' = [issued EXCEPT ![f]["values"] = @ + 1]
      BY <1>4, Zenon DEF TransmitDOMember
    <3> QED BY <1>0, <2>1, <3>1
  <2>3. \A g \in Federates : issued'[g]["values"] = IF g = f THEN v ELSE issued[g]["values"]
    BY <1>0, <2>2
  <2>4. toTransmit' = [toTransmit EXCEPT ![f] = q] /\ UNCHANGED lastSent
    <3>1. toTransmit' = [toTransmit EXCEPT ![f] =
                           Append(@, [handle |-> h, value |-> issued'[f]["values"]])]
          /\ UNCHANGED history
      BY <1>4, Zenon DEF TransmitDOMember
    <3>2. issued'[f]["values"] = v
      BY <2>3
    <3> QED BY <1>0, <2>1, <3>1, <3>2 DEF history
  <2>5. v \in Nat /\ issued[f]["values"] < v /\ issued[f]["values"] \in Nat
    BY <1>1, <2>1
  <2>6. t \in Transmission /\ t.value = v /\ t.handle = h
    <3>1. issued[f]["values"] < MaxValues
      BY <1>4, Zenon DEF TransmitDOMember
    <3>2. v \in 1..MaxValues
      BY <2>1, <2>5, <3>1, Bounds
    <3> QED BY <2>1, <3>2 DEF Transmission
  <2>7. /\ q \in Seq(Transmission)
        /\ \A i \in DOMAIN q : \/ i \in DOMAIN toTransmit[f] /\ q[i] = toTransmit[f][i]
                               \/ i = Len(toTransmit[f]) + 1 /\ q[i] = t
        /\ DOMAIN toTransmit[f] = 1..Len(toTransmit[f]) /\ Len(toTransmit[f]) \in Nat
    BY <1>0, <2>1, <2>6, AppendEntries, LenProperties
  <2>8. /\ \A i \in DOMAIN toTransmit[f] :
             /\ lastSent[f][toTransmit[f][i].handle] < toTransmit[f][i].value
             /\ toTransmit[f][i].value <= issued[f]["values"]
             /\ toTransmit[f][i].value < v
        /\ \A i, j \in DOMAIN toTransmit[f] : i < j => toTransmit[f][i].value < toTransmit[f][j].value
        /\ \A g \in Handles : lastSent[f][g] <= issued[f]["values"] /\ lastSent[f][g] < v
    BY <1>1, <2>5 DEF ValuesInv, TransmitOrder
  <2>9. \A i \in DOMAIN q : lastSent[f][q[i].handle] < q[i].value /\ q[i].value <= v
    BY <1>1, <2>5, <2>6, <2>7, <2>8
  <2>10. ASSUME NEW i \in DOMAIN q, NEW j \in DOMAIN q, i < j PROVE q[i].value < q[j].value
    <3>1. i \in DOMAIN toTransmit[f] /\ q[i] = toTransmit[f][i]
      BY <2>7, <2>10
    <3> QED BY <2>6, <2>7, <2>8, <2>10, <3>1
  <2>11. toTransmit'[f] = q /\ \A g \in Federates : g # f => toTransmit'[g] = toTransmit[g]
    BY <1>0, <2>4
  <2>12. \A g \in Handles : lastSent'[f][g] <= issued'[f]["values"]
    BY <1>1, <2>3, <2>4, <2>5, <2>8
  <2>13. \A g \in Federates : g # f =>
           /\ toTransmit'[g] = toTransmit[g] /\ issued'[g]["values"] = issued[g]["values"]
           /\ lastSent'[g] = lastSent[g]
    BY <2>3, <2>4, <2>11
  <2> QED BY <2>3, <2>4, <2>9, <2>10, <2>11, <2>12, <2>13 DEF ValuesInv, TransmitOrder
<1>5. ASSUME NEW f \in Federates, Reset(f) PROVE TransmitOrder'
  <2>1. PICK out : ResetStep(f, out)
    BY <1>0, <1>5, ResetSteps
  <2>2. /\ toTransmit' = [toTransmit EXCEPT ![f] = <<>>] /\ UNCHANGED lastSent
        /\ issued' = [issued EXCEPT ![f]["leaves"] = issued[f]["leaves"] + 1]
    BY <2>1 DEF ResetStep
  <2>3. \A g \in Federates : issued'[g]["values"] = issued[g]["values"]
    BY <1>0, <2>2
  <2>4. /\ toTransmit'[f] = <<>> /\ DOMAIN toTransmit'[f] = {}
        /\ \A g \in Federates : g # f => toTransmit'[g] = toTransmit[g]
    BY <1>0, <2>2
  <2> QED BY <2>2, <2>3, <2>4 DEF ValuesInv, TransmitOrder
<1>6. ASSUME NEW f \in Federates, NEW k \in Kinds, Register(f, k) PROVE TransmitOrder'
  <2>1. k # "values" /\ issued' = [issued EXCEPT ![f][k] = @ + 1] /\ UNCHANGED <<toTransmit, lastSent>>
    BY <1>6 DEF Register, Kinds, history
  <2>2. \A g \in Federates : issued'[g]["values"] = issued[g]["values"]
    BY <1>0, <2>1
  <2> QED BY <1>2, <2>1, <2>2
<1>7. ASSUME NEW f \in Federates, ProcessTargets(f) \/ ProcessSources(f) PROVE TransmitOrder'
  <2>1. issued' = [issued EXCEPT ![f]["names"] = @ + 1] \/ UNCHANGED issued
    BY <1>7 DEF ProcessTargets, ProcessSources, ReserveName
  <2>2. \A g \in Federates : issued'[g]["values"] = issued[g]["values"]
    BY <1>0, <2>1
  <2> QED BY <1>2, <1>7, <2>2 DEF ProcessTargets, ProcessSources
<1>8. CASE \E f \in Federates : \/ EnterInitFederate(f) \/ MeasurementStarts(f)
                                \/ WaitForSingleEvent(f) \/ EndProcessBuffers(f) \/ OnJoined(f)
                                \/ EvokeCallbacks(f) \/ EvokeWhileWaiting(f)
                                \/ \E k \in Kinds, h \in Handles : Unregister(f, k, h)
  <2>1. UNCHANGED <<toTransmit, lastSent, issued>>
    BY <1>8 DEF EnterInitFederate, MeasurementStarts, WaitForSingleEvent, EndProcessBuffers,
                OnJoined, EvokeCallbacks, EvokeWhileWaiting, evokeCallback, keptByCallbacks,
                Unregister, regVars, history
  <2> QED BY <1>2, <2>1
<1>9. CASE UNCHANGED vars
  BY <1>2, <1>9 DEF vars, regVars, history
<1> QED BY <1>0, <1>3, <1>4, <1>5, <1>6, <1>7, <1>8, <1>9, CounterTypes
        DEF Next, Thread, Application, ProcessBuffers

\* Nothing has been written yet.
LEMMA ValuesInit ==
  Init => ValuesInv
<1> SUFFICES ASSUME Init PROVE ValuesInv
  OBVIOUS
<1>1. \A f \in Federates, k \in Kinds : DOMAIN locals[f][k] = {} /\ DOMAIN persistent[f][k] = {}
                                        /\ DOMAIN buffered[f][k] = {} /\ DOMAIN toTransmit[f] = {}
  BY DEF Init
<1>2. NamesOwned /\ UniqueNames /\ LocalValues /\ LastOfRegistrations
  BY <1>1, CounterTypes DEF NamesOwned, UniqueNames, LocalValues, LastOfRegistrations
<1>3. FreshUnwritten
  BY DEF Init, NoValues, FreshUnwritten
<1>4. TransmitOrder
  BY <1>1, CounterTypes DEF Init, TransmitOrder
<1> QED BY <1>2, <1>3, <1>4 DEF ValuesInv

\* Every step keeps the values in order.
LEMMA ValuesStep ==
  ASSUME TypeInv, HandlesKnown, ValuesInv, [Next]_vars
  PROVE  ValuesInv'
<1>1. TypeOK /\ LocalChange
  BY LocalSteps DEF TypeInv
<1>2. NamesOwned' /\ UniqueNames'
  BY <1>1, NamesStep DEF ValuesInv
<1>3. LocalValues' /\ FreshUnwritten'
  BY <1>1, LocalValuesStep
<1> QED BY <1>2, <1>3, TransmitOrderStep, LastOfRegistrationsStep DEF ValuesInv

-----------------------------------------------------------------------------
(* The objects.  Its owner answers for an object with what was written of it,    *)
(* because it has no member of the name that is still without its HLA object.    *)

\* The name of o was given out, and a local member of the name has its HLA object.
Settled(o) ==
  /\ o.name[2] <= issued[Owner(o)]["names"]
  /\ \A i \in DOMAIN locals[Owner(o)][o.kind] :
       locals[Owner(o)][o.kind][i].name = o.name => locals[Owner(o)][o.kind][i].registered

\* The objects of the federation are settled, and so is whatever an owner is asked for.
ObjectsRegistered ==
  /\ \A o \in objects : Settled(o)
  /\ \A g \in Federates : \A i \in DOMAIN inbox[g] :
       inbox[g][i].type = "provide" => Owner(inbox[g][i].obj) = g /\ Settled(inbox[g][i].obj)

\* Where local members come from: they were there, perhaps without their HLA object, or
\* have a fresh name.
LEMMA LocalsFrom ==
  ASSUME TypeOK, LocalChange, NEW g \in Federates, NEW j \in Kinds, NEW m \in DOMAIN locals'[g][j]
  PROVE  \/ \E a \in DOMAIN locals[g][j] :
              /\ locals[g][j][a].name = locals'[g][j][m].name
              /\ locals[g][j][a].registered => locals'[g][j][m].registered
         \/ locals'[g][j][m].name = Fresh(g)
<1>1. ASSUME NEW f, NEW k, NEW i, NEW l, NEW r, Replaced(f, k, i, l, r)
      PROVE  \E a \in DOMAIN locals[g][j] :
               /\ locals[g][j][a].name = locals'[g][j][m].name
               /\ locals[g][j][a].registered => locals'[g][j][m].registered
  <2>1. /\ m \in DOMAIN locals[g][j]
        /\ locals'[g][j][m] = IF g = f /\ j = k /\ m = i THEN r ELSE locals[g][j][m]
    BY <1>1, ReplacedEntries
  <2>2. l = locals[f][k][i] /\ r.name = l.name /\ (l.registered => r.registered)
    BY <1>1 DEF Replaced
  <2> QED BY <2>1, <2>2
<1>2. ASSUME NEW f, NEW k, NEW l, Created(f, k, l)
      PROVE  \/ \E a \in DOMAIN locals[g][j] : locals'[g][j][m] = locals[g][j][a]
             \/ locals'[g][j][m].name = Fresh(g)
  <2>1. CASE g = f /\ j = k
    <3>1. \/ m \in DOMAIN locals[f][k] /\ locals'[f][k][m] = locals[f][k][m]
          \/ locals'[f][k][m] = l
      BY <1>2, <2>1, CreatedEntries
    <3>2. l.name = Fresh(f)
      BY <1>2 DEF Created
    <3> QED BY <2>1, <3>1, <3>2
  <2>2. CASE g # f \/ j # k
    <3>1. locals'[g][j] = locals[g][j]
      BY <1>2, <2>2, CreatedEntries
    <3> QED BY <3>1
  <2> QED BY <2>1, <2>2
<1>3. ASSUME NEW f, NEW k, NEW n, Erased(f, k, n)
      PROVE  \E a \in DOMAIN locals[g][j] : locals'[g][j][m] = locals[g][j][a]
  BY <1>3, ErasedEntries
<1>4. ASSUME NEW f, Forgotten(f)
      PROVE  \E a \in DOMAIN locals[g][j] : locals'[g][j][m] = locals[g][j][a]
  BY <1>4, ForgottenEntries
<1>5. CASE Untouched
  <2>1. locals' = locals
    BY <1>5 DEF Untouched
  <2>2. m \in DOMAIN locals[g][j] /\ locals'[g][j][m] = locals[g][j][m]
    BY <2>1
  <2> QED BY <2>2
<1> QED BY <1>1, <1>2, <1>3, <1>4, <1>5 DEF LocalChange

\* An object stays settled.
LEMMA StaysSettled ==
  ASSUME TypeOK, LocalChange, NEW o \in Objects, Settled(o)
  PROVE  Settled(o)'
<1>0. PICK g, k, n : g = Owner(o) /\ k = o.kind /\ n = o.name
  OBVIOUS
<1>1. /\ g \in Federates /\ k \in Kinds /\ n[2] \in Nat
      /\ issued[g]["names"] \in Nat /\ issued'[g]["names"] \in Nat
      /\ issued[g]["names"] <= issued'[g]["names"] /\ n[2] <= issued[g]["names"]
  <2>1. n \in Names /\ k \in Kinds /\ g = n[1]
    BY <1>0 DEF Objects, Owner
  <2>2. n[1] \in Federates /\ n[2] \in Nat
    BY <2>1, NameParts
  <2> QED BY <1>0, <2>1, <2>2, NamesGrow DEF Settled
<1>2. ASSUME NEW m \in DOMAIN locals'[g][k], locals'[g][k][m].name = n
      PROVE  locals'[g][k][m].registered
  <2>1. Fresh(g)[2] = issued[g]["names"] + 1
    BY DEF Fresh
  <2>2. n # Fresh(g)
    BY <1>1, <2>1
  <2>3. PICK a \in DOMAIN locals[g][k] :
          /\ locals[g][k][a].name = locals'[g][k][m].name
          /\ locals[g][k][a].registered => locals'[g][k][m].registered
    BY <1>1, <1>2, <2>2, LocalsFrom
  <2> QED BY <1>0, <1>2, <2>3 DEF Settled
<1>3. n[2] <= issued'[g]["names"]
  BY <1>1
<1> QED BY <1>0, <1>2, <1>3 DEF Settled

\* The object of a reservation that is completed is settled.
LEMMA ReservationSettles ==
  ASSUME TypeOK, NamesOwned, UniqueNames, UNCHANGED issued,
         NEW f \in Federates, NEW obj \in Objects, NEW i, NEW l, ReservationStep(f, obj, i, l)
  PROVE  Settled(obj)'
<1>1. PICK k, r : k = obj.kind /\ r = [l EXCEPT !.registered = TRUE]
  OBVIOUS
<1>2. /\ k \in Kinds /\ i \in DOMAIN locals[f][k] /\ l = locals[f][k][i] /\ l \in Local
      /\ l.name = obj.name
      /\ locals' = [locals EXCEPT ![f][k] = [locals[f][k] EXCEPT ![i] = r]]
  BY <1>1 DEF ReservationStep
<1>3. Owner(obj) = f /\ obj.name[2] <= issued[f]["names"]
  BY <1>2 DEF NamesOwned, Owner
<1>4. locals \in [Federates -> [Kinds -> Seq(Local)]]
  BY DEF TypeOK
<1>5. PICK s : s = [locals[f][k] EXCEPT ![i] = r]
  OBVIOUS
<1>6. r.registered /\ r.name = l.name
  BY <1>1, <1>2 DEF Local
<1>7. locals'[f][k] = s
  BY <1>2, <1>4, <1>5
<1>8. \A m \in DOMAIN s : s[m].name = obj.name => s[m].registered
  <2>1. SUFFICES ASSUME NEW m \in DOMAIN s, s[m].name = obj.name, m # i PROVE FALSE
    BY <1>2, <1>5, <1>6
  <2>2. m \in DOMAIN locals[f][k] /\ s[m] = locals[f][k][m]
    BY <1>5, <2>1
  <2> QED BY <1>2, <2>1, <2>2 DEF UniqueNames
<1> QED BY <1>1, <1>3, <1>7, <1>8 DEF Settled

-----------------------------------------------------------------------------
(* What a step does to the queues.                                              *)

\* Every update carries what is written of its source when it is sent, and only an owner
\* is asked, for an object there is.
Current(out) ==
  \A g \in Federates : \A i \in DOMAIN out[g] :
    /\ out[g][i].type = "update" => out[g][i].value = written'[out[g][i].obj.name]
    /\ out[g][i].type = "provide" => out[g][i].obj \in objects /\ Owner(out[g][i].obj) = g

\* The value in the update at the head of f's queue is the last that f got.
Got(f) ==
  /\ inbox[f] # <<>> /\ Head(inbox[f]).type = "update"
  /\ got' = [got EXCEPT ![f][Head(inbox[f]).obj.name] = Head(inbox[f]).value]

\* What is in queue remains, and out arrives behind it; objects are settled.  What was got
\* changes with the queue of the federate.
QueueStep(queue, out) ==
  /\ queue \in Queues /\ out \in Queues
  /\ \A g \in Federates : inbox'[g] = queue[g] \o out[g]
  /\ \A g \in Federates : \/ queue[g] = inbox[g] \/ queue[g] = <<>>
                          \/ inbox[g] # <<>> /\ queue[g] = Tail(inbox[g])
  /\ Current(out)
  /\ \A o \in objects' : o \in objects \/ Settled(o)'
  /\ \/ UNCHANGED got
     \/ UNCHANGED written /\ \E f \in Federates :
          \/ got' = [got EXCEPT ![f] = NoValues]
          \/ Got(f) /\ queue = Rest(f)

\* Some distributions: nothing, messages that are neither updates nor requests.
LEMMA CurrentNothing ==
  Current(Nothing)
BY DEF Current, Nothing

\* A message that carries no data is.
LEMMA CurrentMessage ==
  ASSUME NEW f, NEW m, m.type \notin {"update", "provide"}
  PROVE  Current(ToOthers(f, m)) /\ Current(To(f, m))
BY DEF Current, ToOthers, To, Nothing

\* An update carries what is written.
LEMMA CurrentUpdate ==
  ASSUME NEW f, NEW m, m.type = "update", m.value = written'[m.obj.name]
  PROVE  Current(ToSubscribers(f, m))
BY DEF Current, ToSubscribers

\* Two distributions after each other.
LEMMA CurrentThen ==
  ASSUME NEW o1 \in Queues, NEW o2 \in Queues, Current(o1), Current(o2)
  PROVE  Current(Then(o1, o2))
<1> SUFFICES ASSUME NEW g \in Federates, NEW i \in DOMAIN Then(o1, o2)[g]
             PROVE  \/ \E a \in DOMAIN o1[g] : Then(o1, o2)[g][i] = o1[g][a]
                    \/ \E a \in DOMAIN o2[g] : Then(o1, o2)[g][i] = o2[g][a]
  BY DEF Current
<1>1. PICK s, t : s = o1[g] /\ t = o2[g]
  OBVIOUS
<1>2. s \in Seq(Message) /\ t \in Seq(Message) /\ Then(o1, o2)[g] = s \o t /\ i \in DOMAIN (s \o t)
  BY <1>1 DEF Queues, Then
<1>3. \/ i \in DOMAIN s /\ (s \o t)[i] = s[i]
      \/ i - Len(s) \in DOMAIN t /\ (s \o t)[i] = t[i - Len(s)]
  BY <1>2, ConcatEntries
<1> QED BY <1>1, <1>2, <1>3

\* The name and the data of a local member whose last data is what is written.
LEMMA CurrentMember ==
  ASSUME NEW f, NEW k \in Kinds, NEW l, l.last = written'[l.name], k = "target" => l.last = 0
  PROVE  Current(UpdateName(f, k, l)) /\ Current(UpdateDOSourceObjectData(f, l, l.last))
<1>1. PICK name, data, target :
        /\ name = Update([name |-> l.name, kind |-> "source"], TRUE, l.last)
        /\ data = Update([name |-> l.name, kind |-> "source"], FALSE, l.last)
        /\ target = Update([name |-> l.name, kind |-> "target"], TRUE, 0)
  OBVIOUS
<1>2. /\ name.type = "update" /\ name.value = l.last /\ name.obj.name = l.name
      /\ data.type = "update" /\ data.value = l.last /\ data.obj.name = l.name
      /\ target.type = "update" /\ target.value = 0 /\ target.obj.name = l.name
  BY <1>1 DEF Update
<1>3. Current(ToSubscribers(f, name)) /\ Current(ToSubscribers(f, data))
  BY <1>2, CurrentUpdate
<1>4. k = "target" => Current(ToSubscribers(f, target))
  BY <1>2, CurrentUpdate
<1>5. k # "source" => k = "target"
  BY DEF Kinds
<1> QED BY <1>1, <1>3, <1>4, <1>5
        DEF UpdateName, UpdateDOSourceObjectName, UpdateDOTargetObjectName, UpdateDOSourceObjectData

\* What is sent and what is left of a queue.
LEMMA SendQueue ==
  ASSUME TypeOK, NEW queue \in Queues, NEW out \in Queues, Send(queue, out), Current(out),
         \A g \in Federates : \/ queue[g] = inbox[g] \/ queue[g] = <<>>
                              \/ inbox[g] # <<>> /\ queue[g] = Tail(inbox[g]),
         \A o \in objects' : o \in objects \/ Settled(o)',
         \/ UNCHANGED got
         \/ UNCHANGED written /\ \E f \in Federates :
              \/ got' = [got EXCEPT ![f] = NoValues]
              \/ Got(f) /\ queue = Rest(f)
  PROVE  \E q, o : QueueStep(q, o)
<1>1. event \in [Federates -> BOOLEAN]
  BY DEF TypeOK
<1>2. \A g \in Federates : inbox'[g] = queue[g] \o out[g]
  BY <1>1, SendTypes
<1>3. QueueStep(queue, out)
  BY <1>2 DEF QueueStep
<1> QED BY <1>3

\* The queues of the others when one takes the message at the head of its own.
LEMMA RestQueues ==
  ASSUME TypeOK, NEW f \in Federates, inbox[f] # <<>>
  PROVE  /\ Rest(f) \in Queues /\ inbox \in Queues
         /\ \A g \in Federates : \/ Rest(f)[g] = inbox[g]
                                 \/ inbox[g] # <<>> /\ Rest(f)[g] = Tail(inbox[g])
<1>1. inbox \in Queues
  BY DEF TypeOK, Queues
<1>2. Rest(f) \in Queues
  BY <1>1, RestTypes
<1>3. \A g \in Federates : Rest(f)[g] = IF g = f THEN Tail(inbox[f]) ELSE inbox[g]
  BY <1>1 DEF Rest, Queues
<1> QED BY <1>1, <1>2, <1>3

\* Nothing is received or sent.
LEMMA QuietQueues ==
  ASSUME TypeOK, UNCHANGED <<inbox, got>>, objects' \subseteq objects
  PROVE  \E q, o : QueueStep(q, o)
<1>1. inbox \in Queues /\ Nothing \in Queues
  <2>1. <<>> \in Seq(Message)
    OBVIOUS
  <2> QED BY <2>1 DEF TypeOK, Queues, Nothing
<1>2. \A g \in Federates : inbox[g] \o Nothing[g] = inbox[g]
  <2>1. \A g \in Federates : inbox[g] \in Seq(Message) /\ Nothing[g] = <<>>
    BY <1>1 DEF Queues, Nothing
  <2> QED BY <2>1, ConcatEmptySeq
<1>3. QueueStep(inbox, Nothing)
  BY <1>1, <1>2, CurrentNothing DEF QueueStep
<1> QED BY <1>3

\* A federate receives an update: the value goes to the callback or is dropped.
LEMMA ReflectGot ==
  ASSUME NEW f \in Federates, inbox[f] # <<>>, NEW m, m = Head(inbox[f]), m.type = "update",
         reflectAttributeValues(f, m)
  PROVE  UNCHANGED got \/ Got(f)
<1>1. CASE UNCHANGED got
  BY <1>1
<1>2. CASE HandleDOSourceObjectUpdate(f, m)
  <2>1. \E b \in BOOLEAN : got' = IF b THEN [got EXCEPT ![f][m.obj.name] = m.value] ELSE got
    BY <1>2 DEF HandleDOSourceObjectUpdate
  <2>2. got' = [got EXCEPT ![f][m.obj.name] = m.value] => Got(f)
    BY DEF Got
  <2> QED BY <2>1, <2>2
<1> QED BY <1>1, <1>2 DEF reflectAttributeValues, HandleDOTargetObjectUpdate

\* The answer to a request: the member's name or data.
LEMMA ProvideAnswer ==
  ASSUME TypeInv, ValuesInv, ObjectsRegistered, NEW f \in Federates, inbox[f] # <<>>,
         NEW m, m = Head(inbox[f]), m.type = "provide", provideAttributeValueUpdate(f, m)
  PROVE  \E out \in Queues : Send(Rest(f), out) /\ Current(out)
<1>0. TypeOK /\ Nothing \in Queues /\ written' = written
  <2>1. <<>> \in Seq(Message)
    OBVIOUS
  <2> QED BY <2>1 DEF TypeInv, Queues, Nothing, provideAttributeValueUpdate
<1>1. m \in Message /\ m.obj \in Objects
  <2>1. m \in Message
    BY <1>0, RestTypes, RestQueues
  <2> QED BY <2>1 DEF Message
<1>2. CASE Named(f, m.obj) = {}
  <2>1. Send(Rest(f), Nothing)
    BY <1>2 DEF provideAttributeValueUpdate
  <2> QED BY <1>0, <2>1, CurrentNothing
<1>3. CASE Named(f, m.obj) # {}
  <2>1. PICK i, l, k : i = First(Named(f, m.obj)) /\ l = locals[f][k][i] /\ k = m.obj.kind
    OBVIOUS
  <2>2. k \in Kinds /\ i \in DOMAIN locals[f][k] /\ l.name = m.obj.name
    BY <1>0, <1>1, <1>3, <2>1, NamedTypes
  <2>3. l \in Local /\ l.last \in 0..MaxValues
    BY <1>0, <2>1, <2>2, LocalTypes
  <2>4. l.registered
    <3>1. inbox[f] \in Seq(Message)
      BY <1>0 DEF TypeOK
    <3>2. 1 \in DOMAIN inbox[f] /\ m = inbox[f][1]
      BY <3>1, HeadTailProperties, LenProperties, EmptySeq
    <3>3. Owner(m.obj) = f /\ Settled(m.obj)
      BY <3>2 DEF ObjectsRegistered
    <3> QED BY <2>1, <2>2, <3>3 DEF Settled
  <2>5. l.last = written'[l.name] /\ (k = "target" => l.last = 0)
    BY <1>0, <2>1, <2>2, <2>4 DEF ValuesInv, LocalValues
  <2>6. PICK name, data : name = UpdateName(f, k, l) /\ data = UpdateDOSourceObjectData(f, l, l.last)
    OBVIOUS
  <2>7. Current(name) /\ Current(data)
    BY <2>2, <2>5, <2>6, CurrentMember
  <2>8. name \in Queues /\ data \in Queues
    BY <2>2, <2>3, <2>6, UpdateTypes
  <2>9. Send(Rest(f), name) \/ Send(Rest(f), data) \/ Send(Rest(f), Nothing)
    BY <1>3, <2>1, <2>6 DEF provideAttributeValueUpdate
  <2> QED BY <1>0, <2>7, <2>8, <2>9, CurrentNothing
<1> QED BY <1>2, <1>3

\* What the completion of a reservation announces.
LEMMA ReservationAnswer ==
  ASSUME TypeOK, ValuesInv, NEW f \in Federates, NEW obj \in Objects, NEW i, NEW l,
         ReservationStep(f, obj, i, l)
  PROVE  \E out \in Queues : Send(Rest(f), out) /\ Current(out)
<1>1. PICK name, disc : /\ name = UpdateName(f, obj.kind, l)
                        /\ disc = ToOthers(f, Discover(obj))
  OBVIOUS
<1>2. /\ obj.kind \in Kinds /\ obj.name \in Names /\ l \in Local /\ l.name = obj.name
      /\ l.last \in 0..MaxValues /\ i \in DOMAIN locals[f][obj.kind] /\ l = locals[f][obj.kind][i]
      /\ written' = [written EXCEPT ![obj.name] = l.last]
      /\ Send(Rest(f), Then(disc, name))
  BY <1>1 DEF ReservationStep
<1>3. written'[l.name] = l.last
  <2>1. written \in [Names -> 0..MaxValues]
    BY DEF TypeOK
  <2> QED BY <1>2, <2>1
<1>4. obj.kind = "target" => l.last = 0
  BY <1>2 DEF ValuesInv, LocalValues
<1>5. Current(name) /\ name \in Queues
  BY <1>1, <1>2, <1>3, <1>4, CurrentMember, UpdateTypes
<1>6. Current(disc) /\ disc \in Queues
  <2>1. Discover(obj) \in Message /\ Discover(obj).type = "discover"
    BY Bounds, MessageTypes DEF Discover
  <2> QED BY <1>1, <2>1, CurrentMessage, OutTypes
<1>7. Then(disc, name) \in Queues /\ Current(Then(disc, name))
  BY <1>5, <1>6, CurrentThen, ThenTypes
<1> QED BY <1>2, <1>7

\* The callbacks.
LEMMA EvokeQueues ==
  ASSUME TypeInv, ValuesInv, ObjectsRegistered, NEW f \in Federates, evokeCallback(f)
  PROVE  \E q, o : QueueStep(q, o)
<1>0. /\ TypeOK /\ inbox[f] # <<>> /\ Nothing \in Queues /\ Current(Nothing) /\ UNCHANGED issued
  <2>1. <<>> \in Seq(Message)
    OBVIOUS
  <2> QED BY <2>1, CurrentNothing DEF TypeInv, Queues, Nothing, evokeCallback, keptByCallbacks
<1>1. /\ Rest(f) \in Queues /\ inbox \in Queues
      /\ \A g \in Federates : \/ Rest(f)[g] = inbox[g] \/ Rest(f)[g] = <<>>
                              \/ inbox[g] # <<>> /\ Rest(f)[g] = Tail(inbox[g])
  BY <1>0, RestQueues
<1>2. PICK m : m = Head(inbox[f])
  OBVIOUS
<1>3. m \in Message /\ m.obj \in Objects
  <2>1. m \in Message
    BY <1>0, <1>1, <1>2, RestTypes
  <2> QED BY <2>1 DEF Message
<1>4. \/ m.type = "reserved" /\ OnDOObjectReservationCompleted(f, m.obj)
      \/ m.type = "discover" /\ discoverObjectInstance(f, m.obj)
      \/ m.type = "remove" /\ removeObjectInstance(f, m.obj)
      \/ m.type = "update" /\ reflectAttributeValues(f, m)
      \/ m.type = "provide" /\ provideAttributeValueUpdate(f, m)
  BY <1>2 DEF evokeCallback
<1>5. CASE ReservationUnused(f)
  <2>1. Send(Rest(f), Nothing) /\ UNCHANGED <<objects, got>>
    BY <1>5 DEF ReservationUnused
  <2> QED BY <1>0, <1>1, <2>1, SendQueue
<1>6. ASSUME NEW i, NEW l, ReservationStep(f, m.obj, i, l) PROVE \E q, o : QueueStep(q, o)
  <2>1. PICK out \in Queues : Send(Rest(f), out) /\ Current(out)
    BY <1>0, <1>3, <1>6, ReservationAnswer
  <2>2. Settled(m.obj)'
    BY <1>0, <1>3, <1>6, ReservationSettles DEF ValuesInv
  <2>3. objects' = objects \cup {m.obj} /\ UNCHANGED got
    BY <1>6 DEF ReservationStep
  <2>4. \A o \in objects' : o \in objects \/ Settled(o)'
    BY <2>2, <2>3
  <2> QED BY <1>0, <1>1, <2>1, <2>3, <2>4, SendQueue
<1>7. CASE discoverObjectInstance(f, m.obj)
  <2>1. Send(Rest(f), Request(m.obj, TRUE)) /\ UNCHANGED <<objects, got>>
    BY <1>7 DEF discoverObjectInstance
  <2>2. Request(m.obj, TRUE) \in Queues /\ Current(Request(m.obj, TRUE))
    <3>1. CASE m.obj \notin objects
      BY <1>0, <3>1 DEF Request
    <3>2. CASE m.obj \in objects
      <4>1. PICK p, g : p = Provide(m.obj, TRUE) /\ g = Owner(m.obj)
        OBVIOUS
      <4>2. p \in Message /\ p.type = "provide" /\ p.obj = m.obj
        BY <1>3, <4>1, Bounds, MessageTypes DEF Provide
      <4>3. Request(m.obj, TRUE) = To(g, p)
        BY <3>2, <4>1 DEF Request
      <4>4. g \in Federates
        BY <1>3, <4>1 DEF Objects, Names, Owner
      <4>5. To(g, p) \in Queues
        BY <4>2, <4>4, OutTypes
      <4>6. \A h \in Federates : \A i \in DOMAIN To(g, p)[h] : h = g /\ To(g, p)[h][i] = p
        BY <4>4 DEF To, Nothing
      <4>7. Current(To(g, p))
        BY <3>2, <4>1, <4>2, <4>6 DEF Current
      <4> QED BY <4>3, <4>5, <4>7
    <3> QED BY <3>1, <3>2
  <2> QED BY <1>0, <1>1, <2>1, <2>2, SendQueue
<1>8. CASE removeObjectInstance(f, m.obj)
  <2>1. Send(Rest(f), Nothing) /\ UNCHANGED <<objects, got>>
    BY <1>8 DEF removeObjectInstance
  <2> QED BY <1>0, <1>1, <2>1, SendQueue
<1>9. CASE m.type = "update" /\ reflectAttributeValues(f, m)
  <2>1. Send(Rest(f), Nothing) /\ UNCHANGED <<objects, written>>
    BY <1>9 DEF reflectAttributeValues
  <2>2. UNCHANGED got \/ Got(f)
    BY <1>0, <1>2, <1>9, ReflectGot
  <2> QED BY <1>0, <1>1, <2>1, <2>2, SendQueue
<1>10. CASE m.type = "provide" /\ provideAttributeValueUpdate(f, m)
  <2>1. PICK out \in Queues : Send(Rest(f), out) /\ Current(out)
    BY <1>0, <1>2, <1>10, ProvideAnswer
  <2>2. UNCHANGED <<objects, got>>
    BY <1>10 DEF provideAttributeValueUpdate
  <2> QED BY <1>0, <1>1, <2>1, <2>2, SendQueue
<1>11. CASE OnDOObjectReservationCompleted(f, m.obj)
  BY <1>0, <1>3, <1>5, <1>6, <1>11, ReservationSteps
<1> QED BY <1>4, <1>7, <1>8, <1>9, <1>10, <1>11

\* What is buffered is registered.
LEMMA ProcessQueues ==
  ASSUME TypeInv, NEW f \in Federates, ProcessTargets(f) \/ ProcessSources(f)
  PROVE  \E q, o : QueueStep(q, o)
<1>0. TypeOK /\ IsFiniteSet(objects) /\ inbox \in Queues /\ "source" \in Kinds /\ "target" \in Kinds
  BY CounterTypes DEF TypeInv, TypeOK, Queues
<1>1. ASSUME NEW k \in Kinds, buffered[f][k] # <<>>
      PROVE  /\ To(f, Reserved([name |-> Fresh(f), kind |-> k])) \in Queues
             /\ Current(To(f, Reserved([name |-> Fresh(f), kind |-> k])))
  <2>1. PICK obj, m : obj = [name |-> Fresh(f), kind |-> k] /\ m = Reserved(obj)
    OBVIOUS
  <2>2. Fresh(f) \in Names
    BY <1>0, <1>1, FreshIsName DEF TypeInv
  <2>3. obj \in Objects
    BY <2>1, <2>2 DEF Objects
  <2>4. m \in Message /\ m.type = "reserved"
    BY <2>1, <2>3, Bounds, MessageTypes DEF Reserved
  <2> QED BY <2>1, <2>4, OutTypes, CurrentMessage
<1>2. CASE phase[f] = "targets" /\ buffered[f]["target"] # <<>>
  <2>1. PICK res, obj : obj = [name |-> Fresh(f), kind |-> "target"] /\ res = To(f, Reserved(obj))
    OBVIOUS
  <2>2. /\ Send(inbox, Then(res, Asked(f)))
        /\ got' = [got EXCEPT ![f] = NoValues] /\ UNCHANGED <<objects, written>>
    BY <1>2, <2>1 DEF ProcessTargets, ProcessSources, RegisterBufferedDOTarget, Asked
  <2>3. res \in Queues /\ Current(res)
    BY <1>0, <1>1, <1>2, <2>1
  <2>4. Asked(f) \in Queues /\ Current(Asked(f))
    <3>1. ASSUME NEW g \in Federates, NEW i \in DOMAIN Asked(f)[g]
          PROVE  /\ Asked(f)[g][i].type = "provide" /\ Asked(f)[g][i].obj \in objects
                 /\ Owner(Asked(f)[g][i].obj) = g
      <4>1. PICK asked :
              asked = {o \in {p \in remote[f] : p.kind = "source"} \cap objects : Owner(o) = g}
        OBVIOUS
      <4>2. asked \subseteq Objects /\ asked \subseteq objects
        BY <1>0, <4>1 DEF TypeOK
      <4>3. IsFiniteSet(asked)
        BY <1>0, <4>2, FS_Subset
      <4>4. Asked(f)[g] = [j \in 1..Cardinality(asked) |-> Provide(SetToSeq(asked)[j], FALSE)]
        BY <4>1 DEF Asked
      <4>5. i \in 1..Cardinality(asked) /\ Asked(f)[g][i] = Provide(SetToSeq(asked)[i], FALSE)
        BY <3>1, <4>4
      <4>6. SetToSeq(asked)[i] \in asked
        BY <4>2, <4>3, <4>5, AskedTypes
      <4> QED BY <4>1, <4>5, <4>6 DEF Provide
    <3> QED BY <1>0, <3>1, AskedQueues DEF Current
  <2>5. Then(res, Asked(f)) \in Queues /\ Current(Then(res, Asked(f)))
    BY <2>3, <2>4, ThenTypes, CurrentThen
  <2> QED BY <1>0, <2>2, <2>5, SendQueue
<1>3. CASE phase[f] = "sources" /\ buffered[f]["source"] # <<>>
  <2>1. PICK res, obj : obj = [name |-> Fresh(f), kind |-> "source"] /\ res = To(f, Reserved(obj))
    OBVIOUS
  <2>2. Send(inbox, res) /\ UNCHANGED <<objects, written, got>>
    BY <1>3, <2>1 DEF ProcessTargets, ProcessSources, RegisterBufferedDOSource
  <2>3. res \in Queues /\ Current(res)
    BY <1>0, <1>1, <1>3, <2>1
  <2> QED BY <1>0, <2>2, <2>3, SendQueue
<1>4. CASE UNCHANGED <<inbox, got, objects>>
  BY <1>0, <1>4, QuietQueues
<1> QED BY <1>2, <1>3, <1>4 DEF ProcessTargets, ProcessSources

\* Every step.
LEMMA QueueSteps ==
  ASSUME TypeInv, HandlesKnown, ValuesInv, ObjectsRegistered, [Next]_vars
  PROVE  \E q, o : QueueStep(q, o)
<1>0. /\ TypeOK /\ IsFiniteSet(objects) /\ inbox \in Queues /\ Nothing \in Queues
      /\ "source" \in Kinds /\ objects \subseteq Objects
  <2>1. <<>> \in Seq(Message)
    OBVIOUS
  <2> QED BY <2>1, CounterTypes DEF TypeInv, TypeOK, Queues, Nothing
<1>1. ASSUME NEW f \in Federates, BufferedTransmitDOMember(f) PROVE \E q, o : QueueStep(q, o)
  <2>1. PICK n, t, i, l : TransmitStep(f, n, t, i, l)
    BY <1>0, <1>1, TransmitSteps
  <2>2. /\ l \in Local /\ l.name \in Names /\ t.value \in 0..MaxValues
        /\ written' = [written EXCEPT ![l.name] = t.value]
        /\ Send(inbox, UpdateDOSourceObjectData(f, l, t.value)) /\ UNCHANGED <<objects, got>>
    BY <2>1 DEF TransmitStep
  <2>3. PICK m : m = Update([name |-> l.name, kind |-> "source"], FALSE, t.value)
    OBVIOUS
  <2>4. m.type = "update" /\ m.value = t.value /\ m.obj.name = l.name
    BY <2>3 DEF Update
  <2>5. written'[l.name] = t.value
    <3>1. written \in [Names -> 0..MaxValues]
      BY <1>0 DEF TypeOK
    <3> QED BY <2>2, <3>1
  <2>6. UpdateDOSourceObjectData(f, l, t.value) \in Queues
        /\ UpdateDOSourceObjectData(f, l, t.value) = ToSubscribers(f, m)
    BY <1>0, <2>2, <2>3, UpdateTypes DEF UpdateDOSourceObjectData
  <2>7. Current(ToSubscribers(f, m))
    BY <2>4, <2>5, CurrentUpdate
  <2> QED BY <1>0, <2>2, <2>6, <2>7, SendQueue
<1>2. ASSUME NEW f \in Federates, OnJoined(f) PROVE \E q, o : QueueStep(q, o)
  <2>1. PICK out : JoinStep(f, out)
    BY <1>0, <1>2, JoinSteps
  <2>2. out \in Queues /\ Send(inbox, out) /\ UNCHANGED <<objects, got>>
    BY <2>1 DEF JoinStep, Announced, history
  <2>3. \A g \in Federates : \A i \in DOMAIN out[g] : out[g][i].type = "discover"
    <3>1. Announced(f, out)
      BY <2>1 DEF JoinStep
    <3>2. \A o : Discover(o).type = "discover"
      BY DEF Discover
    <3>3. \A g \in Federates : g # f => out[g] = <<>>
      BY <3>1 DEF Announced
    <3>4. \A i \in DOMAIN out[f] : out[f][i].type = "discover"
      BY <3>1, <3>2 DEF Announced
    <3> QED BY <3>3, <3>4
  <2>4. Current(out)
    BY <2>3 DEF Current
  <2> QED BY <1>0, <2>2, <2>4, SendQueue
<1>3. ASSUME NEW f \in Federates, Reset(f) PROVE \E q, o : QueueStep(q, o)
  <2>1. PICK out : ResetStep(f, out)
    BY <1>0, <1>3, ResetSteps
  <2>2. PICK queue : queue = [inbox EXCEPT ![f] = <<>>]
    OBVIOUS
  <2>3. /\ out \in Queues /\ Send(queue, out) /\ objects' \subseteq objects
        /\ got' = [got EXCEPT ![f] = NoValues] /\ UNCHANGED written
    BY <2>1, <2>2 DEF ResetStep, Withdrawn
  <2>4. \A g \in Federates : \A i \in DOMAIN out[g] : out[g][i].type = "remove"
    <3>1. Withdrawn(f, out)
      BY <2>1 DEF ResetStep
    <3>2. \A o : Removed(o).type = "remove"
      BY DEF Removed
    <3> QED BY <3>1, <3>2 DEF Withdrawn
  <2>5. Current(out)
    BY <2>4 DEF Current
  <2>6. queue \in Queues /\ \A g \in Federates : queue[g] = inbox[g] \/ queue[g] = <<>>
    BY <1>0, <2>2 DEF Queues
  <2> QED BY <1>0, <2>3, <2>5, <2>6, SendQueue
<1>4. ASSUME NEW f \in Federates, NEW k \in Kinds, NEW h \in Handles, Unregister(f, k, h)
      PROVE  \E q, o : QueueStep(q, o)
  <2>1. PICK p : UnregisterStep(f, k, h, p)
    BY <1>0, <1>4, UnregisterSteps
  <2>2. UNCHANGED got
    BY <2>1 DEF UnregisterStep, history
  <2>3. ASSUME NEW n, NEW l, EraseMember(f, k, h, n, l) PROVE \E q, o : QueueStep(q, o)
    <3>1. PICK m, out : /\ m = Removed([name |-> l.name, kind |-> k])
                        /\ out = IF mState[f] = "Online" THEN ToOthers(f, m) ELSE Nothing
      OBVIOUS
    <3>2. Send(inbox, out) /\ objects' \subseteq objects
      BY <2>3, <3>1 DEF EraseMember
    <3>3. m \in Message /\ m.type = "remove"
      BY <2>3, <3>1, Bounds, MessageTypes DEF EraseMember, Removed
    <3>4. out \in Queues /\ Current(out)
      BY <1>0, <3>1, <3>3, OutTypes, CurrentMessage, CurrentNothing
    <3> QED BY <1>0, <2>2, <3>2, <3>4, SendQueue
  <2>4. CASE UNCHANGED <<inbox, objects>>
    BY <1>0, <2>2, <2>4, QuietQueues
  <2> QED BY <2>1, <2>3, <2>4 DEF UnregisterStep, EraseEntry, EraseNothing
<1>5. ASSUME UNCHANGED <<inbox, objects, got>> PROVE \E q, o : QueueStep(q, o)
  BY <1>0, <1>5, QuietQueues
<1>6. ASSUME NEW f \in Federates,
             \/ EnterInitFederate(f) \/ MeasurementStarts(f)
             \/ WaitForSingleEvent(f) \/ EndProcessBuffers(f)
             \/ EvokeCallbacks(f) /\ inbox[f] = <<>>
             \/ \E k \in Kinds : Register(f, k)
             \/ \E h \in Handles : TransmitDOMember(f, h)
      PROVE  UNCHANGED <<inbox, objects, got>>
  <2>1. CASE \E h \in Handles : TransmitDOMember(f, h)
    BY <2>1, Zenon DEF TransmitDOMember, rtiVars, history
  <2> QED BY <1>6, <2>1
          DEF EnterInitFederate, MeasurementStarts, WaitForSingleEvent, EndProcessBuffers,
              EvokeCallbacks, evokeCallback, Register, rtiVars, history
<1>7. CASE UNCHANGED vars
  BY <1>5, <1>7 DEF vars, rtiVars, history
<1>8. \A f \in Federates : EvokeCallbacks(f) => evokeCallback(f) \/ (EvokeCallbacks(f) /\ inbox[f] = <<>>)
  BY DEF EvokeCallbacks
<1>9. ASSUME NEW f \in Federates, evokeCallback(f) PROVE \E q, o : QueueStep(q, o)
  BY <1>9, EvokeQueues
<1>10. ASSUME NEW f \in Federates, ProcessTargets(f) \/ ProcessSources(f)
       PROVE  \E q, o : QueueStep(q, o)
  BY <1>10, ProcessQueues
<1> QED BY <1>1, <1>2, <1>3, <1>4, <1>5, <1>6, <1>7, <1>8, <1>9, <1>10, CounterTypes
        DEF Next, Thread, Application, ProcessBuffers, EvokeWhileWaiting

\* Where the messages of a queue come from: they were there, or are sent in the step.
LEMMA QueueEntries ==
  ASSUME TypeOK, NEW q, NEW o, QueueStep(q, o), NEW g \in Federates, NEW i \in DOMAIN inbox'[g]
  PROVE  \/ \E a \in DOMAIN inbox[g] : inbox'[g][i] = inbox[g][a]
         \/ \E a \in DOMAIN o[g] : inbox'[g][i] = o[g][a]
<1>1. PICK s, t : s = q[g] /\ t = o[g]
  OBVIOUS
<1>2. s \in Seq(Message) /\ t \in Seq(Message) /\ inbox'[g] = s \o t /\ inbox[g] \in Seq(Message)
  BY <1>1 DEF QueueStep, Queues, TypeOK
<1>3. \/ i \in DOMAIN s /\ inbox'[g][i] = s[i]
      \/ i - Len(s) \in DOMAIN t /\ inbox'[g][i] = t[i - Len(s)]
  <2>1. i \in DOMAIN (s \o t)
    BY <1>2
  <2> QED BY <1>2, <2>1, ConcatEntries
<1>4. ASSUME i \in DOMAIN s PROVE \E a \in DOMAIN inbox[g] : s[i] = inbox[g][a]
  <2>1. CASE s = inbox[g]
    BY <1>4, <2>1
  <2>2. CASE s = <<>>
    BY <1>4, <2>2
  <2>3. CASE inbox[g] # <<>> /\ s = Tail(inbox[g])
    BY <1>2, <1>4, <2>3, TailEntries
  <2> QED BY <1>1, <2>1, <2>2, <2>3 DEF QueueStep
<1> QED BY <1>1, <1>3, <1>4

\* Objects stay settled, and owners are asked for settled ones.
LEMMA ObjectsRegisteredStep ==
  ASSUME TypeInv, HandlesKnown, ValuesInv, ObjectsRegistered, [Next]_vars
  PROVE  ObjectsRegistered'
<1>0. TypeOK /\ LocalChange /\ objects \subseteq Objects /\ inbox \in [Federates -> Seq(Message)]
  BY LocalSteps DEF TypeInv, TypeOK
<1>1. PICK q, o : QueueStep(q, o)
  BY QueueSteps
<1>2. \A p \in objects : Settled(p)'
  BY <1>0, StaysSettled DEF ObjectsRegistered
<1>3. \A p \in objects' : Settled(p)'
  BY <1>1, <1>2 DEF QueueStep
<1>4. ASSUME NEW g \in Federates, NEW i \in DOMAIN inbox'[g], inbox'[g][i].type = "provide",
             NEW p, p = inbox'[g][i].obj
      PROVE  Owner(p) = g /\ Settled(p)'
  <2>1. ASSUME NEW a \in DOMAIN inbox[g], inbox'[g][i] = inbox[g][a]
        PROVE  Owner(p) = g /\ Settled(p)'
    <3>1. p = inbox[g][a].obj /\ p \in Objects
      <4>1. inbox[g] \in Seq(Message)
        BY <1>0
      <4>2. inbox[g][a] \in Message
        BY <4>1, LenProperties, ElementOfSeq
      <4> QED BY <1>4, <2>1, <4>2 DEF Message
    <3>2. Owner(p) = g /\ Settled(p)
      BY <1>4, <2>1, <3>1 DEF ObjectsRegistered
    <3> QED BY <1>0, <3>1, <3>2, StaysSettled
  <2>2. ASSUME NEW a \in DOMAIN o[g], inbox'[g][i] = o[g][a]
        PROVE  Owner(p) = g /\ Settled(p)'
    <3>1. p \in objects /\ Owner(p) = g
      BY <1>1, <1>4, <2>2 DEF QueueStep, Current
    <3> QED BY <1>2, <3>1
  <2> QED BY <1>0, <1>1, <2>1, <2>2, QueueEntries
<1>5. ASSUME NEW g \in Federates, NEW i \in DOMAIN inbox'[g], inbox'[g][i].type = "provide"
      PROVE  (Owner(inbox[g][i].obj) = g /\ Settled(inbox[g][i].obj))'
  <2>1. PICK p : p = inbox'[g][i].obj
    OBVIOUS
  <2>2. Owner(p) = g /\ Settled(p)'
    BY <1>4, <1>5, <2>1
  <2>3. (Settled(p))' <=> (Settled(inbox[g][i].obj))'
    BY <2>1 DEF Settled, Owner
  <2> QED BY <2>1, <2>2, <2>3 DEF Owner
<1> QED BY <1>3, <1>5 DEF ObjectsRegistered

-----------------------------------------------------------------------------
(* The order of the updates on the way.                                         *)

\* Values of names.
Values == [Names -> 0..MaxValues]

\* The updates of a name in the queue s never carry an older value after a newer one, and
\* none is older than what is in low, or newer than what is in high.
Ordered(s, low, high) ==
  \A i \in DOMAIN s : s[i].type = "update" =>
    /\ low[s[i].obj.name] <= s[i].value /\ s[i].value <= high[s[i].obj.name]
    /\ \A j \in DOMAIN s : i < j /\ s[j].type = "update" /\ s[j].obj.name = s[i].obj.name =>
         s[i].value <= s[j].value

\* What the updates in a queue carry.
LEMMA UpdateValues ==
  ASSUME NEW s \in Seq(Message), NEW i \in DOMAIN s, s[i].type = "update"
  PROVE  s[i].value \in Nat /\ s[i].obj.name \in Names /\ i \in Nat
<1>1. i \in Nat /\ s[i] \in Message
  BY LenProperties, ElementOfSeq
<1>2. s[i].value \in 0..MaxValues /\ s[i].obj \in Objects
  BY <1>1 DEF Message
<1> QED BY <1>1, <1>2 DEF Objects

\* An ordered queue stays so when its head is taken and got ...
LEMMA OrderedTail ==
  ASSUME NEW s \in Seq(Message), s # <<>>, NEW low \in Values, NEW high \in Values,
         Ordered(s, low, high)
  PROVE  /\ Ordered(Tail(s), low, high)
         /\ Head(s).type = "update" =>
              Ordered(Tail(s), [low EXCEPT ![Head(s).obj.name] = Head(s).value], high)
<1>1. /\ Head(s) = s[1] /\ 1 \in DOMAIN s
      /\ \A i \in DOMAIN Tail(s) : i + 1 \in DOMAIN s /\ i \in Nat /\ Tail(s)[i] = s[i + 1]
  BY TailEntries, HeadTailProperties, LenProperties, EmptySeq
<1>2. PICK t : t = Tail(s)
  OBVIOUS
<1>3. \A i, j \in DOMAIN t : i < j => i + 1 < j + 1
  BY <1>1, <1>2
<1>4. Ordered(t, low, high)
  BY <1>1, <1>2, <1>3 DEF Ordered
<1>5. ASSUME s[1].type = "update", NEW new, new = [low EXCEPT ![s[1].obj.name] = s[1].value]
      PROVE  Ordered(t, new, high)
  <2>1. ASSUME NEW i \in DOMAIN t, t[i].type = "update" PROVE new[t[i].obj.name] <= t[i].value
    <3>1. i + 1 \in DOMAIN s /\ t[i] = s[i + 1] /\ 1 < i + 1
      BY <1>1, <1>2
    <3>2. s[i + 1].obj.name \in Names
      BY <2>1, <3>1, UpdateValues
    <3>3. CASE s[i + 1].obj.name = s[1].obj.name
      <4>1. s[1].value <= s[i + 1].value
        BY <1>1, <1>5, <2>1, <3>1, <3>3 DEF Ordered
      <4>2. new[s[i + 1].obj.name] = s[1].value
        BY <1>5, <3>2, <3>3 DEF Values
      <4> QED BY <3>1, <4>1, <4>2
    <3>4. CASE s[i + 1].obj.name # s[1].obj.name
      <4>1. new[s[i + 1].obj.name] = low[s[i + 1].obj.name]
        BY <1>5, <3>2, <3>4 DEF Values
      <4>2. low[s[i + 1].obj.name] <= s[i + 1].value
        BY <2>1, <3>1 DEF Ordered
      <4> QED BY <3>1, <4>1, <4>2
    <3> QED BY <3>3, <3>4
  <2> QED BY <1>4, <2>1 DEF Ordered
<1> QED BY <1>1, <1>2, <1>4, <1>5

\* ... when the federate starts anew ...
LEMMA OrderedAnew ==
  ASSUME NEW s \in Seq(Message), NEW low \in Values, NEW high \in Values, Ordered(s, low, high)
  PROVE  Ordered(s, NoValues, high)
<1>1. \A i \in DOMAIN s : s[i].type = "update" => NoValues[s[i].obj.name] <= s[i].value
  BY UpdateValues DEF NoValues
<1> QED BY <1>1 DEF Ordered

\* ... and when updates with what is written now arrive behind it.
LEMMA OrderedArrivals ==
  ASSUME NEW s \in Seq(Message), NEW t \in Seq(Message), NEW low \in Values, NEW high \in Values,
         NEW new \in Values, Ordered(s, low, high), \A n \in Names : low[n] <= high[n],
         \A n \in Names : high[n] <= new[n],
         \A i \in DOMAIN t : t[i].type = "update" => t[i].value = new[t[i].obj.name]
  PROVE  Ordered(s \o t, low, new)
<1>1. PICK u : u = s \o t
  OBVIOUS
<1>2. \A i \in DOMAIN u : \/ i \in DOMAIN s /\ u[i] = s[i]
                          \/ i \notin DOMAIN s /\ i - Len(s) \in DOMAIN t /\ u[i] = t[i - Len(s)]
  BY <1>1, ConcatEntries
<1>3. u \in Seq(Message) /\ Len(s) \in Nat /\ DOMAIN s = 1..Len(s) /\ \A i \in DOMAIN u : i \in 1..Len(u)
  BY <1>1, ConcatEntries, LenProperties
<1>4. ASSUME NEW i \in DOMAIN u, u[i].type = "update"
      PROVE  /\ u[i].value \in Nat /\ u[i].obj.name \in Names /\ low[u[i].obj.name] \in Nat
             /\ high[u[i].obj.name] \in Nat /\ new[u[i].obj.name] \in Nat
             /\ low[u[i].obj.name] <= high[u[i].obj.name] /\ high[u[i].obj.name] <= new[u[i].obj.name]
  <2>1. u[i].value \in Nat /\ u[i].obj.name \in Names
    BY <1>3, <1>4, UpdateValues
  <2>2. \A n \in Names : low[n] \in 0..MaxValues /\ high[n] \in 0..MaxValues /\ new[n] \in 0..MaxValues
    BY DEF Values
  <2> QED BY <2>1, <2>2
<1>5. ASSUME NEW i \in DOMAIN u, u[i].type = "update", i \in DOMAIN s
      PROVE  low[u[i].obj.name] <= u[i].value /\ u[i].value <= high[u[i].obj.name] /\ u[i] = s[i]
  BY <1>2, <1>5 DEF Ordered
<1>6. ASSUME NEW i \in DOMAIN u, u[i].type = "update", i \notin DOMAIN s
      PROVE  u[i].value = new[u[i].obj.name]
  BY <1>2, <1>6
<1>7. ASSUME NEW i \in DOMAIN u, u[i].type = "update"
      PROVE  low[u[i].obj.name] <= u[i].value /\ u[i].value <= new[u[i].obj.name]
  BY <1>4, <1>5, <1>6, <1>7
<1>8. ASSUME NEW i \in DOMAIN u, NEW j \in DOMAIN u, i < j, u[i].type = "update", u[j].type = "update",
             u[j].obj.name = u[i].obj.name
      PROVE  u[i].value <= u[j].value
  <2>1. CASE j \in DOMAIN s
    <3>1. i \in DOMAIN s
      BY <1>3, <1>8, <2>1
    <3> QED BY <1>5, <1>8, <2>1, <3>1 DEF Ordered
  <2>2. CASE j \notin DOMAIN s
    BY <1>6, <1>7, <1>8, <2>2
  <2> QED BY <2>1, <2>2
<1>9. Ordered(u, low, new)
  BY <1>7, <1>8 DEF Ordered
<1> QED BY <1>1, <1>9

\* The queues are ordered between what their federate got and what is written.
QueuesOrdered ==
  /\ \A g \in Federates : Ordered(inbox[g], got[g], written)
  /\ \A g \in Federates, n \in Names : got[g][n] <= written[n]

\* The invariant that the refinement rests on.
PromiseInv == ValuesInv /\ ObjectsRegistered /\ QueuesOrdered

\* What remains of a queue is in order with what its federate got in the step.
LEMMA RemainsOrdered ==
  ASSUME TypeOK, TypeOK', QueuesOrdered, NEW q, NEW o, QueueStep(q, o), NEW g \in Federates
  PROVE  Ordered(q[g], got'[g], written) /\ \A n \in Names : got'[g][n] <= written[n]
<1>0. /\ got[g] \in Values /\ got'[g] \in Values /\ written \in Values /\ inbox[g] \in Seq(Message)
      /\ got \in [Federates -> Values] /\ q[g] \in Seq(Message)
  BY DEF TypeOK, Values, QueueStep, Queues
<1>1. Ordered(inbox[g], got[g], written) /\ \A n \in Names : got[g][n] <= written[n]
  BY DEF QueuesOrdered
<1>2. \A low \in Values : Ordered(<<>>, low, written)
  BY DEF Ordered
<1>3. Ordered(q[g], got[g], written)
  <2>1. CASE q[g] = inbox[g]
    BY <1>1, <2>1
  <2>2. CASE q[g] = <<>>
    BY <1>0, <1>2, <2>2
  <2>3. CASE inbox[g] # <<>> /\ q[g] = Tail(inbox[g])
    BY <1>0, <1>1, <2>3, OrderedTail
  <2> QED BY <2>1, <2>2, <2>3 DEF QueueStep
<1>4. CASE got'[g] = got[g]
  BY <1>1, <1>3, <1>4
<1>5. CASE got'[g] = NoValues
  <2>1. \A n \in Names : NoValues[n] <= written[n]
    BY <1>0 DEF NoValues, Values
  <2> QED BY <1>0, <1>3, <1>5, <2>1, OrderedAnew
<1>6. CASE Got(g) /\ q = Rest(g)
  <2>1. PICK h : h = Head(inbox[g])
    OBVIOUS
  <2>2. inbox[g] # <<>> /\ h.type = "update" /\ got' = [got EXCEPT ![g][h.obj.name] = h.value]
    BY <1>6, <2>1 DEF Got
  <2>3. got'[g] = [got[g] EXCEPT ![h.obj.name] = h.value]
    BY <1>0, <2>2
  <2>4. q[g] = Tail(inbox[g])
    <3>1. inbox \in Queues
      BY DEF TypeOK, Queues
    <3>2. Rest(g)[g] = Tail(inbox[g])
      BY <3>1 DEF Rest, Queues
    <3> QED BY <1>6, <3>2
  <2>5. Ordered(q[g], got'[g], written)
    <3>1. PICK s, low : s = inbox[g] /\ low = got[g]
      OBVIOUS
    <3>2. s \in Seq(Message) /\ s # <<>> /\ low \in Values /\ Ordered(s, low, written) /\ h = Head(s)
      BY <1>0, <1>1, <2>1, <2>2, <3>1
    <3>3. Ordered(Tail(s), [low EXCEPT ![Head(s).obj.name] = Head(s).value], written)
      BY <1>0, <2>2, <3>2, OrderedTail
    <3> QED BY <2>3, <2>4, <3>1, <3>2, <3>3
  <2>6. h = inbox[g][1] /\ 1 \in DOMAIN inbox[g]
    BY <1>0, <2>1, <2>2, HeadTailProperties, LenProperties, EmptySeq
  <2>7. h.value <= written[h.obj.name] /\ h.obj.name \in Names
    BY <1>0, <1>1, <2>2, <2>6, UpdateValues DEF Ordered
  <2>8. \A n \in Names : got'[g][n] = IF n = h.obj.name THEN h.value ELSE got[g][n]
    BY <1>0, <2>3 DEF Values
  <2> QED BY <1>1, <2>5, <2>7, <2>8
<1>7. got'[g] = got[g] \/ got'[g] = NoValues \/ (Got(g) /\ q = Rest(g))
  <2>1. ASSUME NEW f \in Federates, got' = [got EXCEPT ![f] = NoValues]
        PROVE  got'[g] = got[g] \/ got'[g] = NoValues
    BY <1>0, <2>1
  <2>2. ASSUME NEW f \in Federates, Got(f), f # g PROVE got'[g] = got[g]
    BY <1>0, <2>2 DEF Got
  <2> QED BY <2>1, <2>2 DEF QueueStep
<1> QED BY <1>4, <1>5, <1>6, <1>7

\* The queues stay in order.
LEMMA QueuesOrderedStep ==
  ASSUME TypeInv, TypeOK', HandlesKnown, PromiseInv, [Next]_vars
  PROVE  QueuesOrdered'
<1>0. TypeOK /\ LocalChange
  BY LocalSteps DEF TypeInv
<1>1. PICK q, o : QueueStep(q, o)
  BY QueueSteps DEF PromiseInv
<1>2. written \in Values /\ written' \in Values /\ \A n \in Names : written[n] <= written'[n]
  BY <1>0, ValuesGrow DEF PromiseInv, TypeOK, Values
<1>3. ASSUME NEW g \in Federates
      PROVE  Ordered(inbox'[g], got'[g], written') /\ \A n \in Names : got'[g][n] <= written'[n]
  <2>1. /\ got'[g] \in Values /\ q[g] \in Seq(Message) /\ o[g] \in Seq(Message)
        /\ inbox'[g] = q[g] \o o[g]
    BY <1>1 DEF TypeOK, Values, QueueStep, Queues
  <2>2. Ordered(q[g], got'[g], written) /\ \A n \in Names : got'[g][n] <= written[n]
    BY <1>0, <1>1, RemainsOrdered DEF PromiseInv
  <2>3. \A i \in DOMAIN o[g] : o[g][i].type = "update" => o[g][i].value = written'[o[g][i].obj.name]
    BY <1>1 DEF QueueStep, Current
  <2>4. Ordered(inbox'[g], got'[g], written')
    BY <1>2, <2>1, <2>2, <2>3, OrderedArrivals
  <2>5. \A n \in Names : got'[g][n] \in Nat /\ written[n] \in Nat /\ written'[n] \in Nat
    BY <1>2, <2>1 DEF Values
  <2> QED BY <1>2, <2>2, <2>4, <2>5
<1> QED BY <1>3 DEF QueuesOrdered, Ordered

\* What is written and got changes as LastValue says.
LEMMA PromiseStep ==
  ASSUME TypeInv, HandlesKnown, PromiseInv, [Next]_vars
  PROVE  [Promise!Next]_(Promise!vars)
<1>0. /\ TypeOK /\ LocalChange /\ written \in [Names -> 0..MaxValues]
      /\ got \in [Federates -> [Names -> 0..MaxValues]]
  BY LocalSteps DEF TypeInv, TypeOK
<1>1. PICK q, o : QueueStep(q, o)
  BY QueueSteps DEF PromiseInv
<1>2. CASE UNCHANGED got
  <2>1. CASE UNCHANGED written
    BY <1>2, <2>1 DEF Promise!vars
  <2>2. ASSUME NEW f, NEW k, NEW i, NEW l, NEW r, Replaced(f, k, i, l, r)
        PROVE  UNCHANGED written \/ \E n \in Names : Promise!Write(n)
    <3>1. PICK n, v : n = l.name /\ v = r.last
      OBVIOUS
    <3>2. n \in Names /\ v \in 0..MaxValues /\ written' = [written EXCEPT ![n] = v]
      BY <2>2, <3>1 DEF Replaced, Local
    <3>3. written[n] <= v
      <4>1. written[n] <= written'[n]
        BY <1>0, <3>2, ValuesGrow DEF PromiseInv
      <4> QED BY <1>0, <3>2, <4>1
    <3>4. CASE v = written[n]
      BY <1>0, <3>2, <3>4
    <3>5. CASE v # written[n]
      <4>1. written[n] \in 0..MaxValues
        BY <1>0, <3>2
      <4>2. v \in (written[n] + 1)..MaxValues
        BY <3>2, <3>3, <3>5, <4>1, Bounds
      <4> QED BY <1>2, <3>2, <4>2 DEF Promise!Write
    <3> QED BY <3>4, <3>5
  <2>3. UNCHANGED written \/ \E n \in Names : Promise!Write(n)
    BY <1>0, <2>2 DEF LocalChange, Created, Erased, Forgotten, Untouched
  <2> QED BY <2>1, <2>3 DEF Promise!Next
<1>3. ASSUME UNCHANGED written, NEW f \in Federates, got' = [got EXCEPT ![f] = NoValues]
      PROVE  Promise!StartAnew(f)
  BY <1>3 DEF Promise!StartAnew, NoValues
<1>4. ASSUME UNCHANGED written, NEW f \in Federates, Got(f)
      PROVE  UNCHANGED got \/ \E n \in Names : Promise!Read(f, n)
  <2>1. PICK n, v, h : h = Head(inbox[f]) /\ n = h.obj.name /\ v = h.value
    OBVIOUS
  <2>2. inbox[f] # <<>> /\ h.type = "update" /\ got' = [got EXCEPT ![f][n] = v]
    BY <1>4, <2>1 DEF Got
  <2>3. inbox[f] \in Seq(Message) /\ h = inbox[f][1] /\ 1 \in DOMAIN inbox[f]
    <3>1. inbox[f] \in Seq(Message)
      BY <1>0 DEF TypeOK
    <3> QED BY <2>1, <2>2, <3>1, HeadTailProperties, LenProperties, EmptySeq
  <2>4. n \in Names /\ v \in Nat
    BY <2>1, <2>2, <2>3, UpdateValues
  <2>5. got[f][n] <= v /\ v <= written[n]
    BY <2>1, <2>2, <2>3 DEF PromiseInv, QueuesOrdered, Ordered
  <2>6. got[f][n] \in Nat /\ written[n] \in Nat
    BY <1>0, <2>4
  <2>7. CASE v = got[f][n]
    BY <1>0, <2>2, <2>4, <2>7
  <2>8. CASE v # got[f][n]
    <3>1. v \in (got[f][n] + 1)..written[n]
      BY <2>4, <2>5, <2>6, <2>8
    <3> QED BY <1>4, <2>2, <2>4, <3>1 DEF Promise!Read
  <2> QED BY <2>7, <2>8
<1>5. CASE UNCHANGED written /\ \E f \in Federates : \/ got' = [got EXCEPT ![f] = NoValues]
                                                     \/ Got(f)
  BY <1>3, <1>4, <1>5 DEF Promise!Next, Promise!vars
<1> QED BY <1>1, <1>2, <1>5 DEF QueueStep

\* At first nothing is written, got or on the way.
LEMMA PromiseInit ==
  Init => Promise!Init /\ PromiseInv
<1> SUFFICES ASSUME Init PROVE Promise!Init /\ PromiseInv
  OBVIOUS
<1>1. Promise!Init
  BY DEF Init, NoValues, Promise!Init
<1>2. \A g \in Federates : inbox[g] = <<>> /\ DOMAIN inbox[g] = {}
  BY DEF Init, Nothing
<1>3. ObjectsRegistered
  BY <1>2 DEF Init, ObjectsRegistered
<1>4. QueuesOrdered
  <2>1. \A g \in Federates, n \in Names : got[g][n] = 0 /\ written[n] = 0
    BY DEF Init, NoValues
  <2> QED BY <1>2, <2>1 DEF QueuesOrdered, Ordered
<1> QED BY <1>1, <1>3, <1>4, ValuesInit DEF PromiseInv

\* The inductive invariant.
LEMMA PromiseInvHolds ==
  Spec => []PromiseInv
<1>1. TypeInv /\ HandlesKnown /\ PromiseInv /\ [Next]_vars /\ TypeInv' => PromiseInv'
  <2> SUFFICES ASSUME TypeInv, HandlesKnown, PromiseInv, [Next]_vars, TypeInv' PROVE PromiseInv'
    OBVIOUS
  <2>1. ValuesInv' /\ ObjectsRegistered'
    BY ValuesStep, ObjectsRegisteredStep DEF PromiseInv
  <2>2. QueuesOrdered'
    BY QueuesOrderedStep DEF TypeInv
  <2> QED BY <2>1, <2>2 DEF PromiseInv
<1> QED BY <1>1, PromiseInit, TypesHold, PTL DEF Spec

\* The promise of LastValue is kept: whatever interleaves, a callback is called with data
\* that was published, and never with older data after newer.
THEOREM PromiseHolds == Spec => PromiseKept
<1>1. TypeInv /\ HandlesKnown /\ PromiseInv /\ [Next]_vars => [Promise!Next]_(Promise!vars)
  BY PromiseStep
<1> QED BY <1>1, PromiseInvHolds, PromiseInit, TypesHold, PTL DEF Spec, PromiseKept, Promise!Spec

=============================================================================
