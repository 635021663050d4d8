------------------------- MODULE Federation_proofs --------------------------
(* Theorems about Federation, for any number of federates and every value of the *)
(* other constants.                                                              *)
EXTENDS Federation, FiniteSetTheorems, SequenceTheorems, TLAPS

-----------------------------------------------------------------------------
(* Messages and inboxes.                                                        *)

\* What a message is, by its type.
LEMMA MessageKinds ==
  /\ Init_ \in Messages /\ Stop_ \in Messages /\ Lost \in Messages
  /\ \A p \in Points : Announce(p) \in Messages /\ Synchronized(p) \in Messages
  /\ Init_.type = "init" /\ Stop_.type = "stop" /\ Lost.type = "lost"
  /\ \A p : Announce(p).type = "announced" /\ Announce(p).point = p
  /\ \A p : Synchronized(p).type = "synchronized" /\ Synchronized(p).point = p
  /\ \A m \in Messages :
       /\ m.type \in {"init", "stop", "lost", "announced", "synchronized"}
       /\ m.type = "init" => m = Init_
       /\ m.type = "stop" => m = Stop_
       /\ m.type = "lost" => m = Lost
       /\ m.type = "announced" => m.point \in Points /\ m = Announce(m.point)
       /\ m.type = "synchronized" => m.point \in Points /\ m = Synchronized(m.point)
<1>1. /\ Init_ \in Messages /\ Stop_ \in Messages /\ Lost \in Messages
      /\ \A p \in Points : Announce(p) \in Messages /\ Synchronized(p) \in Messages
  BY DEF Messages
<1>2. /\ Init_.type = "init" /\ Stop_.type = "stop" /\ Lost.type = "lost"
      /\ \A p : Announce(p).type = "announced" /\ Announce(p).point = p
      /\ \A p : Synchronized(p).type = "synchronized" /\ Synchronized(p).point = p
  BY DEF Init_, Stop_, Lost, Announce, Synchronized
<1>3. ASSUME NEW m \in Messages
      PROVE  \/ m = Init_ \/ m = Stop_ \/ m = Lost
             \/ \E p \in Points : m = Announce(p)
             \/ \E p \in Points : m = Synchronized(p)
  BY DEF Messages
<1>4. ASSUME NEW m \in Messages
      PROVE  /\ m.type \in {"init", "stop", "lost", "announced", "synchronized"}
             /\ m.type = "init" => m = Init_
             /\ m.type = "stop" => m = Stop_
             /\ m.type = "lost" => m = Lost
             /\ m.type = "announced" => m.point \in Points /\ m = Announce(m.point)
             /\ m.type = "synchronized" => m.point \in Points /\ m = Synchronized(m.point)
  BY <1>2, <1>3
<1> QED BY <1>1, <1>2, <1>4

\* A message is in an inbox.
InBox(box, m) == \E i \in 1..Len(box) : box[i] = m

\* Nothing is in an empty inbox.
LEMMA InEmpty == \A m : ~InBox(<<>>, m)
BY DEF InBox

\* What is in an inbox to which a message is appended.
LEMMA InAppended ==
  ASSUME NEW box \in Seq(Messages), NEW m \in Messages
  PROVE  /\ Append(box, m) \in Seq(Messages)
         /\ \A x : InBox(Append(box, m), x) <=> InBox(box, x) \/ x = m
<1>1. /\ Append(box, m) \in Seq(Messages) /\ Len(Append(box, m)) = Len(box) + 1 /\ Len(box) \in Nat
      /\ \A i \in 1..Len(box) : Append(box, m)[i] = box[i]
      /\ Append(box, m)[Len(box) + 1] = m
  BY AppendProperties, LenProperties
<1>2. ASSUME NEW x, InBox(box, x) PROVE InBox(Append(box, m), x)
  BY <1>1, <1>2 DEF InBox
<1>3. InBox(Append(box, m), m)
  <2>1. Len(box) + 1 \in 1..(Len(box) + 1)
    BY <1>1
  <2> QED BY <1>1, <2>1 DEF InBox
<1>4. ASSUME NEW x, InBox(Append(box, m), x) PROVE InBox(box, x) \/ x = m
  <2>1. PICK i \in 1..(Len(box) + 1) : Append(box, m)[i] = x
    BY <1>1, <1>4 DEF InBox
  <2>2. i \in 1..Len(box) \/ i = Len(box) + 1
    BY <1>1
  <2> QED BY <1>1, <2>1, <2>2 DEF InBox
<1> QED BY <1>1, <1>2, <1>3, <1>4

\* The first message and the others.
LEMMA InTaken ==
  ASSUME NEW box \in Seq(Messages), box # <<>>
  PROVE  /\ Head(box) \in Messages /\ Tail(box) \in Seq(Messages)
         /\ Head(box) = box[1] /\ Len(box) \in Nat \ {0} /\ Len(Tail(box)) = Len(box) - 1
         /\ \A i \in 1..(Len(box) - 1) : Tail(box)[i] = box[i + 1]
         /\ \A x : InBox(box, x) <=> x = Head(box) \/ InBox(Tail(box), x)
<1>1. /\ Head(box) \in Messages /\ Tail(box) \in Seq(Messages) /\ Head(box) = box[1]
      /\ Len(box) \in Nat \ {0} /\ Len(Tail(box)) = Len(box) - 1
      /\ \A i \in 1..(Len(box) - 1) : Tail(box)[i] = box[i + 1]
  BY HeadTailProperties, EmptySeq, LenProperties
<1>2. ASSUME NEW x, InBox(box, x) PROVE x = Head(box) \/ InBox(Tail(box), x)
  <2>1. PICK i \in 1..Len(box) : box[i] = x
    BY <1>2 DEF InBox
  <2>2. CASE i = 1
    BY <1>1, <2>1, <2>2
  <2>3. CASE i # 1
    <3>1. i - 1 \in 1..(Len(box) - 1) /\ (i - 1) + 1 = i
      BY <1>1, <2>3
    <3> QED BY <1>1, <2>1, <3>1 DEF InBox
  <2> QED BY <2>2, <2>3
<1>3. ASSUME NEW x, x = Head(box) \/ InBox(Tail(box), x) PROVE InBox(box, x)
  <2>1. CASE x = Head(box)
    <3>1. 1 \in 1..Len(box)
      BY <1>1
    <3> QED BY <1>1, <2>1, <3>1 DEF InBox
  <2>2. CASE InBox(Tail(box), x)
    <3>1. PICK i \in 1..(Len(box) - 1) : Tail(box)[i] = x
      BY <1>1, <2>2 DEF InBox
    <3>2. i + 1 \in 1..Len(box)
      BY <1>1
    <3> QED BY <1>1, <3>1, <3>2 DEF InBox
  <2> QED BY <1>3, <2>1, <2>2
<1> QED BY <1>1, <1>2, <1>3

\* In good time an inbox is ordered: the announcements are ahead of the init, which is ahead
\* of the stop, and these and each synchronization come at most once.
Ordered(box) == \A i, j \in 1..Len(box) : i < j =>
  /\ box[j].type \in {"announced", "init"} => box[i].type \notin {"init", "stop"}
  /\ box[j].type = "stop" => box[i].type # "stop"
  /\ box[j].type = "synchronized" => box[i] # box[j]

\* An empty inbox is ordered.
LEMMA OrderedEmpty == Ordered(<<>>)
BY DEF Ordered

\* An inbox stays ordered if what must be ahead of the new message is not behind it.
LEMMA OrderedAppended ==
  ASSUME NEW box \in Seq(Messages), NEW m \in Messages, Ordered(box),
         m.type \in {"announced", "init"} => ~InBox(box, Init_) /\ ~InBox(box, Stop_),
         m.type = "stop" => ~InBox(box, Stop_),
         m.type = "synchronized" => ~InBox(box, m)
  PROVE  Ordered(Append(box, m))
<1>1. /\ Len(Append(box, m)) = Len(box) + 1 /\ Len(box) \in Nat
      /\ \A i \in 1..Len(box) : Append(box, m)[i] = box[i] /\ box[i] \in Messages
      /\ Append(box, m)[Len(box) + 1] = m
  BY AppendProperties, LenProperties
<1> SUFFICES ASSUME NEW i \in 1..(Len(box) + 1), NEW j \in 1..(Len(box) + 1), i < j
             PROVE  /\ Append(box, m)[j].type \in {"announced", "init"} =>
                         Append(box, m)[i].type \notin {"init", "stop"}
                    /\ Append(box, m)[j].type = "stop" => Append(box, m)[i].type # "stop"
                    /\ Append(box, m)[j].type = "synchronized" => Append(box, m)[i] # Append(box, m)[j]
  BY <1>1 DEF Ordered
<1>2. i \in 1..Len(box)
  BY <1>1
<1>3. CASE j \in 1..Len(box)
  BY <1>1, <1>2, <1>3 DEF Ordered
<1>4. CASE j = Len(box) + 1
  <2>1. InBox(box, box[i]) /\ Append(box, m)[i] = box[i] /\ Append(box, m)[j] = m /\ box[i] \in Messages
    BY <1>1, <1>2, <1>4 DEF InBox
  <2>2. /\ box[i].type = "init" => box[i] = Init_
        /\ box[i].type = "stop" => box[i] = Stop_
    BY <2>1, MessageKinds
  <2> QED BY <2>1, <2>2
<1>5. j \in 1..Len(box) \/ j = Len(box) + 1
  BY <1>1
<1> QED BY <1>3, <1>4, <1>5

\* The rest of an ordered inbox is ordered, and has neither the message taken again nor
\* what had to be ahead of it.
LEMMA OrderedTaken ==
  ASSUME NEW box \in Seq(Messages), box # <<>>, Ordered(box)
  PROVE  /\ Ordered(Tail(box))
         /\ Head(box).type \in {"init", "stop"} =>
              ~InBox(Tail(box), Init_) /\ \A p \in Points : ~InBox(Tail(box), Announce(p))
         /\ Head(box).type = "stop" => ~InBox(Tail(box), Stop_)
         /\ Head(box).type = "synchronized" => ~InBox(Tail(box), Head(box))
<1>1. /\ Head(box) = box[1] /\ Len(box) \in Nat \ {0} /\ Len(Tail(box)) = Len(box) - 1
      /\ \A i \in 1..(Len(box) - 1) : Tail(box)[i] = box[i + 1]
  BY InTaken
<1>2. Ordered(Tail(box))
  <2> SUFFICES ASSUME NEW i \in 1..(Len(box) - 1), NEW j \in 1..(Len(box) - 1), i < j
               PROVE  /\ box[j + 1].type \in {"announced", "init"} => box[i + 1].type \notin {"init", "stop"}
                      /\ box[j + 1].type = "stop" => box[i + 1].type # "stop"
                      /\ box[j + 1].type = "synchronized" => box[i + 1] # box[j + 1]
    BY <1>1 DEF Ordered
  <2>1. i + 1 \in 1..Len(box) /\ j + 1 \in 1..Len(box) /\ i + 1 < j + 1
    BY <1>1
  <2> QED BY <2>1 DEF Ordered
<1>3. ASSUME NEW x, InBox(Tail(box), x)
      PROVE  /\ x.type \in {"announced", "init"} => Head(box).type \notin {"init", "stop"}
             /\ x.type = "stop" => Head(box).type # "stop"
             /\ x.type = "synchronized" => Head(box) # x
  <2>1. PICK i \in 1..(Len(box) - 1) : Tail(box)[i] = x
    BY <1>1, <1>3 DEF InBox
  <2>2. 1 \in 1..Len(box) /\ i + 1 \in 1..Len(box) /\ 1 < i + 1 /\ box[i + 1] = x /\ box[1] = Head(box)
    BY <1>1, <2>1
  <2> QED BY <2>2 DEF Ordered
<1> QED BY <1>2, <1>3, MessageKinds

\* What a set of at most one element is as a sequence.
LEMMA SetToSeqOfOne ==
  /\ SetToSeq({}) = <<>>
  /\ \A x : SetToSeq({x}) = <<x>>
<1>1. SetToSeq({}) = <<>>
  <2>1. Cardinality({}) = 0 /\ IsFiniteSet({})
    BY FS_EmptySet
  <2>2. ExistsBijection(1..Cardinality({}), {})
    BY <2>1, FS_CardinalityType
  <2>3. \E q \in [1..Cardinality({}) -> {}] : IsInjective(q)
    BY <2>2 DEF ExistsBijection, Bijection, Injection
  <2>4. SetToSeq({}) \in [1..Cardinality({}) -> {}]
    BY <2>3 DEF SetToSeq
  <2>5. SetToSeq({}) \in [1..0 -> {}]
    BY <2>1, <2>4
  <2>6. SetToSeq({}) \in Seq({}) /\ Len(SetToSeq({})) = 0
    BY <2>5
  <2> QED BY <2>6, EmptySeq
<1>2. ASSUME NEW x PROVE SetToSeq({x}) = <<x>>
  <2>1. Cardinality({x}) = 1
    BY FS_Singleton
  <2>2. [1..1 -> {x}] = {<<x>>}
    OBVIOUS
  <2>3. IsInjective(<<x>>)
    BY DEF IsInjective
  <2> QED BY <2>1, <2>2, <2>3 DEF SetToSeq
<1> QED BY <1>1, <1>2

-----------------------------------------------------------------------------
(* Types.                                                                       *)

\* TypeOK, with the names of federations taken from the set names.
Bounds == {"init", "stop", "leaves", "hasty", "slow"}
Types(names) ==
  /\ mState \in [Federates -> States] /\ pc \in [Federates -> ThreadPoints]
  /\ mFederationIndex \in [Federates -> names]
  /\ mCurrentFederationName \in [Federates -> names \cup {NoName}]
  /\ created \in [Federates -> BOOLEAN] /\ announced \in [Federates -> SUBSET Points]
  /\ sent \in [Federates -> SUBSET {"init", "stop"}] /\ labels \in [Federates -> SUBSET Points]
  /\ inbox \in [Federates -> Seq(Messages)]
  /\ federations \in Seq(names) /\ memberOf \in [Federates -> names \cup {NoName}]
  /\ points \subseteq names \X Points /\ owed \subseteq names \X Points \X Federates
  /\ used \in [Bounds -> Nat] /\ used["stop"] <= MaxStops

\* Who creates or joins a federation has its name, and who registers points is joined.
TypeInv(names) ==
  /\ Types(names)
  /\ \A f \in Federates : pc[f] = "Connect" =>
       /\ mState[f] \in {"CreateFederation", "JoinFederation"} => mCurrentFederationName[f] \in names
       /\ mState[f] = "JoinedFederation" => memberOf[f] \in names

\* Types of what the rtinode makes of lists and of inboxes.
LEMMA ConcatType ==
  ASSUME NEW S, NEW s \in Seq(S), NEW t \in Seq(S)
  PROVE  s \o t \in Seq(S)
BY ConcatProperties

\* The announcements of points are messages.
LEMMA AnnouncementsType ==
  ASSUME NEW ps
  PROVE  Announcements(ps) \in Seq(Messages)
<1>1. <<Announce("Initialized")>> \in Seq(Messages) /\ <<Announce("Stopped")>> \in Seq(Messages)
  <2>1. Announce("Initialized") \in Messages /\ Announce("Stopped") \in Messages
    BY MessageKinds DEF Points
  <2> QED BY <2>1
<1>2. <<>> \in Seq(Messages)
  OBVIOUS
<1>3. /\ (IF "Initialized" \in ps THEN <<Announce("Initialized")>> ELSE <<>>) \in Seq(Messages)
      /\ (IF "Stopped" \in ps THEN <<Announce("Stopped")>> ELSE <<>>) \in Seq(Messages)
  BY <1>1, <1>2
<1> QED BY <1>3, ConcatType DEF Announcements

\* The inboxes hold messages when the members are told.
LEMMA ToldType ==
  ASSUME NEW ps \in SUBSET Points
  PROVE  SetToSeq({Synchronized(p) : p \in ps}) \in Seq(Messages)
<1>1. PICK S : S = {Synchronized(p) : p \in ps}
  OBVIOUS
<1>2. S \subseteq Messages
  BY <1>1, MessageKinds
<1>3. IsFiniteSet(S)
  <2>1. S \subseteq {Synchronized("Initialized"), Synchronized("Stopped")}
    BY <1>1 DEF Points
  <2>2. IsFiniteSet({Synchronized("Initialized")} \cup {Synchronized("Stopped")})
    BY FS_Union, FS_Singleton
  <2>3. S \subseteq {Synchronized("Initialized")} \cup {Synchronized("Stopped")}
    BY <2>1
  <2> QED BY <2>2, <2>3, FS_Subset
<1>4. SetToSeq(S) \in [1..Cardinality(S) -> S] /\ Cardinality(S) \in Nat
  <2>1. Cardinality(S) \in Nat /\ ExistsBijection(1..Cardinality(S), S)
    BY <1>3, FS_CardinalityType
  <2>2. \E q \in [1..Cardinality(S) -> S] : IsInjective(q)
    BY <2>1 DEF ExistsBijection, Bijection, Injection
  <2> QED BY <2>1, <2>2 DEF SetToSeq
<1>5. SetToSeq(S) \in [1..Cardinality(S) -> Messages]
  BY <1>2, <1>4
<1> QED BY <1>1, <1>4, <1>5

\* Of the variables of RTI ambassador and rtinode, what resigning and achieving leave.
LEMMA ResignType ==
  ASSUME NEW names, Types(names), NEW f \in Federates, NEW left \in Seq(Messages), Resign(f, left)
  PROVE  /\ owed' \subseteq owed /\ points' \subseteq points
         /\ inbox' \in [Federates -> Seq(Messages)]
         /\ memberOf' \in [Federates -> names \cup {NoName}]
         /\ memberOf' = [memberOf EXCEPT ![f] = NoName]
<1>1. Done(memberOf[f], StillOwed(f, Points)) \in SUBSET Points
  BY DEF Done, Registered
<1>2. SetToSeq({Synchronized(p) : p \in Done(memberOf[f], StillOwed(f, Points))}) \in Seq(Messages)
  BY <1>1, ToldType
<1>3. Told(f, Points, inbox) \in [Federates -> Seq(Messages)]
  BY <1>2, ConcatType DEF Told, Types
<1>4. inbox' \in [Federates -> Seq(Messages)]
  BY <1>3 DEF Resign, Set
<1> QED BY <1>4 DEF Resign, Set, Types, StillOwed

\* Achieving points keeps the types of the rtinode.
LEMMA AchieveType ==
  ASSUME NEW names, Types(names), NEW f \in Federates, NEW p \in Points,
         NEW boxes \in [Federates -> Seq(Messages)], Achieve(f, {p}, boxes)
  PROVE  owed' \subseteq owed /\ points' \subseteq points /\ inbox' \in [Federates -> Seq(Messages)]
<1>1. Done(memberOf[f], StillOwed(f, {p})) \in SUBSET Points
  BY DEF Done, Registered
<1>2. SetToSeq({Synchronized(q) : q \in Done(memberOf[f], StillOwed(f, {p}))}) \in Seq(Messages)
  BY <1>1, ToldType
<1>3. Told(f, {p}, boxes) \in [Federates -> Seq(Messages)]
  BY <1>2, ConcatType DEF Told
<1> QED BY <1>3 DEF Achieve, StillOwed

\* So does a federate that achieves a point, or is thrown out for it.
LEMMA PointAchievedType ==
  ASSUME NEW names, Types(names), NEW f \in Federates, NEW p \in Points,
         NEW boxes \in [Federates -> Seq(Messages)], synchronizationPointAchieved(f, p, boxes)
  PROVE  /\ owed' \subseteq owed /\ points' \subseteq points /\ inbox' \in [Federates -> Seq(Messages)]
         /\ memberOf' \in [Federates -> names \cup {NoName}]
         /\ \A g \in Federates \ {f} : memberOf'[g] = memberOf[g]
<1>1. CASE inbox' = boxes /\ UNCHANGED federatesOnly
  BY <1>1 DEF federatesOnly, Types
<1>2. CASE Achieve(f, {p}, boxes) /\ UNCHANGED memberOf
  BY <1>2, AchieveType DEF Types
<1>3. CASE Resign(f, Append(boxes[f], Lost))
  <2>1. Append(boxes[f], Lost) \in Seq(Messages)
    BY MessageKinds, AppendProperties
  <2>2. PICK left : left = Append(boxes[f], Lost)
    OBVIOUS
  <2>3. left \in Seq(Messages) /\ Resign(f, left)
    BY <1>3, <2>1, <2>2
  <2>4. /\ owed' \subseteq owed /\ points' \subseteq points
        /\ inbox' \in [Federates -> Seq(Messages)]
        /\ memberOf' \in [Federates -> names \cup {NoName}]
        /\ memberOf' = [memberOf EXCEPT ![f] = NoName]
    BY <2>3, ResignType
  <2> QED BY <2>4 DEF Types
<1> QED BY <1>1, <1>2, <1>3 DEF synchronizationPointAchieved

\* A callback changes the state, the flags, the labels and the membership of its federate
\* only, and no callback makes it join.
LEMMA EvokeType ==
  ASSUME NEW names, Types(names), NEW f \in Federates, evokeCallback(f)
  PROVE  /\ mState' \in [Federates -> States] /\ labels' \in [Federates -> SUBSET Points]
         /\ announced' \in [Federates -> SUBSET Points] /\ inbox' \in [Federates -> Seq(Messages)]
         /\ memberOf' \in [Federates -> names \cup {NoName}]
         /\ owed' \subseteq owed /\ points' \subseteq points
         /\ UNCHANGED <<mFederationIndex, mCurrentFederationName, created, sent, federations>>
         /\ \A g \in Federates \ {f} : /\ mState'[g] = mState[g] /\ labels'[g] = labels[g]
                                       /\ announced'[g] = announced[g] /\ memberOf'[g] = memberOf[g]
         /\ mState'[f] # mState[f] => mState'[f] \in {"FederationSynchronized", "ReceivedMeasurementInit",
                                                      "ReceivedMeasurementStop", "ConnectionLost"}
<1>1. PICK rest : rest = Set(inbox, f, Tail(inbox[f]))
  OBVIOUS
<1>2. rest \in [Federates -> Seq(Messages)] /\ Head(inbox[f]) \in Messages
  BY <1>1, InTaken DEF Set, evokeCallback, Types
<1>3. PICK m \in Messages : m = Head(inbox[f])
  BY <1>2
<1>4. UNCHANGED <<mFederationIndex, mCurrentFederationName, created, sent, federations>>
  BY DEF evokeCallback, FederationMemory
<1>5. CASE m.type = "announced" /\ announceSynchronizationPoint(f, m.point, rest)
  BY <1>2, <1>4, <1>5, MessageKinds DEF announceSynchronizationPoint, federatesOnly, Set, Types
<1>6. CASE m.type = "synchronized" /\ federationSynchronized(f, m.point, rest)
  BY <1>2, <1>4, <1>6 DEF federationSynchronized, federatesOnly, Set, Types, States
<1>7. CASE m.type = "init" /\ OnReceiveIAMeasurementInit(f, rest)
  <2>1. CASE /\ f \in Waiting /\ inbox' = rest
             /\ mState' = IF mState[f] = "WaitForMeasurementInit"
                            THEN Set(mState, f, "ReceivedMeasurementInit") ELSE mState
             /\ UNCHANGED federatesOnly
    BY <1>2, <1>4, <1>7, <2>1 DEF OnReceiveIAMeasurementInit, federatesOnly, Set, Types, States
  <2>2. CASE UNCHANGED mState /\ synchronizationPointAchieved(f, "Initialized", rest)
    <3>1. "Initialized" \in Points
      BY DEF Points
    <3> QED BY <1>2, <1>4, <1>7, <2>2, <3>1, PointAchievedType DEF OnReceiveIAMeasurementInit, Types
  <2>3. CASE UNCHANGED mState /\ inbox' = rest /\ UNCHANGED federatesOnly
    BY <1>2, <1>4, <1>7, <2>3 DEF OnReceiveIAMeasurementInit, federatesOnly, Types
  <2> QED BY <1>7, <2>1, <2>2, <2>3 DEF OnReceiveIAMeasurementInit
<1>8. CASE m.type = "stop" /\ OnReceiveIAMeasurementStop(f, rest)
  <2>1. CASE mState' = Set(mState, f, "ReceivedMeasurementStop") /\ synchronizationPointAchieved(f, "Stopped", rest)
    <3>1. "Stopped" \in Points
      BY DEF Points
    <3> QED BY <1>2, <1>4, <1>8, <2>1, <3>1, PointAchievedType DEF OnReceiveIAMeasurementStop, Set, Types, States
  <2>2. CASE UNCHANGED mState /\ inbox' = rest /\ UNCHANGED federatesOnly
    BY <1>2, <1>4, <1>8, <2>2 DEF OnReceiveIAMeasurementStop, federatesOnly, Types
  <2> QED BY <1>8, <2>1, <2>2 DEF OnReceiveIAMeasurementStop
<1>9. CASE m.type = "lost" /\ connectionLost(f, rest)
  BY <1>2, <1>4, <1>9 DEF connectionLost, federatesOnly, Set, Types, States
<1> QED BY <1>1, <1>3, <1>5, <1>6, <1>7, <1>8, <1>9 DEF evokeCallback

\* What federate f, its application or its process does.
Step(f) ==
  \/ Start(f) \/ Connect(f) \/ EvokeCallbacks(f) \/ Disconnect(f) \/ Disconnected(f)
  \/ Crash(f) \/ SendMeasurementInit(f) \/ SendMeasurementStop(f)

\* It leaves the state of the other federates alone, except for their inboxes.
Alone(f) == \A g \in Federates \ {f} :
  /\ mState'[g] = mState[g] /\ pc'[g] = pc[g] /\ mFederationIndex'[g] = mFederationIndex[g]
  /\ mCurrentFederationName'[g] = mCurrentFederationName[g] /\ created'[g] = created[g]
  /\ announced'[g] = announced[g] /\ sent'[g] = sent[g] /\ labels'[g] = labels[g]
  /\ memberOf'[g] = memberOf[g]

\* Leaving is counted.
LEMMA LeavesType ==
  ASSUME NEW names, Types(names), NEW f \in Federates, Leaves(f)
  PROVE  used' \in [Bounds -> Nat] /\ used'["stop"] <= MaxStops
<1>1. \/ used' = [used EXCEPT !["leaves"] = @ + 1] \/ used' = [used EXCEPT !["hasty"] = @ + 1]
  BY DEF Leaves, InGoodTime, Budget, Untimely
<1> QED BY <1>1 DEF Types, Bounds

\* A list without one of its elements.
LEMMA RemovedType ==
  ASSUME NEW S, NEW s \in Seq(S), NEW i \in DOMAIN s
  PROVE  RemoveAt(s, i) \in Seq(S)
<1>1. Len(s) \in Nat /\ i \in 1..Len(s) /\ \A j \in 1..Len(s) : s[j] \in S
  BY LenProperties
<1>2. SubSeq(s, 1, i - 1) \in Seq(S)
  <2>1. 1 \in Int /\ i - 1 \in Int /\ \A j \in 1..(i - 1) : s[j] \in S
    BY <1>1
  <2> QED BY <2>1, SubSeqProperties
<1>3. SubSeq(s, i + 1, Len(s)) \in Seq(S)
  <2>1. i + 1 \in Int /\ Len(s) \in Int /\ \A j \in (i + 1)..Len(s) : s[j] \in S
    BY <1>1
  <2> QED BY <2>1, SubSeqProperties
<1> QED BY <1>2, <1>3, ConcatType DEF RemoveAt

\* The list of federations keeps its type.
LEMMA DestroyType ==
  ASSUME NEW names, Types(names), NEW n, Destroy(n)
  PROVE  federations' \in Seq(names)
BY RemovedType DEF Destroy, Types

\* An interaction adds a message to the inboxes and to what its sender has sent.
LEMMA SendType ==
  ASSUME NEW names, Types(names), NEW f \in Federates, NEW m \in {Init_, Stop_}, SendInteraction(f, m)
  PROVE  /\ sent' \in [Federates -> SUBSET {"init", "stop"}]
         /\ inbox' \in [Federates -> Seq(Messages)]
         /\ \A g \in Federates \ {f} : sent'[g] = sent[g]
         /\ UNCHANGED <<mState, pc, FederationMemory, created, announced, labels, rtinode>>
<1>1. m \in Messages /\ m.type \in {"init", "stop"}
  BY MessageKinds
<1>2. inbox' \in [Federates -> Seq(Messages)]
  BY <1>1, AppendProperties DEF SendInteraction, Types
<1> QED BY <1>1, <1>2 DEF SendInteraction, Set, Types

\* Every step keeps the types and leaves the other federates alone, for every set of names that
\* has the new index in it.
LEMMA TypeStep ==
  ASSUME NEW names, names \subseteq Int, NoIndex \in names, TypeInv(names), NEW f \in Federates, Step(f),
         mFederationIndex' \in [Federates -> names]
  PROVE  TypeInv(names)' /\ Alone(f)
<1> USE DEF TypeInv, Types, Alone, Set, Goto, States, ThreadPoints, ambassador, rtinode, FederationMemory, InBlock
<1>1. CASE Start(f)
  BY <1>1 DEF Start
<1>2. CASE ScanForFederationPrefix(f)
  BY <1>2 DEF ScanForFederationPrefix, UpdateFederationNameAndIndex
<1>3. CASE CreateFederation(f)
  <2>1. /\ used' \in [Bounds -> Nat] /\ used'["stop"] <= MaxStops
        /\ federations' \in Seq(names)
        /\ created' \in [Federates -> BOOLEAN]
        /\ \A g \in Federates \ {f} : created'[g] = created[g]
    <3>1. mCurrentFederationName[f] \in names
      BY <1>3 DEF CreateFederation
    <3>2. Append(federations, mCurrentFederationName[f]) \in Seq(names)
      BY <3>1, AppendProperties
    <3>3. federations' \in Seq(names)
      BY <1>3, <3>2 DEF CreateFederation
    <3>4. used' = used \/ used' = [used EXCEPT !["slow"] = @ + 1]
      BY <1>3 DEF CreateFederation, Untimely
    <3>5. used' \in [Bounds -> Nat] /\ used'["stop"] <= MaxStops
      BY <3>4 DEF Bounds
    <3>6. created' = Set(created, f, TRUE) \/ created' = Set(created, f, FALSE)
      BY <1>3 DEF CreateFederation
    <3> QED BY <3>3, <3>5, <3>6
  <2>2. mState' \in [Federates -> States] /\ pc' \in [Federates -> ThreadPoints]
    BY <1>3 DEF CreateFederation
  <2>3. UNCHANGED <<mFederationIndex, mCurrentFederationName, announced, sent, labels, inbox, memberOf, points, owed>>
    BY <1>3 DEF CreateFederation
  <2>4. /\ \A g \in Federates \ {f} : mState'[g] = mState[g] /\ pc'[g] = pc[g]
        /\ mState'[f] \in {"CreateFederation", "JoinFederation"} /\ mCurrentFederationName[f] \in names
    BY <1>3 DEF CreateFederation
  <2> QED BY <2>1, <2>2, <2>3, <2>4
<1>4. CASE JoinFederation(f)
  <2>1. mCurrentFederationName[f] \in names
    BY <1>4 DEF JoinFederation
  <2>2. UNCHANGED <<mFederationIndex, mCurrentFederationName, created, announced, sent, labels, federations>>
    BY <1>4 DEF JoinFederation
  <2>3. PICK n : n = mCurrentFederationName[f]
    OBVIOUS
  <2>4. CASE (\E a \in Seq(Messages) : Enter(f, n, a)) /\ Exists(n) /\ memberOf[f] = NoName
    <3>1. PICK a \in Seq(Messages) : Enter(f, n, a)
      BY <2>4
    <3>2. /\ memberOf' \in [Federates -> names \cup {NoName}]
          /\ memberOf'[f] \in names
          /\ \A g \in Federates \ {f} : memberOf'[g] = memberOf[g]
          /\ inbox' \in [Federates -> Seq(Messages)]
          /\ owed' \subseteq names \X Points \X Federates /\ points' = points
      <4>1. memberOf' = [memberOf EXCEPT ![f] = n] /\ inbox' = [inbox EXCEPT ![f] = a] /\ points' = points
        BY <3>1 DEF Enter
      <4>2. owed' = owed \cup {<<n, p, f>> : p \in Registered(n)} /\ Registered(n) \subseteq Points
        BY <3>1 DEF Enter, Registered
      <4>3. owed' \subseteq names \X Points \X Federates
        BY <2>1, <2>3, <4>2
      <4> QED BY <2>1, <2>3, <4>1, <4>3
    <3>3. CASE UNCHANGED used /\ Goto(f, "JoinedFederation", "Connect")
      BY <2>2, <3>2, <3>3
    <3>4. CASE Untimely("slow") /\ UNCHANGED <<mState, pc>>
      <4>1. used' \in [Bounds -> Nat] /\ used'["stop"] <= MaxStops
        BY <3>4 DEF Untimely, Bounds
      <4> QED BY <1>4, <2>1, <2>2, <3>2, <3>4, <4>1 DEF JoinFederation
    <3>5. Exists(n) /\ memberOf[f] = NoName =>
            \/ UNCHANGED used /\ Goto(f, "JoinedFederation", "Connect")
            \/ Untimely("slow") /\ UNCHANGED <<mState, pc>>
      BY <1>4, <2>3 DEF JoinFederation
    <3> QED BY <3>3, <3>4, <3>5, <2>4
  <2>5. CASE Resign(f, <<>>) /\ Goto(f, mState[f], "Terminated") /\ UNCHANGED used
    <3>1. <<>> \in Seq(Messages)
      OBVIOUS
    <3>2. /\ owed' \subseteq owed /\ points' \subseteq points
          /\ inbox' \in [Federates -> Seq(Messages)]
          /\ memberOf' \in [Federates -> names \cup {NoName}]
          /\ memberOf' = [memberOf EXCEPT ![f] = NoName]
      BY <2>5, <3>1, ResignType
    <3> QED BY <2>2, <2>5, <3>2
  <2>6. Announcements(Registered(n)) \in Seq(Messages) /\ <<>> \in Seq(Messages)
    BY AnnouncementsType
  <2> QED BY <1>4, <2>3, <2>4, <2>5, <2>6 DEF JoinFederation
<1>5. CASE RegisterSyncPoints(f)
  <2>1. memberOf[f] \in names
    BY <1>5 DEF RegisterSyncPoints
  <2>2. inbox' \in [Federates -> Seq(Messages)]
    <3>1. Announcements(Points \ Registered(memberOf[f])) \in Seq(Messages)
      BY AnnouncementsType
    <3> QED BY <1>5, <3>1, ConcatType DEF RegisterSyncPoints
  <2> QED BY <1>5, <2>1, <2>2 DEF RegisterSyncPoints, Members
<1>6. CASE RetrieveSyncPoints(f)
  BY <1>6 DEF RetrieveSyncPoints
<1>7. CASE evokeCallback(f) /\ pc[f] # "Connect" /\ (pc' = pc \/ pc' = Set(pc, f, "Scanned")) /\ UNCHANGED used
  <2>1. /\ mState' \in [Federates -> States] /\ labels' \in [Federates -> SUBSET Points]
        /\ announced' \in [Federates -> SUBSET Points] /\ inbox' \in [Federates -> Seq(Messages)]
        /\ memberOf' \in [Federates -> names \cup {NoName}]
        /\ owed' \subseteq owed /\ points' \subseteq points
        /\ UNCHANGED <<mFederationIndex, mCurrentFederationName, created, sent, federations>>
        /\ \A g \in Federates \ {f} : /\ mState'[g] = mState[g] /\ labels'[g] = labels[g]
                                      /\ announced'[g] = announced[g] /\ memberOf'[g] = memberOf[g]
    BY <1>7, EvokeType
  <2>2. /\ pc' \in [Federates -> ThreadPoints] /\ pc'[f] # "Connect"
        /\ \A g \in Federates \ {f} : pc'[g] = pc[g]
    BY <1>7
  <2>3. UNCHANGED used
    BY <1>7
  <2> QED BY <2>1, <2>2, <2>3
<1>8. CASE NoPointsAnnounced(f)
  <2>1. used' \in [Bounds -> Nat] /\ used'["stop"] <= MaxStops
    BY <1>8 DEF NoPointsAnnounced, Untimely, Bounds
  <2> QED BY <1>8, <2>1 DEF NoPointsAnnounced
<1>9. ASSUME NEW left \in Seq(Messages), Resign(f, left), labels' = Set(labels, f, {})
      PROVE  /\ owed' \subseteq names \X Points \X Federates /\ points' \subseteq names \X Points
             /\ inbox' \in [Federates -> Seq(Messages)]
             /\ memberOf' \in [Federates -> names \cup {NoName}]
             /\ labels' \in [Federates -> SUBSET Points]
             /\ \A g \in Federates \ {f} : memberOf'[g] = memberOf[g] /\ labels'[g] = labels[g]
  <2>1. /\ owed' \subseteq owed /\ points' \subseteq points
        /\ inbox' \in [Federates -> Seq(Messages)]
        /\ memberOf' \in [Federates -> names \cup {NoName}]
        /\ memberOf' = [memberOf EXCEPT ![f] = NoName]
    BY <1>9, ResignType
  <2> QED BY <1>9, <2>1
<1>10. <<>> \in Seq(Messages)
  OBVIOUS
<1>11. CASE HandleDeadFederation(f)
  BY <1>9, <1>10, <1>11 DEF HandleDeadFederation
<1>12. CASE JoinFreshOrLate(f)
  BY <1>12 DEF JoinFreshOrLate
<1>13. CASE InitFederate(f)
  BY <1>13 DEF InitFederate
<1>14. CASE InitReceived(f)
  <2>1. /\ owed' \subseteq owed /\ points' \subseteq points /\ inbox' \in [Federates -> Seq(Messages)]
        /\ memberOf' \in [Federates -> names \cup {NoName}]
        /\ \A g \in Federates \ {f} : memberOf'[g] = memberOf[g]
    <3>1. "Initialized" \in Points
      BY DEF Points
    <3> QED BY <1>14, <3>1, PointAchievedType DEF InitReceived, federatesOnly
  <2> QED BY <1>14, <2>1 DEF InitReceived
<1>15. CASE FederationSynchronized(f)
  BY <1>15 DEF FederationSynchronized
<1>16. CASE ResetOnMeasurementStop(f)
  BY <1>9, <1>10, <1>16 DEF ResetOnMeasurementStop
<1>17. CASE Destroyed(f)
  <2>1. federations' \in Seq(names)
    BY <1>17, DestroyType DEF Destroyed
  <2>2. UNCHANGED <<labels, inbox, memberOf, points, owed, used>>
    BY <1>17 DEF Destroyed
  <2>3. CASE /\ ResetRemoteAmbassador(f) /\ UNCHANGED FederationMemory
             /\ Goto(f, "ScanForFederationPrefix", "Connect")
    BY <2>1, <2>2, <2>3 DEF ResetRemoteAmbassador
  <2>4. CASE /\ \E index : /\ mFederationIndex' = Set(mFederationIndex, f, index)
                           /\ mCurrentFederationName' = Set(mCurrentFederationName, f, index)
             /\ Goto(f, "CreateFederation", "Connect")
             /\ UNCHANGED <<created, announced, sent>>
    BY <2>1, <2>2, <2>4
  <2> QED BY <1>17, <2>3, <2>4 DEF Destroyed
<1>18. CASE HandleConnectionLost(f)
  BY <1>18 DEF HandleConnectionLost, ResetRemoteAmbassador, ResetFederationMemory
<1>19. CASE Disconnect(f)
  BY <1>9, <1>10, <1>19, LeavesType DEF Disconnect
<1>20. CASE Disconnected(f)
  <2>1. federations' \in Seq(names)
    BY <1>20, DestroyType DEF Disconnected
  <2> QED BY <1>20, <2>1 DEF Disconnected, ResetRemoteAmbassador, ResetFederationMemory
<1>21. CASE Crash(f)
  BY <1>9, <1>10, <1>21, LeavesType DEF Crash, ResetRemoteAmbassador, ResetFederationMemory
<1>22. CASE SendMeasurementInit(f) \/ SendMeasurementStop(f)
  <2>1. \E m \in {Init_, Stop_} : SendInteraction(f, m)
    BY <1>22 DEF SendMeasurementInit, SendMeasurementStop
  <2>2. used' \in [Bounds -> Nat] /\ used'["stop"] <= MaxStops
    <3>1. \/ used' = [used EXCEPT !["init"] = @ + 1] \/ used' = [used EXCEPT !["hasty"] = @ + 1]
          \/ used["stop"] < MaxStops /\ used' = [used EXCEPT !["stop"] = @ + 1]
      BY <1>22 DEF SendMeasurementInit, SendMeasurementStop, InGoodTime, Budget, Untimely
    <3> QED BY <3>1, BoundsAssumption DEF Bounds
  <2>3. /\ sent' \in [Federates -> SUBSET {"init", "stop"}]
        /\ inbox' \in [Federates -> Seq(Messages)]
        /\ \A g \in Federates \ {f} : sent'[g] = sent[g]
        /\ UNCHANGED <<mState, pc, FederationMemory, created, announced, labels, rtinode>>
    BY <2>1, SendType
  <2> QED BY <2>2, <2>3
<1>23. PointWait(f) \/ JoinScan(f) \/ InitWait(f) \/ SyncWait(f) \/ EvokeCallbacks(f) => <1>7!1
  BY DEF PointWait, JoinScan, InitWait, SyncWait, EvokeCallbacks
<1> QED BY <1>1, <1>2, <1>3, <1>4, <1>5, <1>6, <1>7, <1>8, <1>11, <1>12, <1>13, <1>14, <1>15, <1>16,
           <1>17, <1>18, <1>19, <1>20, <1>21, <1>22, <1>23 DEF Step, Connect

\* The names there are without a bound on the index.
AllNames == {n \in Int : n >= NoIndex}

\* Without a bound every index is a name.
LEMMA IndexStep ==
  ASSUME TypeInv(AllNames), NEW f \in Federates, Step(f)
  PROVE  mFederationIndex' \in [Federates -> AllNames]
<1>1. mFederationIndex \in [Federates -> AllNames] /\ federations \in Seq(AllNames)
  BY DEF TypeInv, Types
<1>2. \A n \in AllNames : Next_(n) \in AllNames
  BY DEF Next_, AllNames, NoIndex
<1>3. federations # <<>> => Last(federations) \in AllNames
  <2>1. Len(federations) \in Nat /\ \A i \in 1..Len(federations) : federations[i] \in AllNames
    BY <1>1, LenProperties
  <2>2. federations # <<>> => Len(federations) \in 1..Len(federations)
    BY <1>1, <2>1, EmptySeq
  <2> QED BY <2>1, <2>2 DEF Last
<1>4. CASE ScanForFederationPrefix(f)
  BY <1>1, <1>2, <1>3, <1>4 DEF ScanForFederationPrefix, UpdateFederationNameAndIndex, Set
<1>5. CASE Destroyed(f)
  BY <1>1, <1>2, <1>5 DEF Destroyed, Set, FederationMemory
<1>6. CASE HandleConnectionLost(f) \/ Disconnected(f) \/ Crash(f)
  <2>1. NoIndex \in AllNames
    BY DEF AllNames, NoIndex
  <2> QED BY <1>1, <1>6, <2>1 DEF HandleConnectionLost, Disconnected, Crash, ResetFederationMemory, Set
<1>7. evokeCallback(f) => UNCHANGED mFederationIndex
  BY DEF evokeCallback, FederationMemory
<1>8. CASE UNCHANGED mFederationIndex
  BY <1>1, <1>8
<1>9. Start(f) \/ CreateFederation(f) \/ JoinFederation(f) \/ RegisterSyncPoints(f) \/ RetrieveSyncPoints(f)
        \/ NoPointsAnnounced(f) \/ HandleDeadFederation(f) \/ JoinFreshOrLate(f) \/ InitFederate(f)
        \/ InitReceived(f) \/ FederationSynchronized(f) \/ ResetOnMeasurementStop(f) \/ Disconnect(f)
        => UNCHANGED mFederationIndex
  BY DEF Start, CreateFederation, JoinFederation, RegisterSyncPoints, RetrieveSyncPoints, NoPointsAnnounced,
         HandleDeadFederation, JoinFreshOrLate, InitFederate, InitReceived, FederationSynchronized,
         ResetOnMeasurementStop, Disconnect, ambassador, FederationMemory
<1>10. SendMeasurementInit(f) \/ SendMeasurementStop(f) => UNCHANGED mFederationIndex
  BY DEF SendMeasurementInit, SendMeasurementStop, SendInteraction, FederationMemory
<1> QED BY <1>4, <1>5, <1>6, <1>7, <1>8, <1>9, <1>10
        DEF Step, Connect, PointWait, JoinScan, InitWait, SyncWait, EvokeCallbacks

-----------------------------------------------------------------------------
(* The rtinode.                                                                *)

\* What is owed is a registered point of the federation that the federate is joined to;
\* a registered point is owed by somebody, as it is gone with the last who achieves it;
\* and a federation that somebody is joined to exists.
RtinodeConsistent ==
  /\ \A o \in owed : <<o[1], o[2]>> \in points /\ memberOf[o[3]] = o[1]
  /\ \A q \in points : \E f \in Federates : <<q[1], q[2], f>> \in owed
  /\ \A f \in Federates : memberOf[f] # NoName => Exists(memberOf[f])

\* RtinodeConsistent, by the elements of its tuples.
LEMMA RtinodeFacts ==
  ASSUME TypeInv(AllNames), RtinodeConsistent
  PROVE  /\ \A n, p, f : <<n, p, f>> \in owed =>
              n \in AllNames /\ p \in Points /\ f \in Federates /\ <<n, p>> \in points /\ memberOf[f] = n
         /\ \A n, p : <<n, p>> \in points => /\ n \in AllNames /\ p \in Points
                                             /\ \E f \in Federates : <<n, p, f>> \in owed
         /\ NoName \notin AllNames /\ NoIndex \in AllNames
<1>1. owed \subseteq AllNames \X Points \X Federates /\ points \subseteq AllNames \X Points
  BY DEF TypeInv, Types
<1>2. ASSUME NEW n, NEW p, NEW f, <<n, p, f>> \in owed
      PROVE  n \in AllNames /\ p \in Points /\ f \in Federates /\ <<n, p>> \in points /\ memberOf[f] = n
  <2>1. PICK o : o = <<n, p, f>>
    OBVIOUS
  <2>2. o \in owed /\ o[1] = n /\ o[2] = p /\ o[3] = f
    BY <1>2, <2>1
  <2>3. <<o[1], o[2]>> \in points /\ memberOf[o[3]] = o[1]
    BY <2>2 DEF RtinodeConsistent
  <2> QED BY <1>1, <1>2, <2>2, <2>3
<1>3. ASSUME NEW n, NEW p, <<n, p>> \in points
      PROVE  n \in AllNames /\ p \in Points /\ \E f \in Federates : <<n, p, f>> \in owed
  <2>1. PICK q : q = <<n, p>>
    OBVIOUS
  <2>2. q \in points /\ q[1] = n /\ q[2] = p
    BY <1>3, <2>1
  <2>3. \E f \in Federates : <<q[1], q[2], f>> \in owed
    BY <2>2 DEF RtinodeConsistent
  <2> QED BY <1>1, <1>3, <2>2, <2>3
<1>4. NoName \notin AllNames /\ NoIndex \in AllNames
  BY DEF AllNames, NoName, NoIndex
<1> QED BY <1>2, <1>3, <1>4

\* And the way back, for the state after a step.
LEMMA RtinodeFromFacts ==
  ASSUME TypeInv(AllNames)',
         \A n, p, f : <<n, p, f>> \in owed' => <<n, p>> \in points' /\ memberOf'[f] = n,
         \A n, p : <<n, p>> \in points' => \E f \in Federates : <<n, p, f>> \in owed',
         \A f \in Federates : memberOf'[f] # NoName => Exists(memberOf[f])'
  PROVE  RtinodeConsistent'
<1>1. owed' \subseteq AllNames \X Points \X Federates /\ points' \subseteq AllNames \X Points
  BY DEF TypeInv, Types
<1>2. ASSUME NEW o \in owed' PROVE <<o[1], o[2]>> \in points' /\ memberOf'[o[3]] = o[1]
  <2>1. o = <<o[1], o[2], o[3]>>
    BY <1>1
  <2> QED BY <2>1
<1>3. ASSUME NEW q \in points' PROVE \E f \in Federates : <<q[1], q[2], f>> \in owed'
  <2>1. q = <<q[1], q[2]>>
    BY <1>1
  <2> QED BY <2>1
<1> QED BY <1>2, <1>3 DEF RtinodeConsistent

\* Achieving the points ps, by a member or by a federate that is joined nowhere.
LEMMA AchievedRtinode ==
  ASSUME TypeInv(AllNames), RtinodeConsistent, NEW f \in Federates, NEW ps \in SUBSET Points,
         owed' = StillOwed(f, ps),
         points' = points \ ({memberOf[f]} \X Done(memberOf[f], owed'))
  PROVE  /\ \A n, p, g : <<n, p, g>> \in owed' <=>
              <<n, p, g>> \in owed /\ ~(n = memberOf[f] /\ p \in ps /\ g = f)
         /\ \A n, p : <<n, p>> \in points' <=>
              <<n, p>> \in points /\ \E g \in Federates : <<n, p, g>> \in owed'
<1>1. \A n, p, g : <<n, p, g>> \in owed' <=>
        <<n, p, g>> \in owed /\ ~(n = memberOf[f] /\ p \in ps /\ g = f)
  <2>1. ASSUME NEW n, NEW p, NEW g
        PROVE  <<n, p, g>> \in {<<memberOf[f], q, f>> : q \in ps} <=> n = memberOf[f] /\ p \in ps /\ g = f
    OBVIOUS
  <2> QED BY <2>1 DEF StillOwed
<1>2. ASSUME NEW n, NEW p
      PROVE  <<n, p>> \in points' <=> <<n, p>> \in points /\ \E g \in Federates : <<n, p, g>> \in owed'
  <2>1. <<n, p>> \in points' <=> <<n, p>> \in points /\ ~(n = memberOf[f] /\ p \in Done(memberOf[f], owed'))
    OBVIOUS
  <2>2. CASE n = memberOf[f]
    BY <2>1, <2>2, RtinodeFacts DEF Done, Registered
  <2>3. CASE n # memberOf[f]
    <3>1. <<n, p>> \in points => \E g \in Federates : <<n, p, g>> \in owed
      BY RtinodeFacts
    <3> QED BY <1>1, <2>1, <2>3, <3>1
  <2> QED BY <2>2, <2>3
<1> QED BY <1>1, <1>2

\* Destroying a federation leaves the others.
LEMMA DestroyLeaves ==
  ASSUME TypeInv(AllNames), NEW n, Destroy(n), NEW m, m # n, Exists(m)
  PROVE  Exists(m)'
<1>1. CASE UNCHANGED federations
  BY <1>1 DEF Exists
<1>2. ASSUME NEW i \in DOMAIN federations, federations[i] = n, federations' = RemoveAt(federations, i)
      PROVE  Exists(m)'
  <2>1. Len(federations) \in Nat /\ i \in 1..Len(federations)
        /\ \A j \in 1..Len(federations) : federations[j] \in AllNames
    BY LenProperties DEF TypeInv, Types
  <2>2. PICK a, b : a = SubSeq(federations, 1, i - 1) /\ b = SubSeq(federations, i + 1, Len(federations))
    OBVIOUS
  <2>3. a \in Seq(AllNames) /\ Len(a) = i - 1 /\ \A j \in 1..(i - 1) : a[j] = federations[j]
    <3>1. 1 \in Int /\ i - 1 \in Int /\ \A j \in 1..(i - 1) : federations[j] \in AllNames
      BY <2>1
    <3>2. /\ SubSeq(federations, 1, i - 1) \in Seq(AllNames)
          /\ Len(SubSeq(federations, 1, i - 1)) = IF 1 <= i - 1 THEN (i - 1) - 1 + 1 ELSE 0
          /\ \A j \in 1..((i - 1) - 1 + 1) : SubSeq(federations, 1, i - 1)[j] = federations[1 + j - 1]
      BY <3>1, SubSeqProperties
    <3> QED BY <2>1, <2>2, <3>2
  <2>4. b \in Seq(AllNames) /\ Len(b) = Len(federations) - i
        /\ \A j \in 1..(Len(federations) - i) : b[j] = federations[i + j]
    <3>1. i + 1 \in Int /\ Len(federations) \in Int
          /\ \A j \in (i + 1)..Len(federations) : federations[j] \in AllNames
      BY <2>1
    <3>2. PICK c : c = Len(federations)
      OBVIOUS
    <3>3. /\ SubSeq(federations, i + 1, c) \in Seq(AllNames)
          /\ Len(SubSeq(federations, i + 1, c)) = IF i + 1 <= c THEN c - (i + 1) + 1 ELSE 0
          /\ \A j \in 1..(c - (i + 1) + 1) : SubSeq(federations, i + 1, c)[j] = federations[i + 1 + j - 1]
      BY <3>1, <3>2, SubSeqProperties
    <3> QED BY <2>1, <2>2, <3>2, <3>3
  <2>5. /\ a \o b \in Seq(AllNames) /\ Len(a \o b) = Len(a) + Len(b)
        /\ \A j \in 1..(Len(a) + Len(b)) : (a \o b)[j] = IF j <= Len(a) THEN a[j] ELSE b[j - Len(a)]
    BY <2>3, <2>4, ConcatProperties
  <2>6. federations' = a \o b
    BY <1>2, <2>2 DEF RemoveAt
  <2>7. PICK j \in 1..Len(federations) : federations[j] = m
    BY DEF Exists, Contains
  <2>8. CASE j < i
    <3>1. j \in 1..(i - 1) /\ j \in 1..(Len(a) + Len(b)) /\ j <= Len(a)
      BY <2>1, <2>3, <2>4, <2>8
    <3> QED BY <2>3, <2>5, <2>6, <2>7, <3>1 DEF Exists, Contains
  <2>9. CASE i < j
    <3>1. j - 1 \in 1..(Len(a) + Len(b)) /\ ~(j - 1 <= Len(a)) /\ (j - 1) - Len(a) = j - i
          /\ j - i \in 1..(Len(federations) - i) /\ i + (j - i) = j
      <4>1. Len(a) = i - 1 /\ Len(b) = Len(federations) - i
        BY <2>3, <2>4
      <4>2. j - 1 \in Int /\ 1 <= j - 1 /\ j - 1 <= Len(a) + Len(b) /\ Len(a) + Len(b) \in Int
        BY <2>1, <2>9, <4>1
      <4>3. j - i \in Int /\ 1 <= j - i /\ j - i <= Len(federations) - i /\ Len(federations) - i \in Int
        BY <2>1, <2>9
      <4>4. i \in Int /\ j \in Int
        BY <2>1
      <4>5. ~(j - 1 <= Len(a)) /\ (j - 1) - Len(a) = j - i
        BY <2>9, <4>1, <4>4
      <4>6. i + (j - i) = j
        BY <4>4
      <4>7. j - 1 \in 1..(Len(a) + Len(b))
        BY <4>2
      <4>8. j - i \in 1..(Len(federations) - i)
        BY <4>3
      <4> QED BY <4>5, <4>6, <4>7, <4>8
    <3>2. (a \o b)[j - 1] = m
      BY <2>4, <2>5, <2>7, <3>1
    <3> QED BY <2>5, <2>6, <3>1, <3>2 DEF Exists, Contains
  <2>10. j # i
    BY <1>2, <2>7
  <2> QED BY <2>1, <2>8, <2>9, <2>10
<1> QED BY <1>1, <1>2 DEF Destroy

\* Creating a federation leaves the others.
LEMMA ExistsStays ==
  ASSUME TypeInv(AllNames), NEW n, n \in AllNames, UNCHANGED federations \/ federations' = Append(federations, n), NEW m, Exists(m)
  PROVE  Exists(m)'
<1>1. Len(federations) \in Nat
  BY LenProperties DEF TypeInv, Types
<1>2. PICK i \in 1..Len(federations) : federations[i] = m
  BY DEF Exists, Contains
<1>3. CASE UNCHANGED federations
  BY <1>2, <1>3 DEF Exists, Contains
<1>4. CASE federations' = Append(federations, n)
  <2>1. Len(federations') = Len(federations) + 1 /\ federations'[i] = m /\ i \in 1..(Len(federations) + 1)
    BY <1>1, <1>2, <1>4, AppendProperties DEF TypeInv, Types
  <2> QED BY <2>1 DEF Exists, Contains
<1> QED BY <1>3, <1>4

\* Leaving a federation keeps the rtinode consistent.
LEMMA ResignRtinode ==
  ASSUME TypeInv(AllNames), TypeInv(AllNames)', RtinodeConsistent, NEW f \in Federates, NEW left,
         Resign(f, left), UNCHANGED federations
  PROVE  RtinodeConsistent'
<1>1. /\ \A n, p, g : <<n, p, g>> \in owed' <=>
              <<n, p, g>> \in owed /\ ~(n = memberOf[f] /\ p \in Points /\ g = f)
      /\ \A n, p : <<n, p>> \in points' <=>
              <<n, p>> \in points /\ \E g \in Federates : <<n, p, g>> \in owed'
  BY AchievedRtinode DEF Resign
<1>2. memberOf' = [memberOf EXCEPT ![f] = NoName] /\ memberOf \in [Federates -> AllNames \cup {NoName}]
  BY DEF Resign, Set, TypeInv, Types
<1>3. ASSUME NEW n, NEW p, NEW g, <<n, p, g>> \in owed' PROVE <<n, p>> \in points' /\ memberOf'[g] = n
  <2>1. <<n, p, g>> \in owed /\ ~(n = memberOf[f] /\ p \in Points /\ g = f)
    BY <1>1, <1>3
  <2>2. p \in Points /\ g \in Federates /\ <<n, p>> \in points /\ memberOf[g] = n
    BY <2>1, RtinodeFacts
  <2>3. g # f
    BY <2>1, <2>2
  <2> QED BY <1>1, <1>2, <1>3, <2>2, <2>3
<1>4. ASSUME NEW g \in Federates, memberOf'[g] # NoName PROVE Exists(memberOf[g])'
  <2>1. memberOf'[g] = memberOf[g] /\ Exists(memberOf[g])
    BY <1>2, <1>4 DEF RtinodeConsistent
  <2> QED BY <2>1 DEF Exists
<1> QED BY <1>1, <1>3, <1>4, RtinodeFromFacts

\* What nobody owes and is not registered does not become so by a callback.
LEMMA PointAchievedRtinode ==
  ASSUME TypeInv(AllNames), TypeInv(AllNames)', RtinodeConsistent, NEW f \in Federates, NEW p \in Points, NEW boxes,
         synchronizationPointAchieved(f, p, boxes), UNCHANGED federations
  PROVE  RtinodeConsistent'
<1>1. CASE UNCHANGED federatesOnly
  BY <1>1 DEF federatesOnly, RtinodeConsistent, Exists
<1>2. CASE Achieve(f, {p}, boxes) /\ UNCHANGED memberOf
  <2>1. /\ \A n, q, g : <<n, q, g>> \in owed' <=>
                <<n, q, g>> \in owed /\ ~(n = memberOf[f] /\ q \in {p} /\ g = f)
        /\ \A n, q : <<n, q>> \in points' <=>
                <<n, q>> \in points /\ \E g \in Federates : <<n, q, g>> \in owed'
    <3>1. {p} \in SUBSET Points
      OBVIOUS
    <3> QED BY <1>2, <3>1, AchievedRtinode DEF Achieve
  <2>2. ASSUME NEW n, NEW q, NEW g, <<n, q, g>> \in owed' PROVE <<n, q>> \in points' /\ memberOf'[g] = n
    <3>1. <<n, q, g>> \in owed
      BY <2>1, <2>2
    <3>2. g \in Federates /\ <<n, q>> \in points /\ memberOf[g] = n
      BY <3>1, RtinodeFacts
    <3> QED BY <1>2, <2>1, <2>2, <3>2
  <2>3. \A g \in Federates : memberOf'[g] # NoName => Exists(memberOf[g])'
    BY <1>2 DEF RtinodeConsistent, Exists
  <2> QED BY <2>1, <2>2, <2>3, RtinodeFromFacts
<1>3. CASE Resign(f, Append(boxes[f], Lost))
  BY <1>3, ResignRtinode
<1> QED BY <1>1, <1>2, <1>3 DEF synchronizationPointAchieved

\* So does every step.
LEMMA RtinodeStep ==
  ASSUME TypeInv(AllNames), TypeInv(AllNames)', RtinodeConsistent, NEW f \in Federates, Step(f)
  PROVE  RtinodeConsistent'
<1>1. CASE UNCHANGED rtinode
  BY <1>1 DEF rtinode, RtinodeConsistent, Exists
<1>2. CASE CreateFederation(f)
  <2>1. UNCHANGED <<memberOf, points, owed>>
    BY <1>2 DEF CreateFederation
  <2>2. UNCHANGED federations \/ \E n \in AllNames : federations' = Append(federations, n)
    BY <1>2 DEF CreateFederation, InBlock, TypeInv
  <2>3. \A m : Exists(m) => Exists(m)'
    <3>1. CASE UNCHANGED federations
      BY <3>1 DEF Exists
    <3>2. CASE \E n \in AllNames : federations' = Append(federations, n)
      BY <3>2, ExistsStays
    <3> QED BY <2>2, <3>1, <3>2
  <2> QED BY <2>1, <2>3 DEF RtinodeConsistent
<1>3. CASE JoinFederation(f)
  <2>1. UNCHANGED federations
    BY <1>3 DEF JoinFederation
  <2>2. CASE \E left : Resign(f, left)
    BY <2>1, <2>2, ResignRtinode
  <2>3. ASSUME NEW n, NEW a, Enter(f, n, a), Exists(n), memberOf[f] = NoName
        PROVE  RtinodeConsistent'
    <3>1. /\ memberOf' = [memberOf EXCEPT ![f] = n] /\ points' = points
          /\ owed' = owed \cup {<<n, p, f>> : p \in Registered(n)}
      BY <2>3 DEF Enter, Set
    <3>2. ASSUME NEW m, NEW p, NEW g, <<m, p, g>> \in owed' PROVE <<m, p>> \in points' /\ memberOf'[g] = m
      <4>1. CASE <<m, p, g>> \in owed
        <5>1. g \in Federates /\ memberOf[g] = m /\ m \in AllNames /\ <<m, p>> \in points
          BY <4>1, RtinodeFacts
        <5>2. g # f
          BY <2>3, <5>1, RtinodeFacts
        <5> QED BY <3>1, <5>1, <5>2 DEF TypeInv, Types
      <4>2. CASE m = n /\ g = f /\ p \in Registered(n)
        BY <3>1, <4>2 DEF Registered, TypeInv, Types
      <4> QED BY <3>1, <3>2, <4>1, <4>2
    <3>3. ASSUME NEW m, NEW p, <<m, p>> \in points' PROVE \E g \in Federates : <<m, p, g>> \in owed'
      BY <3>1, <3>3, RtinodeFacts
    <3>4. \A g \in Federates : memberOf'[g] # NoName => Exists(memberOf[g])'
      <4>1. \A m : Exists(m)' <=> Exists(m)
        BY <2>1 DEF Exists
      <4>2. ASSUME NEW g \in Federates, memberOf'[g] # NoName PROVE Exists(memberOf'[g])
        BY <2>3, <3>1, <4>2 DEF RtinodeConsistent, TypeInv, Types
      <4> QED BY <2>1, <4>2 DEF Exists
    <3> QED BY <3>2, <3>3, <3>4, RtinodeFromFacts
  <2> QED BY <1>3, <2>2, <2>3 DEF JoinFederation
<1>4. CASE RegisterSyncPoints(f)
  <2>1. PICK n : n = memberOf[f]
    OBVIOUS
  <2>2. /\ points' = points \cup ({n} \X (Points \ Registered(n)))
        /\ owed' = owed \cup ({n} \X (Points \ Registered(n)) \X Members(n))
        /\ UNCHANGED <<federations, memberOf>>
    BY <1>4, <2>1 DEF RegisterSyncPoints
  <2>3. ASSUME NEW m, NEW p, NEW g, <<m, p, g>> \in owed' PROVE <<m, p>> \in points' /\ memberOf'[g] = m
    <3>1. CASE <<m, p, g>> \in owed
      BY <2>2, <3>1, RtinodeFacts
    <3>2. CASE m = n /\ p \in Points \ Registered(n) /\ g \in Members(n)
      BY <2>2, <3>2 DEF Members
    <3> QED BY <2>2, <2>3, <3>1, <3>2
  <2>4. ASSUME NEW m, NEW p, <<m, p>> \in points' PROVE \E g \in Federates : <<m, p, g>> \in owed'
    <3>1. CASE <<m, p>> \in points
      BY <2>2, <3>1, RtinodeFacts
    <3>2. CASE m = n /\ p \in Points \ Registered(n)
      <4>1. f \in Members(n)
        BY <2>1 DEF Members
      <4> QED BY <2>2, <3>2, <4>1
    <3> QED BY <2>2, <2>4, <3>1, <3>2
  <2>5. \A g \in Federates : memberOf'[g] # NoName => Exists(memberOf[g])'
    BY <2>2 DEF RtinodeConsistent, Exists
  <2> QED BY <2>3, <2>4, <2>5, RtinodeFromFacts
<1>5. CASE evokeCallback(f)
  <2>1. UNCHANGED federations
    BY <1>5 DEF evokeCallback
  <2>2. CASE UNCHANGED federatesOnly
    BY <2>1, <2>2 DEF federatesOnly, RtinodeConsistent, Exists
  <2>3. ASSUME NEW p \in Points, NEW boxes, synchronizationPointAchieved(f, p, boxes) PROVE RtinodeConsistent'
    BY <2>1, <2>3, PointAchievedRtinode
  <2>4. "Initialized" \in Points /\ "Stopped" \in Points
    BY DEF Points
  <2> QED BY <1>5, <2>2, <2>3, <2>4
          DEF evokeCallback, announceSynchronizationPoint, federationSynchronized, OnReceiveIAMeasurementInit,
              OnReceiveIAMeasurementStop, connectionLost
<1>6. CASE InitReceived(f)
  <2>1. UNCHANGED federations
    BY <1>6 DEF InitReceived
  <2>2. CASE UNCHANGED federatesOnly
    BY <2>1, <2>2 DEF federatesOnly, RtinodeConsistent, Exists
  <2>3. "Initialized" \in Points
    BY DEF Points
  <2> QED BY <1>6, <2>1, <2>2, <2>3, PointAchievedRtinode DEF InitReceived
<1>7. CASE \E left : Resign(f, left) /\ UNCHANGED federations
  BY <1>7, ResignRtinode
<1>8. CASE (\E n : Destroy(n)) /\ UNCHANGED <<memberOf, points, owed>>
  <2>1. PICK n : Destroy(n)
    BY <1>8
  <2>2. ASSUME NEW g \in Federates, memberOf'[g] # NoName PROVE Exists(memberOf[g])'
    <3>1. Exists(memberOf[g]) /\ memberOf'[g] = memberOf[g]
      BY <1>8, <2>2 DEF RtinodeConsistent
    <3>2. CASE memberOf[g] = n
      <4>1. UNCHANGED federations
        BY <2>1, <3>2 DEF Destroy, Members
      <4> QED BY <3>1, <4>1 DEF Exists
    <3>3. CASE memberOf[g] # n
      <4>1. PICK m : m = memberOf[g]
        OBVIOUS
      <4>2. Exists(m)'
        BY <2>1, <3>1, <3>3, <4>1, DestroyLeaves
      <4> QED BY <3>1, <4>1, <4>2 DEF Exists
    <3> QED BY <3>2, <3>3
  <2> QED BY <1>8, <2>2 DEF RtinodeConsistent
<1>9. Start(f) \/ ScanForFederationPrefix(f) \/ RetrieveSyncPoints(f) \/ NoPointsAnnounced(f) \/ JoinFreshOrLate(f)
        \/ InitFederate(f) \/ FederationSynchronized(f) \/ HandleConnectionLost(f) => UNCHANGED rtinode
  BY DEF Start, ScanForFederationPrefix, RetrieveSyncPoints, NoPointsAnnounced, JoinFreshOrLate, InitFederate,
         FederationSynchronized, HandleConnectionLost
<1>10. SendMeasurementInit(f) \/ SendMeasurementStop(f) => UNCHANGED rtinode
  BY DEF SendMeasurementInit, SendMeasurementStop, SendInteraction
<1>11. HandleDeadFederation(f) \/ ResetOnMeasurementStop(f) \/ Disconnect(f) \/ Crash(f) => <1>7!1
  BY DEF HandleDeadFederation, ResetOnMeasurementStop, Disconnect, Crash
<1>12. Destroyed(f) \/ Disconnected(f) => <1>8!1
  BY DEF Destroyed, Disconnected
<1> QED BY <1>1, <1>2, <1>3, <1>4, <1>5, <1>6, <1>7, <1>8, <1>9, <1>10, <1>11, <1>12
        DEF Step, Connect, PointWait, JoinScan, InitWait, SyncWait, EvokeCallbacks

-----------------------------------------------------------------------------
(* Behaviours in which everything comes in good time.  The federates gather in   *)
(* one federation, measure in it, and part from it to gather in the next one.    *)

\* A message waits for f; f knows a point, or will; f has the name and the index n, or none;
\* and f is not joined to any federation.
Has(f, m) == InBox(inbox[f], m)
Knows(f, p) == p \in labels[f] \/ Has(f, Announce(p))
Named(f, n) == mFederationIndex[f] = n /\ mCurrentFederationName[f] = n
Fresh(f) == mFederationIndex[f] = NoIndex /\ mCurrentFederationName[f] = NoName
Outside(f) == memberOf[f] = NoName /\ labels[f] = {} /\ inbox[f] = <<>>

\* The federations that follow one another.
Epochs == {NoIndex} \cup (Nat \ {0})

\* A federate that is on its way to federation k, in it, or on its way out.
Offline(f) == /\ mState[f] = "Offline" /\ pc[f] = "None"
              /\ Outside(f) /\ Fresh(f) /\ announced[f] = {} /\ ~created[f]

\* On its way: it looks for the name, creates the federation, or is about to join it.
Approaches(f, k) ==
  /\ Outside(f) /\ announced[f] = {} /\ pc[f] = "Connect"
  /\ \/ /\ mState[f] = "ScanForFederationPrefix" /\ ~created[f]
        /\ Fresh(f) \/ \E o \in Epochs : Next_(o) = k /\ Named(f, o)
     \/ mState[f] = "CreateFederation" /\ ~created[f] /\ Named(f, k)
     \/ mState[f] = "JoinFederation" /\ Named(f, k)

\* Joined: it looks for the points, and then waits for the start or is online.
Inside(f, k) ==
  /\ memberOf[f] = k /\ Named(f, k) /\ announced[f] = labels[f]
  /\ \A m : Has(f, m) => \E p \in Points : m = Announce(p)
  /\ \/ mState[f] = "JoinedFederation" /\ pc[f] \in {"Connect", "PointWait", "JoinScan"}
     \/ mState[f] = "JoinedFederation" /\ pc[f] = "Scanned" /\ announced[f] # {}
     \/ mState[f] = "InitFederate" /\ pc[f] = "Connect"
     \/ mState[f] = "WaitForMeasurementInit" /\ pc[f] = "InitWait" /\ f \in Waiting
     \/ mState[f] = "Online" /\ pc[f] = "Evoke" /\ f \notin Waiting

\* It has left by itself and destroys the federation next.
Leaving(f, k) == mState[f] = "Online" /\ pc[f] = "Leave" /\ Outside(f) /\ Named(f, k)

Gatherer(f, k) ==
  /\ sent[f] = {}
  /\ Offline(f) \/ Approaches(f, k) \/ Inside(f, k) \/ Leaving(f, k)

\* Its points are registered by the only federate that has created it, before anybody can
\* be further than the search for them.
OneCreates == \A f, g \in Federates :
  created[f] /\ created[g] /\ mCurrentFederationName[f] = mCurrentFederationName[g] => f = g

\* It joins the federation, and, as its creator, is about to register the points.
Joins(f, k) == Named(f, k) /\ pc[f] = "Connect" /\ mState[f] \in {"JoinFederation", "JoinedFederation"}
Registers(f, k) == created[f] /\ Joins(f, k)

\* Before the points are registered nobody knows any, nor has anybody left again.
Early(f, k) ==
  /\ memberOf[f] = k => /\ mState[f] = "JoinedFederation" /\ pc[f] \in {"Connect", "JoinScan"}
                        /\ inbox[f] = <<>> /\ labels[f] = {}
  /\ pc[f] # "Leave"

WithoutPoints(k) ==
  /\ \A p \in Points : <<k, p>> \notin points
  /\ \A f \in Federates : Early(f, k)
  /\ \/ ~Exists(k) /\ \A f \in Federates : ~Joins(f, k)
     \/ Exists(k) /\ \E f \in Federates : Registers(f, k)

\* From then on every member owes them and knows of them.
Late(f, k) ==
  /\ memberOf[f] = k => \A p \in Points : <<k, p, f>> \in owed /\ Knows(f, p)
  /\ ~Registers(f, k)

WithPoints(k) ==
  /\ Exists(k) /\ \E f \in Federates : memberOf[f] = k
  /\ \A p \in Points : <<k, p>> \in points
  /\ \A f \in Federates : Late(f, k)

\* A gathering is before or after the registration of the points.
Gathering(k) == WithoutPoints(k) \/ WithPoints(k)

-----------------------------------------------------------------------------
(* Steps of those who gather.                                                   *)

\* What holds when federate f gathers in k, and what its step keeps.
GatherContext(f, k) ==
  /\ TypeInv(AllNames) /\ TypeInv(AllNames)' /\ RtinodeConsistent /\ Alone(f) /\ Calm'
  /\ Gatherer(f, k) /\ Gathering(k) /\ OneCreates
  /\ \A g \in Federates : Gatherer(g, k) \/ (mCurrentFederationName[g] # k /\ memberOf[g] # k)

GatherResult(f, k) ==
  /\ Gatherer(f, k)' /\ Gathering(k)' /\ OneCreates'
  /\ \A g \in Federates \ {f} : Gatherer(g, k) => Gatherer(g, k)'
  /\ \A g \in Federates \ {f} : memberOf[g] # k => inbox'[g] = inbox[g]
  /\ UNCHANGED federations \/ (federations' = Append(federations, k) /\ ~Exists(k))
  /\ \A n, p, g : n # k => /\ <<n, p, g>> \in owed' <=> <<n, p, g>> \in owed
                           /\ <<n, p>> \in points' <=> <<n, p>> \in points

\* Indices grow, and a federation follows only one other.
LEMMA EpochFacts ==
  /\ Epochs \subseteq AllNames /\ NoIndex \in Epochs /\ NoName \notin AllNames
  /\ \A n \in Epochs : /\ Next_(n) \in Epochs /\ Next_(n) # n /\ Next_(n) # NoIndex
                       /\ n < Next_(n) /\ (Next_(n) <= n + 1 \/ n = NoIndex)
  /\ Next_(NoIndex) = 1
  /\ \A m, n \in Epochs : Next_(m) = Next_(n) => m = n
BY DEF Epochs, AllNames, NoIndex, NoName, Next_

\* While nothing is untimely no bound on untimely events is used.
LEMMA CalmSteps ==
  ASSUME Types(AllNames), Calm'
  PROVE  ~Untimely("slow") /\ ~Untimely("hasty")
<1>1. used["slow"] \in Nat /\ used["hasty"] \in Nat
  BY DEF Types, Bounds
<1>2. used \in [Bounds -> Nat] /\ "slow" \in Bounds /\ "hasty" \in Bounds
  BY DEF Types, Bounds
<1> QED BY <1>1, <1>2 DEF Untimely, Calm

\* The same federate, with the same messages.
Same(g) ==
  /\ mState'[g] = mState[g] /\ pc'[g] = pc[g] /\ mFederationIndex'[g] = mFederationIndex[g]
  /\ mCurrentFederationName'[g] = mCurrentFederationName[g] /\ created'[g] = created[g]
  /\ announced'[g] = announced[g] /\ sent'[g] = sent[g] /\ labels'[g] = labels[g]
  /\ memberOf'[g] = memberOf[g] /\ inbox'[g] = inbox[g]

\* Who is the same and has the same messages gathers as before.
LEMMA SameGatherer ==
  ASSUME NEW g \in Federates, NEW k, Same(g), Gatherer(g, k)
  PROVE  Gatherer(g, k)'
<1>1. Offline(g) => Offline(g)'
  BY DEF Same, Offline, Outside, Fresh
<1>2. Approaches(g, k) => Approaches(g, k)'
  BY DEF Same, Approaches, Outside, Fresh, Named
<1>3. Inside(g, k) => Inside(g, k)'
  BY DEF Same, Inside, Named, Has
<1>4. Leaving(g, k) => Leaving(g, k)'
  BY DEF Same, Leaving, Outside, Named
<1> QED BY <1>1, <1>2, <1>3, <1>4 DEF Gatherer, Same

\* A step that leaves the rtinode and the inboxes of the others alone.
LEMMA QuietStep ==
  ASSUME NEW f \in Federates, NEW k \in Epochs, GatherContext(f, k),
         UNCHANGED <<federations, points, owed>>,
         \A g \in Federates \ {f} : inbox'[g] = inbox[g],
         Gatherer(f, k)',
         created'[f] => created[f] /\ mCurrentFederationName'[f] = mCurrentFederationName[f],
         WithoutPoints(k) => /\ Early(f, k)' /\ (Joins(f, k)' => Joins(f, k) \/ Exists(k))
                             /\ (Registers(f, k) => Registers(f, k)'),
         WithPoints(k) => Late(f, k)' /\ (memberOf[f] = k => memberOf'[f] = k)
  PROVE  GatherResult(f, k)
<1>1. \A g \in Federates \ {f} : Same(g)
  BY DEF GatherContext, Alone, Same
<1>2. \A g \in Federates \ {f} : Gatherer(g, k) => Gatherer(g, k)'
  BY <1>1, SameGatherer
<1>3. OneCreates'
  BY <1>1 DEF OneCreates, GatherContext, Same
<1>4. ASSUME NEW g \in Federates \ {f}
      PROVE  /\ Early(g, k) => Early(g, k)'
             /\ Joins(g, k)' <=> Joins(g, k)
             /\ Registers(g, k)' <=> Registers(g, k)
             /\ Late(g, k) => Late(g, k)'
  <2>1. Same(g)
    BY <1>1
  <2>2. Early(g, k) => Early(g, k)'
    BY <2>1 DEF Same, Early
  <2>3. Joins(g, k)' <=> Joins(g, k)
    BY <2>1 DEF Same, Joins, Named
  <2>4. Registers(g, k)' <=> Registers(g, k)
    BY <2>1, <2>3 DEF Same, Registers
  <2>5. \A p : Knows(g, p)' <=> Knows(g, p)
    BY <2>1 DEF Same, Knows, Has
  <2>6. Late(g, k) => Late(g, k)'
    BY <2>1, <2>4, <2>5 DEF Same, Late
  <2> QED BY <2>2, <2>3, <2>4, <2>6
<1>5. Exists(k)' <=> Exists(k)
  BY DEF Exists
<1>6. ASSUME WithoutPoints(k) PROVE WithoutPoints(k)'
  <2>1. \A p \in Points : <<k, p>> \notin points'
    BY <1>6 DEF WithoutPoints
  <2>2. ASSUME NEW g \in Federates PROVE Early(g, k)'
    <3>1. CASE g = f
      BY <1>6, <3>1
    <3>2. CASE g # f
      BY <1>4, <1>6, <3>2 DEF WithoutPoints
    <3> QED BY <3>1, <3>2
  <2>3. CASE ~Exists(k) /\ \A g \in Federates : ~Joins(g, k)
    <3>1. ASSUME NEW g \in Federates PROVE ~Joins(g, k)'
      BY <1>4, <1>6, <2>3
    <3> QED BY <1>5, <2>1, <2>2, <2>3, <3>1 DEF WithoutPoints
  <2>4. CASE Exists(k) /\ \E g \in Federates : Registers(g, k)
    <3>1. PICK g \in Federates : Registers(g, k)
      BY <2>4
    <3>2. Registers(g, k)'
      BY <1>4, <1>6, <3>1
    <3> QED BY <1>5, <2>1, <2>2, <2>4, <3>2 DEF WithoutPoints
  <2> QED BY <1>6, <2>3, <2>4 DEF WithoutPoints
<1>7. ASSUME WithPoints(k) PROVE WithPoints(k)'
  <2>1. ASSUME NEW g \in Federates PROVE Late(g, k)'
    <3>1. CASE g = f
      BY <1>7, <3>1
    <3>2. CASE g # f
      BY <1>4, <1>7, <3>2 DEF WithPoints
    <3> QED BY <3>1, <3>2
  <2>2. PICK g \in Federates : memberOf[g] = k
    BY <1>7 DEF WithPoints
  <2>3. memberOf'[g] = k
    BY <1>1, <1>7, <2>2 DEF Same
  <2> QED BY <1>5, <1>7, <2>1, <2>3 DEF WithPoints
<1>8. Gathering(k)'
  <2>1. WithoutPoints(k) \/ WithPoints(k)
    BY DEF GatherContext, Gathering
  <2> QED BY <1>6, <1>7, <2>1 DEF Gathering
<1> QED BY <1>2, <1>3, <1>8 DEF GatherResult

\* The steps of Connect, one by one: the name is taken from the list,
LEMMA ScanGathers ==
  ASSUME NEW f \in Federates, NEW k \in Epochs, GatherContext(f, k), ScanForFederationPrefix(f),
         mFederationIndex'[f] = k
  PROVE  GatherResult(f, k)
<1>1. mState[f] = "ScanForFederationPrefix" /\ pc[f] = "Connect"
  BY DEF ScanForFederationPrefix, InBlock
<1>2. Approaches(f, k) /\ ~created[f] /\ sent[f] = {}
  BY <1>1 DEF GatherContext, Gatherer, Offline, Inside, Leaving, Approaches
<1>3. /\ UNCHANGED <<created, announced, sent, labels, inbox, federations, memberOf, points, owed>>
      /\ mState'[f] = "CreateFederation" /\ pc'[f] = "Connect"
      /\ mCurrentFederationName'[f] = k
  BY DEF ScanForFederationPrefix, UpdateFederationNameAndIndex, Goto, Set, rtinode, GatherContext, TypeInv, Types
<1>4. Gatherer(f, k)'
  BY <1>2, <1>3 DEF Gatherer, Approaches, Outside, Named
<1>5. memberOf'[f] # k
  BY <1>2, <1>3, EpochFacts DEF Approaches, Outside
<1>6. Early(f, k)' /\ ~Joins(f, k)' /\ Late(f, k)' /\ ~Registers(f, k) /\ memberOf[f] # k
  BY <1>2, <1>3, <1>5 DEF Early, Joins, Late, Registers
<1> QED BY <1>2, <1>3, <1>4, <1>6, QuietStep

\* the federation is created or exists already,
LEMMA CreateGathers ==
  ASSUME NEW f \in Federates, NEW k \in Epochs, GatherContext(f, k), CreateFederation(f)
  PROVE  GatherResult(f, k)
<1>1. mState[f] = "CreateFederation" /\ pc[f] = "Connect"
  BY DEF CreateFederation, InBlock
<1>2. Approaches(f, k) /\ ~created[f] /\ sent[f] = {} /\ Named(f, k)
  BY <1>1 DEF GatherContext, Gatherer, Offline, Inside, Leaving, Approaches
<1>3. /\ UNCHANGED <<mFederationIndex, mCurrentFederationName, announced, sent, labels, inbox, memberOf, points, owed>>
      /\ mCurrentFederationName[f] = k
  BY <1>2 DEF CreateFederation, FederationMemory, Named
<1>4. ~Untimely("slow")
  BY CalmSteps DEF GatherContext, TypeInv
<1>5. \/ /\ Exists(k) /\ UNCHANGED federations /\ created' = Set(created, f, FALSE)
         /\ Goto(f, "JoinFederation", "Connect")
      \/ /\ ~Exists(k) /\ federations' = Append(federations, k) /\ created' = Set(created, f, TRUE)
         /\ Goto(f, "JoinFederation", "Connect")
  BY <1>3, <1>4 DEF CreateFederation
<1>6. mState'[f] = "JoinFederation" /\ pc'[f] = "Connect"
  BY <1>5 DEF Goto, Set, GatherContext, TypeInv, Types
<1>7. Gatherer(f, k)'
  BY <1>2, <1>3, <1>6 DEF Gatherer, Approaches, Outside, Named
<1>8. memberOf'[f] # k /\ memberOf[f] # k /\ ~Registers(f, k)
  BY <1>2, <1>3, EpochFacts DEF Approaches, Outside, Registers
<1>9. CASE Exists(k) /\ UNCHANGED federations /\ created' = Set(created, f, FALSE)
  <2>1. ~created'[f]
    BY <1>9 DEF Set, GatherContext, TypeInv, Types
  <2>2. Early(f, k)' /\ Late(f, k)'
    BY <1>6, <1>8, <2>1 DEF Early, Late, Registers
  <2> QED BY <1>3, <1>7, <1>8, <1>9, <2>1, <2>2, QuietStep
<1>10. CASE ~Exists(k) /\ federations' = Append(federations, k) /\ created' = Set(created, f, TRUE)
  <2>1. WithoutPoints(k) /\ \A g \in Federates : ~Joins(g, k)
    BY <1>10 DEF GatherContext, Gathering, WithPoints, WithoutPoints
  <2>2. \A g \in Federates \ {f} : Same(g)
    BY <1>3 DEF GatherContext, Alone, Same
  <2>3. \A g \in Federates \ {f} : Gatherer(g, k) => Gatherer(g, k)'
    BY <2>2, SameGatherer
  <2>4. created'[f]
    BY <1>10 DEF Set, GatherContext, TypeInv, Types
  <2>5. Exists(k)'
    <3>1. k \in AllNames /\ federations \in Seq(AllNames)
      BY EpochFacts DEF GatherContext, TypeInv, Types
    <3>2. /\ Len(federations') = Len(federations) + 1 /\ Len(federations) \in Nat
          /\ federations'[Len(federations) + 1] = k
      BY <1>10, <3>1, AppendProperties, LenProperties
    <3>3. Len(federations) + 1 \in 1..Len(federations')
      BY <3>2
    <3> QED BY <3>2, <3>3 DEF Exists, Contains
  <2>6. \A g \in Federates : Early(g, k)'
    <3>1. ASSUME NEW g \in Federates, g # f PROVE Early(g, k)'
      BY <2>1, <2>2, <3>1 DEF WithoutPoints, Early, Same
    <3>2. Early(f, k)'
      BY <1>6, <1>8 DEF Early
    <3> QED BY <3>1, <3>2
  <2>7. Registers(f, k)'
    BY <1>2, <1>3, <1>6, <2>4 DEF Registers, Joins, Named
  <2>8. WithoutPoints(k)'
    BY <1>3, <2>1, <2>5, <2>6, <2>7 DEF WithoutPoints
  <2>9. ASSUME NEW g \in Federates, g # f, created[g], mCurrentFederationName[g] = k PROVE FALSE
    <3>1. Gatherer(g, k)
      BY <2>9 DEF GatherContext
    <3>2. memberOf[g] # k
      <4>1. memberOf[g] = k => Exists(memberOf[g])
        BY EpochFacts DEF GatherContext, RtinodeConsistent
      <4> QED BY <1>10, <4>1
    <3>3. pc[g] # "Leave" /\ ~Joins(g, k)
      BY <2>1 DEF WithoutPoints, Early
    <3>4. k # NoName
      BY EpochFacts
    <3> QED BY <2>9, <3>1, <3>2, <3>3, <3>4 DEF Gatherer, Offline, Fresh, Approaches, Inside, Leaving, Joins, Named
  <2>10. OneCreates'
    <3>1. ASSUME NEW g \in Federates, NEW h \in Federates, created'[g], created'[h],
                 mCurrentFederationName'[g] = mCurrentFederationName'[h], g # h
          PROVE  FALSE
      <4>1. CASE g = f
        BY <1>3, <2>2, <2>9, <3>1, <4>1 DEF Same
      <4>2. CASE h = f
        BY <1>3, <2>2, <2>9, <3>1, <4>2 DEF Same
      <4>3. CASE g # f /\ h # f
        BY <2>2, <3>1, <4>3 DEF Same, GatherContext, OneCreates
      <4> QED BY <4>1, <4>2, <4>3
    <3> QED BY <3>1 DEF OneCreates
  <2> QED BY <1>3, <1>7, <1>10, <2>3, <2>8, <2>10 DEF GatherResult, Gathering
<1> QED BY <1>5, <1>9, <1>10

\* All announcements, and none.
LEMMA AnnouncementsFacts ==
  /\ Announcements({}) = <<>>
  /\ Announcements(Points) \in Seq(Messages)
  /\ \A m : InBox(Announcements(Points), m) <=> \E p \in Points : m = Announce(p)
<1>1. Announcements({}) = <<>> \o <<>>
  BY DEF Announcements
<1>2. <<>> \o <<>> = <<>>
  OBVIOUS
<1>3. Announcements(Points) = <<Announce("Initialized")>> \o <<Announce("Stopped")>>
  <2>1. "Initialized" \in Points /\ "Stopped" \in Points
    BY DEF Points
  <2> QED BY <2>1 DEF Announcements
<1>4. PICK a, b : a = Announce("Initialized") /\ b = Announce("Stopped")
  OBVIOUS
<1>5. <<a>> \o <<b>> = <<a, b>>
  <2> DEFINE s == <<a>> \o <<b>>
             t == <<a, b>>
  <2>1. /\ <<a>> \in Seq({a, b}) /\ Len(<<a>>) = 1 /\ <<a>>[1] = a
        /\ <<b>> \in Seq({a, b}) /\ Len(<<b>>) = 1 /\ <<b>>[1] = b
    OBVIOUS
  <2>2. t \in Seq({a, b}) /\ Len(t) = 2 /\ t[1] = a /\ t[2] = b
    OBVIOUS
  <2>3. /\ s \in Seq({a, b}) /\ Len(s) = 1 + 1
        /\ \A i \in 1..(1 + 1) : s[i] = IF i <= 1 THEN <<a>>[i] ELSE <<b>>[i - 1]
    BY <2>1, ConcatProperties
  <2>4. Len(s) = 2 /\ s[1] = a /\ s[2] = b
    BY <2>1, <2>3
  <2> HIDE DEF s, t
  <2>5. Len(s) = Len(t) /\ \A i \in 1..Len(s) : s[i] = t[i]
    BY <2>2, <2>4
  <2>6. s = t
    BY <2>2, <2>3, <2>5, SeqEqual
  <2> QED BY <2>6 DEF s, t
<1>6. Len(<<a, b>>) = 2 /\ <<a, b>>[1] = a /\ <<a, b>>[2] = b
  OBVIOUS
<1>7. \A m : InBox(<<a, b>>, m) <=> m = a \/ m = b
  <2>1. 1..2 = {1, 2}
    OBVIOUS
  <2> QED BY <1>6, <2>1 DEF InBox
<1>8. \A m : (m = a \/ m = b) <=> \E p \in Points : m = Announce(p)
  BY <1>4 DEF Points
<1> QED BY <1>1, <1>2, <1>3, <1>4, <1>5, <1>7, <1>8, AnnouncementsType

\* it is joined,
LEMMA JoinGathers ==
  ASSUME NEW f \in Federates, NEW k \in Epochs, GatherContext(f, k), JoinFederation(f)
  PROVE  GatherResult(f, k)
<1>1. mState[f] = "JoinFederation" /\ pc[f] = "Connect"
  BY DEF JoinFederation, InBlock
<1>2. Approaches(f, k) /\ sent[f] = {} /\ Named(f, k) /\ Joins(f, k)
  BY <1>1 DEF GatherContext, Gatherer, Offline, Inside, Leaving, Approaches, Joins
<1>3. Exists(k)
  BY <1>2 DEF GatherContext, Gathering, WithPoints, WithoutPoints
<1>4. ~Untimely("slow")
  BY CalmSteps DEF GatherContext, TypeInv
<1>5. memberOf[f] = NoName /\ labels[f] = {} /\ announced[f] = {}
  BY <1>2 DEF Approaches, Outside
<1>6. /\ Enter(f, k, Announcements(Registered(k))) /\ Goto(f, "JoinedFederation", "Connect")
      /\ UNCHANGED <<ambassador, labels, federations>>
  BY <1>2, <1>3, <1>4, <1>5 DEF JoinFederation, Named
<1>7. /\ mState'[f] = "JoinedFederation" /\ pc'[f] = "Connect"
      /\ UNCHANGED <<mFederationIndex, mCurrentFederationName, created, announced, sent, labels, federations>>
      /\ memberOf'[f] = k /\ inbox'[f] = Announcements(Registered(k))
      /\ \A g \in Federates \ {f} : inbox'[g] = inbox[g]
      /\ owed' = owed \cup {<<k, p, f>> : p \in Registered(k)} /\ points' = points
  BY <1>6 DEF Enter, Goto, Set, ambassador, GatherContext, TypeInv, Types
<1>8. ASSUME \A m : Has(f, m)' => \E p \in Points : m = Announce(p)
      PROVE  Gatherer(f, k)'
  BY <1>2, <1>5, <1>7, <1>8 DEF Gatherer, Inside, Named
<1>9. CASE WithoutPoints(k)
  <2>1. Registered(k) = {}
    BY <1>9 DEF WithoutPoints, Registered
  <2>2. inbox'[f] = <<>> /\ UNCHANGED <<points, owed>>
    BY <1>7, <2>1, AnnouncementsFacts
  <2>3. Gatherer(f, k)'
    BY <1>8, <2>2, InEmpty DEF Has
  <2>4. Early(f, k)' /\ (Registers(f, k) => Registers(f, k)')
    BY <1>2, <1>5, <1>7, <2>2 DEF Early, Registers, Joins, Named
  <2>5. ~WithPoints(k)
    BY <1>9 DEF WithoutPoints, WithPoints, Points
  <2> QED BY <1>3, <1>7, <2>2, <2>3, <2>4, <2>5, QuietStep
<1>10. CASE WithPoints(k)
  <2>1. Registered(k) = Points
    BY <1>10 DEF WithPoints, Registered
  <2>2. \A m : Has(f, m)' <=> \E p \in Points : m = Announce(p)
    BY <1>7, <2>1, AnnouncementsFacts DEF Has
  <2>3. Gatherer(f, k)'
    BY <1>8, <2>2
  <2>4. \A g \in Federates \ {f} : Same(g)
    BY <1>7 DEF GatherContext, Alone, Same
  <2>5. \A g \in Federates \ {f} : Gatherer(g, k) => Gatherer(g, k)'
    BY <2>4, SameGatherer
  <2>6. OneCreates'
    BY <1>7 DEF GatherContext, OneCreates
  <2>7. Late(f, k)'
    <3>1. ~Registers(f, k)'
      BY <1>2, <1>7, <1>10 DEF WithPoints, Late, Registers
    <3>2. \A p \in Points : <<k, p, f>> \in owed' /\ Knows(f, p)'
      BY <1>7, <2>1, <2>2 DEF Knows
    <3> QED BY <3>1, <3>2 DEF Late
  <2>8. ASSUME NEW g \in Federates, g # f PROVE Late(g, k)'
    <3>1. Same(g) /\ Late(g, k)
      BY <1>10, <2>4, <2>8 DEF WithPoints
    <3>2. \A p : Knows(g, p)' <=> Knows(g, p)
      BY <3>1 DEF Same, Knows, Has
    <3>3. Registers(g, k)' <=> Registers(g, k)
      BY <3>1 DEF Same, Registers, Joins, Named
    <3> QED BY <1>7, <3>1, <3>2, <3>3 DEF Late, Same
  <2>9. Exists(k)'
    BY <1>3, <1>7 DEF Exists
  <2>10. WithPoints(k)'
    BY <1>7, <1>10, <2>7, <2>8, <2>9 DEF WithPoints
  <2>11. \A n, p, g : n # k => (<<n, p, g>> \in owed' <=> <<n, p, g>> \in owed)
    BY <1>7
  <2> QED BY <1>7, <2>3, <2>5, <2>6, <2>10, <2>11 DEF GatherResult, Gathering
<1> QED BY <1>9, <1>10 DEF GatherContext, Gathering

\* The messages of a sequence that is appended to another.
LEMMA InConcat ==
  ASSUME NEW s \in Seq(Messages), NEW t \in Seq(Messages)
  PROVE  s \o t \in Seq(Messages) /\ \A x : InBox(s \o t, x) <=> InBox(s, x) \/ InBox(t, x)
<1>1. /\ s \o t \in Seq(Messages) /\ Len(s \o t) = Len(s) + Len(t) /\ Len(s) \in Nat /\ Len(t) \in Nat
      /\ \A i \in 1..(Len(s) + Len(t)) : (s \o t)[i] = IF i <= Len(s) THEN s[i] ELSE t[i - Len(s)]
  BY ConcatProperties, LenProperties
<1>2. ASSUME NEW x, InBox(s, x) PROVE InBox(s \o t, x)
  <2>1. PICK i \in 1..Len(s) : s[i] = x
    BY <1>2 DEF InBox
  <2>2. i \in 1..(Len(s) + Len(t)) /\ i <= Len(s)
    BY <1>1
  <2> QED BY <1>1, <2>1, <2>2 DEF InBox
<1>3. ASSUME NEW x, InBox(t, x) PROVE InBox(s \o t, x)
  <2>1. PICK i \in 1..Len(t) : t[i] = x
    BY <1>3 DEF InBox
  <2>2. i + Len(s) \in 1..(Len(s) + Len(t)) /\ ~(i + Len(s) <= Len(s)) /\ i + Len(s) - Len(s) = i
    BY <1>1
  <2> QED BY <1>1, <2>1, <2>2 DEF InBox
<1>4. ASSUME NEW x, InBox(s \o t, x) PROVE InBox(s, x) \/ InBox(t, x)
  <2>1. PICK i \in 1..(Len(s) + Len(t)) : (s \o t)[i] = x
    BY <1>1, <1>4 DEF InBox
  <2>2. CASE i <= Len(s)
    <3>1. i \in 1..Len(s)
      BY <1>1, <2>2
    <3> QED BY <1>1, <2>1, <2>2, <3>1 DEF InBox
  <2>3. CASE ~(i <= Len(s))
    <3>1. i - Len(s) \in 1..Len(t)
      BY <1>1, <2>3
    <3> QED BY <1>1, <2>1, <2>3, <3>1 DEF InBox
  <2> QED BY <2>2, <2>3
<1> QED BY <1>1, <1>2, <1>3, <1>4

\* its creator registers the points,
LEMMA RegisterGathers ==
  ASSUME NEW f \in Federates, NEW k \in Epochs, GatherContext(f, k), RegisterSyncPoints(f)
  PROVE  GatherResult(f, k)
<1>1. mState[f] = "JoinedFederation" /\ pc[f] = "Connect" /\ created[f]
  BY DEF RegisterSyncPoints, InBlock
<1>2. Inside(f, k) /\ sent[f] = {} /\ Named(f, k) /\ memberOf[f] = k /\ Registers(f, k) /\ announced[f] = labels[f]
  BY <1>1 DEF GatherContext, Gatherer, Offline, Inside, Leaving, Approaches, Registers, Joins
<1>3. WithoutPoints(k) /\ Exists(k)
  BY <1>2 DEF GatherContext, Gathering, WithPoints, WithoutPoints, Late, Registers
<1>4. Registered(k) = {} /\ Points \ {} = Points
  BY <1>3 DEF WithoutPoints, Registered
<1>5. /\ announced' = Set(announced, f, {})
      /\ points' = points \cup ({k} \X Points)
      /\ owed' = owed \cup ({k} \X Points \X Members(k))
      /\ inbox' = [g \in Federates |-> IF memberOf[g] = k THEN inbox[g] \o Announcements(Points) ELSE inbox[g]]
      /\ Goto(f, mState[f], "PointWait")
      /\ UNCHANGED <<mFederationIndex, mCurrentFederationName, created, sent, labels, federations, memberOf>>
  BY <1>2, <1>4 DEF RegisterSyncPoints, FederationMemory
<1>6. /\ mState'[f] = mState[f] /\ pc'[f] = "PointWait" /\ announced'[f] = {}
  BY <1>5 DEF Goto, Set, GatherContext, TypeInv, Types
<1>7. ASSUME NEW g \in Federates, memberOf[g] = k
      PROVE  /\ \A m : Has(g, m)' <=> \E p \in Points : m = Announce(p)
             /\ mState[g] = "JoinedFederation" /\ labels[g] = {} /\ pc[g] \in {"Connect", "JoinScan"}
  <2>1. inbox[g] = <<>> /\ labels[g] = {} /\ mState[g] = "JoinedFederation" /\ pc[g] \in {"Connect", "JoinScan"}
    BY <1>3, <1>7 DEF WithoutPoints, Early
  <2>2. inbox'[g] = inbox[g] \o Announcements(Points)
    BY <1>5, <1>7
  <2>3. inbox[g] \in Seq(Messages)
    BY DEF GatherContext, TypeInv, Types
  <2>4. \A m : InBox(inbox'[g], m) <=> \E p \in Points : m = Announce(p)
    BY <2>1, <2>2, <2>3, InConcat, InEmpty, AnnouncementsFacts
  <2> QED BY <2>1, <2>4 DEF Has
<1>8. \A g \in Federates : memberOf[g] # k => inbox'[g] = inbox[g]
  BY <1>5
<1>9. Gatherer(f, k)'
  BY <1>1, <1>2, <1>5, <1>6, <1>7 DEF Gatherer, Inside, Named
<1>10. ASSUME NEW g \in Federates, g # f, Gatherer(g, k) PROVE Gatherer(g, k)'
  <2>1. /\ mState'[g] = mState[g] /\ pc'[g] = pc[g] /\ mFederationIndex'[g] = mFederationIndex[g]
        /\ mCurrentFederationName'[g] = mCurrentFederationName[g] /\ created'[g] = created[g]
        /\ announced'[g] = announced[g] /\ sent'[g] = sent[g] /\ labels'[g] = labels[g]
        /\ memberOf'[g] = memberOf[g]
    BY <1>10 DEF GatherContext, Alone
  <2>2. CASE memberOf[g] # k
    <3>1. Same(g)
      BY <1>8, <2>1, <2>2 DEF Same
    <3> QED BY <1>10, <3>1, SameGatherer
  <2>3. CASE memberOf[g] = k
    <3>1. Inside(g, k) /\ sent[g] = {}
      BY <1>10, <2>3, EpochFacts DEF Gatherer, Offline, Approaches, Leaving, Outside
    <3> QED BY <1>7, <2>1, <2>3, <3>1 DEF Gatherer, Inside, Named
  <2> QED BY <2>2, <2>3
<1>11. OneCreates'
  BY <1>5 DEF GatherContext, OneCreates
<1>12. ASSUME NEW g \in Federates PROVE Late(g, k)'
  <2>1. ASSUME memberOf[g] = k, NEW p \in Points PROVE <<k, p, g>> \in owed' /\ Knows(g, p)'
    <3>1. g \in Members(k)
      BY <2>1 DEF Members
    <3> QED BY <1>5, <1>7, <2>1, <3>1 DEF Knows
  <2>2. ~Registers(g, k)'
    <3>1. CASE g = f
      BY <1>6, <3>1 DEF Registers, Joins
    <3>2. CASE g # f
      <4>1. created[g] => mCurrentFederationName[g] # k
        BY <1>1, <1>2, <3>2 DEF GatherContext, OneCreates, Named
      <4> QED BY <1>5, <4>1 DEF Registers, Joins, Named
    <3> QED BY <3>1, <3>2
  <2> QED BY <1>5, <2>1, <2>2 DEF Late
<1>13. WithPoints(k)'
  BY <1>2, <1>3, <1>5, <1>12 DEF WithPoints, Exists
<1>14. \A n, p, g : n # k => /\ <<n, p, g>> \in owed' <=> <<n, p, g>> \in owed
                             /\ <<n, p>> \in points' <=> <<n, p>> \in points
  BY <1>5
<1> QED BY <1>5, <1>8, <1>9, <1>10, <1>11, <1>13, <1>14 DEF GatherResult, Gathering

\* and the others look for them.
LEMMA RetrieveGathers ==
  ASSUME NEW f \in Federates, NEW k \in Epochs, GatherContext(f, k), RetrieveSyncPoints(f)
  PROVE  GatherResult(f, k)
<1>1. mState[f] = "JoinedFederation" /\ pc[f] = "Connect" /\ ~created[f]
  BY DEF RetrieveSyncPoints, InBlock
<1>2. Inside(f, k) /\ sent[f] = {} /\ memberOf[f] = k
  BY <1>1 DEF GatherContext, Gatherer, Offline, Inside, Leaving, Approaches
<1>3. /\ UNCHANGED <<mFederationIndex, mCurrentFederationName, created, announced, sent, labels, inbox,
                     federations, memberOf, points, owed>>
      /\ mState'[f] = mState[f] /\ pc'[f] = "JoinScan"
  BY DEF RetrieveSyncPoints, ambassador, rtinode, Goto, Set, GatherContext, TypeInv, Types
<1>4. Gatherer(f, k)'
  BY <1>1, <1>2, <1>3 DEF Gatherer, Inside, Named, Has
<1>5. Early(f, k) => Early(f, k)'
  BY <1>1, <1>3 DEF Early
<1>6. ~Joins(f, k)' /\ ~Registers(f, k)
  BY <1>1, <1>3 DEF Joins, Registers
<1>7. Late(f, k) => Late(f, k)'
  BY <1>3, <1>6 DEF Late, Registers, Knows, Has
<1> QED BY <1>2, <1>3, <1>4, <1>5, <1>6, <1>7, QuietStep DEF WithoutPoints, WithPoints

\* The second of the search is over: nobody is about to register the points, so they are
\* there, and known.
LEMMA NoPointsGathers ==
  ASSUME NEW f \in Federates, NEW k \in Epochs, GatherContext(f, k), NoPointsAnnounced(f)
  PROVE  GatherResult(f, k)
<1>1. pc[f] = "JoinScan" /\ inbox[f] = <<>>
  BY DEF NoPointsAnnounced
<1>2. Inside(f, k) /\ sent[f] = {} /\ memberOf[f] = k /\ mState[f] = "JoinedFederation"
  BY <1>1 DEF GatherContext, Gatherer, Offline, Inside, Leaving, Approaches
<1>3. ~Untimely("slow")
  BY CalmSteps DEF GatherContext, TypeInv
<1>4. ~WillAnnounce(k) /\ UNCHANGED used
  BY <1>2, <1>3 DEF NoPointsAnnounced
<1>5. \A g \in Federates : ~Registers(g, k)
  BY <1>4 DEF WillAnnounce, Registers, Joins, Named
<1>6. Exists(k)
  BY <1>2, EpochFacts DEF GatherContext, RtinodeConsistent
<1>7. WithPoints(k) /\ ~WithoutPoints(k)
  BY <1>5, <1>6 DEF GatherContext, Gathering, WithoutPoints
<1>8. labels[f] # {}
  <2>1. Knows(f, "Initialized")
    BY <1>2, <1>7 DEF WithPoints, Late, Points
  <2> QED BY <1>1, <2>1, InEmpty DEF Knows, Has
<1>9. /\ UNCHANGED <<mFederationIndex, mCurrentFederationName, created, announced, sent, labels, inbox,
                     federations, memberOf, points, owed>>
      /\ mState'[f] = mState[f] /\ pc'[f] = "Scanned"
  BY DEF NoPointsAnnounced, ambassador, rtinode, Goto, Set, GatherContext, TypeInv, Types
<1>10. Gatherer(f, k)'
  BY <1>2, <1>8, <1>9 DEF Gatherer, Inside, Named, Has
<1>11. Late(f, k)'
  BY <1>7, <1>9 DEF WithPoints, Late, Registers, Joins, Knows, Has
<1> QED BY <1>2, <1>7, <1>9, <1>10, <1>11, QuietStep

\* It joins for good.
LEMMA JoinedGathers ==
  ASSUME NEW f \in Federates, NEW k \in Epochs, GatherContext(f, k), JoinFreshOrLate(f) \/ InitFederate(f)
  PROVE  GatherResult(f, k)
<1>1. \/ pc[f] = "Scanned" /\ mState'[f] = "InitFederate" /\ pc'[f] = "Connect"
      \/ /\ mState[f] = "InitFederate" /\ pc[f] = "Connect"
         /\ \/ mState'[f] = "WaitForMeasurementInit" /\ pc'[f] = "InitWait" /\ f \in Waiting
            \/ mState'[f] = "Online" /\ pc'[f] = "Evoke" /\ f \notin Waiting
  BY DEF JoinFreshOrLate, InitFederate, InBlock, Goto, Set, GatherContext, TypeInv, Types
<1>2. Inside(f, k) /\ sent[f] = {} /\ memberOf[f] = k
  BY <1>1 DEF GatherContext, Gatherer, Offline, Inside, Leaving, Approaches
<1>3. UNCHANGED <<mFederationIndex, mCurrentFederationName, created, announced, sent, labels, inbox,
                  federations, memberOf, points, owed>>
  BY DEF JoinFreshOrLate, InitFederate, ambassador, rtinode
<1>4. Gatherer(f, k)'
  BY <1>1, <1>2, <1>3 DEF Gatherer, Inside, Named, Has
<1>5. WithPoints(k) /\ ~WithoutPoints(k)
  BY <1>1, <1>2 DEF GatherContext, Gathering, WithoutPoints, Early
<1>6. Late(f, k)'
  BY <1>1, <1>3, <1>5 DEF WithPoints, Late, Registers, Joins, Knows, Has
<1> QED BY <1>2, <1>3, <1>4, <1>5, <1>6, QuietStep

\* A member that gathers is sent announcements only.
LEMMA EvokeGathers ==
  ASSUME NEW f \in Federates, NEW k \in Epochs, GatherContext(f, k),
         PointWait(f) \/ JoinScan(f) \/ InitWait(f) \/ SyncWait(f) \/ EvokeCallbacks(f)
  PROVE  GatherResult(f, k)
<1>1. evokeCallback(f) /\ inbox[f] # <<>>
  BY DEF PointWait, JoinScan, InitWait, SyncWait, EvokeCallbacks, evokeCallback
<1>2. Inside(f, k) /\ sent[f] = {} /\ memberOf[f] = k /\ Named(f, k) /\ announced[f] = labels[f]
  BY <1>1 DEF GatherContext, Gatherer, Offline, Inside, Leaving, Approaches, Outside
<1>3. PICK box, m : box = inbox[f] /\ m = Head(box)
  OBVIOUS
<1>4. box \in Seq(Messages) /\ m \in Messages /\ Tail(box) \in Seq(Messages)
      /\ \A x : Has(f, x) <=> x = m \/ InBox(Tail(box), x)
  <2>1. box \in Seq(Messages) /\ box # <<>>
    BY <1>1, <1>3 DEF GatherContext, TypeInv, Types
  <2> QED BY <1>3, <2>1, InTaken DEF Has
<1>5. PICK p \in Points : m = Announce(p)
  BY <1>2, <1>4 DEF Inside
<1>6. PICK rest : rest = Set(inbox, f, Tail(inbox[f]))
  OBVIOUS
<1>7. m.type = "announced" /\ m.point = p
  BY <1>5, MessageKinds
<1>8. announceSynchronizationPoint(f, p, rest)
  BY <1>1, <1>3, <1>6, <1>7 DEF evokeCallback
<1>9. /\ labels'[f] = labels[f] \cup {p} /\ announced'[f] = announced[f] \cup {p}
      /\ inbox'[f] = Tail(box) /\ \A g \in Federates \ {f} : inbox'[g] = inbox[g]
      /\ UNCHANGED <<mState, owed, points, memberOf>>
  BY <1>3, <1>6, <1>8 DEF announceSynchronizationPoint, federatesOnly, Set, GatherContext, TypeInv, Types
<1>10. UNCHANGED <<mFederationIndex, mCurrentFederationName, created, sent, federations>>
  BY <1>1 DEF evokeCallback, FederationMemory
<1>11. \A x : Has(f, x) <=> x = m \/ Has(f, x)'
  BY <1>4, <1>9 DEF Has
<1>12. \/ pc'[f] = pc[f]
       \/ pc[f] \in {"PointWait", "JoinScan"} /\ pc'[f] = "Scanned"
  BY DEF PointWait, JoinScan, InitWait, SyncWait, EvokeCallbacks, Set, GatherContext, TypeInv, Types
<1>13. announced'[f] # {} /\ announced'[f] = labels'[f]
  BY <1>2, <1>9
<1>14. Gatherer(f, k)'
  <2>1. Named(f, k)' /\ memberOf'[f] = k /\ sent'[f] = {} /\ mState'[f] = mState[f]
    BY <1>2, <1>9, <1>10 DEF Named
  <2>2. \A x : Has(f, x)' => \E q \in Points : x = Announce(q)
    BY <1>2, <1>11 DEF Inside
  <2>3. \/ mState[f] = "JoinedFederation" /\ pc'[f] \in {"Connect", "PointWait", "JoinScan", "Scanned"}
        \/ mState[f] = "InitFederate" /\ pc'[f] = "Connect"
        \/ mState[f] = "WaitForMeasurementInit" /\ pc'[f] = "InitWait" /\ f \in Waiting
        \/ mState[f] = "Online" /\ pc'[f] = "Evoke" /\ f \notin Waiting
    BY <1>2, <1>12 DEF Inside
  <2>4. Inside(f, k)'
    BY <1>13, <2>1, <2>2, <2>3 DEF Inside
  <2> QED BY <2>1, <2>4 DEF Gatherer
<1>15. WithPoints(k) /\ ~WithoutPoints(k)
  BY <1>1, <1>2 DEF GatherContext, Gathering, WithoutPoints, Early
<1>16. \A q : Knows(f, q) => Knows(f, q)'
  <2>1. ASSUME NEW q, Announce(q) = m PROVE q = p
    BY <1>5, <2>1, MessageKinds
  <2> QED BY <1>9, <1>11, <2>1 DEF Knows
<1>17. pc[f] # "Connect"
  BY DEF PointWait, JoinScan, InitWait, SyncWait, EvokeCallbacks
<1>18. Late(f, k)'
  <2>1. \A q \in Points : <<k, q, f>> \in owed /\ Knows(f, q)
    BY <1>2, <1>15 DEF WithPoints, Late
  <2>2. pc'[f] # "Connect"
    BY <1>12, <1>17
  <2> QED BY <1>9, <1>16, <2>1, <2>2 DEF Late, Registers, Joins
<1> QED BY <1>2, <1>9, <1>10, <1>14, <1>15, <1>18, QuietStep

\* Who leaves while others owe each of the points completes none of them, and so nobody is told.
LEMMA ResignQuietly ==
  ASSUME TypeInv(AllNames), RtinodeConsistent, NEW f \in Federates, NEW left, Resign(f, left),
         \A p \in Points : <<memberOf[f], p>> \in points =>
           \E g \in Federates \ {f} : <<memberOf[f], p, g>> \in owed
  PROVE  /\ points' = points /\ inbox'[f] = left /\ \A g \in Federates \ {f} : inbox'[g] = inbox[g]
         /\ \A n, p, g : <<n, p, g>> \in owed' <=> <<n, p, g>> \in owed /\ g # f
         /\ memberOf'[f] = NoName
<1>1. /\ \A n, p, g : <<n, p, g>> \in owed' <=>
              <<n, p, g>> \in owed /\ ~(n = memberOf[f] /\ p \in Points /\ g = f)
      /\ \A n, p : <<n, p>> \in points' <=>
              <<n, p>> \in points /\ \E g \in Federates : <<n, p, g>> \in owed'
  BY AchievedRtinode DEF Resign
<1>2. \A n, p, g : <<n, p, g>> \in owed' <=> <<n, p, g>> \in owed /\ g # f
  BY <1>1, RtinodeFacts
<1>3. Done(memberOf[f], StillOwed(f, Points)) = {}
  <2>1. owed' = StillOwed(f, Points)
    BY DEF Resign
  <2>2. ASSUME NEW p \in Points, <<memberOf[f], p>> \in points
        PROVE  \E g \in Federates : <<memberOf[f], p, g>> \in StillOwed(f, Points)
    BY <1>2, <2>1, <2>2
  <2> QED BY <2>2 DEF Done, Registered
<1>4. points' = points
  BY <1>3 DEF Resign
<1>5. Told(f, Points, inbox) = inbox
  <2>1. {Synchronized(p) : p \in Done(memberOf[f], StillOwed(f, Points))} = {}
    BY <1>3
  <2>2. SetToSeq({Synchronized(p) : p \in Done(memberOf[f], StillOwed(f, Points))}) = <<>>
    BY <2>1, SetToSeqOfOne
  <2>3. \A g \in Federates : inbox[g] \o <<>> = inbox[g]
    <3>1. \A g \in Federates : inbox[g] \in Seq(Messages)
      BY DEF TypeInv, Types
    <3> QED BY <3>1
  <2>4. inbox = [g \in Federates |-> inbox[g]]
    BY DEF TypeInv, Types
  <2>5. Told(f, Points, inbox) = [g \in Federates |-> inbox[g]]
    BY <2>2, <2>3 DEF Told
  <2> QED BY <2>4, <2>5
<1>6. inbox'[f] = left /\ \A g \in Federates \ {f} : inbox'[g] = inbox[g]
  BY <1>5 DEF Resign, Set, TypeInv, Types
<1> QED BY <1>2, <1>4, <1>6 DEF Resign, Set, TypeInv, Types

\* Who leaves before the start leaves a connected one behind.
LEMMA LeaveGathers ==
  ASSUME NEW f \in Federates, NEW k \in Epochs, GatherContext(f, k), Disconnect(f) \/ Crash(f),
         NEW other \in Federates, other # f, IsConnected(other), memberOf[other] = k
  PROVE  GatherResult(f, k) /\ UNCHANGED federations
<1>1. Gatherer(other, k)
  BY EpochFacts DEF GatherContext
<1>2. WithPoints(k) /\ ~WithoutPoints(k)
  <2>1. mState[other] # "JoinedFederation"
    BY DEF IsConnected
  <2> QED BY <2>1 DEF GatherContext, Gathering, WithoutPoints, Early
<1>3. \A p \in Points : <<k, p, other>> \in owed
  BY <1>2 DEF WithPoints, Late
<1>4. /\ Resign(f, <<>>) /\ UNCHANGED federations
      /\ labels'[f] = {}
  BY DEF Disconnect, Crash, Set, GatherContext, TypeInv, Types
<1>5. \A p \in Points : <<memberOf[f], p>> \in points =>
        \E g \in Federates \ {f} : <<memberOf[f], p, g>> \in owed
  <2>1. memberOf[f] = k \/ memberOf[f] = NoName
    BY DEF GatherContext, Gatherer, Offline, Approaches, Inside, Leaving, Outside
  <2>2. CASE memberOf[f] = k
    BY <1>3, <2>2
  <2>3. CASE memberOf[f] = NoName
    BY <2>3, RtinodeFacts DEF GatherContext
  <2> QED BY <2>1, <2>2, <2>3
<1>6. /\ points' = points /\ inbox'[f] = <<>> /\ \A g \in Federates \ {f} : inbox'[g] = inbox[g]
      /\ \A n, p, g : <<n, p, g>> \in owed' <=> <<n, p, g>> \in owed /\ g # f
      /\ memberOf'[f] = NoName
  <2>1. PICK left : left = <<>>
    OBVIOUS
  <2> QED BY <1>4, <1>5, <2>1, ResignQuietly DEF GatherContext
<1>7. Gatherer(f, k)' /\ ~Registers(f, k)' /\ (created'[f] => created[f] /\ UNCHANGED mCurrentFederationName)
  <2>1. CASE Crash(f)
    <3>1. /\ mState'[f] = "Offline" /\ pc'[f] = "None" /\ announced'[f] = {} /\ sent'[f] = {} /\ ~created'[f]
          /\ mFederationIndex'[f] = NoIndex /\ mCurrentFederationName'[f] = NoName
      BY <2>1 DEF Crash, ResetRemoteAmbassador, ResetFederationMemory, Goto, Set, GatherContext, TypeInv, Types
    <3> QED BY <1>4, <1>6, <3>1 DEF Gatherer, Offline, Outside, Fresh, Registers, Joins
  <2>2. CASE Disconnect(f)
    <3>1. /\ UNCHANGED <<mFederationIndex, mCurrentFederationName, created, announced, sent>>
          /\ mState'[f] = mState[f] /\ pc'[f] = "Leave" /\ pc[f] = "Evoke"
      BY <2>2 DEF Disconnect, ambassador, Goto, Set, GatherContext, TypeInv, Types
    <3>2. Inside(f, k) /\ sent[f] = {} /\ Named(f, k) /\ mState[f] = "Online"
      BY <3>1 DEF GatherContext, Gatherer, Offline, Inside, Leaving, Approaches
    <3> QED BY <1>4, <1>6, <3>1, <3>2 DEF Gatherer, Leaving, Outside, Named, Registers, Joins
  <2> QED BY <2>1, <2>2
<1>8. \A g \in Federates \ {f} : Same(g)
  BY <1>6 DEF GatherContext, Alone, Same
<1>9. \A g \in Federates \ {f} : Gatherer(g, k) => Gatherer(g, k)'
  BY <1>8, SameGatherer
<1>10. OneCreates'
  BY <1>7, <1>8 DEF OneCreates, GatherContext, Same
<1>11. ASSUME NEW g \in Federates PROVE Late(g, k)'
  <2>1. CASE g = f
    BY <1>6, <1>7, <2>1, EpochFacts DEF Late
  <2>2. CASE g # f
    <3>1. Same(g) /\ Late(g, k)
      BY <1>2, <1>8, <2>2 DEF WithPoints
    <3>2. \A p : Knows(g, p)' <=> Knows(g, p)
      BY <3>1 DEF Same, Knows, Has
    <3>3. Registers(g, k)' <=> Registers(g, k)
      BY <3>1 DEF Same, Registers, Joins, Named
    <3> QED BY <1>6, <2>2, <3>1, <3>2, <3>3 DEF Late, Same
  <2> QED BY <2>1, <2>2
<1>12. Exists(k)' /\ memberOf'[other] = k
  BY <1>2, <1>4, <1>8 DEF WithPoints, Exists, Same
<1>13. WithPoints(k)'
  BY <1>2, <1>6, <1>11, <1>12 DEF WithPoints
<1>14. ASSUME NEW n, NEW p, NEW g, n # k
       PROVE  /\ <<n, p, g>> \in owed' <=> <<n, p, g>> \in owed
              /\ <<n, p>> \in points' <=> <<n, p>> \in points
  <2>1. <<n, p, f>> \notin owed
    <3>1. memberOf[f] = k \/ memberOf[f] = NoName
      BY DEF GatherContext, Gatherer, Offline, Approaches, Inside, Leaving, Outside
    <3> QED BY <1>14, <3>1, RtinodeFacts DEF GatherContext
  <2> QED BY <1>6, <2>1
<1> QED BY <1>4, <1>6, <1>7, <1>9, <1>10, <1>13, <1>14 DEF GatherResult, Gathering

\* Starting, and the end of a disconnection: others are joined, so that nothing is destroyed.
LEMMA OfflineGathers ==
  ASSUME NEW f \in Federates, NEW k \in Epochs, GatherContext(f, k), Start(f) \/ Disconnected(f)
  PROVE  GatherResult(f, k) /\ UNCHANGED federations
<1>1. CASE Start(f)
  <2>1. Offline(f) /\ sent[f] = {}
    BY <1>1 DEF Start, GatherContext, Gatherer, Approaches, Inside, Leaving
  <2>2. /\ UNCHANGED <<mFederationIndex, mCurrentFederationName, created, announced, sent, labels, inbox,
                       federations, memberOf, points, owed>>
        /\ mState'[f] = "ScanForFederationPrefix" /\ pc'[f] = "Connect"
    BY <1>1 DEF Start, ambassador, rtinode, Goto, Set, GatherContext, TypeInv, Types
  <2>3. Gatherer(f, k)'
    BY <2>1, <2>2 DEF Offline, Gatherer, Approaches, Outside, Fresh
  <2>4. memberOf[f] # k /\ ~Joins(f, k)' /\ ~Registers(f, k) /\ Early(f, k)' /\ Late(f, k)'
    BY <2>1, <2>2, EpochFacts DEF Offline, Outside, Joins, Registers, Early, Late
  <2>5. GatherResult(f, k)
    BY <2>2, <2>3, <2>4, QuietStep
  <2> QED BY <2>2, <2>5
<1>2. CASE Disconnected(f)
  <2>1. Leaving(f, k)
    BY <1>2 DEF Disconnected, GatherContext, Gatherer, Offline, Approaches, Inside
  <2>2. WithPoints(k) /\ ~WithoutPoints(k)
    BY <2>1 DEF Leaving, GatherContext, Gathering, WithoutPoints, Early
  <2>3. UNCHANGED federations
    <3>1. Members(k) # {}
      BY <2>2 DEF WithPoints, Members
    <3> QED BY <1>2, <2>1, <3>1 DEF Disconnected, Destroy, Leaving, Named
  <2>4. /\ UNCHANGED <<labels, inbox, memberOf, points, owed>>
        /\ mState'[f] = "Offline" /\ pc'[f] = "None" /\ announced'[f] = {} /\ sent'[f] = {} /\ ~created'[f]
        /\ mFederationIndex'[f] = NoIndex /\ mCurrentFederationName'[f] = NoName
    BY <1>2 DEF Disconnected, ResetRemoteAmbassador, ResetFederationMemory, Goto, Set, GatherContext, TypeInv, Types
  <2>5. Gatherer(f, k)'
    BY <2>1, <2>4 DEF Leaving, Gatherer, Offline, Outside, Fresh
  <2>6. memberOf[f] # k /\ ~Joins(f, k)' /\ ~Registers(f, k)' /\ Late(f, k)'
    BY <2>1, <2>4, EpochFacts DEF Leaving, Outside, Joins, Registers, Late
  <2>7. GatherResult(f, k)
    BY <2>2, <2>3, <2>4, <2>5, <2>6, QuietStep
  <2> QED BY <2>3, <2>7
<1> QED BY <1>1, <1>2

\* What the thread of one who gathers does keeps it gathering.
LEMMA ConnectGathers ==
  ASSUME NEW f \in Federates, NEW k \in Epochs, GatherContext(f, k), Connect(f) \/ EvokeCallbacks(f),
         ScanForFederationPrefix(f) => mFederationIndex'[f] = k
  PROVE  /\ GatherResult(f, k) /\ UNCHANGED <<used, sent>>
         /\ ~Fresh(f) => ~Fresh(f)'
         /\ pc'[f] # "Leave"
<1>1. ~Untimely("slow")
  BY CalmSteps DEF GatherContext, TypeInv
<1>2. ASSUME UNCHANGED <<mFederationIndex, mCurrentFederationName>> PROVE ~Fresh(f) => ~Fresh(f)'
  BY <1>2 DEF Fresh
<1>3. CASE ScanForFederationPrefix(f)
  <2>1. UNCHANGED <<used, sent>> /\ pc'[f] = "Connect"
    BY <1>3 DEF ScanForFederationPrefix, Goto, Set, GatherContext, TypeInv, Types
  <2>2. ~Fresh(f)'
    <3>1. mCurrentFederationName'[f] = k
      BY <1>3 DEF ScanForFederationPrefix, UpdateFederationNameAndIndex, Set, GatherContext, TypeInv, Types
    <3> QED BY <3>1, EpochFacts DEF Fresh
  <2> QED BY <1>3, <2>1, <2>2, ScanGathers
<1>4. CASE CreateFederation(f)
  <2>1. UNCHANGED <<used, sent, mFederationIndex, mCurrentFederationName>> /\ pc'[f] = "Connect"
    BY <1>1, <1>4 DEF CreateFederation, FederationMemory, Goto, Set, GatherContext, TypeInv, Types
  <2> QED BY <1>2, <1>4, <2>1, CreateGathers
<1>5. CASE JoinFederation(f)
  <2>1. GatherResult(f, k)
    BY <1>5, JoinGathers
  <2>2. UNCHANGED <<used, sent, mFederationIndex, mCurrentFederationName>>
    BY <1>1, <1>5 DEF JoinFederation, ambassador
  <2>3. pc'[f] \in {"Connect", "Terminated"}
    BY <1>1, <1>5 DEF JoinFederation, Goto, Set, GatherContext, TypeInv, Types
  <2> QED BY <1>2, <2>1, <2>2, <2>3
<1>6. CASE RegisterSyncPoints(f)
  <2>1. UNCHANGED <<used, sent, mFederationIndex, mCurrentFederationName>> /\ pc'[f] = "PointWait"
    BY <1>6 DEF RegisterSyncPoints, FederationMemory, Goto, Set, GatherContext, TypeInv, Types
  <2> QED BY <1>2, <1>6, <2>1, RegisterGathers
<1>7. CASE RetrieveSyncPoints(f)
  <2>1. UNCHANGED <<used, sent, mFederationIndex, mCurrentFederationName>> /\ pc'[f] = "JoinScan"
    BY <1>7 DEF RetrieveSyncPoints, ambassador, Goto, Set, GatherContext, TypeInv, Types
  <2> QED BY <1>2, <1>7, <2>1, RetrieveGathers
<1>8. CASE PointWait(f) \/ JoinScan(f) \/ InitWait(f) \/ SyncWait(f) \/ EvokeCallbacks(f)
  <2>1. UNCHANGED <<used, sent, mFederationIndex, mCurrentFederationName>>
    BY <1>8 DEF PointWait, JoinScan, InitWait, SyncWait, EvokeCallbacks, evokeCallback, FederationMemory
  <2>2. pc'[f] # "Leave"
    BY <1>8 DEF PointWait, JoinScan, InitWait, SyncWait, EvokeCallbacks, Set, GatherContext, TypeInv, Types
  <2> QED BY <1>2, <1>8, <2>1, <2>2, EvokeGathers
<1>9. CASE NoPointsAnnounced(f)
  <2>1. UNCHANGED <<used, sent, mFederationIndex, mCurrentFederationName>> /\ pc'[f] = "Scanned"
    BY <1>1, <1>9 DEF NoPointsAnnounced, ambassador, Goto, Set, GatherContext, TypeInv, Types
  <2> QED BY <1>2, <1>9, <2>1, NoPointsGathers
<1>10. CASE JoinFreshOrLate(f) \/ InitFederate(f)
  <2>1. UNCHANGED <<used, sent, mFederationIndex, mCurrentFederationName>> /\ pc'[f] \in {"Connect", "InitWait", "Evoke"}
    BY <1>10 DEF JoinFreshOrLate, InitFederate, ambassador, Goto, Set, GatherContext, TypeInv, Types
  <2> QED BY <1>2, <1>10, <2>1, JoinedGathers
<1>11. ~HandleDeadFederation(f)
  BY DEF HandleDeadFederation, GatherContext, Gatherer, Offline, Approaches, Inside, Leaving
<1>12. ~InitReceived(f) /\ ~FederationSynchronized(f) /\ ~ResetOnMeasurementStop(f) /\ ~Destroyed(f)
       /\ ~HandleConnectionLost(f)
  BY DEF InitReceived, FederationSynchronized, ResetOnMeasurementStop, Destroyed, HandleConnectionLost,
         GatherContext, Gatherer, Offline, Approaches, Inside, Leaving
<1> QED BY <1>3, <1>4, <1>5, <1>6, <1>7, <1>8, <1>9, <1>10, <1>11, <1>12 DEF Connect

-----------------------------------------------------------------------------
(* The phases.                                                                  *)

\* A member of federation n once the init has been sent there: where its thread is, and
\* how what it owes, what it knows and what waits in its inbox go with that.
MeasuresAt(f, n) ==
  \/ mState[f] = "WaitForMeasurementInit" /\ pc[f] = "InitWait" /\ Has(f, Init_)
  \/ /\ mState[f] = "ReceivedMeasurementInit" /\ pc[f] = "InitWait" /\ ~Has(f, Init_)
     /\ <<n, "Initialized", f>> \in owed /\ "Initialized" \in labels[f]
  \/ mState[f] \in {"ReceivedMeasurementInit", "FederationSynchronized"} /\ pc[f] = "SyncWait"
  \/ mState[f] \in {"Online", "ReceivedMeasurementStop"} /\ pc[f] = "Evoke"

\* Who has the init before it owes the point of the start, and knows of it.
OwesInit(f, n) ==
  /\ Has(f, Init_) => <<n, "Initialized", f>> \in owed /\ Knows(f, "Initialized")
  /\ <<n, "Initialized", f>> \in owed =>
       Has(f, Init_) \/ (mState[f] = "ReceivedMeasurementInit" /\ pc[f] = "InitWait")
  /\ pc[f] = "SyncWait" => <<n, "Initialized", f>> \notin owed

\* The stop comes to those who are online; who has received it owes nothing any more.
OwesStop(f, n) ==
  /\ Has(f, Stop_) => mState[f] = "Online"
  /\ mState[f] # "ReceivedMeasurementStop" => <<n, "Stopped", f>> \in owed /\ Knows(f, "Stopped")
  /\ mState[f] = "ReceivedMeasurementStop" => <<n, "Stopped", f>> \notin owed /\ ~Has(f, Init_)

\* Who is synchronized is so for good.
IsSynchronized(f, n) ==
  /\ \A p \in Points : Has(f, Synchronized(p)) => <<n, p>> \notin points
  /\ mState[f] = "FederationSynchronized" \/ (pc[f] = "Evoke" /\ f \in Waiting) =>
       <<n, "Initialized">> \notin points /\ ~Has(f, Synchronized("Initialized"))

\* A member of the federation in which a measurement is under way.
Measures(f, n) ==
  /\ memberOf[f] = n /\ Named(f, n)
  /\ pc[f] \in {"InitWait", "SyncWait"} => f \in Waiting
  /\ MeasuresAt(f, n) /\ OwesInit(f, n) /\ OwesStop(f, n) /\ IsSynchronized(f, n)
  /\ ~Has(f, Lost) /\ Ordered(inbox[f])

\* It stops: the stop is on its way to it, has been received, or it has left the federation.
Stops(f) == Has(f, Stop_) \/ mState[f] = "ReceivedMeasurementStop"
Stopped(f, n) == mState[f] = "ReceivedMeasurementStop" /\ pc[f] = "Destroy" /\ Outside(f) /\ Named(f, n)
OfOld(f, n) == memberOf[f] = n \/ pc[f] = "Destroy"

\* The index grows by one with every stop.
Bounded(k) == k \in Epochs /\ k <= used["stop"]

\* All gather in federation k, which is the only one, if it exists at all.
Gather(k) ==
  /\ Bounded(k) /\ Gathering(k)
  /\ \A f \in Federates : Gatherer(f, k)
  /\ federations = <<>> \/ federations = <<k>>
  /\ ~Exists(k) /\ k # NoIndex => \A f \in Federates : ~Fresh(f)

\* All measure in federation n, and nobody stops.
Measure(n) ==
  /\ Bounded(n) /\ federations = <<n>>
  /\ \A f \in Federates : Measures(f, n) /\ ~Stops(f)
  /\ \E f \in Federates : "init" \in sent[f]

\* Those of federation n who stop, and those who gather in the next one already.
Parts(f, n) ==
  IF OfOld(f, n) THEN (Measures(f, n) /\ Stops(f)) \/ Stopped(f, n)
                 ELSE Gatherer(f, Next_(n)) /\ ~Fresh(f) /\ pc[f] # "Leave"

Part(n) ==
  /\ Bounded(n) /\ Bounded(Next_(n)) /\ Gathering(Next_(n))
  /\ \A f \in Federates : Parts(f, n)
  /\ \E f \in Federates : OfOld(f, n)
  /\ \/ \E f \in Federates : ~OfOld(f, n)
     \/ (\E f \in Federates : "init" \in sent[f]) /\ (\E f \in Federates : "stop" \in sent[f])
  /\ \/ federations = <<>> \/ federations = <<n>> \/ federations = <<Next_(n)>>
     \/ federations = <<n, Next_(n)>>

\* The phases, in good time.
PhaseInv ==
  /\ OneCreates
  /\ \A f \in Federates : sent[f] # {} => f \in Starters
  /\ \E k \in Epochs : Gather(k) \/ Measure(k) \/ Part(k)

\* Two stops must not be under way at once.
OneStop == MaxStops <= 1 \/ \A f, g \in Starters : f = g

\* A gathering is not disturbed by a bound that grows.
LEMMA BoundedGrows ==
  ASSUME TypeInv(AllNames), TypeInv(AllNames)', used'["stop"] >= used["stop"], NEW k, Bounded(k)
  PROVE  Bounded(k)'
<1>1. used["stop"] \in Int /\ used'["stop"] \in Int /\ Epochs \subseteq Int
  BY DEF TypeInv, Types, Bounds, Epochs, NoIndex
<1> QED BY <1>1 DEF Bounded

\* Only starters send.
SentByStarters == \A f \in Federates : sent[f] # {} => f \in Starters

\* What a step of federate f starts from, in good time.
PhaseContext(f) ==
  /\ TypeInv(AllNames) /\ TypeInv(AllNames)' /\ RtinodeConsistent /\ Alone(f) /\ Calm'
  /\ OneCreates /\ SentByStarters

\* What the applications do is counted.
LEMMA UsedSteps ==
  ASSUME NEW f \in Federates, TypeInv(AllNames), Step(f)
  PROVE  used'["stop"] >= used["stop"]
<1>1. used \in [Bounds -> Nat] /\ "stop" \in Bounds
  BY DEF TypeInv, Types, Bounds
<1>2. ASSUME \E what \in {"init", "leaves", "hasty", "slow", "stop"} : used' = [used EXCEPT ![what] = @ + 1]
      PROVE  used'["stop"] >= used["stop"]
  BY <1>1, <1>2
<1>3. ASSUME UNCHANGED used PROVE used'["stop"] >= used["stop"]
  BY <1>1, <1>3
<1>4. CASE Connect(f)
  BY <1>2, <1>3, <1>4 DEF Connect, ScanForFederationPrefix, CreateFederation, JoinFederation, RegisterSyncPoints,
       RetrieveSyncPoints, PointWait, JoinScan, NoPointsAnnounced, HandleDeadFederation, JoinFreshOrLate,
       InitFederate, InitWait, InitReceived, SyncWait, FederationSynchronized, ResetOnMeasurementStop,
       Destroyed, HandleConnectionLost, Untimely
<1>5. CASE Start(f) \/ EvokeCallbacks(f) \/ Disconnected(f)
  BY <1>3, <1>5 DEF Start, EvokeCallbacks, Disconnected
<1>6. CASE Disconnect(f) \/ Crash(f)
  BY <1>2, <1>6 DEF Disconnect, Crash, Leaves, InGoodTime, Budget, Untimely
<1>7. CASE SendMeasurementInit(f) \/ SendMeasurementStop(f)
  BY <1>2, <1>7 DEF SendMeasurementInit, SendMeasurementStop, InGoodTime, Budget, Untimely
<1> QED BY <1>4, <1>5, <1>6, <1>7 DEF Step

\* An inbox with announcements only.
LEMMA OrderedAnnouncements ==
  ASSUME NEW box \in Seq(Messages), \A m : InBox(box, m) => \E p \in Points : m = Announce(p)
  PROVE  Ordered(box)
<1>1. ASSUME NEW i \in 1..Len(box) PROVE box[i].type = "announced"
  <2>1. InBox(box, box[i])
    BY DEF InBox
  <2>2. PICK p \in Points : box[i] = Announce(p)
    BY <2>1
  <2> QED BY <2>2, MessageKinds
<1> QED BY <1>1 DEF Ordered

\* The init is sent to all, who gather, and begins the measurement.
LEMMA InitBegins ==
  ASSUME NEW f \in Federates, NEW k, PhaseContext(f), Gather(k), SendMeasurementInit(f)
  PROVE  Measure(k)' /\ OneCreates' /\ SentByStarters'
<1>1. MayStart
  BY CalmSteps DEF PhaseContext, TypeInv, SendMeasurementInit, InGoodTime
<1>2. \A g \in Federates : mState[g] \in {"Online", "WaitForMeasurementInit"} /\ memberOf[g] = memberOf[f]
  BY <1>1 DEF MayStart, Together
<1>3. \A g \in Federates : Gatherer(g, k)
  BY DEF Gather
<1>4. \A g \in Federates : Inside(g, k) \/ Leaving(g, k)
  BY <1>2, <1>3 DEF Gatherer, Offline, Approaches
<1>5. WithPoints(k)
  BY <1>2, <1>4 DEF Gather, Gathering, WithoutPoints, Early, Inside, Leaving
<1>6. \A g \in Federates : memberOf[g] = k
  <2>1. PICK g \in Federates : memberOf[g] = k
    BY <1>5 DEF WithPoints
  <2> QED BY <1>2, <2>1
<1>7. k \in Epochs /\ k # NoName
  BY EpochFacts DEF Gather, Bounded
<1>8. \A g \in Federates : Inside(g, k)
  BY <1>4, <1>6, <1>7 DEF Leaving, Outside
<1>9. /\ UNCHANGED <<mState, pc, mFederationIndex, mCurrentFederationName, created, announced, labels,
                     federations, memberOf, points, owed>>
      /\ sent' = Set(sent, f, sent[f] \cup {"init"}) /\ f \in Starters
      /\ inbox' = [g \in Federates |->
                    IF Subscribed(g) /\ Subscribed(f) /\ memberOf[g] = memberOf[f]
                      THEN Append(inbox[g], Init_) ELSE inbox[g]]
  BY MessageKinds DEF SendMeasurementInit, SendInteraction, FederationMemory, rtinode
<1>10. \A g \in Federates : inbox'[g] = Append(inbox[g], Init_) /\ inbox[g] \in Seq(Messages)
  <2>1. \A g \in Federates : Subscribed(g)
    BY <1>2, <1>6, <1>7 DEF Subscribed
  <2> QED BY <1>2, <1>9, <2>1 DEF PhaseContext, TypeInv, Types
<1>11. ASSUME NEW g \in Federates PROVE Measures(g, k)' /\ ~Stops(g)'
  <2>1. Inside(g, k) /\ inbox[g] \in Seq(Messages)
    BY <1>8, <1>10
  <2>2. \A m : Has(g, m)' <=> Has(g, m) \/ m = Init_
    <3>1. Init_ \in Messages
      BY MessageKinds
    <3>2. \A m : InBox(Append(inbox[g], Init_), m) <=> InBox(inbox[g], m) \/ m = Init_
      BY <2>1, <3>1, InAppended
    <3> QED BY <1>10, <3>2 DEF Has
  <2>3. \A m : Has(g, m) => \E p \in Points : m = Announce(p)
    BY <2>1 DEF Inside
  <2>4. Has(g, Init_)' /\ ~Has(g, Stop_)' /\ ~Has(g, Lost)' /\ \A p \in Points : ~Has(g, Synchronized(p))'
    BY <2>2, <2>3, MessageKinds
  <2>5. Ordered(inbox[g]) /\ ~Has(g, Init_) /\ ~Has(g, Stop_)
    BY <2>1, <2>3, OrderedAnnouncements, MessageKinds DEF Has
  <2>6. Ordered(Append(inbox[g], Init_))
    <3>1. Init_.type = "init" /\ Init_ \in Messages
      BY MessageKinds
    <3> QED BY <2>1, <2>5, <3>1, OrderedAppended DEF Has
  <2>7. Ordered(inbox[g])'
    BY <1>10, <2>6
  <2>8. /\ \A p \in Points : <<k, p, g>> \in owed /\ Knows(g, p)
        /\ "Initialized" \in Points /\ "Stopped" \in Points
    BY <1>5, <1>6 DEF WithPoints, Late, Points
  <2>9. \A p \in Points : <<k, p, g>> \in owed' /\ Knows(g, p)'
    BY <1>9, <2>2, <2>8 DEF Knows
  <2>10. \/ mState'[g] = "WaitForMeasurementInit" /\ pc'[g] = "InitWait" /\ g \in Waiting
         \/ mState'[g] = "Online" /\ pc'[g] = "Evoke" /\ g \notin Waiting
    BY <1>2, <1>9, <2>1 DEF Inside
  <2>11. memberOf'[g] = k /\ Named(g, k)'
    BY <1>9, <2>1 DEF Inside, Named
  <2>12. MeasuresAt(g, k)'
    BY <2>4, <2>10 DEF MeasuresAt
  <2>13. OwesInit(g, k)'
    BY <2>4, <2>8, <2>9, <2>10 DEF OwesInit
  <2>14. OwesStop(g, k)'
    BY <2>4, <2>8, <2>9, <2>10 DEF OwesStop
  <2>15. IsSynchronized(g, k)'
    BY <2>4, <2>10 DEF IsSynchronized
  <2> QED BY <2>4, <2>7, <2>10, <2>11, <2>12, <2>13, <2>14, <2>15 DEF Measures, Stops
<1>12. \E g \in Federates : "init" \in sent'[g]
  BY <1>9 DEF Set, PhaseContext, TypeInv, Types
<1>13. SentByStarters'
  BY <1>9 DEF Set, PhaseContext, TypeInv, Types, SentByStarters
<1>14. OneCreates'
  BY <1>9 DEF PhaseContext, OneCreates
<1>15. federations' = <<k>>
  <2>1. Exists(k)
    BY <1>5 DEF WithPoints
  <2>2. federations # <<>>
    BY <2>1 DEF Exists, Contains
  <2> QED BY <1>9, <2>2 DEF Gather
<1>16. Bounded(k)'
  BY UsedSteps, BoundedGrows DEF Step, PhaseContext, Gather
<1> QED BY <1>11, <1>12, <1>13, <1>14, <1>15, <1>16 DEF Measure

\* What the lists of the phases say of the federations in them.
LEMMA ListFacts ==
  ASSUME NEW m, NEW n, m # n
  PROVE  /\ federations = <<>> => ~Exists(n)
         /\ federations = <<n>> => Exists(n) /\ Last(federations) = n
         /\ federations = <<m>> => ~Exists(n)
         /\ federations = <<m, n>> => Exists(m) /\ Exists(n) /\ Last(federations) = n
<1>1. federations = <<>> => ~Exists(n)
  BY DEF Exists, Contains
<1>2. federations = <<n>> => Exists(n) /\ Last(federations) = n
  BY DEF Exists, Contains, Last
<1>3. federations = <<m>> => ~Exists(n)
  BY DEF Exists, Contains
<1>4. federations = <<m, n>> => Exists(m) /\ Exists(n) /\ Last(federations) = n
  <2>1. 1 \in 1..2 /\ 2 \in 1..2
    OBVIOUS
  <2>2. federations = <<m, n>> => Len(federations) = 2 /\ federations[1] = m /\ federations[2] = n
    OBVIOUS
  <2> QED BY <2>1, <2>2 DEF Exists, Contains, Last
<1> QED BY <1>1, <1>2, <1>3, <1>4

\* While all gather, who leaves leaves a connected one behind.
LEMMA GatherPhase ==
  ASSUME NEW f \in Federates, NEW k, PhaseContext(f), Gather(k), Step(f)
  PROVE  OneCreates' /\ SentByStarters' /\ (Gather(k)' \/ Measure(k)')
<1>1. k \in Epochs /\ GatherContext(f, k)
  BY DEF PhaseContext, Gather, Bounded, GatherContext
<1>2. ~Untimely("hasty")
  BY CalmSteps DEF PhaseContext, TypeInv
<1>3. Bounded(k)'
  BY UsedSteps, BoundedGrows DEF PhaseContext, Gather
<1>4. ASSUME GatherResult(f, k), sent'[f] = sent[f] \/ sent'[f] = {},
             UNCHANGED federations \/ (federations' = Append(federations, k) /\ ~Exists(k)),
             Exists(k) \/ (~Fresh(f) => ~Fresh(f)')
      PROVE  OneCreates' /\ SentByStarters' /\ Gather(k)'
  <2>1. \A g \in Federates : Gatherer(g, k)'
    BY <1>4 DEF GatherResult, Gather
  <2>2. federations' = <<>> \/ federations' = <<k>>
    <3>1. Append(<<>>, k) = <<k>>
      OBVIOUS
    <3>2. federations = <<k>> => Exists(k)
      BY ListFacts
    <3> QED BY <1>4, <3>1, <3>2 DEF Gather
  <2>3. Exists(k) => Exists(k)'
    <3>1. CASE UNCHANGED federations
      BY <3>1 DEF Exists
    <3> QED BY <1>4, <3>1
  <2>4. ASSUME ~Exists(k)', k # NoIndex, NEW g \in Federates PROVE ~Fresh(g)'
    <3>1. ~Fresh(g) /\ ~Exists(k)
      BY <2>3, <2>4 DEF Gather
    <3>2. CASE g = f
      BY <1>4, <3>1, <3>2
    <3>3. CASE g # f
      BY <3>1, <3>3 DEF PhaseContext, Alone, Fresh
    <3> QED BY <3>2, <3>3
  <2>5. ASSUME NEW g \in Federates, sent'[g] # {} PROVE g \in Starters
    <3>1. sent'[g] = sent[g]
      BY <1>4, <2>5 DEF PhaseContext, Alone
    <3> QED BY <2>5, <3>1 DEF PhaseContext, SentByStarters
  <2> QED BY <1>3, <1>4, <2>1, <2>2, <2>4, <2>5 DEF GatherResult, Gather, SentByStarters
<1>5. CASE Connect(f) \/ EvokeCallbacks(f)
  <2>1. ASSUME ScanForFederationPrefix(f) PROVE mFederationIndex'[f] = k
    <3>1. Approaches(f, k) /\ mState[f] = "ScanForFederationPrefix"
      BY <1>1, <2>1 DEF ScanForFederationPrefix, InBlock, GatherContext, Gatherer, Offline, Inside, Leaving
    <3>2. Fresh(f) \/ \E o \in Epochs : Next_(o) = k /\ Named(f, o)
      BY <3>1 DEF Approaches
    <3>3. mFederationIndex'[f] =
            IF federations # <<>> /\ Last(federations) # mCurrentFederationName[f] THEN Last(federations)
            ELSE IF federations # <<>> \/ mCurrentFederationName[f] # NoName THEN Next_(mFederationIndex[f])
            ELSE mFederationIndex[f]
      BY <2>1 DEF ScanForFederationPrefix, UpdateFederationNameAndIndex, Set, PhaseContext, TypeInv, Types
    <3>4. CASE federations = <<k>>
      <4>1. federations # <<>> /\ Last(federations) = k
        BY <3>4 DEF Last
      <4>2. mCurrentFederationName[f] # k
        BY <1>1, <3>2, EpochFacts DEF Fresh, Named
      <4> QED BY <3>3, <4>1, <4>2
    <3>5. CASE federations = <<>>
      <4>1. ~Exists(k)
        BY <3>5 DEF Exists, Contains
      <4>2. CASE Fresh(f)
        BY <3>3, <3>5, <4>1, <4>2 DEF Gather, Fresh
      <4>3. CASE ~Fresh(f)
        <5>1. PICK o \in Epochs : Next_(o) = k /\ Named(f, o)
          BY <3>2, <4>3
        <5> QED BY <3>3, <3>5, <5>1, EpochFacts DEF Named
      <4> QED BY <4>2, <4>3
    <3> QED BY <3>4, <3>5 DEF Gather
  <2>2. GatherResult(f, k) /\ UNCHANGED sent /\ (~Fresh(f) => ~Fresh(f)')
    BY <1>1, <1>5, <2>1, ConnectGathers
  <2> QED BY <1>4, <2>2 DEF GatherResult
<1>6. CASE Disconnect(f) \/ Crash(f)
  <2>1. MayLeave(f)
    BY <1>2, <1>6 DEF Disconnect, Crash, Leaves, InGoodTime
  <2>2. PICK other \in Federates \ {f} : IsConnected(other) /\ memberOf[other] # NoName
    BY <2>1 DEF MayLeave
  <2>3. memberOf[other] = k
    BY <2>2 DEF Gather, Gatherer, Offline, Approaches, Inside, Leaving, Outside
  <2>4. GatherResult(f, k) /\ UNCHANGED federations
    BY <1>1, <1>6, <2>2, <2>3, LeaveGathers
  <2>5. Exists(k)
    BY <1>1, <2>2, <2>3 DEF PhaseContext, RtinodeConsistent
  <2>6. sent'[f] = sent[f] \/ sent'[f] = {}
    BY <1>6 DEF Disconnect, Crash, ambassador, ResetRemoteAmbassador, Set, PhaseContext, TypeInv, Types
  <2> QED BY <1>4, <2>4, <2>5, <2>6
<1>7. CASE Start(f)
  <2>1. GatherResult(f, k) /\ UNCHANGED federations
    BY <1>1, <1>7, OfflineGathers
  <2>2. UNCHANGED sent /\ (~Fresh(f) => ~Fresh(f)')
    BY <1>7 DEF Start, ambassador, Fresh
  <2> QED BY <1>4, <2>1, <2>2
<1>8. CASE Disconnected(f)
  <2>1. GatherResult(f, k) /\ UNCHANGED federations
    BY <1>1, <1>8, OfflineGathers
  <2>2. sent'[f] = {} /\ pc[f] = "Leave"
    BY <1>8 DEF Disconnected, ResetRemoteAmbassador, Set, PhaseContext, TypeInv, Types
  <2>3. Exists(k)
    BY <2>2 DEF Gather, Gathering, WithoutPoints, Early, WithPoints
  <2> QED BY <1>4, <2>1, <2>2, <2>3
<1>9. CASE SendMeasurementInit(f)
  BY <1>9, InitBegins
<1>10. CASE SendMeasurementStop(f)
  <2>1. MayStop
    BY <1>2, <1>10 DEF SendMeasurementStop, InGoodTime
  <2> QED BY <2>1 DEF MayStop, Gather, Gatherer
<1> QED BY <1>5, <1>6, <1>7, <1>8, <1>9, <1>10 DEF Step

-----------------------------------------------------------------------------
(* Steps of those who measure.                                                  *)

\* Achieving a point: the last who owes it lets all members be told.
LEMMA AchieveFacts ==
  ASSUME TypeInv(AllNames), RtinodeConsistent, NEW f \in Federates, NEW p \in Points,
         <<memberOf[f], p>> \in points,
         NEW boxes \in [Federates -> Seq(Messages)], synchronizationPointAchieved(f, p, boxes)
  PROVE  /\ UNCHANGED memberOf
         /\ \A m, q, g : <<m, q, g>> \in owed' <=>
              <<m, q, g>> \in owed /\ ~(m = memberOf[f] /\ q = p /\ g = f)
         /\ \A m, q : m # memberOf[f] \/ q # p => (<<m, q>> \in points' <=> <<m, q>> \in points)
         /\ \A g \in Federates : <<memberOf[f], p>> \in points' \/ memberOf[g] # memberOf[f] => inbox'[g] = boxes[g]
         /\ \A g \in Federates : <<memberOf[f], p>> \notin points' /\ memberOf[g] = memberOf[f] =>
              inbox'[g] = Append(boxes[g], Synchronized(p))
<1> PICK n : n = memberOf[f]
  OBVIOUS
<1>1. n # NoName
  BY RtinodeFacts
<1>2. Achieve(f, {p}, boxes) /\ UNCHANGED memberOf
  BY <1>1 DEF synchronizationPointAchieved
<1>3. /\ \A m, q, g : <<m, q, g>> \in owed' <=> <<m, q, g>> \in owed /\ ~(m = n /\ q \in {p} /\ g = f)
      /\ \A m, q : <<m, q>> \in points' <=> <<m, q>> \in points /\ \E g \in Federates : <<m, q, g>> \in owed'
  <2>1. PICK ps \in SUBSET Points : ps = {p}
    OBVIOUS
  <2>2. owed' = StillOwed(f, ps) /\ points' = points \ ({memberOf[f]} \X Done(memberOf[f], owed'))
    BY <1>2, <2>1 DEF Achieve
  <2>3. /\ \A m, q, g : <<m, q, g>> \in owed' <=> <<m, q, g>> \in owed /\ ~(m = memberOf[f] /\ q \in ps /\ g = f)
        /\ \A m, q : <<m, q>> \in points' <=> <<m, q>> \in points /\ \E g \in Federates : <<m, q, g>> \in owed'
    BY <2>2, AchievedRtinode
  <2> QED BY <2>1, <2>3
<1>4. ASSUME NEW m, NEW q, m # n \/ q # p PROVE <<m, q>> \in points' <=> <<m, q>> \in points
  <2>1. <<m, q>> \in points => \E g \in Federates : <<m, q, g>> \in owed
    BY RtinodeFacts
  <2> QED BY <1>3, <1>4, <2>1
<1>5. owed' = StillOwed(f, {p})
  BY <1>2 DEF Achieve
<1>6. Done(n, StillOwed(f, {p})) = IF <<n, p>> \in points' THEN {} ELSE {p}
  <2>1. ASSUME NEW q \in Points, q # p, <<n, q>> \in points
        PROVE  \E g \in Federates : <<n, q, g>> \in StillOwed(f, {p})
    BY <1>3, <1>4, <1>5, <2>1
  <2>2. <<n, p>> \in points' <=> \E g \in Federates : <<n, p, g>> \in StillOwed(f, {p})
    BY <1>3, <1>5
  <2> QED BY <2>1, <2>2 DEF Done, Registered
<1>7. \A g \in Federates : inbox'[g] =
        IF memberOf[g] = n THEN boxes[g] \o SetToSeq({Synchronized(q) : q \in Done(n, StillOwed(f, {p}))})
                           ELSE boxes[g]
  BY <1>2 DEF Achieve, Told
<1>8. CASE <<n, p>> \in points'
  <2>1. {Synchronized(q) : q \in Done(n, StillOwed(f, {p}))} = {}
    BY <1>6, <1>8
  <2>2. SetToSeq({Synchronized(q) : q \in Done(n, StillOwed(f, {p}))}) = <<>>
    BY <2>1, SetToSeqOfOne
  <2>3. \A g \in Federates : boxes[g] \o <<>> = boxes[g]
    OBVIOUS
  <2> QED BY <1>2, <1>3, <1>4, <1>7, <1>8, <2>2, <2>3
<1>9. CASE <<n, p>> \notin points'
  <2>1. {Synchronized(q) : q \in Done(n, StillOwed(f, {p}))} = {Synchronized(p)}
    BY <1>6, <1>9
  <2>2. SetToSeq({Synchronized(q) : q \in Done(n, StillOwed(f, {p}))}) = <<Synchronized(p)>>
    BY <2>1, SetToSeqOfOne
  <2>3. \A g \in Federates : boxes[g] \o <<Synchronized(p)>> = Append(boxes[g], Synchronized(p))
    <3>1. Synchronized(p) \in Messages
      BY MessageKinds
    <3> QED BY <3>1
  <2> QED BY <1>2, <1>3, <1>4, <1>7, <1>9, <2>2, <2>3
<1> QED BY <1>8, <1>9, <1>2

\* The other members are told at most, of a point that is gone.
LEMMA OthersMeasure ==
  ASSUME TypeInv(AllNames), RtinodeConsistent, NEW f \in Federates, Alone(f), NEW n, NEW p \in Points,
         NEW g \in Federates, g # f, Measures(g, n),
         \A q : <<n, q, g>> \in owed' <=> <<n, q, g>> \in owed,
         \A q : <<n, q>> \in points' => <<n, q>> \in points,
         \/ inbox'[g] = inbox[g]
         \/ <<n, p>> \in points /\ <<n, p>> \notin points' /\ inbox'[g] = Append(inbox[g], Synchronized(p))
  PROVE  Measures(g, n)' /\ (Stops(g)' <=> Stops(g))
<1>1. /\ mState'[g] = mState[g] /\ pc'[g] = pc[g] /\ mFederationIndex'[g] = mFederationIndex[g]
      /\ mCurrentFederationName'[g] = mCurrentFederationName[g] /\ labels'[g] = labels[g]
      /\ memberOf'[g] = memberOf[g] /\ inbox[g] \in Seq(Messages)
  BY DEF Alone, TypeInv, Types
<1>2. /\ Ordered(inbox[g])'
      /\ \A x : Has(g, x)' <=>
           Has(g, x) \/ (x = Synchronized(p) /\ <<n, p>> \in points /\ <<n, p>> \notin points' /\ inbox'[g] # inbox[g])
      /\ Has(g, Synchronized(p))' => <<n, p>> \notin points'
  <2>1. CASE inbox'[g] = inbox[g]
    <3>1. \A x : Has(g, x)' <=> Has(g, x)
      BY <2>1 DEF Has
    <3>2. Has(g, Synchronized(p)) => <<n, p>> \notin points
      BY DEF Measures, IsSynchronized
    <3> QED BY <2>1, <3>1, <3>2 DEF Measures
  <2>2. CASE <<n, p>> \in points /\ <<n, p>> \notin points' /\ inbox'[g] = Append(inbox[g], Synchronized(p))
    <3>1. PICK m \in Messages : m = Synchronized(p)
      BY MessageKinds
    <3>2. m.type = "synchronized" /\ ~InBox(inbox[g], m) /\ Ordered(inbox[g])
      BY <2>2, <3>1, MessageKinds DEF Measures, IsSynchronized, Has
    <3>3. Ordered(Append(inbox[g], m)) /\ \A x : InBox(Append(inbox[g], m), x) <=> InBox(inbox[g], x) \/ x = m
      BY <1>1, <3>2, OrderedAppended, InAppended
    <3>4. inbox'[g] # inbox[g]
      BY <2>2, <3>1, <3>2, <3>3
    <3> QED BY <2>2, <3>1, <3>3, <3>4 DEF Has
  <2> QED BY <2>1, <2>2
<1>3. /\ \A q : Init_ # Synchronized(q) /\ Stop_ # Synchronized(q) /\ Lost # Synchronized(q)
      /\ \A q, r : Announce(r) # Synchronized(q) /\ (Synchronized(q) = Synchronized(r) => q = r)
  BY MessageKinds
<1>4. /\ Has(g, Init_)' <=> Has(g, Init_)
      /\ Has(g, Stop_)' <=> Has(g, Stop_)
      /\ Has(g, Lost)' <=> Has(g, Lost)
      /\ \A q : Knows(g, q)' <=> Knows(g, q)
  BY <1>1, <1>2, <1>3 DEF Knows
<1>5. \A q : <<n, q, g>> \in owed' <=> <<n, q, g>> \in owed
  OBVIOUS
<1>6. MeasuresAt(g, n)'
  BY <1>1, <1>4, <1>5 DEF Measures, MeasuresAt
<1>7. OwesInit(g, n)' /\ OwesStop(g, n)'
  BY <1>1, <1>4, <1>5 DEF Measures, OwesInit, OwesStop
<1>8. IsSynchronized(g, n)'
  <2>1. \A q \in Points : Has(g, Synchronized(q))' => <<n, q>> \notin points'
    BY <1>2, <1>3 DEF Measures, IsSynchronized
  <2>2. ASSUME mState[g] = "FederationSynchronized" \/ (pc[g] = "Evoke" /\ g \in Waiting)
        PROVE  <<n, "Initialized">> \notin points' /\ ~Has(g, Synchronized("Initialized"))'
    <3>1. <<n, "Initialized">> \notin points /\ ~Has(g, Synchronized("Initialized"))
      BY <2>2 DEF Measures, IsSynchronized
    <3> QED BY <1>2, <1>3, <3>1
  <2> QED BY <1>1, <2>1, <2>2 DEF IsSynchronized
<1>9. memberOf'[g] = n /\ Named(g, n)' /\ (pc'[g] \in {"InitWait", "SyncWait"} => g \in Waiting)
  BY <1>1 DEF Measures, Named
<1>10. Measures(g, n)'
  BY <1>2, <1>4, <1>6, <1>7, <1>8, <1>9 DEF Measures
<1> QED BY <1>1, <1>4, <1>10 DEF Stops

\* What holds when a step of a member of federation n is looked at, and what it keeps.
MeasureContext(f, n) ==
  /\ PhaseContext(f) /\ n \in Epochs
  /\ Measures(f, n) /\ \A g \in Federates : memberOf[g] = n => Measures(g, n)

MeasureResult(f, n) ==
  /\ Measures(f, n)' /\ (Stops(f)' <=> Stops(f))
  /\ \A g \in Federates \ {f} : memberOf[g] = n => Measures(g, n)' /\ (Stops(g)' <=> Stops(g))
  /\ \A g \in Federates \ {f} : memberOf[g] # n => inbox'[g] = inbox[g]
  /\ UNCHANGED <<mFederationIndex, mCurrentFederationName, created, sent, federations, memberOf, used>>
  /\ \A m, p, g : m # n => /\ <<m, p, g>> \in owed' <=> <<m, p, g>> \in owed
                           /\ <<m, p>> \in points' <=> <<m, p>> \in points

\* A step of a member that leaves the rtinode and the inboxes of the others alone.
LEMMA QuietMeasure ==
  ASSUME NEW f \in Federates, NEW n, MeasureContext(f, n), Measures(f, n)', Stops(f)' <=> Stops(f),
         \A g \in Federates \ {f} : inbox'[g] = inbox[g],
         UNCHANGED <<mFederationIndex, mCurrentFederationName, created, sent, rtinode, used>>
  PROVE  MeasureResult(f, n)
<1>1. UNCHANGED <<federations, memberOf, points, owed>>
  BY DEF rtinode
<1>2. ASSUME NEW g \in Federates, g # f, memberOf[g] = n PROVE Measures(g, n)' /\ (Stops(g)' <=> Stops(g))
  <2>1. TypeInv(AllNames) /\ RtinodeConsistent /\ Alone(f) /\ Measures(g, n) /\ "Stopped" \in Points
    BY <1>2 DEF MeasureContext, PhaseContext, Points
  <2>2. inbox'[g] = inbox[g]
    BY <1>2
  <2> QED BY <1>1, <1>2, <2>1, <2>2, OthersMeasure
<1> QED BY <1>1, <1>2 DEF MeasureResult

\* A member achieves a point that it owes; boxes are the inboxes without the message evoked.
LEMMA AchieveMeasures ==
  ASSUME NEW f \in Federates, NEW n, MeasureContext(f, n), NEW p \in Points, <<n, p, f>> \in owed,
         NEW boxes \in [Federates -> Seq(Messages)],
         \A g \in Federates \ {f} : boxes[g] = inbox[g],
         synchronizationPointAchieved(f, p, boxes)
  PROVE  /\ \A m, q, g : <<m, q, g>> \in owed' <=> <<m, q, g>> \in owed /\ ~(m = n /\ q = p /\ g = f)
         /\ \A m, q : <<m, q>> \in points' => <<m, q>> \in points
         /\ \A m, q : m # n => (<<m, q>> \in points' <=> <<m, q>> \in points)
         /\ \/ inbox'[f] = boxes[f]
            \/ <<n, p>> \notin points' /\ inbox'[f] = Append(boxes[f], Synchronized(p))
         /\ \A g \in Federates \ {f} : memberOf[g] = n => Measures(g, n)' /\ (Stops(g)' <=> Stops(g))
         /\ \A g \in Federates \ {f} : memberOf[g] # n => inbox'[g] = inbox[g]
         /\ UNCHANGED memberOf
<1>1. <<n, p>> \in points /\ memberOf[f] = n /\ n \in AllNames /\ n # NoName
  BY RtinodeFacts, EpochFacts DEF MeasureContext, PhaseContext, Measures
<1>2. UNCHANGED memberOf
  <2>1. TypeInv(AllNames) /\ RtinodeConsistent
    BY DEF MeasureContext, PhaseContext
  <2> QED BY <1>1, <2>1, AchieveFacts
<1>3. /\ \A m, q, g : <<m, q, g>> \in owed' <=> <<m, q, g>> \in owed /\ ~(m = n /\ q = p /\ g = f)
      /\ \A m, q : m # n \/ q # p => (<<m, q>> \in points' <=> <<m, q>> \in points)
      /\ \A g \in Federates : <<n, p>> \in points' \/ memberOf[g] # n => inbox'[g] = boxes[g]
      /\ \A g \in Federates : <<n, p>> \notin points' /\ memberOf[g] = n =>
           inbox'[g] = Append(boxes[g], Synchronized(p))
  <2>1. TypeInv(AllNames) /\ RtinodeConsistent
    BY DEF MeasureContext, PhaseContext
  <2>2. <<memberOf[f], p>> \in points
    BY <1>1
  <2>3. /\ \A m, q, g : <<m, q, g>> \in owed' <=>
              <<m, q, g>> \in owed /\ ~(m = memberOf[f] /\ q = p /\ g = f)
        /\ \A m, q : m # memberOf[f] \/ q # p => (<<m, q>> \in points' <=> <<m, q>> \in points)
        /\ \A g \in Federates : <<memberOf[f], p>> \in points' \/ memberOf[g] # memberOf[f] => inbox'[g] = boxes[g]
        /\ \A g \in Federates : <<memberOf[f], p>> \notin points' /\ memberOf[g] = memberOf[f] =>
             inbox'[g] = Append(boxes[g], Synchronized(p))
    BY ONLY <2>1, <2>2, f \in Federates, p \in Points, boxes \in [Federates -> Seq(Messages)],
            synchronizationPointAchieved(f, p, boxes), AchieveFacts
  <2> QED BY <1>1, <2>3
<1>4. \A m, q : <<m, q>> \in points' => <<m, q>> \in points
  BY <1>1, <1>3
<1>5. ASSUME NEW g \in Federates, g # f, memberOf[g] = n PROVE Measures(g, n)' /\ (Stops(g)' <=> Stops(g))
  <2>1. TypeInv(AllNames) /\ RtinodeConsistent /\ Alone(f) /\ Measures(g, n)
    BY <1>5 DEF MeasureContext, PhaseContext
  <2>2. \A q : <<n, q, g>> \in owed' <=> <<n, q, g>> \in owed
    BY <1>3, <1>5
  <2>3. \/ inbox'[g] = inbox[g]
        \/ <<n, p>> \in points /\ <<n, p>> \notin points' /\ inbox'[g] = Append(inbox[g], Synchronized(p))
    BY <1>1, <1>3, <1>5
  <2> QED BY <1>4, <1>5, <2>1, <2>2, <2>3, OthersMeasure
<1>6. \A g \in Federates \ {f} : memberOf[g] # n => inbox'[g] = inbox[g]
  BY <1>3
<1>7. \/ inbox'[f] = boxes[f]
      \/ <<n, p>> \notin points' /\ inbox'[f] = Append(boxes[f], Synchronized(p))
  BY <1>1, <1>3
<1> QED BY <1>2, <1>3, <1>4, <1>5, <1>6, <1>7

\* The inbox of a member without the message that it has evoked, perhaps with a synchronization.
LEMMA TakenMeasures ==
  ASSUME NEW f \in Federates, NEW n, MeasureContext(f, n), inbox[f] # <<>>,
         NEW tail, tail = Tail(inbox[f]),
         \/ inbox'[f] = tail
         \/ \E p \in Points : <<n, p>> \in points /\ <<n, p>> \notin points' /\ inbox'[f] = Append(tail, Synchronized(p))
  PROVE  /\ Head(inbox[f]) \in Messages /\ tail \in Seq(Messages)
         /\ \A x : Has(f, x) <=> x = Head(inbox[f]) \/ InBox(tail, x)
         /\ Ordered(inbox[f])'
         /\ \A x : (\A q \in Points : x # Synchronized(q)) => (Has(f, x)' <=> InBox(tail, x))
         /\ \A q \in Points : Has(f, Synchronized(q))' =>
              InBox(tail, Synchronized(q)) \/ (<<n, q>> \in points /\ <<n, q>> \notin points')
<1>1. inbox[f] \in Seq(Messages) /\ Ordered(inbox[f])
  BY DEF MeasureContext, PhaseContext, TypeInv, Types, Measures
<1>2. Head(inbox[f]) \in Messages /\ tail \in Seq(Messages)
      /\ \A x : InBox(inbox[f], x) <=> x = Head(inbox[f]) \/ InBox(tail, x)
  BY <1>1, InTaken
<1>3. Ordered(tail)
  BY <1>1, OrderedTaken
<1>4. CASE inbox'[f] = tail
  BY <1>2, <1>3, <1>4 DEF Has
<1>5. ASSUME NEW p \in Points, <<n, p>> \in points, <<n, p>> \notin points', inbox'[f] = Append(tail, Synchronized(p))
      PROVE  /\ Ordered(inbox[f])'
             /\ \A x : (\A q \in Points : x # Synchronized(q)) => (Has(f, x)' <=> InBox(tail, x))
             /\ \A q \in Points : Has(f, Synchronized(q))' =>
                  InBox(tail, Synchronized(q)) \/ (<<n, q>> \in points /\ <<n, q>> \notin points')
  <2>1. PICK s \in Messages : s = Synchronized(p) /\ s.type = "synchronized"
    BY MessageKinds
  <2>2. ~InBox(tail, s)
    <3>1. ~Has(f, s)
      BY <1>5, <2>1 DEF MeasureContext, Measures, IsSynchronized
    <3> QED BY <1>2, <3>1 DEF Has
  <2>3. Ordered(Append(tail, s))
    BY <1>2, <1>3, <2>1, <2>2, OrderedAppended
  <2>4. \A x : InBox(Append(tail, s), x) <=> InBox(tail, x) \/ x = s
    BY <1>2, InAppended
  <2>5. \A x : Has(f, x)' <=> InBox(tail, x) \/ x = s
    BY <1>5, <2>1, <2>4 DEF Has
  <2>6. \A q : Synchronized(q) = s => q = p
    BY <2>1, MessageKinds
  <2> QED BY <1>5, <2>1, <2>3, <2>5, <2>6
<1>6. \A x : Has(f, x) <=> x = Head(inbox[f]) \/ InBox(tail, x)
  BY <1>2 DEF Has
<1> QED BY <1>2, <1>4, <1>5, <1>6

\* It evokes an announcement, or a synchronization.
LEMMA ToldMeasures ==
  ASSUME NEW f \in Federates, NEW n, MeasureContext(f, n), evokeCallback(f), UNCHANGED <<pc, used>>,
         Head(inbox[f]).type \in {"announced", "synchronized"}
  PROVE  MeasureResult(f, n)
<1>1. PICK m, tail, rest : m = Head(inbox[f]) /\ tail = Tail(inbox[f]) /\ rest = Set(inbox, f, tail)
  OBVIOUS
<1>2. inbox[f] # <<>>
  BY DEF evokeCallback
<1>3. inbox' = rest /\ UNCHANGED <<owed, points, memberOf, mFederationIndex, mCurrentFederationName, created, sent, federations>>
  BY <1>1 DEF evokeCallback, announceSynchronizationPoint, federationSynchronized, federatesOnly, FederationMemory
<1>4. inbox'[f] = tail /\ \A g \in Federates \ {f} : inbox'[g] = inbox[g]
  BY <1>1, <1>3 DEF Set, MeasureContext, PhaseContext, TypeInv, Types
<1>5. /\ m \in Messages /\ tail \in Seq(Messages)
      /\ \A x : Has(f, x) <=> x = m \/ InBox(tail, x)
      /\ Ordered(inbox[f])'
      /\ \A x : Has(f, x)' <=> InBox(tail, x)
  <2>1. /\ m \in Messages /\ tail \in Seq(Messages)
        /\ \A x : Has(f, x) <=> x = m \/ InBox(tail, x)
        /\ Ordered(inbox[f])'
    BY <1>1, <1>2, <1>4, TakenMeasures
  <2> QED BY <1>4, <2>1 DEF Has
<1>6. m # Init_ /\ m # Stop_ /\ m # Lost
  BY <1>1, MessageKinds
<1>7. (Has(f, Init_)' <=> Has(f, Init_)) /\ (Has(f, Stop_)' <=> Has(f, Stop_)) /\ ~Has(f, Lost)'
  BY <1>5, <1>6 DEF MeasureContext, Measures
<1>8. /\ memberOf[f] = n /\ Named(f, n) /\ (pc[f] \in {"InitWait", "SyncWait"} => f \in Waiting)
      /\ MeasuresAt(f, n) /\ OwesInit(f, n) /\ OwesStop(f, n) /\ IsSynchronized(f, n)
  BY DEF MeasureContext, Measures
<1>9. Named(f, n)'
  BY <1>3, <1>8 DEF Named
<1>10. CASE m.type = "announced"
  <2>1. PICK p \in Points : m = Announce(p) /\ m.point = p
    BY <1>5, <1>10, MessageKinds
  <2>2. announceSynchronizationPoint(f, p, rest)
    BY <1>1, <1>10, <2>1 DEF evokeCallback
  <2>3. labels'[f] = labels[f] \cup {p} /\ UNCHANGED mState
    BY <2>2 DEF announceSynchronizationPoint, Set, MeasureContext, PhaseContext, TypeInv, Types
  <2>4. \A q \in Points : Knows(f, q) => Knows(f, q)'
    <3>1. \A q \in Points : Announce(q) = m => q = p
      BY <2>1, MessageKinds
    <3> QED BY <1>5, <2>3, <3>1 DEF Knows
  <2>5. "Initialized" \in Points /\ "Stopped" \in Points
    BY DEF Points
  <2>6. MeasuresAt(f, n)'
    BY <1>3, <1>7, <1>8, <2>3 DEF MeasuresAt
  <2>7. OwesInit(f, n)' /\ OwesStop(f, n)'
    BY <1>3, <1>7, <1>8, <2>3, <2>4, <2>5 DEF OwesInit, OwesStop
  <2>8. IsSynchronized(f, n)'
    BY <1>3, <1>5, <1>8, <2>3 DEF IsSynchronized
  <2>9. Measures(f, n)' /\ (Stops(f)' <=> Stops(f))
    BY <1>3, <1>5, <1>7, <1>8, <1>9, <2>3, <2>6, <2>7, <2>8 DEF Measures, Stops
  <2> QED BY <1>3, <1>4, <2>9, QuietMeasure DEF rtinode
<1>11. CASE m.type = "synchronized"
  <2>1. PICK p \in Points : m = Synchronized(p) /\ m.point = p
    BY <1>5, <1>11, MessageKinds
  <2>2. federationSynchronized(f, p, rest)
    BY <1>1, <1>11, <2>1 DEF evokeCallback
  <2>3. /\ labels'[f] = labels[f] \ {p}
        /\ mState'[f] = IF f \in Waiting /\ p = "Initialized" THEN "FederationSynchronized" ELSE mState[f]
    BY <2>2 DEF federationSynchronized, Set, MeasureContext, PhaseContext, TypeInv, Types
  <2>4. <<n, p>> \notin points /\ Has(f, m)
    BY <1>5, <1>8, <2>1 DEF IsSynchronized
  <2>5. \A q : <<n, q, f>> \in owed => q # p
    BY <2>4, RtinodeFacts DEF MeasureContext, PhaseContext
  <2>6. \A q : q # p /\ Knows(f, q) => Knows(f, q)'
    <3>1. \A q : Announce(q) # m
      BY <2>1, MessageKinds
    <3> QED BY <1>5, <2>3, <3>1 DEF Knows
  <2>7. ~InBox(tail, m)
    <3>1. inbox[f] \in Seq(Messages) /\ Ordered(inbox[f])
      BY DEF MeasureContext, PhaseContext, TypeInv, Types, Measures
    <3> QED BY <1>1, <1>2, <1>11, <3>1, OrderedTaken
  <2>8. CASE f \in Waiting /\ p = "Initialized"
    <3>1. <<n, "Initialized", f>> \notin owed /\ ~Has(f, Init_)
      BY <1>8, <2>5, <2>8 DEF OwesInit
    <3>2. pc[f] = "SyncWait" /\ mState[f] # "ReceivedMeasurementStop" /\ mState[f] # "Online"
      BY <1>8, <2>1, <2>4, <2>8, <3>1 DEF MeasuresAt, IsSynchronized
    <3>3. mState'[f] = "FederationSynchronized"
      BY <2>3, <2>8
    <3>4. MeasuresAt(f, n)'
      BY <3>2, <3>3 DEF MeasuresAt
    <3>5. OwesInit(f, n)'
      BY <1>3, <1>7, <3>1 DEF OwesInit
    <3>6. OwesStop(f, n)'
      <4>1. <<n, "Stopped", f>> \in owed /\ Knows(f, "Stopped") /\ ~Has(f, Stop_) /\ "Stopped" # p
        BY <1>8, <2>8, <3>2 DEF OwesStop
      <4> QED BY <1>3, <1>7, <2>6, <3>3, <4>1 DEF OwesStop
    <3>7. IsSynchronized(f, n)'
      BY <1>3, <1>5, <1>8, <2>1, <2>4, <2>7, <2>8 DEF IsSynchronized
    <3>8. Measures(f, n)' /\ (Stops(f)' <=> Stops(f))
      BY <1>3, <1>5, <1>7, <1>8, <1>9, <3>2, <3>3, <3>4, <3>5, <3>6, <3>7 DEF Measures, Stops
    <3> QED BY <1>3, <1>4, <3>8, QuietMeasure DEF rtinode
  <2>9. CASE ~(f \in Waiting /\ p = "Initialized")
    <3>1. mState'[f] = mState[f]
      BY <2>3, <2>9
    <3>2. MeasuresAt(f, n)'
      BY <1>3, <1>7, <1>8, <2>3, <2>5, <3>1 DEF MeasuresAt
    <3>3. OwesInit(f, n)'
      BY <1>3, <1>7, <1>8, <2>5, <2>6, <3>1 DEF OwesInit
    <3>4. OwesStop(f, n)'
      BY <1>3, <1>7, <1>8, <2>5, <2>6, <3>1 DEF OwesStop
    <3>5. IsSynchronized(f, n)'
      BY <1>3, <1>5, <1>8, <3>1 DEF IsSynchronized
    <3>6. Measures(f, n)' /\ (Stops(f)' <=> Stops(f))
      BY <1>3, <1>5, <1>7, <1>8, <1>9, <3>1, <3>2, <3>3, <3>4, <3>5 DEF Measures, Stops
    <3> QED BY <1>3, <1>4, <3>6, QuietMeasure DEF rtinode
  <2> QED BY <2>8, <2>9
<1> QED BY <1>1, <1>10, <1>11

\* It evokes the init: who waits for it notes it, the others achieve the point of the start.
LEMMA InitMeasures ==
  ASSUME NEW f \in Federates, NEW n, MeasureContext(f, n), evokeCallback(f), UNCHANGED <<pc, used>>,
         pc[f] = "InitWait" => mState[f] # "ReceivedMeasurementInit",
         Head(inbox[f]).type = "init"
  PROVE  MeasureResult(f, n)
<1>1. PICK m, tail, rest : m = Head(inbox[f]) /\ tail = Tail(inbox[f]) /\ rest = Set(inbox, f, tail)
  OBVIOUS
<1>2. inbox[f] # <<>> /\ inbox[f] \in Seq(Messages) /\ Ordered(inbox[f])
  BY DEF evokeCallback, MeasureContext, PhaseContext, TypeInv, Types, Measures
<1>3. m \in Messages /\ tail \in Seq(Messages) /\ m = Init_
      /\ \A x : Has(f, x) <=> x = m \/ InBox(tail, x)
  <2>1. m \in Messages /\ tail \in Seq(Messages) /\ \A x : InBox(inbox[f], x) <=> x = m \/ InBox(tail, x)
    BY <1>1, <1>2, InTaken
  <2> QED BY <1>1, <2>1, MessageKinds DEF Has
<1>4. ~InBox(tail, Init_) /\ \A p \in Points : ~InBox(tail, Announce(p))
  BY <1>1, <1>2, OrderedTaken
<1>5. /\ memberOf[f] = n /\ Named(f, n) /\ (pc[f] \in {"InitWait", "SyncWait"} => f \in Waiting)
      /\ MeasuresAt(f, n) /\ OwesInit(f, n) /\ OwesStop(f, n) /\ IsSynchronized(f, n) /\ ~Has(f, Lost)
  BY DEF MeasureContext, Measures
<1>6. /\ OnReceiveIAMeasurementInit(f, rest)
      /\ UNCHANGED <<mFederationIndex, mCurrentFederationName, created, sent, federations>>
  BY <1>1, <1>3, MessageKinds DEF evokeCallback, FederationMemory
<1>7. UNCHANGED labels
  BY <1>6 DEF OnReceiveIAMeasurementInit
<1>8. /\ "Initialized" \in Points /\ "Stopped" \in Points
      /\ \A p : Announce(p) # Init_ /\ Announce(p) # Stop_ /\ Announce(p) # Lost
      /\ \A p : Synchronized(p) # Init_ /\ Synchronized(p) # Stop_ /\ Synchronized(p) # Lost
      /\ \A p, q : Announce(p) # Synchronized(q)
      /\ Init_ # Stop_ /\ Init_ # Lost
  <2>1. "Initialized" \in Points /\ "Stopped" \in Points
    BY DEF Points
  <2> QED BY <2>1, MessageKinds
<1>9. <<n, "Initialized", f>> \in owed /\ "Initialized" \in labels[f] /\ <<n, "Initialized">> \in points
  <2>1. Has(f, Init_) /\ \A p : Has(f, Announce(p)) => InBox(tail, Announce(p))
    BY <1>3, <1>8
  <2>2. <<n, "Initialized", f>> \in owed /\ "Initialized" \in labels[f]
    BY <1>4, <1>5, <1>8, <2>1 DEF OwesInit, Knows
  <2> QED BY <2>2, RtinodeFacts DEF MeasureContext, PhaseContext
<1>10. Named(f, n)'
  BY <1>5, <1>6 DEF Named
<1>11. rest \in [Federates -> Seq(Messages)] /\ rest[f] = tail /\ \A g \in Federates \ {f} : rest[g] = inbox[g]
  BY <1>1, <1>3 DEF Set, MeasureContext, PhaseContext, TypeInv, Types
<1>12. CASE f \in Waiting
  <2>1. pc[f] = "InitWait" /\ mState[f] = "WaitForMeasurementInit"
    BY <1>5, <1>9, <1>12 DEF MeasuresAt, OwesInit, IsSynchronized
  <2>2. inbox' = rest /\ UNCHANGED <<owed, points, memberOf>> /\ mState' = Set(mState, f, "ReceivedMeasurementInit")
    BY <1>6, <1>12, <2>1 DEF OnReceiveIAMeasurementInit, federatesOnly
  <2>3. mState'[f] = "ReceivedMeasurementInit"
    BY <2>2 DEF Set, MeasureContext, PhaseContext, TypeInv, Types
  <2>4. Ordered(inbox[f])' /\ \A x : Has(f, x)' <=> InBox(tail, x)
    <3>1. inbox'[f] = tail
      BY <1>11, <2>2
    <3>2. Ordered(tail)
      BY <1>1, <1>2, OrderedTaken
    <3> QED BY <3>1, <3>2 DEF Has
  <2>5. ~Has(f, Init_)' /\ ~Has(f, Stop_)' /\ ~Has(f, Lost)' /\ ~Has(f, Stop_)
    BY <1>3, <1>4, <1>5, <2>1, <2>4 DEF OwesStop
  <2>6. Knows(f, "Stopped") => Knows(f, "Stopped")'
    BY <1>3, <1>7, <1>8, <2>4 DEF Knows
  <2>7. MeasuresAt(f, n)'
    BY <1>7, <1>9, <2>1, <2>2, <2>3, <2>5 DEF MeasuresAt
  <2>8. OwesInit(f, n)'
    BY <2>1, <2>3, <2>5 DEF OwesInit
  <2>9. OwesStop(f, n)'
    BY <1>5, <2>1, <2>2, <2>3, <2>5, <2>6 DEF OwesStop
  <2>10. IsSynchronized(f, n)'
    BY <1>3, <1>5, <2>1, <2>2, <2>3, <2>4 DEF IsSynchronized
  <2>11. Measures(f, n)' /\ (Stops(f)' <=> Stops(f))
    BY <1>5, <1>10, <2>1, <2>2, <2>3, <2>4, <2>5, <2>7, <2>8, <2>9, <2>10 DEF Measures, Stops
  <2>12. \A g \in Federates \ {f} : inbox'[g] = inbox[g]
    BY <1>11, <2>2
  <2> QED BY <1>6, <2>2, <2>11, <2>12, QuietMeasure DEF rtinode
<1>13. CASE f \notin Waiting
  <2>1. pc[f] = "Evoke" /\ mState[f] \in {"Online", "ReceivedMeasurementStop"}
    BY <1>5, <1>13 DEF MeasuresAt
  <2>2. UNCHANGED mState /\ synchronizationPointAchieved(f, "Initialized", rest)
    BY <1>6, <1>9, <1>13 DEF OnReceiveIAMeasurementInit
  <2>3. /\ \A k, q, g : <<k, q, g>> \in owed' <=> <<k, q, g>> \in owed /\ ~(k = n /\ q = "Initialized" /\ g = f)
        /\ \A k, q : <<k, q>> \in points' => <<k, q>> \in points
        /\ \A k, q : k # n => (<<k, q>> \in points' <=> <<k, q>> \in points)
        /\ \/ inbox'[f] = rest[f]
           \/ <<n, "Initialized">> \notin points' /\ inbox'[f] = Append(rest[f], Synchronized("Initialized"))
        /\ \A g \in Federates \ {f} : memberOf[g] = n => Measures(g, n)' /\ (Stops(g)' <=> Stops(g))
        /\ \A g \in Federates \ {f} : memberOf[g] # n => inbox'[g] = inbox[g]
        /\ UNCHANGED memberOf
    BY <1>8, <1>9, <1>11, <2>2, AchieveMeasures
  <2>4. \/ inbox'[f] = tail
        \/ \E p \in Points : <<n, p>> \in points /\ <<n, p>> \notin points' /\ inbox'[f] = Append(tail, Synchronized(p))
    BY <1>8, <1>9, <1>11, <2>3
  <2>5. /\ Ordered(inbox[f])'
        /\ \A x : (\A q \in Points : x # Synchronized(q)) => (Has(f, x)' <=> InBox(tail, x))
        /\ \A q \in Points : Has(f, Synchronized(q))' =>
             InBox(tail, Synchronized(q)) \/ (<<n, q>> \in points /\ <<n, q>> \notin points')
    BY <1>1, <1>2, <2>4, TakenMeasures
  <2>6. ~Has(f, Init_)' /\ (Has(f, Stop_)' <=> Has(f, Stop_)) /\ ~Has(f, Lost)'
    BY <1>3, <1>4, <1>5, <1>8, <2>5
  <2>7. Knows(f, "Stopped") => Knows(f, "Stopped")'
    BY <1>3, <1>7, <1>8, <2>5 DEF Knows
  <2>8. MeasuresAt(f, n)'
    BY <2>1, <2>2 DEF MeasuresAt
  <2>9. OwesInit(f, n)'
    BY <2>1, <2>3, <2>6 DEF OwesInit
  <2>10. OwesStop(f, n)'
    BY <1>5, <2>2, <2>3, <2>6, <2>7 DEF OwesStop
  <2>11. IsSynchronized(f, n)'
    BY <1>3, <1>5, <1>13, <2>1, <2>2, <2>3, <2>5 DEF IsSynchronized
  <2>12. Measures(f, n)' /\ (Stops(f)' <=> Stops(f))
    BY <1>5, <1>10, <2>1, <2>2, <2>3, <2>5, <2>6, <2>8, <2>9, <2>10, <2>11 DEF Measures, Stops
  <2> QED BY <1>6, <2>3, <2>12 DEF MeasureResult
<1> QED BY <1>12, <1>13

\* It evokes the stop, and achieves the point of the end.
LEMMA StopMeasures ==
  ASSUME NEW f \in Federates, NEW n, MeasureContext(f, n), evokeCallback(f), UNCHANGED <<pc, used>>,
         Head(inbox[f]).type = "stop"
  PROVE  MeasureResult(f, n)
<1>1. PICK m, tail, rest : m = Head(inbox[f]) /\ tail = Tail(inbox[f]) /\ rest = Set(inbox, f, tail)
  OBVIOUS
<1>2. inbox[f] # <<>> /\ inbox[f] \in Seq(Messages) /\ Ordered(inbox[f])
  BY DEF evokeCallback, MeasureContext, PhaseContext, TypeInv, Types, Measures
<1>3. m \in Messages /\ tail \in Seq(Messages) /\ m = Stop_
      /\ \A x : Has(f, x) <=> x = m \/ InBox(tail, x)
  <2>1. m \in Messages /\ tail \in Seq(Messages) /\ \A x : InBox(inbox[f], x) <=> x = m \/ InBox(tail, x)
    BY <1>1, <1>2, InTaken
  <2> QED BY <1>1, <2>1, MessageKinds DEF Has
<1>4. ~InBox(tail, Stop_) /\ ~InBox(tail, Init_) /\ \A p \in Points : ~InBox(tail, Announce(p))
  BY <1>1, <1>2, OrderedTaken
<1>5. /\ memberOf[f] = n /\ Named(f, n) /\ (pc[f] \in {"InitWait", "SyncWait"} => f \in Waiting)
      /\ MeasuresAt(f, n) /\ OwesInit(f, n) /\ OwesStop(f, n) /\ IsSynchronized(f, n) /\ ~Has(f, Lost)
  BY DEF MeasureContext, Measures
<1>6. /\ OnReceiveIAMeasurementStop(f, rest)
      /\ UNCHANGED <<mFederationIndex, mCurrentFederationName, created, sent, federations>>
  BY <1>1, <1>3, MessageKinds DEF evokeCallback, FederationMemory
<1>7. /\ "Initialized" \in Points /\ "Stopped" \in Points
      /\ \A p : Announce(p) # Init_ /\ Announce(p) # Stop_ /\ Announce(p) # Lost
      /\ \A p : Synchronized(p) # Init_ /\ Synchronized(p) # Stop_ /\ Synchronized(p) # Lost
      /\ \A p, q : Synchronized(p) = Synchronized(q) => p = q
      /\ Init_ # Stop_ /\ Stop_ # Lost
  <2>1. "Initialized" \in Points /\ "Stopped" \in Points
    BY DEF Points
  <2> QED BY <2>1, MessageKinds
<1>8. Has(f, Stop_) /\ mState[f] = "Online" /\ pc[f] = "Evoke"
  BY <1>3, <1>5 DEF OwesStop, MeasuresAt
<1>9. <<n, "Stopped", f>> \in owed /\ "Stopped" \in labels[f]
  <2>1. \A p : Has(f, Announce(p)) => InBox(tail, Announce(p))
    BY <1>3, <1>7
  <2> QED BY <1>4, <1>5, <1>7, <1>8, <2>1 DEF OwesStop, Knows
<1>10. <<n, "Initialized", f>> \notin owed
  BY <1>3, <1>4, <1>5, <1>7, <1>8 DEF OwesInit
<1>11. rest \in [Federates -> Seq(Messages)] /\ rest[f] = tail /\ \A g \in Federates \ {f} : rest[g] = inbox[g]
  BY <1>1, <1>3 DEF Set, MeasureContext, PhaseContext, TypeInv, Types
<1>12. synchronizationPointAchieved(f, "Stopped", rest) /\ mState' = Set(mState, f, "ReceivedMeasurementStop")
  BY <1>6, <1>9 DEF OnReceiveIAMeasurementStop
<1>13. mState'[f] = "ReceivedMeasurementStop"
  BY <1>12 DEF Set, MeasureContext, PhaseContext, TypeInv, Types
<1>14. /\ \A k, q, g : <<k, q, g>> \in owed' <=> <<k, q, g>> \in owed /\ ~(k = n /\ q = "Stopped" /\ g = f)
       /\ \A k, q : <<k, q>> \in points' => <<k, q>> \in points
       /\ \A k, q : k # n => (<<k, q>> \in points' <=> <<k, q>> \in points)
       /\ \/ inbox'[f] = rest[f]
          \/ <<n, "Stopped">> \notin points' /\ inbox'[f] = Append(rest[f], Synchronized("Stopped"))
       /\ \A g \in Federates \ {f} : memberOf[g] = n => Measures(g, n)' /\ (Stops(g)' <=> Stops(g))
       /\ \A g \in Federates \ {f} : memberOf[g] # n => inbox'[g] = inbox[g]
       /\ UNCHANGED memberOf
  BY <1>7, <1>9, <1>11, <1>12, AchieveMeasures
<1>15. \/ inbox'[f] = tail
       \/ \E p \in Points : <<n, p>> \in points /\ <<n, p>> \notin points' /\ inbox'[f] = Append(tail, Synchronized(p))
  <2>1. <<n, "Stopped">> \in points
    BY <1>9, RtinodeFacts DEF MeasureContext, PhaseContext
  <2> QED BY <1>7, <1>11, <1>14, <2>1
<1>16. /\ Ordered(inbox[f])'
       /\ \A x : (\A q \in Points : x # Synchronized(q)) => (Has(f, x)' <=> InBox(tail, x))
       /\ \A q \in Points : Has(f, Synchronized(q))' =>
            InBox(tail, Synchronized(q)) \/ (<<n, q>> \in points /\ <<n, q>> \notin points')
  BY <1>1, <1>2, <1>15, TakenMeasures
<1>17. ~Has(f, Init_)' /\ ~Has(f, Stop_)' /\ ~Has(f, Lost)'
  BY <1>3, <1>4, <1>5, <1>7, <1>16
<1>18. MeasuresAt(f, n)'
  BY <1>8, <1>13 DEF MeasuresAt
<1>19. OwesInit(f, n)' /\ OwesStop(f, n)'
  BY <1>8, <1>10, <1>13, <1>14, <1>17 DEF OwesInit, OwesStop
<1>20. IsSynchronized(f, n)'
  BY <1>3, <1>5, <1>7, <1>8, <1>13, <1>14, <1>16 DEF IsSynchronized
<1>21. Named(f, n)'
  BY <1>5, <1>6 DEF Named
<1>22. Measures(f, n)' /\ (Stops(f)' <=> Stops(f))
  BY <1>5, <1>8, <1>13, <1>14, <1>16, <1>17, <1>18, <1>19, <1>20, <1>21 DEF Measures, Stops
<1> QED BY <1>6, <1>14, <1>22 DEF MeasureResult

\* So the callbacks are harmless, whichever is evoked.
LEMMA EvokeMeasures ==
  ASSUME NEW f \in Federates, NEW n, MeasureContext(f, n),
         InitWait(f) \/ SyncWait(f) \/ EvokeCallbacks(f)
  PROVE  MeasureResult(f, n)
<1>1. evokeCallback(f) /\ UNCHANGED <<pc, used>>
  BY DEF InitWait, SyncWait, EvokeCallbacks
<1>2. pc[f] = "InitWait" => mState[f] # "ReceivedMeasurementInit"
  BY DEF InitWait, SyncWait, EvokeCallbacks
<1>3. Head(inbox[f]).type \in {"announced", "synchronized", "init", "stop", "lost"}
  BY <1>1 DEF evokeCallback
<1>4. Head(inbox[f]).type # "lost"
  <2>1. inbox[f] \in Seq(Messages) /\ inbox[f] # <<>>
    BY <1>1 DEF evokeCallback, MeasureContext, PhaseContext, TypeInv, Types
  <2>2. Head(inbox[f]) \in Messages /\ InBox(inbox[f], Head(inbox[f]))
    BY <2>1, InTaken
  <2>3. ~InBox(inbox[f], Lost)
    BY DEF MeasureContext, Measures, Has
  <2> QED BY <2>2, <2>3, MessageKinds
<1> QED BY <1>1, <1>2, <1>3, <1>4, ToldMeasures, InitMeasures, StopMeasures

\* Who waits for the start achieves its point, and is synchronized later.
LEMMA WaiterMeasures ==
  ASSUME NEW f \in Federates, NEW n, MeasureContext(f, n), InitReceived(f) \/ FederationSynchronized(f)
  PROVE  MeasureResult(f, n)
<1>1. /\ memberOf[f] = n /\ Named(f, n) /\ (pc[f] \in {"InitWait", "SyncWait"} => f \in Waiting)
      /\ MeasuresAt(f, n) /\ OwesInit(f, n) /\ OwesStop(f, n) /\ IsSynchronized(f, n) /\ ~Has(f, Lost)
      /\ inbox[f] \in Seq(Messages) /\ Ordered(inbox[f])
  BY DEF MeasureContext, PhaseContext, TypeInv, Types, Measures
<1>2. UNCHANGED <<mFederationIndex, mCurrentFederationName, created, sent, labels, federations, used>>
  BY DEF InitReceived, FederationSynchronized, ambassador, rtinode
<1>3. Named(f, n)'
  BY <1>1, <1>2 DEF Named
<1>4. CASE InitReceived(f)
  <2>1. pc[f] = "InitWait" /\ mState[f] = "ReceivedMeasurementInit" /\ UNCHANGED mState
    BY <1>4 DEF InitReceived
  <2>2. <<n, "Initialized", f>> \in owed /\ "Initialized" \in labels[f] /\ ~Has(f, Init_) /\ "Initialized" \in Points
    BY <1>1, <2>1 DEF MeasuresAt, Points
  <2>3. synchronizationPointAchieved(f, "Initialized", inbox) /\ pc' = Set(pc, f, "SyncWait")
    BY <1>4, <2>2 DEF InitReceived
  <2>4. pc'[f] = "SyncWait"
    BY <2>3 DEF Set, MeasureContext, PhaseContext, TypeInv, Types
  <2>5. inbox \in [Federates -> Seq(Messages)]
    BY DEF MeasureContext, PhaseContext, TypeInv, Types
  <2>6. /\ \A k, q, g : <<k, q, g>> \in owed' <=> <<k, q, g>> \in owed /\ ~(k = n /\ q = "Initialized" /\ g = f)
        /\ \A k, q : <<k, q>> \in points' => <<k, q>> \in points
        /\ \A k, q : k # n => (<<k, q>> \in points' <=> <<k, q>> \in points)
        /\ \/ inbox'[f] = inbox[f]
           \/ <<n, "Initialized">> \notin points' /\ inbox'[f] = Append(inbox[f], Synchronized("Initialized"))
        /\ \A g \in Federates \ {f} : memberOf[g] = n => Measures(g, n)' /\ (Stops(g)' <=> Stops(g))
        /\ \A g \in Federates \ {f} : memberOf[g] # n => inbox'[g] = inbox[g]
        /\ UNCHANGED memberOf
    BY <2>2, <2>3, <2>5, AchieveMeasures
  <2>7. PICK s \in Messages : s = Synchronized("Initialized") /\ s.type = "synchronized"
    BY <2>2, MessageKinds
  <2>8. ~InBox(inbox[f], s)
    <3>1. <<n, "Initialized">> \in points
      BY <2>2, RtinodeFacts DEF MeasureContext, PhaseContext
    <3> QED BY <1>1, <2>2, <2>7, <3>1 DEF IsSynchronized, Has
  <2>9. /\ Ordered(inbox[f])'
        /\ \A x : Has(f, x)' => Has(f, x) \/ (x = s /\ <<n, "Initialized">> \notin points')
        /\ \A x : Has(f, x) => Has(f, x)'
    <3>1. CASE inbox'[f] = inbox[f]
      BY <1>1, <3>1 DEF Has
    <3>2. CASE <<n, "Initialized">> \notin points' /\ inbox'[f] = Append(inbox[f], s)
      <4>1. Ordered(Append(inbox[f], s)) /\ \A x : InBox(Append(inbox[f], s), x) <=> InBox(inbox[f], x) \/ x = s
        BY <1>1, <2>7, <2>8, OrderedAppended, InAppended
      <4> QED BY <3>2, <4>1 DEF Has
    <3> QED BY <2>6, <2>7, <3>1, <3>2
  <2>10. s # Init_ /\ s # Stop_ /\ s # Lost /\ \A q : Synchronized(q) = s => q = "Initialized"
    BY <2>7, MessageKinds
  <2>11. ~Has(f, Init_)' /\ (Has(f, Stop_)' <=> Has(f, Stop_)) /\ ~Has(f, Lost)'
    BY <1>1, <2>2, <2>9, <2>10
  <2>12. \A q : Knows(f, q) => Knows(f, q)'
    BY <1>2, <2>9 DEF Knows
  <2>13. MeasuresAt(f, n)'
    BY <2>1, <2>4 DEF MeasuresAt
  <2>14. OwesInit(f, n)' /\ OwesStop(f, n)'
    BY <1>1, <2>1, <2>4, <2>6, <2>11, <2>12 DEF OwesInit, OwesStop
  <2>15. IsSynchronized(f, n)'
    BY <1>1, <2>1, <2>4, <2>6, <2>9, <2>10 DEF IsSynchronized
  <2>16. Measures(f, n)' /\ (Stops(f)' <=> Stops(f))
    BY <1>1, <1>3, <2>1, <2>4, <2>6, <2>9, <2>11, <2>13, <2>14, <2>15 DEF Measures, Stops
  <2> QED BY <1>2, <2>6, <2>16 DEF MeasureResult
<1>5. CASE FederationSynchronized(f)
  <2>1. pc[f] = "SyncWait" /\ mState[f] = "FederationSynchronized" /\ UNCHANGED <<inbox, rtinode>>
    BY <1>5 DEF FederationSynchronized
  <2>2. mState'[f] = "Online" /\ pc'[f] = "Evoke" /\ UNCHANGED <<memberOf, points, owed>>
    BY <1>5 DEF FederationSynchronized, rtinode, Goto, Set, MeasureContext, PhaseContext, TypeInv, Types
  <2>3. (\A x : Has(f, x)' <=> Has(f, x)) /\ \A q : Knows(f, q)' <=> Knows(f, q)
    BY <1>2, <2>1 DEF Knows, Has
  <2>4. MeasuresAt(f, n)'
    BY <2>2 DEF MeasuresAt
  <2>5. OwesInit(f, n)' /\ OwesStop(f, n)' /\ IsSynchronized(f, n)'
    BY <1>1, <2>1, <2>2, <2>3 DEF OwesInit, OwesStop, IsSynchronized
  <2>6. Measures(f, n)' /\ (Stops(f)' <=> Stops(f))
    BY <1>1, <1>3, <2>1, <2>2, <2>3, <2>4, <2>5 DEF Measures, Stops
  <2> QED BY <1>2, <2>1, <2>6, QuietMeasure
<1> QED BY <1>4, <1>5

\* What the thread of a member does while it measures.
LEMMA ConnectMeasures ==
  ASSUME NEW f \in Federates, NEW n, MeasureContext(f, n), Connect(f) \/ EvokeCallbacks(f)
  PROVE  MeasureResult(f, n) \/ (ResetOnMeasurementStop(f) /\ mState[f] = "ReceivedMeasurementStop")
<1>1. MeasuresAt(f, n)
  BY DEF MeasureContext, Measures
<1>2. ~ScanForFederationPrefix(f) /\ ~CreateFederation(f) /\ ~JoinFederation(f) /\ ~RegisterSyncPoints(f)
      /\ ~RetrieveSyncPoints(f) /\ ~PointWait(f) /\ ~JoinScan(f) /\ ~NoPointsAnnounced(f)
      /\ ~HandleDeadFederation(f) /\ ~JoinFreshOrLate(f) /\ ~InitFederate(f) /\ ~Destroyed(f)
      /\ ~HandleConnectionLost(f)
  BY <1>1 DEF MeasuresAt, ScanForFederationPrefix, CreateFederation, JoinFederation, RegisterSyncPoints,
       RetrieveSyncPoints, PointWait, JoinScan, NoPointsAnnounced, HandleDeadFederation, JoinFreshOrLate,
       InitFederate, Destroyed, HandleConnectionLost, InBlock
<1>3. ResetOnMeasurementStop(f) => mState[f] = "ReceivedMeasurementStop"
  BY DEF ResetOnMeasurementStop
<1> QED BY <1>2, <1>3, EvokeMeasures, WaiterMeasures DEF Connect

-----------------------------------------------------------------------------
(* Measuring and parting.                                                       *)

\* The stop is sent to all, who are online, and begins the parting.
LEMMA StopBegins ==
  ASSUME NEW f \in Federates, NEW n, PhaseContext(f), Measure(n), SendMeasurementStop(f)
  PROVE  Part(n)' /\ OneCreates' /\ SentByStarters'
<1>1. MayStop /\ Budget("stop", MaxStops)
  BY CalmSteps DEF PhaseContext, TypeInv, SendMeasurementStop, InGoodTime
<1>2. \A g \in Federates : mState[g] = "Online" /\ memberOf[g] = n /\ Measures(g, n) /\ ~Stops(g)
  BY <1>1 DEF MayStop, Together, Measure, Measures
<1>3. n \in Epochs /\ n \in AllNames /\ n # NoName /\ Next_(n) \in Epochs /\ Next_(n) # n /\ Next_(n) # NoName
  BY EpochFacts DEF Measure, Bounded
<1>4. /\ UNCHANGED <<mState, pc, mFederationIndex, mCurrentFederationName, created, announced, labels,
                     federations, memberOf, points, owed>>
      /\ sent' = Set(sent, f, sent[f] \cup {"stop"}) /\ f \in Starters
      /\ inbox' = [g \in Federates |->
                    IF Subscribed(g) /\ Subscribed(f) /\ memberOf[g] = memberOf[f]
                      THEN Append(inbox[g], Stop_) ELSE inbox[g]]
  BY MessageKinds DEF SendMeasurementStop, SendInteraction, FederationMemory, rtinode
<1>5. \A g \in Federates : inbox'[g] = Append(inbox[g], Stop_) /\ inbox[g] \in Seq(Messages)
  <2>1. \A g \in Federates : Subscribed(g)
    BY <1>2, <1>3 DEF Subscribed
  <2> QED BY <1>2, <1>4, <2>1 DEF PhaseContext, TypeInv, Types
<1>6. ASSUME NEW g \in Federates PROVE Measures(g, n)' /\ Stops(g)' /\ pc[g] = "Evoke"
  <2>1. Measures(g, n) /\ mState[g] = "Online" /\ inbox[g] \in Seq(Messages) /\ ~Has(g, Stop_)
    BY <1>2, <1>5 DEF Stops
  <2>2. \A x : Has(g, x)' <=> Has(g, x) \/ x = Stop_
    <3>1. Stop_ \in Messages
      BY MessageKinds
    <3>2. \A m : InBox(Append(inbox[g], Stop_), m) <=> InBox(inbox[g], m) \/ m = Stop_
      BY <2>1, <3>1, InAppended
    <3> QED BY <1>5, <3>2 DEF Has
  <2>3. Ordered(inbox[g])'
    <3>1. Stop_ \in Messages /\ Stop_.type = "stop"
      BY MessageKinds
    <3>2. Ordered(inbox[g]) /\ ~InBox(inbox[g], Stop_)
      BY <2>1 DEF Measures, Has
    <3>3. Ordered(Append(inbox[g], Stop_))
      BY <2>1, <3>1, <3>2, OrderedAppended
    <3> QED BY <1>5, <3>3
  <2>4. /\ Init_ # Stop_ /\ Lost # Stop_
        /\ \A p : Announce(p) # Stop_ /\ Synchronized(p) # Stop_
    BY MessageKinds
  <2>5. /\ (Has(g, Init_)' <=> Has(g, Init_)) /\ (Has(g, Lost)' <=> Has(g, Lost)) /\ Has(g, Stop_)'
        /\ \A p : Has(g, Synchronized(p))' <=> Has(g, Synchronized(p))
        /\ \A p : Knows(g, p)' <=> Knows(g, p)
    BY <1>4, <2>2, <2>4 DEF Knows
  <2>6. /\ memberOf[g] = n /\ Named(g, n) /\ MeasuresAt(g, n) /\ OwesInit(g, n) /\ OwesStop(g, n)
        /\ IsSynchronized(g, n) /\ ~Has(g, Lost)
    BY <2>1 DEF Measures
  <2>7. pc[g] = "Evoke"
    BY <2>1, <2>6 DEF MeasuresAt
  <2>8. MeasuresAt(g, n)'
    BY <1>4, <2>1, <2>7 DEF MeasuresAt
  <2>9. OwesInit(g, n)' /\ OwesStop(g, n)' /\ IsSynchronized(g, n)'
    BY <1>4, <2>1, <2>5, <2>6, <2>7 DEF OwesInit, OwesStop, IsSynchronized
  <2>10. Named(g, n)'
    BY <1>4, <2>6 DEF Named
  <2> QED BY <1>4, <2>3, <2>5, <2>6, <2>7, <2>8, <2>9, <2>10 DEF Measures, Stops
<1>7. Bounded(n)' /\ Bounded(Next_(n))'
  <2>1. Bounded(n)'
    BY UsedSteps, BoundedGrows DEF PhaseContext, Measure, Step
  <2>2. used'["stop"] = used["stop"] + 1 /\ used["stop"] \in Nat
    BY <1>1 DEF Budget, PhaseContext, TypeInv, Types, Bounds
  <2>3. Next_(n) <= n + 1 \/ Next_(n) = 1
    BY <1>3, EpochFacts
  <2>4. n <= used["stop"] /\ n \in Int /\ Next_(n) \in Int
    BY <1>3 DEF Measure, Bounded, Epochs, NoIndex
  <2>5. Next_(n) <= used'["stop"]
    BY <2>2, <2>3, <2>4
  <2>6. Bounded(Next_(n))' <=> Next_(n) \in Epochs /\ Next_(n) <= used'["stop"]
    BY DEF Bounded, Next_
  <2> QED BY <1>3, <2>1, <2>5, <2>6
<1>8. Gathering(Next_(n))'
  <2>1. PICK k : k = Next_(n)
    OBVIOUS
  <2>2. \A p \in Points : <<k, p>> \notin points'
    <3>1. ASSUME NEW p, <<k, p>> \in points PROVE FALSE
      <4>1. \E g \in Federates : memberOf[g] = k
        BY <3>1, RtinodeFacts DEF PhaseContext
      <4> QED BY <1>2, <1>3, <2>1, <4>1
    <3> QED BY <1>4, <3>1
  <2>3. \A g \in Federates : Early(g, k)' /\ ~Joins(g, k)'
    BY <1>2, <1>3, <1>4, <1>6, <2>1 DEF Early, Joins
  <2>4. ~Exists(k)'
    <3>1. ~Exists(k)
      BY <1>3, <2>1, ListFacts DEF Measure
    <3> QED BY <1>4, <3>1 DEF Exists
  <2>5. WithoutPoints(k)'
    BY <2>2, <2>3, <2>4 DEF WithoutPoints
  <2>6. Gathering(k)'
    BY <2>5 DEF Gathering
  <2>7. Next_(n)' = k
    BY <2>1 DEF Next_
  <2> QED BY <2>1, <2>6, <2>7
<1>9. \A g \in Federates : Parts(g, n)' /\ OfOld(g, n)'
  BY <1>2, <1>4, <1>6 DEF Parts, OfOld
<1>10. (\E g \in Federates : "init" \in sent'[g]) /\ \E g \in Federates : "stop" \in sent'[g]
  <2>1. PICK g \in Federates : "init" \in sent[g]
    BY DEF Measure
  <2>2. "stop" \in sent'[f] /\ "init" \in sent'[g]
    BY <1>4, <2>1 DEF Set, PhaseContext, TypeInv, Types
  <2> QED BY <2>2
<1>11. SentByStarters' /\ OneCreates'
  BY <1>4 DEF Set, PhaseContext, TypeInv, Types, SentByStarters, OneCreates
<1>12. federations' = <<n>>
  BY <1>4 DEF Measure
<1> QED BY <1>7, <1>8, <1>9, <1>10, <1>11, <1>12 DEF Part

\* The measurement goes on until it is stopped, and nobody leaves it before.
LEMMA MeasurePhase ==
  ASSUME NEW f \in Federates, NEW n, PhaseContext(f), Measure(n), Step(f)
  PROVE  OneCreates' /\ SentByStarters' /\ (Measure(n)' \/ Part(n)')
<1>1. MeasureContext(f, n)
  BY DEF MeasureContext, Measure, Bounded
<1>2. ~Untimely("hasty")
  BY CalmSteps DEF PhaseContext, TypeInv
<1>3. Bounded(n)'
  BY UsedSteps, BoundedGrows DEF PhaseContext, Measure
<1>4. MeasuresAt(f, n) /\ ~Stops(f) /\ \A g \in Federates : memberOf[g] = n
  BY DEF Measure, Measures
<1>5. CASE Connect(f) \/ EvokeCallbacks(f)
  <2>1. MeasureResult(f, n)
    BY <1>1, <1>4, <1>5, ConnectMeasures DEF Stops
  <2>2. \A g \in Federates : Measures(g, n)' /\ ~Stops(g)'
    BY <1>4, <2>1 DEF MeasureResult, Measure
  <2>3. UNCHANGED <<mCurrentFederationName, created, sent, federations>>
    BY <2>1 DEF MeasureResult
  <2> QED BY <1>3, <2>2, <2>3 DEF Measure, PhaseContext, OneCreates, SentByStarters
<1>6. ~Start(f) /\ ~Disconnected(f)
  BY <1>4 DEF Start, Disconnected, MeasuresAt
<1>7. ~Disconnect(f) /\ ~Crash(f)
  <2>1. ~MayLeave(f)
    BY DEF MayLeave, Measure
  <2> QED BY <1>2, <2>1 DEF Disconnect, Crash, Leaves, InGoodTime
<1>8. ~SendMeasurementInit(f)
  <2>1. ~MayStart
    BY DEF MayStart, Measure
  <2> QED BY <1>2, <2>1 DEF SendMeasurementInit, InGoodTime
<1> QED BY <1>5, <1>6, <1>7, <1>8, StopBegins DEF Step

-----------------------------------------------------------------------------
(* Parting.                                                                     *)

\* Who neither is in federation k nor on its way into it does not disturb those who gather.
Aside(g, k) == memberOf[g] # k /\ pc[g] # "Leave" /\ ~Joins(g, k)

\* A gathering goes on if each federate stays the same or stays aside.
LEMMA GatheringKept ==
  ASSUME NEW k, Gathering(k), Exists(k)' <=> Exists(k),
         \A p, g : <<k, p, g>> \in owed' <=> <<k, p, g>> \in owed,
         \A p : <<k, p>> \in points' <=> <<k, p>> \in points,
         \A g \in Federates : Same(g) \/ (Aside(g, k) /\ Aside(g, k)')
  PROVE  Gathering(k)'
<1>1. ASSUME NEW g \in Federates
      PROVE  /\ Early(g, k) => Early(g, k)'
             /\ Joins(g, k)' <=> Joins(g, k)
             /\ Registers(g, k)' <=> Registers(g, k)
             /\ Late(g, k) => Late(g, k)'
             /\ memberOf[g] = k <=> memberOf'[g] = k
  <2>1. CASE Same(g)
    <3>1. Early(g, k) => Early(g, k)'
      BY <2>1 DEF Same, Early
    <3>2. Joins(g, k)' <=> Joins(g, k)
      BY <2>1 DEF Same, Joins, Named
    <3>3. Registers(g, k)' <=> Registers(g, k)
      BY <2>1, <3>2 DEF Same, Registers
    <3>4. \A p : Knows(g, p)' <=> Knows(g, p)
      BY <2>1 DEF Same, Knows, Has
    <3>5. Late(g, k) => Late(g, k)'
      BY <2>1, <3>3, <3>4 DEF Same, Late
    <3> QED BY <2>1, <3>1, <3>2, <3>3, <3>5 DEF Same
  <2>2. CASE Aside(g, k) /\ Aside(g, k)'
    <3>1. Early(g, k)'
      BY <2>2 DEF Aside, Early
    <3>2. ~Joins(g, k)' /\ ~Joins(g, k) /\ memberOf[g] # k /\ memberOf'[g] # k
      BY <2>2 DEF Aside
    <3>3. ~Registers(g, k)' /\ ~Registers(g, k)
      BY <3>2 DEF Registers
    <3>4. Late(g, k)'
      BY <3>2, <3>3 DEF Late
    <3> QED BY <3>1, <3>2, <3>3, <3>4
  <2> QED BY <2>1, <2>2
<1>2. CASE WithoutPoints(k)
  <2>1. \A p \in Points : <<k, p>> \notin points'
    BY <1>2 DEF WithoutPoints
  <2>2. \A g \in Federates : Early(g, k)'
    BY <1>1, <1>2 DEF WithoutPoints
  <2>3. CASE ~Exists(k) /\ \A g \in Federates : ~Joins(g, k)
    BY <1>1, <2>1, <2>2, <2>3 DEF WithoutPoints, Gathering
  <2>4. CASE Exists(k) /\ \E g \in Federates : Registers(g, k)
    BY <1>1, <2>1, <2>2, <2>4 DEF WithoutPoints, Gathering
  <2> QED BY <1>2, <2>3, <2>4 DEF WithoutPoints
<1>3. CASE WithPoints(k)
  <2>1. \A g \in Federates : Late(g, k)'
    BY <1>1, <1>3 DEF WithPoints
  <2>2. \E g \in Federates : memberOf'[g] = k
    BY <1>1, <1>3 DEF WithPoints
  <2> QED BY <1>3, <2>1, <2>2 DEF WithPoints, Gathering
<1> QED BY <1>2, <1>3 DEF Gathering

\* What the others are while f takes a step: those who stop still do, those who gather too.
LEMMA OldStays ==
  ASSUME NEW f \in Federates, Alone(f), NEW n \in Epochs, NEW g \in Federates, g # f,
         OfOld(g, n), Parts(g, n),
         memberOf[g] = n => Measures(g, n)' /\ (Stops(g)' <=> Stops(g)),
         memberOf[g] # n => inbox'[g] = inbox[g]
  PROVE  OfOld(g, n)' /\ Parts(g, n)' /\ Aside(g, Next_(n)) /\ Aside(g, Next_(n))'
<1>1. PICK k : k = Next_(n)
  OBVIOUS
<1>2. n # NoName /\ k # NoName /\ k # n /\ Next_(n)' = k
  BY <1>1, EpochFacts DEF Next_
<1>3. OfOld(g, n)'
  BY DEF Alone, OfOld
<1>4. (Measures(g, n) /\ Stops(g)) \/ Stopped(g, n)
  BY DEF Parts
<1>5. CASE Measures(g, n) /\ Stops(g)
  <2>1. memberOf[g] = n /\ MeasuresAt(g, n) /\ Measures(g, n)' /\ Stops(g)' /\ MeasuresAt(g, n)'
    BY <1>5 DEF Measures
  <2>2. Parts(g, n)'
    BY <1>3, <2>1 DEF Parts
  <2>3. Aside(g, k) /\ Aside(g, k)'
    BY <1>2, <2>1 DEF Aside, MeasuresAt, Joins, Alone
  <2> QED BY <1>1, <1>2, <1>3, <2>2, <2>3
<1>6. CASE Stopped(g, n)
  <2>1. memberOf[g] = NoName /\ inbox'[g] = inbox[g] /\ pc[g] = "Destroy"
    BY <1>2, <1>6 DEF Stopped, Outside
  <2>2. Stopped(g, n)'
    BY <1>6, <2>1 DEF Stopped, Outside, Named, Alone
  <2>3. Aside(g, k) /\ Aside(g, k)'
    BY <1>2, <2>1 DEF Aside, Joins, Alone
  <2>4. Parts(g, n)'
    BY <1>3, <2>2 DEF Parts
  <2> QED BY <1>1, <1>2, <1>3, <2>3, <2>4
<1> QED BY <1>4, <1>5, <1>6

\* Those who gather in the next federation still do.
LEMMA NewStays ==
  ASSUME NEW f \in Federates, Alone(f), NEW n \in Epochs, NEW g \in Federates, g # f,
         ~OfOld(g, n), Parts(g, n), Gatherer(g, Next_(n))'
  PROVE  ~OfOld(g, n)' /\ Parts(g, n)'
<1>1. ~OfOld(g, n)'
  BY DEF Alone, OfOld
<1>2. ~Fresh(g)' /\ pc'[g] # "Leave"
  BY DEF Alone, Parts, Fresh
<1> QED BY <1>1, <1>2 DEF Parts

\* When f does nothing to the inboxes and the points of the others.
LEMMA OthersPart ==
  ASSUME NEW f \in Federates, PhaseContext(f), NEW n \in Epochs, NEW g \in Federates, g # f, Parts(g, n),
         inbox'[g] = inbox[g],
         \A p : <<n, p, g>> \in owed' <=> <<n, p, g>> \in owed,
         \A p : <<n, p>> \in points' => <<n, p>> \in points
  PROVE  Parts(g, n)' /\ (OfOld(g, n)' <=> OfOld(g, n))
<1>1. Same(g)
  BY DEF PhaseContext, Alone, Same
<1>2. CASE OfOld(g, n)
  <2>1. ASSUME memberOf[g] = n PROVE Measures(g, n)' /\ (Stops(g)' <=> Stops(g))
    <3>1. Measures(g, n)
      BY <1>2, <2>1, EpochFacts DEF Parts, Stopped, Outside
    <3>2. TypeInv(AllNames) /\ RtinodeConsistent /\ Alone(f) /\ "Stopped" \in Points
      BY DEF PhaseContext, Points
    <3> QED BY <3>1, <3>2, OthersMeasure
  <2> QED BY <1>2, <2>1, OldStays DEF PhaseContext
<1>3. CASE ~OfOld(g, n)
  <2>1. PICK k : k = Next_(n)
    OBVIOUS
  <2>2. Gatherer(g, k)'
    BY <1>1, <1>3, <2>1, SameGatherer DEF Parts
  <2>3. Next_(n)' = k
    BY <2>1 DEF Next_
  <2> QED BY <1>3, <2>1, <2>2, <2>3, NewStays DEF PhaseContext
<1> QED BY <1>2, <1>3

\* What is known of the names and the bounds while federates part.
PartContext(f, n, k) ==
  /\ PhaseContext(f) /\ Part(n) /\ Step(f)
  /\ n \in Epochs /\ k \in Epochs /\ k = Next_(n) /\ k # n /\ n # NoName /\ k # NoName
  /\ \A o \in Epochs : Next_(o) = k => o = n

\* To prove that federates still part it is enough to look at what a step may change.
LEMMA PartFrom ==
  ASSUME NEW f \in Federates, NEW n, NEW k, PartContext(f, n, k),
         Gathering(k)', \A g \in Federates : Parts(g, n)',
         \E g \in Federates : OfOld(g, n)',
         \/ \E g \in Federates : ~OfOld(g, n)'
         \/ (\A g \in Federates : OfOld(g, n)) /\ UNCHANGED sent,
         \/ federations' = <<>> \/ federations' = <<n>> \/ federations' = <<k>> \/ federations' = <<n, k>>
  PROVE  Part(n)'
<1>1. Next_(n)' = k
  BY DEF PartContext, Next_
<1>2. Bounded(n)' /\ Bounded(k)'
  BY UsedSteps, BoundedGrows DEF PartContext, PhaseContext, Part
<1>3. Bounded(Next_(n))' /\ Gathering(Next_(n))'
  <2>1. Bounded(Next_(n))'
    BY <1>1, <1>2
  <2>2. Gathering(Next_(n))'
    BY <1>1
  <2> QED BY <2>1, <2>2
<1>4. \/ \E g \in Federates : ~OfOld(g, n)'
      \/ (\E g \in Federates : "init" \in sent'[g]) /\ (\E g \in Federates : "stop" \in sent'[g])
  BY DEF PartContext, Part
<1> QED BY <1>1, <1>2, <1>3, <1>4 DEF Part

\* A member that has to stop goes on, and leaves the federation when it has received the stop.
LEMMA StopperMeasures ==
  ASSUME NEW f \in Federates, NEW n, NEW k, PartContext(f, n, k), Measures(f, n), Stops(f), MeasureResult(f, n)
  PROVE  Part(n)' /\ OneCreates' /\ SentByStarters'
<1>1. /\ Measures(f, n)' /\ Stops(f)' /\ MeasuresAt(f, n) /\ MeasuresAt(f, n)' /\ memberOf[f] = n /\ memberOf'[f] = n
      /\ OfOld(f, n) /\ OfOld(f, n)' /\ Parts(f, n)'
  BY DEF MeasureResult, Measures, OfOld, Parts
<1>2. Aside(f, k) /\ Aside(f, k)'
  BY <1>1 DEF PartContext, Aside, MeasuresAt, Joins
<1>3. /\ Gathering(k) /\ Alone(f) /\ \A g \in Federates : Parts(g, n)
  BY DEF PartContext, PhaseContext, Part
<1>4. ASSUME NEW g \in Federates, g # f
      PROVE  /\ Parts(g, n)' /\ (OfOld(g, n)' <=> OfOld(g, n))
             /\ Same(g) \/ (Aside(g, k) /\ Aside(g, k)')
  <2>1. CASE OfOld(g, n)
    <3>1. /\ memberOf[g] = n => Measures(g, n)' /\ (Stops(g)' <=> Stops(g))
          /\ memberOf[g] # n => inbox'[g] = inbox[g]
      BY <1>4 DEF MeasureResult
    <3>2. n \in Epochs /\ k = Next_(n)
      BY DEF PartContext
    <3>3. OfOld(g, n)' /\ Parts(g, n)' /\ Aside(g, Next_(n)) /\ Aside(g, Next_(n))'
      BY <1>3, <1>4, <2>1, <3>1, <3>2, OldStays
    <3>4. Aside(g, k)'
      <4>1. Next_(n)' = k
        BY <3>2 DEF Next_
      <4> QED BY <3>2, <3>3, <4>1
    <3> QED BY <2>1, <3>2, <3>3, <3>4
  <2>2. CASE ~OfOld(g, n)
    <3>1. memberOf[g] # n /\ inbox'[g] = inbox[g]
      BY <1>4, <2>2 DEF OfOld, MeasureResult
    <3>2. Same(g)
      BY <1>3, <1>4, <3>1 DEF Alone, Same
    <3>3. Gatherer(g, k)'
      BY <1>3, <2>2, <3>2, SameGatherer DEF Parts, PartContext
    <3>4. Gatherer(g, Next_(n))'
      <4>1. Next_(n)' = k
        BY DEF PartContext, Next_
      <4> QED BY <3>3, <4>1 DEF PartContext
    <3>5. ~OfOld(g, n)' /\ Parts(g, n)'
      BY <1>3, <1>4, <2>2, <3>4, NewStays DEF PartContext
    <3> QED BY <2>2, <3>2, <3>5
  <2> QED BY <2>1, <2>2
<1>5. /\ UNCHANGED <<mFederationIndex, mCurrentFederationName, created, sent, federations, memberOf>>
      /\ \A p, g : <<k, p, g>> \in owed' <=> <<k, p, g>> \in owed
      /\ \A p : <<k, p>> \in points' <=> <<k, p>> \in points
  BY DEF MeasureResult, PartContext
<1>6. Gathering(k)'
  <2>1. Exists(k)' <=> Exists(k)
    BY <1>5 DEF Exists
  <2> QED BY <1>2, <1>3, <1>4, <1>5, <2>1, GatheringKept
<1>7. \A g \in Federates : Parts(g, n)' /\ (OfOld(g, n)' <=> OfOld(g, n))
  BY <1>1, <1>4
<1>8. federations' = <<>> \/ federations' = <<n>> \/ federations' = <<k>> \/ federations' = <<n, k>>
  BY <1>5 DEF PartContext, Part
<1>9. Part(n)'
  BY <1>1, <1>5, <1>6, <1>7, <1>8, PartFrom
<1> QED BY <1>5, <1>9 DEF PartContext, PhaseContext, OneCreates, SentByStarters

\* Having received the stop, it has nothing left to achieve, and leaves nothing behind.
LEMMA StopperLeaves ==
  ASSUME NEW f \in Federates, NEW n, NEW k, PartContext(f, n, k), Measures(f, n), ResetOnMeasurementStop(f)
  PROVE  Part(n)' /\ OneCreates' /\ SentByStarters'
<1>1. /\ memberOf[f] = n /\ Named(f, n) /\ mState[f] = "ReceivedMeasurementStop" /\ pc[f] = "Evoke"
      /\ OwesInit(f, n) /\ OwesStop(f, n)
  BY DEF ResetOnMeasurementStop, Measures
<1>2. TypeInv(AllNames) /\ RtinodeConsistent /\ Alone(f) /\ Gathering(k) /\ \A g \in Federates : Parts(g, n)
  BY DEF PartContext, PhaseContext, Part
<1>3. \A p \in Points : <<n, p, f>> \notin owed
  BY <1>1 DEF OwesInit, OwesStop, Points
<1>4. \A p \in Points : <<memberOf[f], p>> \in points => \E g \in Federates \ {f} : <<memberOf[f], p, g>> \in owed
  BY <1>1, <1>2, <1>3, RtinodeFacts
<1>5. /\ points' = points /\ inbox'[f] = <<>> /\ \A g \in Federates \ {f} : inbox'[g] = inbox[g]
      /\ \A m, p, g : <<m, p, g>> \in owed' <=> <<m, p, g>> \in owed /\ g # f
      /\ memberOf'[f] = NoName
  <2>1. PICK left : left = <<>> /\ Resign(f, left)
    BY DEF ResetOnMeasurementStop
  <2> QED BY <1>2, <1>4, <2>1, ResignQuietly
<1>6. /\ labels'[f] = {} /\ mState'[f] = "ReceivedMeasurementStop" /\ pc'[f] = "Destroy"
      /\ UNCHANGED <<mFederationIndex, mCurrentFederationName, created, sent, federations>>
  BY <1>1 DEF ResetOnMeasurementStop, ambassador, Goto, Set, PartContext, PhaseContext, TypeInv, Types
<1>7. Parts(f, n)' /\ OfOld(f, n) /\ OfOld(f, n)'
  <2>1. Stopped(f, n)'
    BY <1>1, <1>5, <1>6 DEF Stopped, Outside, Named
  <2> QED BY <1>1, <1>6, <2>1 DEF Parts, OfOld
<1>8. Aside(f, k) /\ Aside(f, k)'
  BY <1>1, <1>5, <1>6 DEF PartContext, Aside, Joins
<1>9. \A g \in Federates \ {f} : Same(g)
  BY <1>2, <1>5 DEF Alone, Same
<1>10. ASSUME NEW g \in Federates, g # f PROVE Parts(g, n)' /\ (OfOld(g, n)' <=> OfOld(g, n))
  <2>1. /\ inbox'[g] = inbox[g]
        /\ \A p : <<n, p, g>> \in owed' <=> <<n, p, g>> \in owed
        /\ \A p : <<n, p>> \in points' => <<n, p>> \in points
    BY <1>5, <1>10
  <2> QED BY <1>2, <1>10, <2>1, OthersPart DEF PartContext
<1>11. \A p, g : <<k, p, g>> \in owed' <=> <<k, p, g>> \in owed
  <2>1. \A p : <<k, p, f>> \notin owed
    BY <1>1, <1>2, RtinodeFacts DEF PartContext
  <2> QED BY <1>5, <2>1
<1>12. Gathering(k)'
  <2>1. Exists(k)' <=> Exists(k)
    BY <1>6 DEF Exists
  <2> QED BY <1>2, <1>5, <1>8, <1>9, <1>11, <2>1, GatheringKept
<1>13. \A g \in Federates : Parts(g, n)' /\ (OfOld(g, n)' <=> OfOld(g, n))
  BY <1>7, <1>10
<1>14. federations' = <<>> \/ federations' = <<n>> \/ federations' = <<k>> \/ federations' = <<n, k>>
  BY <1>6 DEF PartContext, Part
<1>15. Part(n)'
  BY <1>6, <1>7, <1>12, <1>13, <1>14, PartFrom
<1> QED BY <1>6, <1>15 DEF PartContext, PhaseContext, OneCreates, SentByStarters

\* Appending to a list of one federation.
LEMMA AppendToLength ==
  ASSUME NEW S, NEW n \in S, NEW k \in S, NEW one \in Seq(S), Len(one) = 1
  PROVE  Len(Append(one, k)) = 2 /\ Append(one, k)[1] = one[1] /\ Append(one, k)[2] = k /\ Append(one, k) \in Seq(S)
<1>1. Len(Append(one, k)) = Len(one) + 1
  BY AppendProperties
<1>2. Append(one, k)[1] = one[1]
  BY AppendProperties
<1>3. Append(one, k)[2] = k
  BY AppendProperties
<1>4. Append(one, k) \in Seq(S)
  BY AppendProperties
<1> QED BY <1>1, <1>2, <1>3, <1>4

\* The list of a federation and the one that follows it.
LEMMA AppendToOne ==
  ASSUME NEW n, NEW k
  PROVE  Append(<<n>>, k) = <<n,k>>
<1>1. PICK S : S = {n, k}
  OBVIOUS
<1>2. PICK one : one = <<n>>
  OBVIOUS
<1>3. one \in Seq(S) /\ Len(one) = 1 /\ one[1] = n /\ n \in S /\ k \in S
  BY <1>1, <1>2
<1>4. Len(Append(one, k)) = 2 /\ Append(one, k)[1] = n /\ Append(one, k)[2] = k /\ Append(one, k) \in Seq(S)
  BY <1>3, AppendToLength
<1>5. PICK t : t = <<n, k>>
  OBVIOUS
<1>6. t \in Seq(S) /\ Len(t) = 2 /\ t[1] = n /\ t[2] = k
  BY <1>1, <1>5
<1>7. PICK s : s = Append(one, k)
  OBVIOUS
<1>8. s \in Seq(S) /\ Len(s) = Len(t) /\ \A i \in 1..Len(s) : s[i] = t[i]
  BY <1>4, <1>6, <1>7
<1>9. s = t
  BY <1>6, <1>8, SeqEqual
<1> QED BY <1>2, <1>5, <1>7, <1>9

\* Removing the old federation from the list.
LEMMA DestroyList ==
  ASSUME NEW n, NEW k, n # k, Destroy(n),
         federations = <<>> \/ federations = <<n>> \/ federations = <<k>> \/ federations = <<n, k>>
  PROVE  /\ federations' = <<>> \/ federations' = <<n>> \/ federations' = <<k>> \/ federations' = <<n, k>>
         /\ Members(n) = {} => federations' = <<>> \/ federations' = <<k>>
         /\ Exists(k)' <=> Exists(k)
<1>1. CASE UNCHANGED federations /\ (~Exists(n) \/ Members(n) # {})
  <2>1. ~Exists(n) => federations = <<>> \/ federations = <<k>>
    BY ListFacts
  <2> QED BY <1>1, <2>1 DEF Exists
<1>2. ASSUME NEW i \in DOMAIN federations, federations[i] = n, federations' = RemoveAt(federations, i)
      PROVE  \/ federations = <<n>> /\ federations' = <<>>
             \/ federations = <<n, k>> /\ federations' = <<k>>
  <2>1. federations # <<>>
    BY <1>2
  <2>2. federations # <<k>>
    BY <1>2
  <2>3. CASE federations = <<n>>
    <3>1. i = 1 /\ Len(federations) = 1
      BY <1>2, <2>3
    <3>2. SubSeq(federations, 1, 0) = <<>> /\ SubSeq(federations, 2, 1) = <<>>
      BY <2>3
    <3> QED BY <1>2, <2>3, <3>1, <3>2 DEF RemoveAt
  <2>4. CASE federations = <<n, k>>
    <3>1. i = 1 /\ Len(federations) = 2
      BY <1>2, <2>4
    <3>2. SubSeq(federations, 1, 0) = <<>>
      BY <2>4
    <3>3. SubSeq(federations, 2, 2) = <<k>>
      <4>1. PICK S : S = {n, k}
        OBVIOUS
      <4>2. federations \in Seq(S) /\ k \in S /\ federations[2] = k
        BY <2>4, <4>1
      <4>3. /\ SubSeq(federations, 2, 2) \in Seq(S) /\ Len(SubSeq(federations, 2, 2)) = 1
            /\ SubSeq(federations, 2, 2)[1] = k
        <5>1. \A j \in 2..2 : federations[j] \in S
          BY <4>2
        <5> QED BY <4>2, <5>1, SubSeqProperties
      <4>4. <<k>> \in Seq(S) /\ Len(<<k>>) = 1 /\ <<k>>[1] = k
        BY <4>2
      <4>5. PICK s, t : s = SubSeq(federations, 2, 2) /\ t = <<k>>
        OBVIOUS
      <4>6. s \in Seq(S) /\ t \in Seq(S) /\ Len(s) = Len(t) /\ \A j \in 1..Len(s) : s[j] = t[j]
        BY <4>3, <4>4, <4>5
      <4>7. s = t
        BY <4>6, SeqEqual
      <4> QED BY <4>5, <4>7
    <3>4. <<>> \o <<k>> = <<k>>
      OBVIOUS
    <3>5. RemoveAt(federations, i) = SubSeq(federations, 1, 0) \o SubSeq(federations, 2, 2)
      BY <3>1 DEF RemoveAt
    <3> QED BY <1>2, <2>4, <3>2, <3>3, <3>4, <3>5
  <2> QED BY <2>1, <2>2, <2>3, <2>4
<1>3. Exists(k)' <=> Exists(k)
  <2>1. CASE UNCHANGED federations
    BY <2>1 DEF Exists
  <2>2. CASE federations = <<n>> /\ federations' = <<>>
    <3>1. ~Exists(k) /\ ~Exists(k)'
      BY <2>2 DEF Exists, Contains
    <3> QED BY <3>1
  <2>3. CASE federations = <<n, k>> /\ federations' = <<k>>
    <3>1. Exists(k)
      BY <2>3, ListFacts
    <3>2. Exists(k)'
      BY <2>3 DEF Exists, Contains
    <3> QED BY <3>1, <3>2
  <2> QED BY <1>1, <1>2, <2>1, <2>2, <2>3 DEF Destroy
<1> QED BY <1>1, <1>2, <1>3 DEF Destroy

\* The federation left is destroyed, or somebody else is still joined to it; with the last who
\* parts the next gathering is all there is.
LEMMA StoppedDestroys ==
  ASSUME NEW f \in Federates, NEW n, NEW k, PartContext(f, n, k), Stopped(f, n), Destroyed(f)
  PROVE  OneCreates' /\ SentByStarters' /\ (Part(n)' \/ Gather(k)')
<1>1. TypeInv(AllNames) /\ Alone(f) /\ Gathering(k) /\ \A g \in Federates : Parts(g, n)
  BY DEF PartContext, PhaseContext, Part
<1>2. mState[f] = "ReceivedMeasurementStop" /\ pc[f] = "Destroy" /\ Outside(f) /\ Named(f, n)
  BY DEF Stopped
<1>3. /\ Destroy(n) /\ UNCHANGED <<labels, inbox, memberOf, points, owed, used, mFederationIndex, mCurrentFederationName>>
      /\ mState'[f] = "ScanForFederationPrefix" /\ pc'[f] = "Connect"
      /\ announced'[f] = {} /\ sent'[f] = {} /\ ~created'[f]
  BY <1>1, <1>2 DEF Destroyed, ResetRemoteAmbassador, FederationMemory, Named, Goto, Set, TypeInv, Types
<1>4. \A g \in Federates \ {f} : Same(g)
  BY <1>1, <1>3 DEF Alone, Same
<1>5. Gatherer(f, k)' /\ ~Fresh(f)' /\ ~OfOld(f, n)'
  <2>1. Outside(f)' /\ Named(f, n)'
    BY <1>2, <1>3 DEF Outside, Named
  <2>2. \E o \in Epochs : Next_(o) = k /\ Named(f, o)'
    BY <2>1 DEF PartContext
  <2>3. Approaches(f, k)'
    BY <1>3, <2>1, <2>2 DEF Approaches, Next_
  <2>4. ~Fresh(f)' /\ ~OfOld(f, n)'
    BY <1>3, <2>1 DEF Fresh, Named, Outside, OfOld, PartContext
  <2> QED BY <1>3, <2>3, <2>4 DEF Gatherer
<1>6. Parts(f, n)'
  <2>1. Gatherer(f, Next_(n))'
    <3>1. Next_(n)' = k
      BY DEF PartContext, Next_
    <3> QED BY <1>5, <3>1
  <2> QED BY <1>3, <1>5, <2>1 DEF Parts
<1>7. ASSUME NEW g \in Federates, g # f PROVE Parts(g, n)' /\ (OfOld(g, n)' <=> OfOld(g, n))
  <2>1. /\ inbox'[g] = inbox[g]
        /\ \A p : <<n, p, g>> \in owed' <=> <<n, p, g>> \in owed
        /\ \A p : <<n, p>> \in points' => <<n, p>> \in points
    BY <1>3
  <2> QED BY <1>1, <1>7, <2>1, OthersPart DEF PartContext
<1>8. \A g \in Federates : Parts(g, n)'
  BY <1>6, <1>7
<1>9. /\ federations' = <<>> \/ federations' = <<n>> \/ federations' = <<k>> \/ federations' = <<n, k>>
      /\ Members(n) = {} => federations' = <<>> \/ federations' = <<k>>
      /\ Exists(k)' <=> Exists(k)
  <2>1. federations = <<>> \/ federations = <<n>> \/ federations = <<k>> \/ federations = <<n, k>>
    BY DEF PartContext, Part
  <2>2. n # k
    BY DEF PartContext
  <2> QED BY <1>3, <2>1, <2>2, DestroyList
<1>10. Aside(f, k) /\ Aside(f, k)'
  BY <1>2, <1>3 DEF PartContext, Aside, Joins, Outside
<1>11. Gathering(k)'
  BY <1>1, <1>3, <1>4, <1>9, <1>10, GatheringKept
<1>12. OneCreates' /\ SentByStarters'
  <2>1. OneCreates'
    BY <1>3, <1>4 DEF PartContext, PhaseContext, OneCreates, Same
  <2>2. SentByStarters'
    BY <1>3, <1>4 DEF PartContext, PhaseContext, SentByStarters, Same
  <2> QED BY <2>1, <2>2
<1>13. CASE \E g \in Federates : OfOld(g, n)'
  BY <1>5, <1>8, <1>9, <1>11, <1>12, <1>13, PartFrom
<1>14. CASE \A g \in Federates : ~OfOld(g, n)'
  <2>1. ASSUME NEW g \in Federates PROVE Gatherer(g, k)' /\ ~Fresh(g)'
    <3>1. Gatherer(g, Next_(n))' /\ ~Fresh(g)'
      BY <1>8, <1>14 DEF Parts
    <3>2. Next_(n)' = k
      BY DEF PartContext, Next_
    <3> QED BY <3>1, <3>2
  <2>2. federations' = <<>> \/ federations' = <<k>>
    BY <1>3, <1>9, <1>14 DEF Members, OfOld
  <2>3. Bounded(k)'
    <3>1. Bounded(k)
      BY DEF PartContext, Part
    <3> QED BY <3>1, UsedSteps, BoundedGrows DEF PartContext, PhaseContext
  <2> QED BY <1>11, <1>12, <2>1, <2>2, <2>3 DEF Gather
<1> QED BY <1>13, <1>14

\* Who gathers already does so while others still stop.
LEMMA GathererParts ==
  ASSUME NEW f \in Federates, NEW n, NEW k, PartContext(f, n, k), ~OfOld(f, n), Connect(f) \/ EvokeCallbacks(f)
  PROVE  Part(n)' /\ OneCreates' /\ SentByStarters'
<1>1. TypeInv(AllNames) /\ RtinodeConsistent /\ Alone(f) /\ Gathering(k) /\ \A g \in Federates : Parts(g, n)
  BY DEF PartContext, PhaseContext, Part
<1>2. Gatherer(f, k) /\ ~Fresh(f) /\ pc[f] # "Leave"
  BY <1>1 DEF Parts, PartContext
<1>3. k \in Epochs /\ GatherContext(f, k)
  <2>1. ASSUME NEW g \in Federates PROVE Gatherer(g, k) \/ (mCurrentFederationName[g] # k /\ memberOf[g] # k)
    <3>1. CASE OfOld(g, n)
      BY <1>1, <3>1 DEF Parts, Measures, Stopped, Outside, Named, PartContext
    <3>2. CASE ~OfOld(g, n)
      BY <1>1, <3>2 DEF Parts, PartContext
    <3> QED BY <3>1, <3>2
  <2> QED BY <1>1, <1>2, <2>1 DEF PartContext, PhaseContext, GatherContext
<1>4. federations = <<>> \/ federations = <<n>> \/ federations = <<k>> \/ federations = <<n, k>>
  BY DEF PartContext, Part
<1>5. ASSUME ScanForFederationPrefix(f) PROVE mFederationIndex'[f] = k
  <2>1. Approaches(f, k) /\ mState[f] = "ScanForFederationPrefix"
    BY <1>2, <1>5 DEF ScanForFederationPrefix, InBlock, Gatherer, Offline, Inside, Leaving
  <2>2. Named(f, n)
    BY <1>2, <2>1 DEF Approaches, PartContext
  <2>3. mFederationIndex'[f] =
          IF federations # <<>> /\ Last(federations) # mCurrentFederationName[f] THEN Last(federations)
          ELSE IF federations # <<>> \/ mCurrentFederationName[f] # NoName THEN Next_(mFederationIndex[f])
          ELSE mFederationIndex[f]
    BY <1>1, <1>5 DEF ScanForFederationPrefix, UpdateFederationNameAndIndex, Set, TypeInv, Types
  <2>4. /\ mCurrentFederationName[f] = n /\ mFederationIndex[f] = n /\ Next_(n) = k /\ n # NoName /\ n # k
    BY <2>2 DEF Named, PartContext
  <2>5. CASE federations = <<>>
    BY <2>3, <2>4, <2>5
  <2>6. CASE federations = <<n>>
    <3>1. federations # <<>> /\ Last(federations) = n
      BY <2>6 DEF Last
    <3> QED BY <2>3, <2>4, <3>1
  <2>7. CASE federations = <<k>> \/ federations = <<n, k>>
    <3>1. federations # <<>> /\ Last(federations) = k
      BY <2>4, <2>7, ListFacts
    <3> QED BY <2>3, <2>4, <3>1
  <2> QED BY <1>4, <2>5, <2>6, <2>7
<1>6. GatherResult(f, k) /\ UNCHANGED <<used, sent>> /\ ~Fresh(f)' /\ pc'[f] # "Leave"
  BY <1>2, <1>3, <1>5, ConnectGathers
<1>7. ~OfOld(f, n)' /\ Parts(f, n)'
  <2>1. Gatherer(f, k)'
    BY <1>6 DEF GatherResult
  <2>2. ~OfOld(f, n)'
    BY <2>1 DEF Gatherer, Offline, Approaches, Inside, Leaving, Outside, OfOld, PartContext
  <2>3. Gatherer(f, Next_(n))'
    <3>1. Next_(n)' = k
      BY DEF PartContext, Next_
    <3> QED BY <2>1, <3>1
  <2> QED BY <1>6, <2>2, <2>3 DEF Parts
<1>8. ASSUME NEW g \in Federates, g # f PROVE Parts(g, n)' /\ (OfOld(g, n)' <=> OfOld(g, n))
  <2>1. CASE OfOld(g, n)
    <3>1. memberOf[g] # k
      BY <1>1, <2>1 DEF Parts, Measures, Stopped, Outside, PartContext
    <3>2. /\ inbox'[g] = inbox[g]
          /\ \A p : <<n, p, g>> \in owed' <=> <<n, p, g>> \in owed
          /\ \A p : <<n, p>> \in points' => <<n, p>> \in points
      BY <1>6, <1>8, <3>1 DEF GatherResult, PartContext
    <3> QED BY <1>1, <1>8, <3>2, OthersPart DEF PartContext
  <2>2. CASE ~OfOld(g, n)
    <3>1. Gatherer(g, k)
      BY <1>1, <2>2 DEF Parts, PartContext
    <3>2. Gatherer(g, k)'
      BY <1>6, <1>8, <3>1 DEF GatherResult
    <3>3. Gatherer(g, Next_(n))'
      <4>1. Next_(n)' = k
        BY DEF PartContext, Next_
      <4> QED BY <3>2, <4>1
    <3> QED BY <1>1, <1>8, <2>2, <3>3, NewStays DEF PartContext
  <2> QED BY <2>1, <2>2
<1>9. \A g \in Federates : Parts(g, n)' /\ (OfOld(g, n)' <=> OfOld(g, n))
  BY <1>7, <1>8
<1>10. federations' = <<>> \/ federations' = <<n>> \/ federations' = <<k>> \/ federations' = <<n, k>>
  <2>1. CASE UNCHANGED federations
    BY <1>4, <2>1
  <2>2. CASE federations' = Append(federations, k) /\ ~Exists(k)
    <3>1. n # k
      BY DEF PartContext
    <3>2. federations = <<>> \/ federations = <<n>>
      BY <1>4, <2>2, <3>1, ListFacts
    <3>3. Append(<<>>, k) = <<k>>
      OBVIOUS
    <3>4. Append(<<n>>, k) = <<n, k>>
      BY AppendToOne
    <3> QED BY <2>2, <3>2, <3>3, <3>4
  <2> QED BY <1>6, <2>1, <2>2 DEF GatherResult
<1>11. Gathering(k)' /\ OneCreates'
  BY <1>6 DEF GatherResult
<1>12. SentByStarters'
  BY <1>6 DEF PartContext, PhaseContext, SentByStarters
<1>13. \E g \in Federates : OfOld(g, n)'
  BY <1>9 DEF PartContext, Part
<1> QED BY <1>7, <1>9, <1>10, <1>11, <1>12, <1>13, PartFrom

\* While some stop nothing else begins: the stop was sent when all were online, and with one
\* stop at a time no second one follows it.
LEMMA NothingBegins ==
  ASSUME NEW f \in Federates, NEW n, NEW k, OneStop, PartContext(f, n, k)
  PROVE  /\ ~Start(f) /\ ~Disconnected(f) /\ ~Disconnect(f) /\ ~Crash(f)
         /\ ~SendMeasurementInit(f) /\ ~SendMeasurementStop(f)
<1>1. TypeInv(AllNames) /\ \A g \in Federates : Parts(g, n)
  BY DEF PartContext, PhaseContext, Part
<1>2. ~Untimely("hasty")
  BY CalmSteps DEF PartContext, PhaseContext, TypeInv
<1>3. ~Start(f) /\ ~Disconnected(f)
  BY <1>1 DEF Start, Disconnected, Parts, Measures, MeasuresAt, Stopped, Gatherer, Offline, Approaches, Inside, Leaving
<1>4. PICK old \in Federates : OfOld(old, n)
  BY DEF PartContext, Part
<1>5. (Measures(old, n) /\ Stops(old)) \/ Stopped(old, n)
  BY <1>1, <1>4 DEF Parts
<1>6. ~Disconnect(f) /\ ~Crash(f)
  <2>1. Has(old, Stop_) => Contains(inbox[old], Stop_)
    BY DEF Has, InBox, Contains
  <2>2. ~MayLeave(f)
    BY <1>4, <1>5, <2>1 DEF MayLeave, Stops, Stopped
  <2> QED BY <1>2, <2>2 DEF Disconnect, Crash, Leaves, InGoodTime
<1>7. ASSUME Together({"Online", "WaitForMeasurementInit"})
      PROVE  (\E g \in Federates : "init" \in sent[g]) /\ \E g \in Federates : "stop" \in sent[g]
  <2>1. memberOf[old] = n
    BY <1>5, <1>7 DEF Together, Stopped, Measures
  <2>2. \A g \in Federates : memberOf[g] = n
    BY <1>7, <2>1 DEF Together
  <2>3. \A g \in Federates : OfOld(g, n)
    BY <2>2 DEF OfOld
  <2> QED BY <2>3 DEF PartContext, Part
<1>8. ~SendMeasurementInit(f)
  <2>1. ~MayStart
    BY <1>7 DEF MayStart
  <2> QED BY <1>2, <2>1 DEF SendMeasurementInit, InGoodTime
<1>9. ~SendMeasurementStop(f)
  <2>1. SUFFICES ASSUME SendMeasurementStop(f) PROVE FALSE
    OBVIOUS
  <2>2. MayStop /\ Budget("stop", MaxStops) /\ f \in Starters /\ "stop" \notin sent[f]
    BY <1>2, <2>1, MessageKinds DEF SendMeasurementStop, InGoodTime, SendInteraction
  <2>3. Together({"Online", "WaitForMeasurementInit"})
    BY <2>2 DEF MayStop, Together
  <2>4. PICK g \in Federates : "stop" \in sent[g]
    BY <1>7, <2>3
  <2>5. g \in Starters
    BY <2>4 DEF PartContext, PhaseContext, SentByStarters
  <2>6. CASE \A x, y \in Starters : x = y
    BY <2>2, <2>4, <2>5, <2>6
  <2>7. CASE MaxStops <= 1
    <3>1. Bounded(k) /\ k \in Epochs /\ k # NoIndex /\ n \in Epochs /\ k = Next_(n)
      BY EpochFacts DEF PartContext, Part
    <3>2. k \in Nat /\ k >= 1 /\ k <= used["stop"]
      BY <3>1 DEF Bounded, Epochs
    <3>3. used["stop"] \in Nat /\ used["stop"] < MaxStops /\ MaxStops \in Nat
      BY <1>1, <2>2, BoundsAssumption DEF Budget, TypeInv, Types, Bounds
    <3> QED BY <2>7, <3>2, <3>3
  <2> QED BY <2>6, <2>7 DEF OneStop
<1> QED BY <1>3, <1>6, <1>8, <1>9

\* Every step while they part goes on with the parting, or ends it.
LEMMA PartPhase ==
  ASSUME NEW f \in Federates, NEW n, OneStop, PhaseContext(f), Part(n), Step(f)
  PROVE  OneCreates' /\ SentByStarters' /\ (Part(n)' \/ Gather(Next_(n))')
<1>1. PICK k : k = Next_(n) /\ Next_(n)' = k
  BY DEF Next_
<1>2. PartContext(f, n, k)
  <2>1. n \in Epochs
    BY DEF Part, Bounded
  <2> QED BY <1>1, <2>1, EpochFacts DEF PartContext
<1>3. Connect(f) \/ EvokeCallbacks(f)
  BY <1>2, NothingBegins DEF Step
<1>4. Parts(f, n)
  BY DEF Part
<1>5. CASE ~OfOld(f, n)
  BY <1>2, <1>3, <1>5, GathererParts
<1>6. CASE OfOld(f, n) /\ Measures(f, n) /\ Stops(f)
  <2>1. MeasureContext(f, n)
    <3>1. ASSUME NEW g \in Federates, memberOf[g] = n PROVE Measures(g, n)
      <4>1. OfOld(g, n) /\ Parts(g, n) /\ n # NoName
        BY <1>2, <3>1 DEF OfOld, Part, PartContext
      <4> QED BY <3>1, <4>1 DEF Parts, Stopped, Outside
    <3> QED BY <1>2, <1>6, <3>1 DEF MeasureContext, PartContext
  <2>2. CASE MeasureResult(f, n)
    BY <1>2, <1>6, <2>2, StopperMeasures
  <2>3. CASE ResetOnMeasurementStop(f)
    BY <1>2, <1>6, <2>3, StopperLeaves
  <2> QED BY <1>3, <2>1, <2>2, <2>3, ConnectMeasures
<1>7. CASE OfOld(f, n) /\ Stopped(f, n)
  <2>1. mState[f] = "ReceivedMeasurementStop" /\ pc[f] = "Destroy"
    BY <1>7 DEF Stopped
  <2>2. Destroyed(f)
    BY <1>3, <2>1 DEF Connect, ScanForFederationPrefix, CreateFederation, JoinFederation, RegisterSyncPoints,
         RetrieveSyncPoints, PointWait, JoinScan, NoPointsAnnounced, HandleDeadFederation, JoinFreshOrLate,
         InitFederate, InitWait, InitReceived, SyncWait, FederationSynchronized, ResetOnMeasurementStop,
         HandleConnectionLost, EvokeCallbacks, InBlock
  <2>3. Part(n)' \/ Gather(k)'
    BY <1>2, <1>7, <2>2, StoppedDestroys
  <2>4. Gather(k)' => Gather(Next_(n))'
    BY <1>1
  <2> QED BY <1>2, <1>7, <2>2, <2>3, <2>4, StoppedDestroys
<1> QED BY <1>4, <1>5, <1>6, <1>7 DEF Parts

-----------------------------------------------------------------------------
(* The invariant, and what follows from it.                                     *)

\* The inductive invariant.
Inv == TypeInv(AllNames) /\ RtinodeConsistent /\ (Calm => PhaseInv)

\* At first nobody is connected, which is a gathering in the federation of the bare prefix.
LEMMA InitInv == Init => Inv
<1> SUFFICES ASSUME Init PROVE Inv
  OBVIOUS
<1>1. TypeInv(AllNames)
  <2>1. NoIndex \in AllNames /\ 0 <= MaxStops
    BY BoundsAssumption DEF AllNames, NoIndex
  <2>2. used \in [Bounds -> Nat] /\ used["stop"] = 0
    BY DEF Init, Bounds
  <2> QED BY <2>1, <2>2 DEF Init, TypeInv, Types, States, ThreadPoints
<1>2. RtinodeConsistent
  BY DEF Init, RtinodeConsistent
<1>3. OneCreates /\ SentByStarters
  BY DEF Init, OneCreates, SentByStarters
<1>4. Gather(NoIndex)
  <2>1. Bounded(NoIndex)
    BY EpochFacts DEF Init, Bounded, NoIndex
  <2>2. ~Exists(NoIndex)
    BY DEF Init, Exists, Contains
  <2>3. \A f \in Federates : Offline(f) /\ sent[f] = {}
    BY DEF Init, Offline, Outside, Fresh
  <2>4. WithoutPoints(NoIndex)
    BY <2>2, <2>3, EpochFacts DEF WithoutPoints, Early, Offline, Outside, Joins, Init
  <2> QED BY <2>1, <2>2, <2>3, <2>4 DEF Gather, Gathering, Gatherer, Init
<1>5. PhaseInv
  <2>1. NoIndex \in Epochs
    BY EpochFacts
  <2> QED BY <1>3, <1>4, <2>1 DEF PhaseInv, SentByStarters
<1> QED BY <1>1, <1>2, <1>5 DEF Inv

\* What comes out of good time does not come back to it.
LEMMA CalmBefore ==
  ASSUME NEW f \in Federates, TypeInv(AllNames), Step(f), Calm'
  PROVE  Calm
<1>1. used \in [Bounds -> Nat] /\ "hasty" \in Bounds /\ "slow" \in Bounds
  BY DEF TypeInv, Types, Bounds
<1>2. ASSUME \E what \in {"init", "leaves", "hasty", "slow", "stop"} : used' = [used EXCEPT ![what] = @ + 1]
      PROVE  Calm
  <2>1. used'["hasty"] >= used["hasty"] /\ used'["slow"] >= used["slow"]
    BY <1>1, <1>2
  <2> QED BY <1>1, <2>1 DEF Calm
<1>3. ASSUME UNCHANGED used PROVE Calm
  BY <1>3 DEF Calm
<1>4. CASE Connect(f)
  BY <1>2, <1>3, <1>4 DEF Connect, ScanForFederationPrefix, CreateFederation, JoinFederation, RegisterSyncPoints,
       RetrieveSyncPoints, PointWait, JoinScan, NoPointsAnnounced, HandleDeadFederation, JoinFreshOrLate,
       InitFederate, InitWait, InitReceived, SyncWait, FederationSynchronized, ResetOnMeasurementStop,
       Destroyed, HandleConnectionLost, Untimely
<1>5. CASE Start(f) \/ EvokeCallbacks(f) \/ Disconnected(f)
  BY <1>3, <1>5 DEF Start, EvokeCallbacks, Disconnected
<1>6. CASE Disconnect(f) \/ Crash(f)
  BY <1>2, <1>6 DEF Disconnect, Crash, Leaves, InGoodTime, Budget, Untimely
<1>7. CASE SendMeasurementInit(f) \/ SendMeasurementStop(f)
  BY <1>2, <1>7 DEF SendMeasurementInit, SendMeasurementStop, InGoodTime, Budget, Untimely
<1> QED BY <1>4, <1>5, <1>6, <1>7 DEF Step

\* The types, and the rtinode, are right whatever comes when.
LEMMA TypeAndRtinodeStep ==
  ASSUME TypeInv(AllNames), RtinodeConsistent, [Next]_vars
  PROVE  TypeInv(AllNames)' /\ RtinodeConsistent'
<1>1. CASE Next
  <2>1. PICK f \in Federates : Step(f)
    BY <1>1 DEF Next, Step
  <2>2. TypeInv(AllNames)'
    <3>1. AllNames \subseteq Int /\ NoIndex \in AllNames
      BY DEF AllNames, NoIndex
    <3>2. PICK names : names = AllNames
      OBVIOUS
    <3>3. TypeInv(names)'
      BY <2>1, <3>1, <3>2, IndexStep, TypeStep
    <3> QED BY <3>2, <3>3
  <2> QED BY <2>1, <2>2, RtinodeStep
<1>2. CASE UNCHANGED vars
  <2>1. TypeInv(AllNames)'
    BY <1>2 DEF vars, ambassador, rtinode, TypeInv, Types
  <2>2. RtinodeConsistent'
    BY <1>2 DEF vars, rtinode, RtinodeConsistent, Exists
  <2> QED BY <2>1, <2>2
<1> QED BY <1>1, <1>2

\* A phase lasts while nothing happens.
LEMMA PhaseStutters ==
  ASSUME PhaseInv,
         UNCHANGED <<mState, pc, mFederationIndex, mCurrentFederationName, created, announced, sent, labels,
                     inbox, federations, memberOf, points, owed, used>>
  PROVE  PhaseInv'
<1>1. \A g \in Federates : Same(g)
  BY DEF Same
<1>2. ASSUME NEW n
      PROVE  /\ Bounded(n) => Bounded(n)'
             /\ Gathering(n) => Gathering(n)'
             /\ Exists(n)' <=> Exists(n)
  <2>1. Exists(n)' <=> Exists(n)
    BY DEF Exists
  <2> QED BY <1>1, <2>1, GatheringKept DEF Bounded
<1>3. ASSUME NEW n, NEW g \in Federates
      PROVE  /\ Gatherer(g, n) => Gatherer(g, n)'
             /\ Measures(g, n) => Measures(g, n)'
             /\ Stopped(g, n) => Stopped(g, n)'
             /\ OfOld(g, n)' <=> OfOld(g, n)
             /\ Stops(g)' <=> Stops(g)
             /\ Fresh(g)' <=> Fresh(g)
  <2>1. /\ \A m : Has(g, m)' <=> Has(g, m)
        /\ \A p : Knows(g, p)' <=> Knows(g, p)
    BY DEF Has, Knows
  <2>2. (Named(g, n)' <=> Named(g, n)) /\ (Fresh(g)' <=> Fresh(g)) /\ (Outside(g)' <=> Outside(g))
        /\ (Stops(g)' <=> Stops(g)) /\ (OfOld(g, n)' <=> OfOld(g, n))
    BY <2>1 DEF Named, Fresh, Outside, Stops, OfOld
  <2>3. Measures(g, n) => Measures(g, n)'
    <3>1. MeasuresAt(g, n) => MeasuresAt(g, n)'
      BY <2>1 DEF MeasuresAt
    <3>2. OwesInit(g, n) => OwesInit(g, n)'
      BY <2>1 DEF OwesInit
    <3>3. OwesStop(g, n) => OwesStop(g, n)'
      BY <2>1 DEF OwesStop
    <3>4. IsSynchronized(g, n) => IsSynchronized(g, n)'
      BY <2>1 DEF IsSynchronized
    <3> QED BY <2>1, <2>2, <3>1, <3>2, <3>3, <3>4 DEF Measures
  <2>4. Stopped(g, n) => Stopped(g, n)'
    BY <2>2 DEF Stopped
  <2> QED BY <1>1, <2>2, <2>3, <2>4, SameGatherer
<1>4. OneCreates'
  BY DEF PhaseInv, OneCreates
<1>5. PICK k \in Epochs : Gather(k) \/ Measure(k) \/ Part(k)
  BY DEF PhaseInv
<1>6. Gather(k) => Gather(k)'
  BY <1>2, <1>3 DEF Gather
<1>7. Measure(k) => Measure(k)'
  BY <1>2, <1>3 DEF Measure
<1>8. Part(k) => Part(k)'
  <2>1. PICK n : n = Next_(k) /\ Next_(k)' = n
    BY DEF Next_
  <2>2. ASSUME Part(k), NEW g \in Federates PROVE Parts(g, k)'
    <3>1. Parts(g, k)
      BY <2>2 DEF Part
    <3>2. CASE OfOld(g, k)
      BY <1>3, <3>1, <3>2 DEF Parts
    <3>3. CASE ~OfOld(g, k)
      <4>1. Gatherer(g, n)' /\ ~Fresh(g)' /\ pc'[g] # "Leave"
        BY <1>3, <2>1, <3>1, <3>3 DEF Parts
      <4>2. Gatherer(g, Next_(k))'
        BY <2>1, <4>1
      <4> QED BY <1>3, <3>3, <4>1, <4>2 DEF Parts
    <3> QED BY <3>2, <3>3
  <2>3. ASSUME Part(k) PROVE Bounded(k)' /\ Bounded(Next_(k))' /\ Gathering(Next_(k))'
    <3>1. Bounded(k)' /\ Bounded(n)' /\ Gathering(n)'
      BY <1>2, <2>1, <2>3 DEF Part
    <3>2. Bounded(n)' => Bounded(Next_(k))'
      BY <2>1
    <3>3. Gathering(n)' => Gathering(Next_(k))'
      BY <2>1
    <3> QED BY <3>1, <3>2, <3>3
  <2>4. ASSUME Part(k)
        PROVE  federations' = <<>> \/ federations' = <<k>> \/ federations' = <<n>> \/ federations' = <<k, n>>
    BY <2>1, <2>4 DEF Part
  <2> QED BY <1>3, <2>1, <2>2, <2>3, <2>4 DEF Part
<1>9. Epochs' = Epochs
  BY DEF Epochs, NoIndex
<1> QED BY <1>4, <1>5, <1>6, <1>7, <1>8, <1>9 DEF PhaseInv

\* Every step in good time stays in the phase, or begins the next one.
LEMMA PhaseStep ==
  ASSUME OneStop, Inv, [Next]_vars, Calm'
  PROVE  PhaseInv'
<1>1. TypeInv(AllNames) /\ TypeInv(AllNames)' /\ RtinodeConsistent
  BY TypeAndRtinodeStep DEF Inv
<1>2. CASE Next
  <2>1. PICK f \in Federates : Step(f)
    BY <1>2 DEF Next, Step
  <2>2. Alone(f)
    <3>1. AllNames \subseteq Int /\ NoIndex \in AllNames
      BY DEF AllNames, NoIndex
    <3>2. PICK names : names = AllNames
      OBVIOUS
    <3> QED BY <1>1, <2>1, <3>1, <3>2, IndexStep, TypeStep
  <2>3. PhaseInv
    BY <1>1, <2>1, CalmBefore DEF Inv
  <2>4. PhaseContext(f)
    BY <1>1, <2>2, <2>3 DEF PhaseContext, PhaseInv, SentByStarters
  <2>5. PICK k \in Epochs : Gather(k) \/ Measure(k) \/ Part(k)
    BY <2>3 DEF PhaseInv
  <2>6. PICK n \in Epochs : n = Next_(k)
    BY EpochFacts
  <2>7. OneCreates' /\ SentByStarters' /\ (Gather(k)' \/ Measure(k)' \/ Part(k)' \/ Gather(n)')
    <3>1. Gather(Next_(k))' => Gather(n)'
      <4>1. Next_(k)' = n
        BY <2>6 DEF Next_
      <4> QED BY <4>1
    <3> QED BY <2>1, <2>4, <2>5, <3>1, GatherPhase, MeasurePhase, PartPhase
  <2>8. \E m \in Epochs : Gather(m)' \/ Measure(m)' \/ Part(m)'
    BY <2>7
  <2> QED BY <2>7, <2>8 DEF PhaseInv, SentByStarters, Epochs
<1>3. CASE UNCHANGED vars
  <2>1. PhaseInv
    BY <1>3 DEF Inv, vars, Calm
  <2>2. UNCHANGED <<mState, pc, mFederationIndex, mCurrentFederationName, created, announced, sent, labels,
                    inbox, federations, memberOf, points, owed, used>>
    BY <1>3 DEF vars, ambassador, rtinode
  <2> QED BY <2>1, <2>2, PhaseStutters
<1> QED BY <1>2, <1>3

\* The invariant is inductive.
LEMMA NextInv ==
  ASSUME OneStop, Inv, [Next]_vars
  PROVE  Inv'
BY TypeAndRtinodeStep, PhaseStep DEF Inv

\* In good time no index is above the number of the measurements stopped.
IndexBounded == mFederationIndex \in [Federates -> NoIndex..MaxStops]

\* An index is that of the phase, one less, or none.
LEMMA IndexBound == TypeInv(AllNames) /\ PhaseInv => IndexBounded
<1> SUFFICES ASSUME TypeInv(AllNames), PhaseInv PROVE IndexBounded
  OBVIOUS
<1>1. /\ used["stop"] \in Nat /\ used["stop"] <= MaxStops /\ MaxStops \in Nat
      /\ mFederationIndex \in [Federates -> AllNames]
  BY BoundsAssumption DEF TypeInv, Types, Bounds
<1>2. NoIndex \in NoIndex..MaxStops
  BY <1>1 DEF NoIndex
<1>3. ASSUME NEW n, Bounded(n) PROVE n \in NoIndex..MaxStops
  BY <1>1, <1>3 DEF Bounded, NoIndex, Epochs
<1>4. ASSUME NEW k, Bounded(k), NEW g \in Federates, Gatherer(g, k) PROVE mFederationIndex[g] \in NoIndex..MaxStops
  <2>1. ASSUME NEW o \in Epochs, Next_(o) = k PROVE o \in NoIndex..MaxStops
    <3>1. o < k /\ o \in Int /\ o >= NoIndex /\ k \in NoIndex..MaxStops
      BY <1>3, <1>4, <2>1, EpochFacts DEF Epochs, NoIndex
    <3>2. k \in Int /\ k <= MaxStops
      BY <1>1, <3>1 DEF NoIndex
    <3> QED BY <1>1, <3>1, <3>2 DEF NoIndex
  <2>2. mFederationIndex[g] = NoIndex \/ mFederationIndex[g] = k
        \/ \E o \in Epochs : Next_(o) = k /\ mFederationIndex[g] = o
    BY <1>4 DEF Gatherer, Offline, Approaches, Inside, Leaving, Fresh, Named
  <2> QED BY <1>2, <1>3, <1>4, <2>1, <2>2
<1>5. ASSUME NEW g \in Federates PROVE mFederationIndex[g] \in NoIndex..MaxStops
  <2>1. PICK k \in Epochs : Gather(k) \/ Measure(k) \/ Part(k)
    BY DEF PhaseInv
  <2>2. CASE Gather(k)
    BY <1>4, <2>2 DEF Gather
  <2>3. CASE Measure(k)
    BY <1>3, <2>3 DEF Measure, Measures, Named
  <2>4. CASE Part(k)
    <3>1. Parts(g, k) /\ Bounded(k) /\ Bounded(Next_(k))
      BY <2>4 DEF Part
    <3>2. CASE OfOld(g, k)
      BY <1>3, <3>1, <3>2 DEF Parts, Measures, Stopped, Named
    <3>3. CASE ~OfOld(g, k)
      BY <1>4, <3>1, <3>3 DEF Parts
    <3> QED BY <3>2, <3>3
  <2> QED BY <2>1, <2>2, <2>3, <2>4
<1> QED BY <1>1, <1>5 DEF IndexBounded

\* The same after a step.
LEMMA NextIndexBound == TypeInv(AllNames)' /\ PhaseInv' => IndexBounded'
BY IndexBound, PTL

\* The bound on the index, and with it all types, in good time.
BoundedInv == Calm => TypeInv(Names)

\* The bound is kept with the phases.
LEMMA BoundedStep ==
  ASSUME OneStop, MaxStops <= MaxIndex, Inv, BoundedInv, [Next]_vars
  PROVE  BoundedInv'
<1>1. SUFFICES ASSUME Calm' PROVE TypeInv(Names)'
  BY DEF BoundedInv, Names
<1>2. TypeInv(AllNames) /\ TypeInv(AllNames)' /\ PhaseInv'
  BY <1>1, TypeAndRtinodeStep, PhaseStep DEF Inv
<1>3. mFederationIndex' \in [Federates -> Names]
  <2>1. IndexBounded'
    BY <1>2, NextIndexBound
  <2>2. NoIndex..MaxStops \subseteq Names
    BY BoundsAssumption DEF Names, NoIndex
  <2> QED BY <2>1, <2>2 DEF IndexBounded
<1>4. CASE Next
  <2>1. PICK f \in Federates : Step(f)
    BY <1>4 DEF Next, Step
  <2>2. TypeInv(Names)
    BY <1>1, <1>2, <2>1, CalmBefore DEF BoundedInv
  <2>3. Names \subseteq Int /\ NoIndex \in Names
    BY BoundsAssumption DEF Names, NoIndex
  <2>4. PICK names : names = Names
    OBVIOUS
  <2>5. TypeInv(names)'
    BY <1>3, <2>1, <2>2, <2>3, <2>4, TypeStep
  <2> QED BY <2>4, <2>5
<1>5. CASE UNCHANGED vars
  <2>1. TypeInv(Names)
    BY <1>1, <1>5 DEF BoundedInv, vars, Calm
  <2> QED BY <1>5, <2>1 DEF vars, ambassador, rtinode, TypeInv, Types
<1> QED BY <1>4, <1>5

-----------------------------------------------------------------------------
(* Theorems.                                                                    *)

\* Whatever is untimely, and however many stops are under way: what the rtinode says is
\* owed is a registered point of the federation that the federate is joined to, every
\* registered point is still owed by somebody, and a federation with members exists.
THEOREM RtinodeIsConsistent == Spec => []RtinodeConsistent
<1>1. Init => TypeInv(AllNames) /\ RtinodeConsistent
  BY InitInv DEF Inv
<1>2. TypeInv(AllNames) /\ RtinodeConsistent /\ [Next]_vars => TypeInv(AllNames)' /\ RtinodeConsistent'
  BY TypeAndRtinodeStep
<1> QED BY <1>1, <1>2, PTL DEF Spec

\* In good time the federates gather in one federation, measure in it, and part from it
\* to gather in the next one, for ever, if no two stops are under way at once.
THEOREM PhasesHold ==
  ASSUME OneStop
  PROVE  Spec => []Inv
<1>1. Inv /\ [Next]_vars => Inv'
  BY NextInv
<1> QED BY <1>1, InitInv, PTL DEF Spec

\* All variables keep their types, and no federation has an index above the number of the
\* measurements that are stopped, while nothing is untimely.
THEOREM TypeCorrect ==
  ASSUME OneStop, MaxStops <= MaxIndex
  PROVE  Spec => [](Calm => TypeOK)
<1>1. Init => BoundedInv
  <2> SUFFICES ASSUME Init PROVE TypeInv(Names)
    BY DEF BoundedInv
  <2>1. NoIndex \in Names /\ 0 <= MaxStops
    BY BoundsAssumption DEF Names, NoIndex
  <2>2. used \in [Bounds -> Nat] /\ used["stop"] = 0
    BY DEF Init, Bounds
  <2> QED BY <2>1, <2>2 DEF Init, TypeInv, Types, States, ThreadPoints
<1>2. Inv /\ BoundedInv /\ [Next]_vars => BoundedInv'
  BY BoundedStep
<1>3. BoundedInv => (Calm => TypeOK)
  <2> SUFFICES ASSUME TypeInv(Names) PROVE TypeOK
    BY DEF BoundedInv
  <2>1. \A f \in Federates : inbox[f] \in Seq(Messages)
    BY DEF TypeInv, Types
  <2> QED BY <2>1 DEF TypeInv, Types, TypeOK
<1> QED BY <1>1, <1>2, <1>3, PhasesHold, PTL DEF Spec

\* When federationSynchronized has told a federate that all are ready for the measurement,
\* no member of its federation owes the point of the start any more, while nothing is untimely.
THEOREM SynchronizedMeansAllCorrect ==
  ASSUME OneStop
  PROVE  Spec => [](Calm => SynchronizedMeansAll)
<1>1. Inv => (Calm => SynchronizedMeansAll)
  <2> SUFFICES ASSUME TypeInv(AllNames), RtinodeConsistent, PhaseInv, NEW f \in Federates,
                      mState[f] = "FederationSynchronized", NEW g \in Federates
               PROVE  <<memberOf[f], "Initialized", g>> \notin owed
    BY DEF Inv, SynchronizedMeansAll
  <2>1. PICK k \in Epochs : Gather(k) \/ Measure(k) \/ Part(k)
    BY DEF PhaseInv
  <2>2. Measures(f, k)
    <3>1. \A n : ~Gatherer(f, n) /\ ~Stopped(f, n)
      BY DEF Gatherer, Offline, Approaches, Inside, Leaving, Stopped
    <3> QED BY <2>1, <3>1 DEF Gather, Measure, Part, Parts
  <2>3. memberOf[f] = k /\ <<k, "Initialized">> \notin points
    BY <2>2 DEF Measures, IsSynchronized
  <2> QED BY <2>3, RtinodeFacts
<1> QED BY <1>1, PhasesHold, PTL

\* While nothing is untimely nobody takes itself for the creator of a federation that
\* another one has created, and no connecting federate runs into an exception of the RTI
\* that nobody catches.
THEOREM ConnectingIsSafe ==
  ASSUME OneStop
  PROVE  Spec => [](Calm => OneCreator /\ NobodyTerminates)
<1>1. Inv => (Calm => OneCreator /\ NobodyTerminates)
  <2> SUFFICES ASSUME PhaseInv PROVE OneCreator /\ NobodyTerminates
    BY DEF Inv
  <2>1. PICK k \in Epochs : Gather(k) \/ Measure(k) \/ Part(k)
    BY DEF PhaseInv
  <2>2. ASSUME NEW f \in Federates
        PROVE  /\ pc[f] # "Terminated"
               /\ memberOf[f] # NoName => mCurrentFederationName[f] = memberOf[f]
    <3>1. ASSUME NEW n, Gatherer(f, n) PROVE <2>2!2
      BY <3>1 DEF Gatherer, Offline, Approaches, Inside, Leaving, Outside, Named
    <3>2. ASSUME NEW n, Measures(f, n) PROVE <2>2!2
      BY <3>2 DEF Measures, MeasuresAt, Named
    <3>3. ASSUME NEW n, Stopped(f, n) PROVE <2>2!2
      BY <3>3 DEF Stopped, Outside
    <3> QED BY <2>1, <3>1, <3>2, <3>3 DEF Gather, Measure, Part, Parts
  <2>3. OneCreator
    BY <2>2 DEF PhaseInv, OneCreates, OneCreator
  <2> QED BY <2>2, <2>3 DEF NobodyTerminates
<1> QED BY <1>1, PhasesHold, PTL

\* While nothing is untimely all who are joined are in one federation or, between two
\* measurements, in two that follow one another.
MeetingPlaces == \A f, g \in Federates : memberOf[f] # NoName /\ memberOf[g] # NoName =>
  \/ memberOf[f] = memberOf[g] \/ memberOf[f] = Next_(memberOf[g]) \/ memberOf[g] = Next_(memberOf[f])

\* No federate is in a federation of its own while the others meet elsewhere.
THEOREM MeetingPlacesCorrect ==
  ASSUME OneStop
  PROVE  Spec => [](Calm => MeetingPlaces)
<1>1. Inv => (Calm => MeetingPlaces)
  <2> SUFFICES ASSUME PhaseInv PROVE MeetingPlaces
    BY DEF Inv
  <2>1. PICK k \in Epochs : Gather(k) \/ Measure(k) \/ Part(k)
    BY DEF PhaseInv
  <2>2. ASSUME NEW f \in Federates, memberOf[f] # NoName PROVE memberOf[f] = k \/ memberOf[f] = Next_(k)
    <3>1. \A n : (Gatherer(f, n) \/ Measures(f, n) => memberOf[f] = n) /\ ~Stopped(f, n)
      BY <2>2 DEF Gatherer, Offline, Approaches, Inside, Leaving, Outside, Measures, Stopped
    <3> QED BY <2>1, <3>1 DEF Gather, Measure, Part, Parts
  <2>3. ASSUME Gather(k) \/ Measure(k), NEW f \in Federates, memberOf[f] # NoName PROVE memberOf[f] = k
    <3>1. \A n : Gatherer(f, n) \/ Measures(f, n) => memberOf[f] = n
      BY <2>3 DEF Gatherer, Offline, Approaches, Inside, Leaving, Outside, Measures
    <3> QED BY <2>3, <3>1 DEF Gather, Measure
  <2> QED BY <2>2 DEF MeetingPlaces
<1> QED BY <1>1, PhasesHold, PTL

\* A federate that waits for the measurement start comes online only when no other one
\* waits for the init in its federation any longer, while nothing is untimely.
THEOREM NobodyIsLeftBehind ==
  ASSUME OneStop
  PROVE  Spec => [][Calm => \A f, g \in Waiting :
                      pc[f] = "SyncWait" /\ pc'[f] = "Evoke" /\ memberOf[g] = memberOf[f]
                        => ~(pc[g] = "InitWait" /\ "Initialized" \in labels[g])]_vars
<1>1. ASSUME Inv, Next, Calm, NEW f \in Waiting, NEW g \in Waiting,
             pc[f] = "SyncWait", pc'[f] = "Evoke", memberOf[g] = memberOf[f]
      PROVE  pc[g] # "InitWait"
  <2>1. f \in Federates /\ g \in Federates /\ TypeInv(AllNames) /\ RtinodeConsistent /\ PhaseInv
    BY <1>1, FederatesAssumption DEF Inv
  <2>2. PICK h \in Federates : Step(h)
    BY <1>1 DEF Next, Step
  <2>3. Alone(h)
    <3>1. AllNames \subseteq Int /\ NoIndex \in AllNames
      BY DEF AllNames, NoIndex
    <3>2. PICK names : names = AllNames
      OBVIOUS
    <3> QED BY <2>1, <2>2, <3>1, <3>2, IndexStep, TypeStep
  <2>4. h = f
    BY <1>1, <2>1, <2>3 DEF Alone
  <2>5. PICK k \in Epochs : Gather(k) \/ Measure(k) \/ Part(k)
    BY <2>1 DEF PhaseInv
  <2>6. Measures(f, k)
    <3>1. \A n : ~Gatherer(f, n) /\ ~Stopped(f, n)
      BY <1>1 DEF Gatherer, Offline, Approaches, Inside, Leaving, Stopped
    <3> QED BY <2>1, <2>5, <3>1 DEF Gather, Measure, Part, Parts
  <2>7. mState[f] = "FederationSynchronized"
    <3>1. FederationSynchronized(f)
      BY <1>1, <2>1, <2>2, <2>4 DEF Step, Connect, Start, ScanForFederationPrefix, CreateFederation, JoinFederation,
           RegisterSyncPoints, RetrieveSyncPoints, PointWait, JoinScan, NoPointsAnnounced, HandleDeadFederation,
           JoinFreshOrLate, InitFederate, InitWait, InitReceived, SyncWait, ResetOnMeasurementStop, Destroyed,
           HandleConnectionLost, EvokeCallbacks, Disconnect, Disconnected, Crash, SendMeasurementInit,
           SendMeasurementStop, SendInteraction, Goto, Set, InBlock, TypeInv, Types
    <3> QED BY <3>1 DEF FederationSynchronized
  <2>8. <<k, "Initialized">> \notin points /\ memberOf[g] = k /\ k # NoName
    BY <1>1, <2>6, <2>7, EpochFacts DEF Measures, IsSynchronized
  <2>9. CASE Measures(g, k)
    <3>1. <<k, "Initialized", g>> \notin owed
      BY <2>1, <2>8, RtinodeFacts
    <3> QED BY <2>9, <3>1 DEF Measures, MeasuresAt, OwesInit
  <2>10. CASE ~Measures(g, k)
    <3>1. ~Stopped(g, k)
      BY <2>8 DEF Stopped, Outside
    <3>2. OfOld(g, k)
      BY <2>8 DEF OfOld
    <3>3. Gather(k) => FALSE
      BY <1>1, <2>1 DEF Gather, Gatherer, Offline, Approaches, Inside, Leaving
    <3> QED BY <2>1, <2>5, <2>10, <3>1, <3>2, <3>3 DEF Measure, Part, Parts
  <2> QED BY <2>9, <2>10
<1>2. Inv /\ [Next]_vars =>
        [Calm => \A f, g \in Waiting :
           pc[f] = "SyncWait" /\ pc'[f] = "Evoke" /\ memberOf[g] = memberOf[f]
             => ~(pc[g] = "InitWait" /\ "Initialized" \in labels[g])]_vars
  BY <1>1
<1> QED BY <1>2, PhasesHold, PTL DEF Spec

=============================================================================
