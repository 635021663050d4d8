-------------------------- MODULE BusMessages_proofs --------------------------
(* Theorems about BusMessages, for every value of its constants.               *)
EXTENDS BusMessages, SequenceTheorems, WellFoundedInduction, TLAPS

\* The next handler is the one with the least handle.
LEMMA LeastIsLeast ==
  ASSUME NEW S, S \subseteq Nat, S # {}
  PROVE  Least(S) \in S /\ \A j \in S : Least(S) <= j
<1> DEFINE R == {ss \in Nat \X Nat : ss[1] < ss[2]}
<1>1. OpToRel(<, Nat) = R
  BY DEF OpToRel
<1>2. IsWellFoundedOn(R, Nat)
  BY <1>1, NatLessThanWellFounded
<1>3. \E i \in S : \A j \in S : ~(<<j, i>> \in R)
  BY <1>2, WFMin
<1>4. ASSUME NEW i \in Nat, NEW j \in Nat, j < i PROVE <<j, i>> \in R
  <2>1. <<j, i>> \in Nat \X Nat /\ <<j, i>>[1] < <<j, i>>[2]
    BY <1>4
  <2> QED BY <2>1
<1> HIDE DEF R
<1>5. PICK i \in S : \A j \in S : ~(<<j, i>> \in R)
  BY <1>3
<1>6. ASSUME NEW j \in S PROVE i <= j
  <2>1. i \in Nat /\ j \in Nat /\ ~(j < i)
    BY <1>4, <1>5
  <2> QED BY <2>1
<1> QED BY <1>6 DEF Least

-----------------------------------------------------------------------------
(* Sets of filters: every operation on one yields one.                          *)

\* The tuples of a set with these parameters, and the sets at the server.
Rows(columns) == [columns -> Values \cup {NoId}]
SetOK(T) == T.columns \subseteq Parameters /\ Tuples!IsTupleSet(T)

\* The set of a federate that has subscribed nothing is one.
LEMMA EmptySetOK == SetOK(Tuples!EmptySet)
  BY DEF SetOK, Tuples!IsTupleSet, Tuples!EmptySet

\* A set stays one when it gets more parameters.
LEMMA SetTupleSizeOK ==
  ASSUME NEW T, SetOK(T), NEW columns \in SUBSET Parameters
  PROVE  /\ SetOK(Tuples!SetTupleSize(T, columns))
         /\ Tuples!SetTupleSize(T, columns).columns = columns
         /\ Len(Tuples!SetTupleSize(T, columns).rows) = Len(T.rows)
<1> DEFINE R == Tuples!SetTupleSize(T, columns)
<1>1. T.rows \in Seq(Rows(T.columns)) /\ Len(T.rows) \in Nat /\ DOMAIN T.rows = 1..Len(T.rows)
  BY DEF SetOK, Tuples!IsTupleSet, Rows
<1>2. \A r \in DOMAIN T.rows : T.rows[r] \in Rows(T.columns)
  BY <1>1
<1>3. \A r \in DOMAIN T.rows :
        [p \in columns |-> IF p \in T.columns THEN T.rows[r][p] ELSE NoId] \in Rows(columns)
  BY <1>2 DEF Rows
<1>4. R.rows \in Seq(Rows(columns)) /\ Len(R.rows) = Len(T.rows)
  BY <1>1, <1>3 DEF Tuples!SetTupleSize
<1>5. R.index \in [columns -> [Values -> SUBSET Nat]]
  BY DEF Tuples!SetTupleSize, SetOK, Tuples!IsTupleSet
<1>6. R.wild \in [columns -> SUBSET Nat]
  BY <1>1 DEF Tuples!SetTupleSize, SetOK, Tuples!IsTupleSet
<1>7. R.columns = columns
  BY DEF Tuples!SetTupleSize
<1> HIDE DEF R
<1>8. SetOK(R)
  BY <1>4, <1>5, <1>6, <1>7 DEF SetOK, Tuples!IsTupleSet, Rows
<1> QED BY <1>4, <1>7, <1>8 DEF R

\* A tuple can be inserted.
LEMMA InsertOK ==
  ASSUME NEW T, SetOK(T), NEW columns \in SUBSET Parameters, NEW t \in Rows(columns)
  PROVE  SetOK(Tuples!Insert(T, t)) /\ Tuples!Insert(T, t).columns = columns
<1> DEFINE R == Tuples!SetTupleSize(T, columns)
           row == Len(T.rows) + 1
<1>1. SetOK(R) /\ R.columns = columns /\ Len(R.rows) = Len(T.rows)
  BY SetTupleSizeOK
<1>2. DOMAIN t = columns
  BY DEF Rows
<1> HIDE DEF R
<1>3. R.rows \in Seq(Rows(columns)) /\ Len(R.rows) \in Nat /\ row \in Nat /\ Len(T.rows) \in Nat
  BY <1>1 DEF SetOK, Tuples!IsTupleSet, Rows
<1>4. Tuples!Insert(T, t) = [columns |-> columns, rows |-> Append(R.rows, t),
        index |-> [p \in columns |-> Tuples!AddToIndex(R.index[p], R.wild[p], t[p], row)],
        wild |-> [p \in columns |-> IF t[p] = NoId THEN R.wild[p] \cup {row} ELSE R.wild[p]]]
  BY <1>1, <1>2 DEF Tuples!Insert, R
<1>5. Append(R.rows, t) \in Seq(Rows(columns))
  BY <1>3
<1>7. \A p \in columns : R.index[p] \in [Values -> SUBSET Nat] /\ R.wild[p] \in SUBSET Nat
  BY <1>1 DEF SetOK, Tuples!IsTupleSet
<1>8. \A p \in columns : Tuples!AddToIndex(R.index[p], R.wild[p], t[p], row) \in [Values -> SUBSET Nat]
  BY <1>3, <1>7 DEF Tuples!AddToIndex
<1> DEFINE I == Tuples!Insert(T, t)
<1>9. /\ I.columns = columns /\ I.rows = Append(R.rows, t)
      /\ I.index \in [columns -> [Values -> SUBSET Nat]] /\ I.wild \in [columns -> SUBSET Nat]
  BY <1>3, <1>4, <1>7, <1>8
<1> HIDE DEF I
<1>10. SetOK(I)
  BY <1>5, <1>9 DEF SetOK, Tuples!IsTupleSet, Rows
<1> QED BY <1>9, <1>10 DEF I

\* Row k of a sequence without row i.
LEMMA RemoveAtProperties ==
  ASSUME NEW S, NEW s \in Seq(S), NEW i \in DOMAIN s
  PROVE  /\ Tuples!RemoveAt(s, i) \in Seq(S)
         /\ Len(Tuples!RemoveAt(s, i)) = Len(s) - 1
         /\ \A k \in 1..(Len(s) - 1) : Tuples!RemoveAt(s, i)[k] = IF k < i THEN s[k] ELSE s[k + 1]
<1> DEFINE a == SubSeq(s, 1, i - 1)
           b == SubSeq(s, i + 1, Len(s))
<1>1. i \in 1..Len(s) /\ Len(s) \in Nat
  OBVIOUS
<1>2. a \in Seq(S) /\ Len(a) = i - 1 /\ \A k \in 1..(i - 1) : a[k] = s[k]
  BY <1>1, SubSeqProperties
<1>3. b \in Seq(S) /\ Len(b) = Len(s) - i /\ \A k \in 1..(Len(s) - i) : b[k] = s[i + k]
  BY <1>1, SubSeqProperties
<1> HIDE DEF a, b
<1>4. /\ a \o b \in Seq(S) /\ Len(a \o b) = Len(s) - 1
      /\ \A k \in 1..(Len(s) - 1) :
           (a \o b)[k] = IF k <= i - 1 THEN a[k] ELSE b[k - (i - 1)]
  BY <1>1, <1>2, <1>3, ConcatProperties
<1>5. \A k \in 1..(Len(s) - 1) : (a \o b)[k] = IF k < i THEN s[k] ELSE s[k + 1]
  <2> TAKE k \in 1..(Len(s) - 1)
  <2>1. CASE k < i
    BY <1>1, <1>2, <1>4, <2>1
  <2>2. CASE k >= i
    <3> DEFINE j == k - (i - 1)
    <3>1. j \in 1..(Len(s) - i) /\ i + j = k + 1 /\ ~(k <= i - 1)
      BY <1>1, <2>2
    <3>2. (a \o b)[k] = b[j]
      BY <1>4, <3>1
    <3> HIDE DEF j
    <3>3. b[j] = s[k + 1]
      BY <1>3, <3>1
    <3> QED BY <2>2, <3>2, <3>3, <1>1
  <2>3. k < i \/ k >= i
    BY <1>1
  <2> QED BY <2>1, <2>2, <2>3, Zenon
<1> QED BY <1>4, <1>5 DEF Tuples!RemoveAt, a, b

\* One that is there has a first row.
LEMMA FirstRowProperties ==
  ASSUME NEW T, SetOK(T), NEW t, Tuples!HasTuple(T, t)
  PROVE  Tuples!FirstRow(T, t) \in DOMAIN T.rows /\ T.rows[Tuples!FirstRow(T, t)] = t
<1> DEFINE N == {r \in DOMAIN T.rows : T.rows[r] = t}
           R == {p \in Nat \X Nat : p[1] < p[2]}
<1>1. N \subseteq Nat /\ N # {} /\ DOMAIN T.rows = 1..Len(T.rows) /\ Len(T.rows) \in Nat
  BY DEF Tuples!HasTuple, SetOK, Tuples!IsTupleSet
<1>2. OpToRel(<, Nat) = R
  BY DEF OpToRel
<1>3. IsWellFoundedOn(R, Nat)
  BY <1>2, NatLessThanWellFounded
<1> HIDE DEF N, R
<1>4. PICK r \in N : \A q \in N : ~(<<q, r>> \in R)
  BY <1>1, <1>3, WFMin
<1>5. ASSUME NEW q \in 1..(r - 1) PROVE T.rows[q] # t
  <2>1. r \in Nat /\ q \in Nat /\ q < r /\ q \in DOMAIN T.rows
    BY <1>1, <1>4 DEF N
  <2>2. <<q, r>> \in Nat \X Nat /\ <<q, r>>[1] < <<q, r>>[2]
    BY <2>1
  <2>3. <<q, r>> \in R
    BY <2>2 DEF R
  <2> QED BY <1>4, <2>1, <2>3 DEF N
<1>6. r \in DOMAIN T.rows /\ T.rows[r] = t
  BY <1>4 DEF N
<1> QED BY <1>5, <1>6 DEF Tuples!FirstRow

\* So it can be erased.
LEMMA EraseOK ==
  ASSUME NEW T, SetOK(T), NEW t, Tuples!HasTuple(T, t)
  PROVE  SetOK(Tuples!Erase(T, t)) /\ Tuples!Erase(T, t).columns = T.columns
<1> DEFINE row == Tuples!FirstRow(T, t)
           E == Tuples!Erase(T, t)
<1>1. row \in DOMAIN T.rows /\ T.rows[row] = t
  BY FirstRowProperties
<1>2. T.rows \in Seq(Rows(T.columns)) /\ Len(T.rows) \in Nat /\ DOMAIN T.rows = 1..Len(T.rows)
  BY DEF SetOK, Tuples!IsTupleSet, Rows
<1>3. /\ E.columns = T.columns /\ E.rows = Tuples!RemoveAt(T.rows, row)
      /\ E.index = [p \in T.columns |-> [v \in Values |-> Tuples!Shift(T.index[p][v], row)]]
      /\ E.wild = [p \in T.columns |-> T.wild[p] \ {row}]
  BY DEF Tuples!Erase
<1> HIDE DEF row, E
<1>4. /\ E.rows \in Seq(Rows(T.columns)) /\ Len(E.rows) = Len(T.rows) - 1
      /\ \A k \in 1..(Len(T.rows) - 1) :
           E.rows[k] = IF k < row THEN T.rows[k] ELSE T.rows[k + 1]
  <2> DEFINE s == T.rows
             S == Rows(T.columns)
  <2>1. s \in Seq(S) /\ row \in DOMAIN s
    BY <1>1, <1>2
  <2> HIDE DEF s, S
  <2>2. /\ Tuples!RemoveAt(s, row) \in Seq(S) /\ Len(Tuples!RemoveAt(s, row)) = Len(s) - 1
        /\ \A k \in 1..(Len(s) - 1) : Tuples!RemoveAt(s, row)[k] = IF k < row THEN s[k] ELSE s[k + 1]
    BY <2>1, RemoveAtProperties
  <2> QED BY <1>3, <2>2 DEF s, S
<1>6. \A rows \in SUBSET Nat : Tuples!Shift(rows, row) \in SUBSET Nat
  <2>1. row \in Nat /\ row >= 1
    BY <1>1, <1>2
  <2>2. \A r \in Nat : r > row => r - 1 \in Nat
    BY <2>1
  <2>3. ASSUME NEW rows \in SUBSET Nat, NEW k \in Tuples!Shift(rows, row) PROVE k \in Nat
    <3>1. k \in rows \/ \E r \in rows : r > row /\ k = r - 1
      BY DEF Tuples!Shift
    <3> QED BY <2>2, <3>1
  <2> QED BY <2>3
<1>7. E.index \in [T.columns -> [Values -> SUBSET Nat]]
  BY <1>3, <1>6 DEF SetOK, Tuples!IsTupleSet
<1>8. E.wild \in [T.columns -> SUBSET Nat]
  BY <1>3 DEF SetOK, Tuples!IsTupleSet
<1>9. SetOK(E)
  BY <1>3, <1>4, <1>7, <1>8 DEF SetOK, Tuples!IsTupleSet, Rows
<1> QED BY <1>3, <1>9 DEF E

\* What AddFilter and RemoveFilter yield.
LEMMA AddFilterOK ==
  ASSUME NEW T, SetOK(T), NEW columns \in SUBSET Parameters, NEW t \in Rows(columns)
  PROVE  SetOK(Tuples!AddFilter(T, t)) /\ Tuples!AddFilter(T, t).columns \subseteq T.columns \cup columns
  BY InsertOK DEF Tuples!AddFilter

LEMMA RemoveFilterOK ==
  ASSUME NEW T, SetOK(T), NEW t
  PROVE  SetOK(Tuples!RemoveFilter(T, t)) /\ Tuples!RemoveFilter(T, t).columns = T.columns
  BY EraseOK DEF Tuples!RemoveFilter

-----------------------------------------------------------------------------
(* Types.                                                                       *)

\* Handles are unique and were issued; what is registered is what may be.
HandleInv ==
  /\ \A g, h \in handlers : g.handle = h.handle => g = h
  /\ \A h \in handlers : h.handle <= issued.handles /\ h.filter \in Wanted

\* A federate that is connected may still join.
JoinsInv == mState = "Connected" => issued.joins < MaxJoins

TypeInv == TypeOK /\ HandleInv /\ JoinsInv

\* What the application registers are filters.
LEMMA WantedAreFilters ==
  Wanted \subseteq Filters
BY DEF Wanted, Filters, Networks

\* The bounds are numbers.
LEMMA Bounds ==
  MaxHandles \in Nat /\ MaxMessages \in Nat /\ MaxJoins \in Nat /\ MaxObjects \in Nat
BY BoundsAssumption

Subscriptions == [networks : SUBSET Networks, ids : SUBSET (Networks \X MessageIds)]
RtiOK(r) ==
  /\ r \in [client : SUBSET Filters, active : BOOLEAN, set : {r.set}, prototype : SUBSET Parameters]
  /\ SetOK(r.set)

\* The values of a filter make a row.
LEMMA TupleOK ==
  ASSUME NEW columns \in SUBSET Parameters, NEW f \in Filters
  PROVE  Tuple(columns, f) \in Rows(columns) /\ Named(f) \subseteq Parameters
<1>1. \A p \in Parameters : f[p] \in Values \cup {NoId}
  BY DEF Parameters, NetworkParameters, Filters, Values
<1> QED BY <1>1 DEF Tuple, Rows, Named, Parameters

LEMMA SubscribeFilterOK ==
  ASSUME NEW r, RtiOK(r), NEW f \in Filters
  PROVE  RtiOK(SubscribeFilter(r, f))
<1>1. PICK columns : columns = r.prototype \cup Named(f)
  OBVIOUS
<1>2. columns \in SUBSET Parameters /\ Tuple(columns, f) \in Rows(columns)
  <2>1. columns \in SUBSET Parameters
    BY <1>1, TupleOK DEF RtiOK
  <2> QED BY <2>1, TupleOK
<1>3. SetOK(Tuples!AddFilter(r.set, Tuple(columns, f)))
  BY <1>2, AddFilterOK DEF RtiOK
<1>4. PICK T : T = Tuples!AddFilter(r.set, Tuple(columns, f))
  OBVIOUS
<1>5. CASE f \in r.client
  <2>1. SubscribeFilter(r, f) = [r EXCEPT !.active = TRUE]
    BY <1>5 DEF SubscribeFilter
  <2> QED BY <2>1 DEF RtiOK
<1>6. CASE f \notin r.client
  <2>1. SubscribeFilter(r, f) = [client |-> r.client \cup {f}, active |-> TRUE, set |-> T, prototype |-> columns]
    BY <1>1, <1>4, <1>6 DEF SubscribeFilter
  <2> QED BY <2>1, <1>2, <1>3, <1>4 DEF RtiOK
<1> QED BY <1>5, <1>6

LEMMA UnsubscribeFilterOK ==
  ASSUME NEW r, RtiOK(r), NEW f
  PROVE  RtiOK(UnsubscribeFilter(r, f))
<1>1. SetOK(Tuples!RemoveFilter(r.set, Tuple(r.prototype, f)))
  BY RemoveFilterOK DEF RtiOK
<1>2. PICK T : T = IF f \in r.client THEN Tuples!RemoveFilter(r.set, Tuple(r.prototype, f)) ELSE r.set
  OBVIOUS
<1>3. SetOK(T)
  BY <1>1, <1>2 DEF RtiOK
<1>4. UnsubscribeFilter(r, f) = [r EXCEPT !.client = @ \ {f}, !.active = @ /\ r.client \ {f} # {}, !.set = T]
  BY <1>2 DEF UnsubscribeFilter
<1> QED BY <1>3, <1>4 DEF RtiOK

LEMMA UnsubscribeClassOK ==
  ASSUME NEW r, RtiOK(r)
  PROVE  RtiOK(UnsubscribeClass(r))
<1>1. PICK T : T = IF r.active THEN Tuples!EmptySet ELSE r.set
  OBVIOUS
<1>2. SetOK(T)
  BY <1>1, EmptySetOK DEF RtiOK
<1>3. UnsubscribeClass(r) = [r EXCEPT !.active = FALSE, !.set = T]
  BY <1>1 DEF UnsubscribeClass
<1> QED BY <1>2, <1>3 DEF RtiOK

LEMMA SubscribeTypes ==
  ASSUME subscriptions \in Subscriptions, RtiOK(rti), NEW f \in Filters, Subscribe(f)
  PROVE  subscriptions' \in Subscriptions /\ RtiOK(rti')
<1>1. rti' = rti \/ rti' = SubscribeFilter(rti, f)
  BY DEF Subscribe
<1>2. RtiOK(rti')
  BY <1>1, SubscribeFilterOK
<1>3. f.network \in Networks /\ (f.id # NoId => f.id \in MessageIds)
  BY DEF Filters
<1>4. subscriptions' \in Subscriptions
  BY <1>3 DEF Subscribe, Subscriptions
<1> QED BY <1>2, <1>4

LEMMA UnsubscribeTypes ==
  ASSUME subscriptions \in Subscriptions, RtiOK(rti), NEW f
  PROVE  /\ UnsubscribeNetwork(f).subs \in Subscriptions
         /\ RtiOK(UnsubscribeNetwork(f).rti)
         /\ UnsubscribeMessageId(f).subs \in Subscriptions
         /\ RtiOK(UnsubscribeMessageId(f).rti)
<1>1. RtiOK(UnsubscribeFilter(rti, f))
  BY UnsubscribeFilterOK
<1>2. /\ [subscriptions EXCEPT !.networks = @ \ {f.network}] \in Subscriptions
      /\ [subscriptions EXCEPT !.ids = @ \ {<<f.network, f.id>>}] \in Subscriptions
  BY DEF Subscriptions
<1> QED BY <1>1, <1>2 DEF UnsubscribeNetwork, UnsubscribeMessageId

LEMMA ReserveTypes ==
  ASSUME inbox \in Seq(Callbacks), reservations \subseteq Networks, NEW n \in Networks, ReserveName(n)
  PROVE  inbox' \in Seq(Callbacks) /\ reservations' \subseteq Networks
<1>1. PICK m : m = [type |-> "reserved", network |-> n]
  OBVIOUS
<1>2. m \in Callbacks
  BY <1>1 DEF Callbacks
<1>3. Append(inbox, m) \in Seq(Callbacks)
  BY <1>2, AppendProperties
<1> QED BY <1>1, <1>3 DEF ReserveName

\* Registering adds a handler with a handle nobody has had.
LEMMA RegisterTypes ==
  ASSUME TypeInv, NEW f \in Wanted, Register(f)
  PROVE  TypeInv'
<1>1. PICK new : new = [handle |-> issued.handles + 1, filter |-> f]
  OBVIOUS
<1>2. /\ issued \in [handles : 0..MaxHandles, messages : 0..MaxMessages, joins : 0..MaxJoins]
      /\ issued.handles < MaxHandles /\ MaxHandles \in Nat /\ f \in Filters /\ f.network \in Networks
  BY Bounds, WantedAreFilters DEF TypeInv, TypeOK, Register, Filters
<1>3. /\ handlers' = handlers \cup {new}
      /\ given' = given \/ given' = given \cup {new.handle}
      /\ issued' = [issued EXCEPT !.handles = @ + 1]
      /\ senders' = senders \cup {f.network}
      /\ ReserveName(f.network)
      /\ UNCHANGED <<use, mState, initialized, objectVars, dispatch, lastCall, missed>>
  BY <1>1 DEF Register, NewHandle
<1>4. new \in Handlers /\ new.handle = issued.handles + 1 /\ new.filter = f
  BY <1>1, <1>2 DEF Handlers
<1>5. /\ published' \in BOOLEAN
      /\ subscriptions' \in Subscriptions /\ RtiOK(rti')
  <2>1. published \in BOOLEAN /\ subscriptions \in Subscriptions /\ RtiOK(rti)
    BY DEF TypeInv, TypeOK, Subscriptions, RtiOK, SetOK
  <2>2. CASE IsFederationJoined
    <3>1. published' = TRUE /\ Subscribe(f)
      BY <2>2 DEF Register
    <3> QED BY <2>1, <3>1, <1>2, SubscribeTypes
  <2>3. CASE ~IsFederationJoined
    BY <2>1, <2>3 DEF Register
  <2> QED BY <2>2, <2>3
<1>6. inbox' \in Seq(Callbacks) /\ reservations' \subseteq Networks
  BY <1>2, <1>3, ReserveTypes DEF TypeInv, TypeOK
<1>7. issued' \in [handles : 0..MaxHandles, messages : 0..MaxMessages, joins : 0..MaxJoins]
  BY <1>2, <1>3
<1>8. handlers' \subseteq Handlers /\ given' \subseteq Handles(handlers')
  BY <1>3, <1>4 DEF TypeInv, TypeOK, Handles
<1>9. TypeOK'
  BY <1>2, <1>3, <1>5, <1>6, <1>7, <1>8 DEF TypeInv, TypeOK, objectVars, Subscriptions, RtiOK, SetOK
<1>10. HandleInv'
  <2>1. \A h \in handlers : h.handle \in Nat /\ h.handle <= issued.handles /\ h.filter \in Wanted
    BY DEF TypeInv, HandleInv, TypeOK, Handlers
  <2>2. issued'.handles = issued.handles + 1 /\ issued.handles \in Nat
    BY <1>2, <1>3
  <2>3. \A g, h \in handlers : g.handle = h.handle => g = h
    BY DEF TypeInv, HandleInv
  <2> QED BY <1>3, <1>4, <2>1, <2>2, <2>3 DEF HandleInv
<1>11. JoinsInv'
  BY <1>2, <1>3 DEF TypeInv, JoinsInv
<1> QED BY <1>9, <1>10, <1>11 DEF TypeInv

LEMMA UnregisterTypes ==
  ASSUME TypeInv, NEW h \in handlers, Unregister(h)
  PROVE  TypeInv'
<1>1. subscriptions \in Subscriptions /\ RtiOK(rti)
  BY DEF TypeInv, TypeOK, Subscriptions, RtiOK, SetOK
<1>2. /\ handlers' = handlers \ {h} /\ given' = given \ {h.handle}
      /\ UNCHANGED <<use, mState, initialized, senders, published, reservations, objectVars, callVars, issued>>
  BY DEF Unregister
<1>3. \E u \in {[rti |-> rti, subs |-> subscriptions], UnsubscribeNetwork(h.filter), UnsubscribeMessageId(h.filter)} :
        subscriptions' = u.subs /\ rti' \in {u.rti, UnsubscribeClass(u.rti)}
  BY DEF Unregister
<1>5. subscriptions' \in Subscriptions /\ RtiOK(rti')
  <2>1. PICK u \in {[rti |-> rti, subs |-> subscriptions], UnsubscribeNetwork(h.filter), UnsubscribeMessageId(h.filter)} :
          subscriptions' = u.subs /\ rti' \in {u.rti, UnsubscribeClass(u.rti)}
    BY <1>3
  <2>2. u.subs \in Subscriptions /\ RtiOK(u.rti)
    BY <1>1, UnsubscribeTypes
  <2> QED BY <2>1, <2>2, UnsubscribeClassOK
<1>6. given' \subseteq Handles(handlers')
  BY <1>2 DEF TypeInv, TypeOK, Handles
<1>7. TypeOK'
  BY <1>2, <1>5, <1>6 DEF TypeInv, TypeOK, objectVars, callVars, Subscriptions, RtiOK, SetOK
<1> QED BY <1>2, <1>7 DEF TypeInv, HandleInv, JoinsInv

LEMMA MessageTypes ==
  ASSUME TypeInv, NEW n \in Networks, NEW request \in BOOLEAN, NEW i \in MessageIds,
         NEW sender \in Nat, NEW own \in BOOLEAN
  PROVE  Message(n, request, i, sender, own) \in Messages
<1> DEFINE m == [network |-> n, request |-> request, id |-> i]
<1>1. Handles({h \in handlers : Covers(h.filter, m)}) \subseteq 1..MaxHandles
  BY DEF TypeInv, TypeOK, Handles, Handlers
<1>2. PICK D : D = IF mState = "Online" THEN Handles({h \in handlers : Covers(h.filter, m)}) ELSE {}
  OBVIOUS
<1>3. D \in SUBSET (1..MaxHandles)
  BY <1>1, <1>2
<1>4. PICK k \in BOOLEAN : k = (own => since[n] = issued.joins)
  OBVIOUS
<1> HIDE DEF m
<1>5. Message(n, request, i, sender, own)
        = [type |-> "message", network |-> n, request |-> request, id |-> i, sender |-> sender,
           own |-> own, known |-> k, due |-> D]
  BY <1>2, <1>4 DEF Message, m
<1> QED BY <1>3, <1>5 DEF Messages

\* A callback that is sent is the last in the queue.
LEMMA AppendTypes ==
  ASSUME inbox \in Seq(Callbacks), NEW m \in Messages
  PROVE  Append(inbox, m) \in Seq(Callbacks)
<1>1. m \in Callbacks
  BY DEF Callbacks
<1> QED BY <1>1, AppendProperties

\* The first callback and the others.
LEMMA TailTypes ==
  ASSUME inbox \in Seq(Callbacks), inbox # <<>>
  PROVE  Head(inbox) \in Callbacks /\ Tail(inbox) \in Seq(Callbacks)
BY HeadTailProperties

LEMMA OneMoreMessage ==
  ASSUME TypeInv, issued.messages < MaxMessages, issued' = [issued EXCEPT !.messages = @ + 1]
  PROVE  /\ issued' \in [handles : 0..MaxHandles, messages : 0..MaxMessages, joins : 0..MaxJoins]
         /\ issued'.handles = issued.handles /\ issued'.joins = issued.joins
<1>1. issued \in [handles : 0..MaxHandles, messages : 0..MaxMessages, joins : 0..MaxJoins]
  BY DEF TypeInv, TypeOK
<1> QED BY <1>1, Bounds

LEMMA SendTypes ==
  ASSUME TypeInv, NEW n \in Networks, NEW request \in BOOLEAN, NEW i \in MessageIds,
         Send(n, request, i)
  PROVE  TypeInv'
<1>1. PICK m : m = Message(n, request, i, object[n], TRUE)
  OBVIOUS
<1>2. object[n] \in Nat
  BY DEF TypeInv, TypeOK
<1>3. m \in Messages
  BY <1>1, <1>2, MessageTypes
<1>4. inbox' = inbox \/ inbox' = Append(inbox, m)
  BY <1>1 DEF Send
<1>5. inbox' \in Seq(Callbacks)
  <2>1. inbox \in Seq(Callbacks)
    BY DEF TypeInv, TypeOK
  <2> QED BY <2>1, <1>3, <1>4, AppendTypes
<1>6. /\ issued' \in [handles : 0..MaxHandles, messages : 0..MaxMessages, joins : 0..MaxJoins]
      /\ issued'.handles = issued.handles /\ issued'.joins = issued.joins
  <2>1. issued.messages < MaxMessages /\ issued' = [issued EXCEPT !.messages = @ + 1]
    BY DEF Send
  <2> QED BY <2>1, OneMoreMessage
<1>7. UNCHANGED <<use, mState, initialized, handlers, given, senders, published, subscriptions, rti,
                 reservations, objectVars, dispatch>>
  BY DEF Send
<1>8. TypeOK'
  BY <1>5, <1>6, <1>7 DEF TypeInv, TypeOK, objectVars
<1> QED BY <1>6, <1>7, <1>8 DEF TypeInv, HandleInv, JoinsInv

LEMMA OthersRegisterTypes ==
  ASSUME TypeInv, OthersRegister
  PROVE  TypeInv'
<1>1. federation' \in [last : Nat, foreign : SUBSET Nat]
  BY DEF TypeInv, TypeOK, OthersRegister
<1>2. UNCHANGED <<use, mState, initialized, handlers, given, senders, published, subscriptions, rti,
                  reservations, object, since, callVars, issued, errors>>
  BY DEF OthersRegister
<1> QED BY <1>1, <1>2 DEF TypeInv, TypeOK, callVars, HandleInv, JoinsInv

LEMMA OthersSubscribeTypes ==
  ASSUME TypeInv, NEW named \in OthersName, NEW first \in BOOLEAN, OthersSubscribe(named, first)
  PROVE  TypeInv'
<1>1. PICK columns : columns = rti.prototype \cup named
  OBVIOUS
<1>2. PICK T : T = IF first \/ rti.set = Tuples!EmptySet THEN rti.set ELSE Tuples!SetTupleSize(rti.set, columns)
  OBVIOUS
<1>3. /\ rti' = [rti EXCEPT !.prototype = columns, !.set = T]
      /\ UNCHANGED <<use, mState, initialized, handlers, given, senders, published, subscriptions,
                     reservations, objectVars, callVars, issued, errors>>
  BY <1>1, <1>2 DEF OthersSubscribe
<1>4. RtiOK(rti)
  BY DEF TypeInv, TypeOK, RtiOK, SetOK
<1>5. columns \in SUBSET Parameters
  BY <1>1, <1>4 DEF RtiOK, OthersName, Parameters
<1>6. SetOK(T)
  BY <1>2, <1>4, <1>5, SetTupleSizeOK DEF RtiOK
<1>7. RtiOK(rti')
  BY <1>3, <1>4, <1>5, <1>6 DEF RtiOK
<1>8. TypeOK'
  BY <1>3, <1>7 DEF TypeInv, TypeOK, objectVars, callVars, RtiOK, SetOK
<1> QED BY <1>3, <1>8 DEF TypeInv, HandleInv, JoinsInv

LEMMA OthersSendTypes ==
  ASSUME TypeInv, NEW n \in Networks, NEW request \in BOOLEAN, NEW i \in MessageIds,
         NEW sender \in federation.foreign \cup OwnObject(n) \cup {0},
         OthersSend(n, request, i, sender)
  PROVE  TypeInv'
<1>1. (sender \in OwnObject(n)) \in BOOLEAN
  OBVIOUS
<1>2. PICK m : m = Message(n, request, i, sender, sender \in OwnObject(n))
  OBVIOUS
<1>3. sender \in Nat
  BY DEF TypeInv, TypeOK, OwnObject
<1>4. m \in Messages
  BY <1>1, <1>2, <1>3, MessageTypes
<1>5. inbox' = inbox \/ inbox' = Append(inbox, m)
  BY <1>2 DEF OthersSend
<1>6. inbox' \in Seq(Callbacks)
  <2>1. inbox \in Seq(Callbacks)
    BY DEF TypeInv, TypeOK
  <2> QED BY <2>1, <1>4, <1>5, AppendTypes
<1>7. /\ issued' \in [handles : 0..MaxHandles, messages : 0..MaxMessages, joins : 0..MaxJoins]
      /\ issued'.handles = issued.handles /\ issued'.joins = issued.joins
  <2>1. issued.messages < MaxMessages /\ issued' = [issued EXCEPT !.messages = @ + 1]
    BY DEF OthersSend
  <2> QED BY <2>1, OneMoreMessage
<1>8. UNCHANGED <<use, mState, initialized, handlers, given, senders, published, subscriptions, rti,
                  reservations, objectVars, dispatch>>
  BY DEF OthersSend
<1>9. TypeOK'
  BY <1>6, <1>7, <1>8 DEF TypeInv, TypeOK, objectVars
<1> QED BY <1>7, <1>8, <1>9 DEF TypeInv, HandleInv, JoinsInv

LEMMA ReservationCompletedTypes ==
  ASSUME TypeInv, ReservationCompleted
  PROVE  TypeInv'
<1>1. PICK n : n = Head(inbox).network
  OBVIOUS
<1>2. n \in Networks
  BY <1>1, TailTypes DEF ReservationCompleted, TypeInv, TypeOK, Callbacks, Messages
<1>3. /\ inbox' = Tail(inbox) /\ reservations' = reservations \ {n}
      /\ \/ UNCHANGED objectVars
         \/ /\ federation' = [federation EXCEPT !.last = @ + 1]
            /\ object' = [object EXCEPT ![n] = federation.last + 1]
            /\ since' = [since EXCEPT ![n] = issued.joins]
      /\ UNCHANGED <<keptByCallbacks, dispatch, lastCall, missed, errors>>
  BY <1>1 DEF ReservationCompleted
<1>4. inbox' \in Seq(Callbacks)
  BY <1>3, TailTypes DEF ReservationCompleted, TypeInv, TypeOK
<1>5. object' \in [Networks -> Nat] /\ since' \in [Networks -> 0..MaxJoins]
      /\ federation' \in [last : Nat, foreign : SUBSET Nat]
  <2>1. /\ object \in [Networks -> Nat] /\ since \in [Networks -> 0..MaxJoins]
        /\ federation \in [last : Nat, foreign : SUBSET Nat] /\ issued.joins \in 0..MaxJoins
    BY DEF TypeInv, TypeOK
  <2> QED BY <1>3, <2>1 DEF objectVars
<1>6. TypeOK'
  BY <1>3, <1>4, <1>5 DEF TypeInv, TypeOK, keptByCallbacks
<1> QED BY <1>3, <1>6 DEF TypeInv, HandleInv, JoinsInv, keptByCallbacks

\* What dispatch is while receiveInteraction works on a message.
Dispatching ==
  [stage : {"generic", "byId"}, msg : Messages, at : 0..MaxHandles,
   todo : SUBSET (1..MaxHandles), called : SUBSET (1..MaxHandles)]

\* A step of receiveInteraction that leaves all but dispatch alone.
LEMMA DispatchTypes ==
  ASSUME TypeInv, inbox' \in Seq(Callbacks), dispatch' = Idle \/ dispatch' \in Dispatching,
         UNCHANGED <<keptByCallbacks, reservations, objectVars>>
  PROVE  TypeInv'
<1>1. /\ dispatch'.stage \in {"none", "generic", "byId"}
      /\ dispatch'.stage = "none" => dispatch' = Idle
      /\ dispatch'.stage # "none" => dispatch' \in Dispatching
  BY DEF Idle, Dispatching
<1>2. TypeOK'
  BY <1>1 DEF TypeInv, TypeOK, Dispatching, keptByCallbacks, objectVars
<1> QED BY <1>2 DEF TypeInv, HandleInv, JoinsInv, keptByCallbacks

LEMMA ReceiveTypes ==
  ASSUME TypeInv, receiveInteraction
  PROVE  TypeInv'
<1>1. PICK m : m = Head(inbox)
  OBVIOUS
<1>2. inbox \in Seq(Callbacks) /\ inbox # <<>> /\ m.type = "message"
  BY <1>1 DEF receiveInteraction, TypeInv, TypeOK
<1>3. m \in Messages
  BY <1>1, <1>2, TailTypes DEF Callbacks
<1>4. dispatch' = [stage |-> "generic", msg |-> m, at |-> 0, todo |-> {}, called |-> {}]
  BY <1>1 DEF receiveInteraction, Idle
<1>5. dispatch' \in Dispatching
  BY <1>3, <1>4, Bounds DEF Dispatching
<1>6. inbox' = Tail(inbox) /\ UNCHANGED <<keptByCallbacks, reservations, objectVars>>
  BY DEF receiveInteraction
<1>7. inbox' \in Seq(Callbacks)
  BY <1>2, <1>6, TailTypes
<1> QED BY <1>5, <1>6, <1>7, DispatchTypes

LEMMA NextGenericTypes ==
  ASSUME TypeInv, NextGeneric
  PROVE  TypeInv'
<1>1. dispatch \in Dispatching
  BY DEF NextGeneric, TypeInv, TypeOK, Dispatching
<1>2. PICK list : list = Handles(GenericHandlers(dispatch.msg))
  OBVIOUS
<1>3. PICK next : next = {i \in list : i > dispatch.at}
  OBVIOUS
<1>4. PICK byId : byId = Handles(HandlersByID(dispatch.msg))
  OBVIOUS
<1>5. list \subseteq 1..MaxHandles /\ byId \subseteq 1..MaxHandles
  <2>1. \A h \in handlers : h.handle \in 1..MaxHandles
    BY DEF TypeInv, TypeOK, Handlers
  <2> QED BY <2>1, <1>2, <1>4 DEF GenericHandlers, HandlersByID, Handles
<1>6. next \subseteq Nat /\ next \subseteq 1..MaxHandles
  <2>1. next \subseteq 1..MaxHandles
    BY <1>3, <1>5
  <2>2. 1..MaxHandles \subseteq Nat
    BY Bounds
  <2> QED BY <2>1, <2>2
<1>7. \/ dispatch' = Idle
      \/ next # {} /\ dispatch' = [dispatch EXCEPT !.at = Least(next), !.called = @ \cup {Least(next)}]
      \/ dispatch' = [dispatch EXCEPT !.stage = "byId", !.todo = byId]
  BY <1>2, <1>3, <1>4 DEF NextGeneric
<1>8. next # {} => Least(next) \in 1..MaxHandles
  BY <1>6, LeastIsLeast
<1>9. dispatch' = Idle \/ dispatch' \in Dispatching
  <2>1. PICK least : least = Least(next)
    OBVIOUS
  <2>2. CASE next # {} /\ dispatch' = [dispatch EXCEPT !.at = least, !.called = @ \cup {least}]
    <3>1. least \in 1..MaxHandles /\ least \in 0..MaxHandles
      BY <2>1, <2>2, <1>8, Bounds
    <3> QED BY <1>1, <2>2, <3>1 DEF Dispatching
  <2>3. CASE dispatch' = [dispatch EXCEPT !.stage = "byId", !.todo = byId]
    BY <1>1, <1>5, <2>3 DEF Dispatching
  <2> QED BY <1>7, <2>1, <2>2, <2>3
<1>10. inbox' = inbox /\ UNCHANGED <<keptByCallbacks, reservations, objectVars>>
  BY DEF NextGeneric
<1>11. inbox' \in Seq(Callbacks)
  BY <1>10 DEF TypeInv, TypeOK
<1> QED BY <1>9, <1>10, <1>11, DispatchTypes

LEMMA NextByIDTypes ==
  ASSUME TypeInv, NextByID
  PROVE  TypeInv'
<1>1. dispatch \in Dispatching
  BY DEF NextByID, TypeInv, TypeOK, Dispatching
<1>2. PICK next : next = Least(dispatch.todo)
  OBVIOUS
<1>3. next \in 1..MaxHandles
  <2>1. dispatch.todo \subseteq 1..MaxHandles /\ dispatch.todo # {}
    BY <1>1 DEF Dispatching, NextByID
  <2>2. dispatch.todo \subseteq Nat
    BY <2>1, Bounds
  <2> QED BY <1>2, <2>1, <2>2, LeastIsLeast
<1>4. /\ dispatch' = [dispatch EXCEPT !.todo = @ \ {next}, !.called = @ \cup {next}]
      /\ inbox' = inbox /\ UNCHANGED <<keptByCallbacks, reservations, objectVars>>
  BY <1>2 DEF NextByID
<1>5. dispatch' \in Dispatching
  BY <1>1, <1>3, <1>4 DEF Dispatching
<1>6. inbox' \in Seq(Callbacks)
  BY <1>4 DEF TypeInv, TypeOK
<1> QED BY <1>4, <1>5, <1>6, DispatchTypes

LEMMA EndReceiveTypes ==
  ASSUME TypeInv, EndReceive
  PROVE  TypeInv'
<1>1. dispatch' = Idle /\ inbox' = inbox /\ UNCHANGED <<keptByCallbacks, reservations, objectVars>>
  BY DEF EndReceive
<1>2. inbox' \in Seq(Callbacks)
  BY <1>1 DEF TypeInv, TypeOK
<1> QED BY <1>1, <1>2, DispatchTypes

-----------------------------------------------------------------------------
(* Coming and going.                                                            *)

LEMMA ConnectTypes ==
  ASSUME TypeInv, Connect
  PROVE  TypeInv'
<1>1. /\ mState' = "Connected" /\ issued.joins < MaxJoins
      /\ UNCHANGED <<keptByStates, initialized, published, subscriptions, rti, reservations,
                     federation, inbox, issued>>
  BY DEF Connect
<1>2. TypeOK'
  BY <1>1 DEF TypeInv, TypeOK, keptByStates, States
<1> QED BY <1>1, <1>2 DEF TypeInv, HandleInv, JoinsInv, keptByStates

LEMMA JoinFederationTypes ==
  ASSUME TypeInv, JoinFederation
  PROVE  TypeInv'
<1>1. /\ mState' = "InitFederate" /\ issued' = [issued EXCEPT !.joins = @ + 1]
      /\ UNCHANGED <<keptByStates, initialized, published, subscriptions, rti, reservations,
                     federation, inbox>>
  BY DEF JoinFederation
<1>2. /\ issued \in [handles : 0..MaxHandles, messages : 0..MaxMessages, joins : 0..MaxJoins]
      /\ issued.joins < MaxJoins
  BY DEF TypeInv, TypeOK, JoinsInv, JoinFederation
<1>3. /\ issued' \in [handles : 0..MaxHandles, messages : 0..MaxMessages, joins : 0..MaxJoins]
      /\ issued'.handles = issued.handles
  BY <1>1, <1>2, Bounds
<1>4. TypeOK'
  BY <1>1, <1>3 DEF TypeInv, TypeOK, keptByStates, States
<1> QED BY <1>1, <1>3, <1>4 DEF TypeInv, HandleInv, JoinsInv, keptByStates

\* What dispatch is while OnJoined subscribes.
Subscribing ==
  [stage : {"subscribe"}, msg : {<<>>}, at : {0}, todo : SUBSET Filters, called : {{}}]

LEMMA OnJoinedTypes ==
  ASSUME TypeInv, OnJoined
  PROVE  TypeInv'
<1>1. PICK F : F = {h.filter : h \in handlers}
  OBVIOUS
<1>2. /\ initialized' = TRUE
      /\ dispatch' = [stage |-> "subscribe", msg |-> <<>>, at |-> 0, todo |-> F, called |-> {}]
      /\ UNCHANGED <<use, mState, handlers, given, senders, published, subscriptions, rti, reservations,
                     objectVars, inbox, lastCall, missed, issued, errors>>
  BY <1>1 DEF OnJoined, Idle
<1>3. F \in SUBSET Filters
  BY <1>1 DEF TypeInv, TypeOK, Handlers
<1>4. dispatch' \in Subscribing /\ dispatch'.stage = "subscribe"
  BY <1>2, <1>3 DEF Subscribing
<1>5. TypeOK'
  BY <1>2, <1>4 DEF TypeInv, TypeOK, objectVars, Subscribing
<1> QED BY <1>2, <1>5 DEF TypeInv, HandleInv, JoinsInv

LEMMA SubscribeNextTypes ==
  ASSUME TypeInv, NEW f \in Wanted, SubscribeNext(f)
  PROVE  TypeInv'
<1>1. /\ Subscribe(f) /\ dispatch.stage = "subscribe"
      /\ dispatch' = [dispatch EXCEPT !.todo = @ \ {f}]
      /\ UNCHANGED <<use, mState, initialized, handlers, given, senders, published, reservations,
                     objectVars, inbox, lastCall, missed, issued, errors>>
  BY DEF SubscribeNext
<1>2. subscriptions' \in Subscriptions /\ RtiOK(rti')
  <2>1. subscriptions \in Subscriptions /\ RtiOK(rti)
    BY DEF TypeInv, TypeOK, Subscriptions, RtiOK, SetOK
  <2> QED BY <1>1, <2>1, WantedAreFilters, SubscribeTypes
<1>3. dispatch' \in Subscribing /\ dispatch'.stage = "subscribe"
  <2>1. dispatch \in Subscribing
    BY <1>1 DEF TypeInv, TypeOK, Subscribing
  <2> QED BY <1>1, <2>1 DEF Subscribing
<1>4. TypeOK'
  BY <1>1, <1>2, <1>3 DEF TypeInv, TypeOK, objectVars, Subscribing, Subscriptions, RtiOK, SetOK
<1> QED BY <1>1, <1>4 DEF TypeInv, HandleInv, JoinsInv

LEMMA EndOnJoinedTypes ==
  ASSUME TypeInv, EndOnJoined
  PROVE  TypeInv'
<1>1. /\ published' = (published \/ senders # {})
      /\ mState' \in States /\ mState' # "Connected"
      /\ dispatch' = Idle
      /\ UNCHANGED <<use, initialized, handlers, given, senders, subscriptions, rti, reservations,
                     objectVars, inbox, lastCall, missed, issued, errors>>
  BY DEF EndOnJoined, States
<1>2. dispatch'.stage = "none"
  BY <1>1 DEF Idle
<1>3. TypeOK'
  BY <1>1, <1>2 DEF TypeInv, TypeOK, objectVars
<1> QED BY <1>1, <1>3 DEF TypeInv, HandleInv, JoinsInv

LEMMA MeasurementInitTypes ==
  ASSUME TypeInv, MeasurementInit
  PROVE  TypeInv'
<1>1. /\ mState' = "Online"
      /\ UNCHANGED <<keptByStates, initialized, published, subscriptions, rti, reservations,
                     federation, inbox, issued>>
  BY DEF MeasurementInit
<1>2. TypeOK'
  BY <1>1 DEF TypeInv, TypeOK, keptByStates, States
<1> QED BY <1>1, <1>2 DEF TypeInv, HandleInv, JoinsInv, keptByStates

LEMMA LeaveTypes ==
  ASSUME TypeInv, Leave
  PROVE  TypeInv'
<1>1. /\ mState' = "Offline" /\ published' = FALSE
      /\ subscriptions' = [networks |-> {}, ids |-> {}]
      /\ rti' = NotSubscribed
      /\ reservations' = {} /\ inbox' = <<>>
      /\ federation' = [last |-> 0, foreign |-> {}]
      /\ UNCHANGED <<keptByStates, initialized, issued>>
  BY DEF Leave
<1>2. inbox' \in Seq(Callbacks)
  BY <1>1, EmptySeq
<1>3. federation' \in [last : Nat, foreign : SUBSET Nat]
  BY <1>1
<1>4. subscriptions' \in Subscriptions /\ RtiOK(rti')
  BY <1>1, EmptySetOK DEF Subscriptions, RtiOK, NotSubscribed
<1>5. TypeOK'
  BY <1>1, <1>2, <1>3, <1>4 DEF TypeInv, TypeOK, keptByStates, States, Subscriptions, RtiOK, SetOK
<1> QED BY <1>1, <1>5 DEF TypeInv, HandleInv, JoinsInv, keptByStates

LEMMA InitTypes ==
  ASSUME Init
  PROVE  TypeInv
<1>1. inbox \in Seq(Callbacks)
  BY EmptySeq DEF Init
<1>2. issued \in [handles : 0..MaxHandles, messages : 0..MaxMessages, joins : 0..MaxJoins]
  BY Bounds DEF Init
<1>3. object \in [Networks -> Nat] /\ since \in [Networks -> 0..MaxJoins]
  BY Bounds DEF Init
<1>4. subscriptions \in Subscriptions /\ RtiOK(rti)
  BY EmptySetOK DEF Init, Subscriptions, RtiOK, NotSubscribed
<1>5. /\ use \in Uses /\ mState = "Offline" /\ initialized = FALSE /\ handlers = {} /\ given = {} /\ senders = {}
      /\ published = FALSE /\ reservations = {} /\ federation = [last |-> 0, foreign |-> {}]
      /\ dispatch = Idle /\ dispatch.stage = "none"
  BY DEF Init, Idle
<1>6. TypeOK
  BY <1>1, <1>2, <1>3, <1>4, <1>5 DEF TypeOK, Subscriptions, RtiOK, SetOK, States, Handles
<1> QED BY <1>5, <1>6 DEF TypeInv, HandleInv, JoinsInv

LEMMA NextTypes ==
  ASSUME TypeInv, Next
  PROVE  TypeInv'
<1>1. CASE Application
  BY <1>1, RegisterTypes, UnregisterTypes, SendTypes DEF Application
<1>2. CASE Others
  BY <1>2, OthersRegisterTypes, OthersSubscribeTypes, OthersSendTypes DEF Others
<1>3. CASE evokeCallback
  BY <1>3, ReservationCompletedTypes, ReceiveTypes, NextGenericTypes, NextByIDTypes,
     EndReceiveTypes DEF evokeCallback
<1>4. CASE ChangesOfState
  BY <1>4, ConnectTypes, JoinFederationTypes, OnJoinedTypes, SubscribeNextTypes, EndOnJoinedTypes,
     MeasurementInitTypes, LeaveTypes
     DEF ChangesOfState
<1> QED BY <1>1, <1>2, <1>3, <1>4 DEF Next

\* What stutters keeps every variable.
LEMMA StutterTypes ==
  ASSUME TypeInv, UNCHANGED vars
  PROVE  TypeInv'
BY DEF vars, objectVars, callVars, TypeInv, TypeOK, HandleInv, JoinsInv

LEMMA TypeInvCorrect ==
  Spec => []TypeInv
<1>1. Init => TypeInv
  BY InitTypes
<1>2. TypeInv /\ [Next]_vars => TypeInv'
  BY NextTypes, StutterTypes
<1> QED BY <1>1, <1>2, PTL DEF Spec

\* Every variable has the values it is meant for, however the application, the other
\* federates and the RTI behave: handles and messages are numbers within their bounds, and
\* receiveInteraction works on a message whenever it is under way.
THEOREM TypeCorrect ==
  Spec => []TypeOK
<1>1. TypeInv => TypeOK
  BY DEF TypeInv
<1> QED BY <1>1, TypeInvCorrect, PTL

-----------------------------------------------------------------------------
(* Sets of filters: what the index finds.                                       *)

\* The sets that are kept: the filters, with the rows of each value and those with a wildcard.
NoneTwice(s) == \A r, q \in DOMAIN s : s[r] = s[q] => r = q
RowsWith(s, p, v) == {r \in DOMAIN s : s[r][p] = v}
SetWith(columns, s) ==
  [columns |-> columns, rows |-> s,
   index |-> [p \in columns |-> [v \in Values |->
     IF RowsWith(s, p, v) = {} THEN {} ELSE RowsWith(s, p, v) \cup RowsWith(s, p, NoId)]],
   wild |-> [p \in columns |-> RowsWith(s, p, NoId)]]

\* A set without filters is such a set.
LEMMA EmptyIsIndexed == Tuples!EmptySet = SetWith({}, <<>>)
  BY DEF Tuples!EmptySet, SetWith

\* The rows s of a set with these columns, with wildcards for what d has more.
Pad(s, columns, d) == [r \in DOMAIN s |-> [p \in d |-> IF p \in columns THEN s[r][p] ELSE NoId]]

\* SetTupleSize pads the rows.
LEMMA ResizeIsIndexed ==
  ASSUME NEW c, NEW d, c \subseteq d, NEW s \in Seq(Rows(c))
  PROVE  Tuples!SetTupleSize(SetWith(c, s), d) = SetWith(d, Pad(s, c, d))
<1> DEFINE u == Pad(s, c, d)
<1>0. DOMAIN u = DOMAIN s /\ \A r \in DOMAIN s, p \in d : u[r][p] = IF p \in c THEN s[r][p] ELSE NoId
  BY DEF Pad
<1>1. \A p \in c, v \in Values \cup {NoId} : RowsWith(u, p, v) = RowsWith(s, p, v)
  BY <1>0 DEF RowsWith
<1>2. \A p \in d \ c, v \in Values : RowsWith(u, p, v) = {}
  BY <1>0, NetworksAssumption DEF RowsWith
<1>3. \A p \in d \ c : RowsWith(u, p, NoId) = DOMAIN s
  BY <1>0 DEF RowsWith
<1>4. u = [r \in DOMAIN s |-> [p \in d |-> IF p \in c THEN s[r][p] ELSE NoId]]
  BY DEF Pad
<1> HIDE DEF u
<1> DEFINE T == SetWith(c, s)
<1>5. /\ T.columns = c /\ T.rows = s
      /\ \A p \in c : /\ T.index[p] = [v \in Values |->
                           IF RowsWith(s, p, v) = {} THEN {} ELSE RowsWith(s, p, v) \cup RowsWith(s, p, NoId)]
                      /\ T.wild[p] = RowsWith(s, p, NoId)
  BY DEF SetWith
<1> HIDE DEF T
<1>6. Tuples!SetTupleSize(T, d) =
       [columns |-> d, rows |-> u,
        index |-> [p \in d |-> IF p \in c THEN T.index[p] ELSE [v \in Values |-> {}]],
        wild  |-> [p \in d |-> IF p \in c THEN T.wild[p] ELSE DOMAIN s]]
  BY <1>4, <1>5 DEF Tuples!SetTupleSize
<1>7. ASSUME NEW p \in d
      PROVE  (IF p \in c THEN T.index[p] ELSE [v \in Values |-> {}]) =
        [v \in Values |-> IF RowsWith(u, p, v) = {} THEN {} ELSE RowsWith(u, p, v) \cup RowsWith(u, p, NoId)]
  <2>1. CASE p \in c
    <3>1. RowsWith(u, p, NoId) = RowsWith(s, p, NoId)
      BY <1>1, <2>1
    <3>2. \A v \in Values : RowsWith(u, p, v) = RowsWith(s, p, v)
      BY <1>1, <2>1
    <3> QED BY <2>1, <3>1, <3>2, <1>5
  <2>2. CASE p \notin c
    BY <2>2, <1>2
  <2> QED BY <2>1, <2>2
<1>8. \A p \in d : (IF p \in c THEN T.wild[p] ELSE DOMAIN s) = RowsWith(u, p, NoId)
  BY <1>1, <1>3, <1>5
<1>9. Tuples!SetTupleSize(T, d) = SetWith(d, u)
  BY <1>6, <1>7, <1>8 DEF SetWith
<1> QED BY <1>9 DEF T, u

\* A new filter becomes the last row.
LEMMA InsertIsIndexed ==
  ASSUME NEW c, NEW d, c \subseteq d, NEW s \in Seq(Rows(c)), NEW t \in Rows(d)
  PROVE  Tuples!Insert(SetWith(c, s), t) = SetWith(d, Append(Pad(s, c, d), t))
<1> DEFINE R == SetWith(d, Pad(s, c, d))
           row == Len(s) + 1
<1>1. PICK q : q = Pad(s, c, d)
  OBVIOUS
<1>2. DOMAIN s = 1..Len(s) /\ Len(s) \in Nat
  OBVIOUS
<1>3. q \in Seq(Rows(d)) /\ Len(q) = Len(s) /\ DOMAIN q = 1..Len(s)
  <2>1. \A r \in DOMAIN s : [p \in d |-> IF p \in c THEN s[r][p] ELSE NoId] \in Rows(d)
    BY DEF Rows
  <2> QED BY <1>1, <1>2, <2>1 DEF Pad
<1>4. PICK u : u = Append(q, t)
  OBVIOUS
<1>5. /\ DOMAIN u = 1..row /\ row \in Nat /\ u[row] = t /\ row \notin DOMAIN q
      /\ \A r \in DOMAIN q : u[r] = q[r]
  BY <1>2, <1>3, <1>4
<1>6. \A p \in d, v \in Values \cup {NoId} :
        RowsWith(u, p, v) = IF v = t[p] THEN RowsWith(q, p, v) \cup {row} ELSE RowsWith(q, p, v)
  BY <1>2, <1>3, <1>5 DEF RowsWith
<1>7. DOMAIN t = d /\ \A p \in d : t[p] \in Values \cup {NoId}
  BY DEF Rows
<1>8. Tuples!SetTupleSize(SetWith(c, s), d) = R
  BY ResizeIsIndexed
<1>9. /\ R.columns = d /\ R.rows = q
      /\ \A p \in d : /\ R.index[p] = [v \in Values |->
                           IF RowsWith(q, p, v) = {} THEN {} ELSE RowsWith(q, p, v) \cup RowsWith(q, p, NoId)]
                      /\ R.wild[p] = RowsWith(q, p, NoId)
  BY <1>1 DEF SetWith
<1>10. SetWith(c, s).rows = s
  BY DEF SetWith
<1> HIDE DEF R, row
<1>11. Tuples!Insert(SetWith(c, s), t) =
         [columns |-> d, rows |-> u,
          index |-> [p \in d |-> Tuples!AddToIndex(R.index[p], R.wild[p], t[p], row)],
          wild |-> [p \in d |-> IF t[p] = NoId THEN R.wild[p] \cup {row} ELSE R.wild[p]]]
  BY <1>4, <1>7, <1>8, <1>9, <1>10 DEF Tuples!Insert, row
<1>12. ASSUME NEW p \in d
       PROVE  Tuples!AddToIndex(R.index[p], R.wild[p], t[p], row) =
                [v \in Values |-> IF RowsWith(u, p, v) = {} THEN {} ELSE RowsWith(u, p, v) \cup RowsWith(u, p, NoId)]
  <2>1. PICK i, w : i = R.index[p] /\ w = R.wild[p]
    OBVIOUS
  <2>2. /\ w = RowsWith(q, p, NoId)
        /\ \A v \in Values : i[v] = IF RowsWith(q, p, v) = {} THEN {} ELSE RowsWith(q, p, v) \cup w
    <3>1. /\ w = RowsWith(q, p, NoId)
          /\ i = [v \in Values |->
                   IF RowsWith(q, p, v) = {} THEN {} ELSE RowsWith(q, p, v) \cup RowsWith(q, p, NoId)]
      BY <1>9, <2>1
    <3> QED BY <3>1
  <2>3. \A v \in Values : v # NoId
    BY NetworksAssumption
  <2>4. \A v \in Values : (IF v = t[p] \/ (t[p] = NoId /\ i[v] # {}) THEN i[v] \cup w \cup {row} ELSE i[v]) =
              (IF RowsWith(u, p, v) = {} THEN {} ELSE RowsWith(u, p, v) \cup RowsWith(u, p, NoId))
    <3>1. SUFFICES ASSUME NEW v \in Values
                   PROVE  (IF v = t[p] \/ (t[p] = NoId /\ i[v] # {}) THEN i[v] \cup w \cup {row} ELSE i[v]) =
                          (IF RowsWith(u, p, v) = {} THEN {} ELSE RowsWith(u, p, v) \cup RowsWith(u, p, NoId))
      OBVIOUS
    <3>2. RowsWith(u, p, v) = IF v = t[p] THEN RowsWith(q, p, v) \cup {row} ELSE RowsWith(q, p, v)
      BY <1>6
    <3>3. RowsWith(u, p, NoId) = IF NoId = t[p] THEN w \cup {row} ELSE w
      BY <1>6, <2>2
    <3>4. i[v] = IF RowsWith(q, p, v) = {} THEN {} ELSE RowsWith(q, p, v) \cup w
      BY <2>2
    <3> QED BY <2>3, <3>2, <3>3, <3>4
  <2> QED BY <2>1, <2>4 DEF Tuples!AddToIndex
<1>13. ASSUME NEW p \in d
       PROVE  (IF t[p] = NoId THEN R.wild[p] \cup {row} ELSE R.wild[p]) = RowsWith(u, p, NoId)
  <2>1. RowsWith(u, p, NoId) = IF NoId = t[p] THEN RowsWith(q, p, NoId) \cup {row} ELSE RowsWith(q, p, NoId)
    BY <1>6
  <2> QED BY <2>1, <1>9
<1>14. Tuples!Insert(SetWith(c, s), t) = SetWith(d, u)
  BY <1>11, <1>12, <1>13 DEF SetWith
<1> QED BY <1>1, <1>4, <1>14

\* A message matches a set if it matches a row of it.
LEMMA FindIsExact ==
  ASSUME NEW c, c # {}, NEW s \in Seq(Rows(c)), NEW t \in [c -> Values]
  PROVE  Tuples!FindNormalized(SetWith(c, s), t) <=> \E r \in DOMAIN s : \A p \in c : s[r][p] \in {NoId, t[p]}
<1> DEFINE T == SetWith(c, s)
           found(p) == IF T.index[p][t[p]] # {} THEN T.index[p][t[p]] ELSE T.wild[p]
<1>1. DOMAIN t = c /\ \A p \in c : t[p] \in Values /\ t[p] # NoId
  BY NetworksAssumption
<1>2. T.columns = c
  BY DEF SetWith
<1>3. ASSUME NEW p \in c PROVE found(p) = {r \in DOMAIN s : s[r][p] \in {NoId, t[p]}}
  <2>1. /\ T.index[p][t[p]] = IF RowsWith(s, p, t[p]) = {} THEN {} ELSE RowsWith(s, p, t[p]) \cup RowsWith(s, p, NoId)
        /\ T.wild[p] = RowsWith(s, p, NoId)
    BY <1>1 DEF SetWith
  <2>2. found(p) = RowsWith(s, p, t[p]) \cup RowsWith(s, p, NoId)
    BY <2>1
  <2> QED BY <2>2 DEF RowsWith
<1>4. {p \in DOMAIN t : t[p] # NoId} = c
  BY <1>1
<1> HIDE DEF T
<1>5. Tuples!FindNormalized(T, t) <=> \E r \in UNION {found(p) : p \in c} : \A p \in c : r \in found(p)
  BY <1>1, <1>2, <1>4 DEF Tuples!FindNormalized
<1> HIDE DEF found
<1>6. (\E r \in UNION {found(p) : p \in c} : \A p \in c : r \in found(p))
        <=> \E r \in DOMAIN s : \A p \in c : r \in found(p)
  BY <1>3
<1> QED BY <1>3, <1>5, <1>6 DEF T

\* Such a set is one.
LEMMA SetWithOK ==
  ASSUME NEW c \in SUBSET Parameters, NEW s \in Seq(Rows(c))
  PROVE  SetOK(SetWith(c, s))
<1>1. \A p \in c, v \in Values \cup {NoId} : RowsWith(s, p, v) \in SUBSET Nat
  BY DEF RowsWith
<1>2. s \in Seq([c -> Values \cup {NoId}])
  BY DEF Rows
<1> QED BY <1>1, <1>2 DEF SetWith, SetOK, Tuples!IsTupleSet

\* Without wildcards, the rows of a value are just those with it.
LEMMA NoWildcards ==
  ASSUME NEW c, NEW s \in Seq([c -> Values])
  PROVE  /\ s \in Seq(Rows(c))
         /\ SetWith(c, s) = [columns |-> c, rows |-> s,
              index |-> [p \in c |-> [v \in Values |-> RowsWith(s, p, v)]],
              wild |-> [p \in c |-> {}]]
<1>1. \A r \in DOMAIN s : s[r] \in [c -> Values] /\ s[r] \in Rows(c)
  BY DEF Rows
<1>2. s \in Seq(Rows(c))
  BY <1>1
<1>3. \A p \in c : RowsWith(s, p, NoId) = {}
  BY <1>1, NetworksAssumption DEF RowsWith
<1>4. \A p \in c : [v \in Values |->
         IF RowsWith(s, p, v) = {} THEN {} ELSE RowsWith(s, p, v) \cup RowsWith(s, p, NoId)] =
       [v \in Values |-> RowsWith(s, p, v)]
  BY <1>3
<1> QED BY <1>2, <1>3, <1>4 DEF SetWith

\* Without wildcards, what an erased filter leaves are the others with the rows they now have.
LEMMA EraseIsIndexed ==
  ASSUME NEW c \in SUBSET Parameters, NEW s \in Seq([c -> Values]), NoneTwice(s), NEW row \in DOMAIN s
  PROVE  \E u \in Seq([c -> Values]) :
           /\ NoneTwice(u) /\ Tuples!Erase(SetWith(c, s), s[row]) = SetWith(c, u)
           /\ {u[k] : k \in DOMAIN u} = {s[r] : r \in DOMAIN s} \ {s[row]}
<1> DEFINE t == s[row]
           u == Tuples!RemoveAt(s, row)
<1>1. Len(s) \in Nat /\ DOMAIN s = 1..Len(s) /\ row \in 1..Len(s)
  OBVIOUS
<1>2. /\ u \in Seq([c -> Values]) /\ Len(u) = Len(s) - 1 /\ DOMAIN u = 1..(Len(s) - 1)
      /\ \A k \in 1..(Len(s) - 1) : u[k] = IF k < row THEN s[k] ELSE s[k + 1]
  <2>1. /\ u \in Seq([c -> Values]) /\ Len(u) = Len(s) - 1
        /\ \A k \in 1..(Len(s) - 1) : u[k] = IF k < row THEN s[k] ELSE s[k + 1]
    BY RemoveAtProperties
  <2> HIDE DEF u
  <2> QED BY <1>1, <2>1
<1>3. row = Tuples!FirstRow(SetWith(c, s), t)
  <2>1. Tuples!HasTuple(SetWith(c, s), t)
    BY DEF Tuples!HasTuple, SetWith
  <2>3. SetOK(SetWith(c, s)) /\ SetWith(c, s).rows = s
    BY NoWildcards, SetWithOK DEF SetWith
  <2>2. Tuples!FirstRow(SetWith(c, s), t) \in DOMAIN s /\ s[Tuples!FirstRow(SetWith(c, s), t)] = t
    BY <2>1, <2>3, FirstRowProperties
  <2> QED BY <2>2 DEF NoneTwice
<1>5. Tuples!Erase(SetWith(c, s), t) =
        [columns |-> c, rows |-> u,
         index |-> [p \in c |-> [v \in Values |-> Tuples!Shift(RowsWith(s, p, v), row)]],
         wild |-> [p \in c |-> {} \ {row}]]
  <2> DEFINE T == SetWith(c, s)
  <2>1. /\ T.columns = c /\ T.rows = s /\ T.index = [p \in c |-> [v \in Values |-> RowsWith(s, p, v)]]
        /\ T.wild = [p \in c |-> {}]
    <3> DEFINE N == [columns |-> c, rows |-> s,
                     index |-> [p \in c |-> [v \in Values |-> RowsWith(s, p, v)]], wild |-> [p \in c |-> {}]]
    <3>1. T = N
      BY NoWildcards
    <3> HIDE DEF T
    <3> QED BY <3>1
  <2>2. Tuples!Erase(T, t) =
          [columns |-> T.columns, rows |-> Tuples!RemoveAt(T.rows, row),
           index |-> [p \in T.columns |-> [v \in Values |-> Tuples!Shift(T.index[p][v], row)]],
           wild |-> [p \in T.columns |-> T.wild[p] \ {row}]]
    BY <1>3 DEF Tuples!Erase
  <2> HIDE DEF T
  <2>3. \A p \in c : T.wild[p] = {} /\ [v \in Values |-> Tuples!Shift(T.index[p][v], row)] =
                        [v \in Values |-> Tuples!Shift(RowsWith(s, p, v), row)]
    BY <2>1
  <2> QED BY <2>1, <2>2, <2>3 DEF T
<1> HIDE DEF u
<1>7. ASSUME NEW p \in c, NEW v \in Values
      PROVE  Tuples!Shift(RowsWith(s, p, v), row) = RowsWith(u, p, v)
  <2>1. ASSUME NEW k \in RowsWith(u, p, v) PROVE k \in Tuples!Shift(RowsWith(s, p, v), row)
    <3>1. k \in 1..(Len(s) - 1) /\ u[k][p] = v
      BY <1>2 DEF RowsWith
    <3>2. CASE k < row
      BY <1>1, <1>2, <3>1, <3>2 DEF RowsWith, Tuples!Shift
    <3>3. CASE ~(k < row)
      <4>1. k + 1 \in RowsWith(s, p, v) /\ k + 1 > row /\ k = (k + 1) - 1
        BY <1>1, <1>2, <3>1, <3>3 DEF RowsWith
      <4> QED BY <4>1 DEF Tuples!Shift
    <3> QED BY <3>2, <3>3
  <2>2. ASSUME NEW k \in Tuples!Shift(RowsWith(s, p, v), row) PROVE k \in RowsWith(u, p, v)
    <3>1. CASE k \in RowsWith(s, p, v) /\ k < row
      BY <1>1, <1>2, <3>1 DEF RowsWith
    <3>2. CASE \E r \in RowsWith(s, p, v) : r > row /\ k = r - 1
      <4>1. PICK r \in RowsWith(s, p, v) : r > row /\ k = r - 1
        BY <3>2
      <4>2. r \in 1..Len(s) /\ s[r][p] = v /\ k \in 1..(Len(s) - 1) /\ ~(k < row) /\ k + 1 = r
        BY <1>1, <4>1 DEF RowsWith
      <4>3. u[k] = s[r]
        BY <1>2, <4>2
      <4> QED BY <1>2, <4>2, <4>3 DEF RowsWith
    <3> QED BY <3>1, <3>2 DEF Tuples!Shift
  <2> QED BY <2>1, <2>2
<1>6. NoneTwice(u)
  <2> DEFINE At(k) == IF k < row THEN k ELSE k + 1
  <2>1. \A k \in DOMAIN u : At(k) \in DOMAIN s /\ u[k] = s[At(k)]
    BY <1>1, <1>2
  <2>2. \A j, k \in DOMAIN u : At(j) = At(k) => j = k
    BY <1>1, <1>2
  <2> HIDE DEF At
  <2> SUFFICES ASSUME NEW j \in DOMAIN u, NEW k \in DOMAIN u, u[j] = u[k] PROVE j = k
    BY DEF NoneTwice
  <2>3. At(j) = At(k)
    BY <2>1 DEF NoneTwice
  <2> QED BY <2>2, <2>3
<1>8. Tuples!Erase(SetWith(c, s), t) = SetWith(c, u)
  <2>1. SetWith(c, u) = [columns |-> c, rows |-> u,
          index |-> [p \in c |-> [v \in Values |-> RowsWith(u, p, v)]], wild |-> [p \in c |-> {}]]
    BY <1>2, NoWildcards
  <2>2. \A p \in c : [v \in Values |-> Tuples!Shift(RowsWith(s, p, v), row)] = [v \in Values |-> RowsWith(u, p, v)]
    BY <1>7
  <2> QED BY <1>5, <2>1, <2>2
<1>9. {u[k] : k \in DOMAIN u} = {s[r] : r \in DOMAIN s} \ {t}
  <2>1. ASSUME NEW k \in DOMAIN u PROVE u[k] \in {s[r] : r \in DOMAIN s} \ {t}
    <3>1. PICK r \in DOMAIN s : r # row /\ u[k] = s[r]
      <4>1. CASE k < row
        BY <1>1, <1>2, <4>1
      <4>2. CASE ~(k < row)
        <5>1. k + 1 \in DOMAIN s /\ k + 1 # row /\ u[k] = s[k + 1]
          BY <1>1, <1>2, <4>2
        <5> QED BY <5>1
      <4> QED BY <4>1, <4>2
    <3> QED BY <3>1 DEF NoneTwice
  <2>2. ASSUME NEW r \in DOMAIN s, s[r] # t PROVE s[r] \in {u[k] : k \in DOMAIN u}
    <3>1. CASE r < row
      <4>1. r \in DOMAIN u /\ u[r] = s[r]
        BY <1>1, <1>2, <3>1
      <4> QED BY <4>1
    <3>2. CASE r > row
      <4> DEFINE k == r - 1
      <4>1. k \in 1..(Len(s) - 1) /\ ~(k < row) /\ k + 1 = r
        BY <1>1, <3>2
      <4> HIDE DEF k
      <4>2. k \in DOMAIN u /\ u[k] = s[r]
        BY <1>2, <4>1
      <4> QED BY <4>2
    <3>3. r # row
      BY <2>2
    <3> QED BY <1>1, <3>1, <3>2, <3>3
  <2> QED BY <2>1, <2>2
<1> QED BY <1>2, <1>6, <1>8, <1>9

\* The rows are those of the filters in F.
RowsAre(rows, columns, F) ==
  /\ \A k \in DOMAIN rows : \E f \in F : rows[k] = Tuple(columns, f)
  /\ \A f \in F : \E k \in DOMAIN rows : rows[k] = Tuple(columns, f)

\* The server's set for this federate: one row for each filter of the ambassador, which has
\* all the parameters the server knows, and the index that belongs to these rows.
Indexed(r) ==
  /\ r.set = SetWith(r.set.columns, r.set.rows)
  /\ NoneTwice(r.set.rows)
  /\ RowsAre(r.set.rows, r.prototype, r.client)
  /\ r.set.columns \subseteq r.prototype
  /\ r.client # {} => r.set.columns = r.prototype
  /\ \A f \in r.client : Named(f) \subseteq r.prototype

\* A filter whose parameters are known is known by its row.
LEMMA TuplesDiffer ==
  ASSUME NEW columns, NEW f \in Filters, NEW g \in Filters,
         Named(f) \subseteq columns, Named(g) \subseteq columns, Tuple(columns, f) = Tuple(columns, g)
  PROVE  f = g
<1>1. \A p \in columns : f[p] = g[p]
  BY DEF Tuple
<1>2. f.network = g.network /\ f.request = g.request
  BY <1>1 DEF Named, Parameters, NetworkParameters
<1>3. f.id = g.id
  <2>1. CASE f.id = NoId /\ g.id = NoId
    BY <2>1
  <2>2. CASE f.id # NoId \/ g.id # NoId
    BY <1>1, <2>2 DEF Named, Parameters
  <2> QED BY <2>1, <2>2
<1> QED BY <1>2, <1>3 DEF Filters

\* The server's rows with the parameters d, if it knows no filter that lacks them or none at all.
LEMMA PaddedRows ==
  ASSUME NEW r, RtiOK(r), Indexed(r), NEW d \in SUBSET Parameters, r.prototype \subseteq d,
         NEW s, s = r.set.rows, NEW c, c = r.set.columns, NEW q, q = Pad(s, c, d)
  PROVE  /\ s \in Seq(Rows(c)) /\ q \in Seq(Rows(d)) /\ NoneTwice(q)
         /\ RowsAre(q, d, r.client)
<1>1. s \in Seq(Rows(c)) /\ DOMAIN s = 1..Len(s) /\ Len(s) \in Nat
  BY DEF RtiOK, SetOK, Tuples!IsTupleSet, Rows
<1>2. q = [k \in DOMAIN s |-> [p \in d |-> IF p \in c THEN s[k][p] ELSE NoId]]
  BY DEF Pad
<1>3. /\ NoneTwice(s) /\ RowsAre(s, r.prototype, r.client)
      /\ c \subseteq d /\ r.client \subseteq Filters
      /\ r.client # {} => c = r.prototype
      /\ \A f \in r.client : Named(f) \subseteq r.prototype
  BY DEF Indexed, RtiOK
<1>4. \A k \in DOMAIN s : s[k] \in Rows(c)
  BY <1>1
<1>5. \A k \in DOMAIN s : [p \in d |-> IF p \in c THEN s[k][p] ELSE NoId] \in Rows(d)
  BY <1>4 DEF Rows
<1>6. q \in Seq(Rows(d)) /\ DOMAIN q = DOMAIN s
  BY <1>1, <1>2, <1>5
<1>7. NoneTwice(q)
  <2> SUFFICES ASSUME NEW j \in DOMAIN s, NEW k \in DOMAIN s, q[j] = q[k] PROVE j = k
    BY <1>6 DEF NoneTwice
  <2>1. \A p \in c : s[j][p] = s[k][p]
    BY <1>2, <1>3
  <2>2. s[j] = s[k]
    BY <2>1, <1>4 DEF Rows
  <2> QED BY <2>2, <1>3 DEF NoneTwice
<1>8. ASSUME NEW k \in DOMAIN s, NEW f \in r.client, s[k] = Tuple(r.prototype, f)
      PROVE  q[k] = Tuple(d, f)
  <2>1. c = r.prototype /\ f \in Filters /\ Named(f) \subseteq c
    BY <1>3
  <2>2. ASSUME NEW p \in d PROVE (IF p \in c THEN Tuple(c, f)[p] ELSE NoId) = f[p]
    <3>1. CASE p \in c
      BY <3>1 DEF Tuple
    <3>2. CASE p \notin c
      <4>1. p = "id" /\ f.id = NoId
        BY <2>1, <3>2 DEF Named, Parameters, NetworkParameters
      <4> QED BY <3>2, <4>1
    <3> QED BY <3>1, <3>2
  <2>3. q[k] = [p \in d |-> IF p \in c THEN s[k][p] ELSE NoId]
    BY <1>2
  <2>4. q[k] = [p \in d |-> f[p]]
    BY <2>1, <2>2, <2>3, <1>8
  <2> QED BY <2>4 DEF Tuple
<1>9. RowsAre(q, d, r.client)
  <2>1. \A k \in DOMAIN q : \E f \in r.client : q[k] = Tuple(d, f)
    BY <1>3, <1>6, <1>8 DEF RowsAre
  <2>2. \A f \in r.client : \E k \in DOMAIN q : q[k] = Tuple(d, f)
    BY <1>3, <1>6, <1>8 DEF RowsAre
  <2> QED BY <2>1, <2>2 DEF RowsAre
<1> QED BY <1>1, <1>6, <1>7, <1>9

\* A filter is subscribed: its row is the last one.
LEMMA SubscribeIndexed ==
  ASSUME NEW r, RtiOK(r), Indexed(r), NEW f \in Filters
  PROVE  /\ Indexed(SubscribeFilter(r, f))
         /\ SubscribeFilter(r, f).client = r.client \cup {f}
         /\ SubscribeFilter(r, f).active = TRUE
         /\ f \notin r.client => SubscribeFilter(r, f).prototype = r.prototype \cup Named(f)
         /\ f \in r.client => SubscribeFilter(r, f).prototype = r.prototype
<1>1. CASE f \in r.client
  <2>1. SubscribeFilter(r, f) = [r EXCEPT !.active = TRUE]
    BY <1>1 DEF SubscribeFilter
  <2>2. PICK now : now = [r EXCEPT !.active = TRUE]
    OBVIOUS
  <2>3. now.client = r.client /\ now.active = TRUE /\ now.set = r.set /\ now.prototype = r.prototype
    BY <2>2 DEF RtiOK
  <2>4. Indexed(now)
    BY <2>3 DEF Indexed
  <2>5. r.client \cup {f} = r.client
    BY <1>1
  <2> QED BY <1>1, <2>1, <2>2, <2>3, <2>4, <2>5
<1>2. CASE f \notin r.client
  <2>1. PICK d : d = r.prototype \cup Named(f)
    OBVIOUS
  <2>2. PICK t : t = Tuple(d, f)
    OBVIOUS
  <2>3. PICK s : s = r.set.rows
    OBVIOUS
  <2>4. PICK c : c = r.set.columns
    OBVIOUS
  <2>5. PICK q : q = Pad(s, c, d)
    OBVIOUS
  <2>6. d \in SUBSET Parameters /\ t \in Rows(d) /\ r.prototype \subseteq d /\ Named(f) \subseteq d
    <3>1. d \in SUBSET Parameters
      BY <2>1, TupleOK DEF RtiOK
    <3> QED BY <3>1, <2>1, <2>2, TupleOK
  <2>7. s \in Seq(Rows(c)) /\ q \in Seq(Rows(d)) /\ NoneTwice(q) /\ RowsAre(q, d, r.client)
    BY <2>3, <2>4, <2>5, <2>6, PaddedRows
  <2>8. /\ r.set = SetWith(c, s) /\ RowsAre(s, r.prototype, r.client)
        /\ c \subseteq d /\ r.client \subseteq Filters /\ (r.client # {} => c = r.prototype)
        /\ \A g \in r.client : Named(g) \subseteq r.prototype /\ Named(g) \subseteq d
    BY <2>3, <2>4, <2>6 DEF Indexed, RtiOK
  <2>9. \A g \in r.client : Tuple(d, g) # t
    BY <1>2, <2>2, <2>6, <2>8, TuplesDiffer
  <2>10. ~Tuples!HasTuple(r.set, t)
    <3>1. ASSUME NEW k \in DOMAIN s, s[k] = t PROVE FALSE
      <4>1. PICK g \in r.client : s[k] = Tuple(r.prototype, g)
        BY <2>8 DEF RowsAre
      <4>2. DOMAIN s[k] = r.prototype /\ DOMAIN t = d
        BY <4>1, <2>2 DEF Tuple
      <4>3. Tuple(d, g) = t
        BY <4>1, <4>2, <3>1
      <4> QED BY <4>3, <2>9
    <3> QED BY <3>1, <2>3 DEF Tuples!HasTuple
  <2>11. PICK u : u = Append(q, t)
    OBVIOUS
  <2>12. Tuples!AddFilter(r.set, t) = SetWith(d, u)
    BY <2>5, <2>6, <2>7, <2>8, <2>10, <2>11, InsertIsIndexed DEF Tuples!AddFilter
  <2>13. /\ DOMAIN u = 1..(Len(q) + 1) /\ DOMAIN q = 1..Len(q) /\ Len(q) \in Nat /\ u[Len(q) + 1] = t
         /\ \A k \in DOMAIN q : u[k] = q[k]
    BY <2>6, <2>7, <2>11
  <2>14. \A k \in DOMAIN q : q[k] # t
    BY <2>7, <2>9 DEF RowsAre
  <2>15. NoneTwice(u)
    <3> SUFFICES ASSUME NEW j \in DOMAIN u, NEW k \in DOMAIN u, u[j] = u[k] PROVE j = k
      BY DEF NoneTwice
    <3>1. j \in DOMAIN q \/ j = Len(q) + 1
      BY <2>13
    <3>2. k \in DOMAIN q \/ k = Len(q) + 1
      BY <2>13
    <3> QED BY <3>1, <3>2, <2>7, <2>13, <2>14 DEF NoneTwice
  <2>16. RowsAre(u, d, r.client \cup {f})
    <3>1. \A k \in DOMAIN u : k \in DOMAIN q \/ k = Len(q) + 1
      BY <2>13
    <3>2. Len(q) + 1 \in DOMAIN u /\ DOMAIN q \subseteq DOMAIN u
      BY <2>13
    <3>3. \A k \in DOMAIN u : \E g \in r.client \cup {f} : u[k] = Tuple(d, g)
      BY <3>1, <2>2, <2>7, <2>13 DEF RowsAre
    <3>4. \A g \in r.client : \E k \in DOMAIN u : u[k] = Tuple(d, g)
      BY <3>2, <2>7, <2>13 DEF RowsAre
    <3>5. \E k \in DOMAIN u : u[k] = Tuple(d, f)
      BY <3>2, <2>2, <2>13
    <3> QED BY <3>3, <3>4, <3>5 DEF RowsAre
  <2>17. PICK T : T = SetWith(d, u)
    OBVIOUS
  <2>18. T.columns = d /\ T.rows = u
    BY <2>17 DEF SetWith
  <2>19. PICK now : now = [client |-> r.client \cup {f}, active |-> TRUE, set |-> T, prototype |-> d]
    OBVIOUS
  <2>20. SubscribeFilter(r, f) = now
    BY <1>2, <2>1, <2>2, <2>12, <2>17, <2>19 DEF SubscribeFilter
  <2>21. now.client = r.client \cup {f} /\ now.active = TRUE /\ now.set = T /\ now.prototype = d
    BY <2>19
  <2>22. Indexed(now)
    BY <2>6, <2>8, <2>15, <2>16, <2>17, <2>18, <2>21 DEF Indexed
  <2> QED BY <1>2, <2>1, <2>20, <2>21, <2>22
<1> QED BY <1>1, <1>2

\* A filter is unsubscribed: no row is lost but its own, as long as none has a wildcard.
LEMMA UnsubscribeIndexed ==
  ASSUME NEW r, RtiOK(r), Indexed(r), NEW f \in r.client,
         \A g \in r.client : Tuple(r.prototype, g) \in [r.prototype -> Values]
  PROVE  /\ Indexed(UnsubscribeFilter(r, f))
         /\ UnsubscribeFilter(r, f).client = r.client \ {f}
         /\ UnsubscribeFilter(r, f).active = (r.active /\ r.client \ {f} # {})
         /\ UnsubscribeFilter(r, f).prototype = r.prototype
<1>1. PICK c : c = r.prototype
  OBVIOUS
<1>2. PICK s : s = r.set.rows
  OBVIOUS
<1>3. /\ r.set = SetWith(c, s) /\ NoneTwice(s) /\ r.set.columns = c /\ c \in SUBSET Parameters
      /\ RowsAre(s, c, r.client)
      /\ r.client \subseteq Filters /\ \A g \in r.client : Named(g) \subseteq c
  BY <1>1, <1>2 DEF Indexed, RtiOK
<1>4. s \in Seq([c -> Values])
  <2>1. s \in Seq(Rows(c))
    BY <1>2, <1>3 DEF RtiOK, SetOK, Tuples!IsTupleSet, Rows
  <2>2. \A k \in DOMAIN s : s[k] \in [c -> Values]
    BY <1>1, <1>3 DEF RowsAre
  <2> QED BY <2>1, <2>2
<1>5. PICK row \in DOMAIN s : s[row] = Tuple(c, f)
  BY <1>3 DEF RowsAre
<1>6. PICK u \in Seq([c -> Values]) :
        /\ NoneTwice(u) /\ Tuples!Erase(SetWith(c, s), s[row]) = SetWith(c, u)
        /\ {u[k] : k \in DOMAIN u} = {s[k] : k \in DOMAIN s} \ {s[row]}
  BY <1>3, <1>4, EraseIsIndexed
<1>7. Tuples!RemoveFilter(r.set, Tuple(c, f)) = SetWith(c, u)
  <2>1. Tuples!HasTuple(r.set, Tuple(c, f))
    BY <1>2, <1>5 DEF Tuples!HasTuple
  <2> QED BY <2>1, <1>3, <1>5, <1>6 DEF Tuples!RemoveFilter
<1>8. RowsAre(u, c, r.client \ {f})
  <2>1. \A g \in r.client : Tuple(c, g) = Tuple(c, f) => g = f
    BY <1>3, TuplesDiffer
  <2>2. \A k \in DOMAIN u : \E j \in DOMAIN s : u[k] = s[j] /\ s[j] # s[row]
    BY <1>6
  <2>3. ASSUME NEW j \in DOMAIN s, s[j] # s[row] PROVE \E k \in DOMAIN u : u[k] = s[j]
    <3>1. s[j] \in {u[k] : k \in DOMAIN u}
      BY <1>6, <2>3
    <3> QED BY <3>1
  <2>4. \A k \in DOMAIN u : \E g \in r.client \ {f} : u[k] = Tuple(c, g)
    BY <1>3, <1>5, <2>2 DEF RowsAre
  <2>5. \A g \in r.client \ {f} : \E k \in DOMAIN u : u[k] = Tuple(c, g)
    BY <1>3, <1>5, <2>1, <2>3 DEF RowsAre
  <2> QED BY <2>4, <2>5 DEF RowsAre
<1>9. PICK T : T = SetWith(c, u)
  OBVIOUS
<1>10. T.columns = c /\ T.rows = u
  BY <1>9 DEF SetWith
<1>11. PICK now : now = [r EXCEPT !.client = @ \ {f}, !.active = @ /\ r.client \ {f} # {}, !.set = T]
  OBVIOUS
<1>12. UnsubscribeFilter(r, f) = now
  BY <1>1, <1>7, <1>9, <1>11 DEF UnsubscribeFilter
<1>13. /\ now.client = r.client \ {f} /\ now.active = (r.active /\ r.client \ {f} # {})
       /\ now.set = T /\ now.prototype = c
  BY <1>1, <1>11 DEF RtiOK
<1>14. Indexed(now)
  <2>1. now.set = SetWith(now.set.columns, now.set.rows)
    BY <1>9, <1>10, <1>13
  <2>2. NoneTwice(now.set.rows) /\ now.set.columns = now.prototype
    BY <1>6, <1>10, <1>13
  <2>3. RowsAre(now.set.rows, now.prototype, now.client)
    BY <1>8, <1>10, <1>13
  <2>4. \A g \in now.client : Named(g) \subseteq now.prototype
    BY <1>3, <1>13
  <2> QED BY <2>1, <2>2, <2>3, <2>4 DEF Indexed
<1> QED BY <1>1, <1>12, <1>13, <1>14

\* Others name parameters: the set gets them, or keeps those it has.
LEMMA OthersIndexed ==
  ASSUME NEW r, RtiOK(r), Indexed(r), NEW named, named \subseteq Parameters,
         r.client # {} => named \subseteq r.prototype,
         NEW now, now.client = r.client, now.prototype = r.prototype \cup named,
         now.set = r.set \/ now.set = Tuples!SetTupleSize(r.set, r.prototype \cup named)
  PROVE  Indexed(now)
<1>1. PICK d : d = r.prototype \cup named
  OBVIOUS
<1>2. PICK s : s = r.set.rows
  OBVIOUS
<1>3. PICK c : c = r.set.columns
  OBVIOUS
<1>4. PICK q : q = Pad(s, c, d)
  OBVIOUS
<1>5. r.prototype \subseteq d /\ d \subseteq Parameters
  BY <1>1 DEF RtiOK
<1>6. /\ s \in Seq(Rows(c)) /\ NoneTwice(q) /\ RowsAre(q, d, r.client)
  BY <1>2, <1>3, <1>4, <1>5, PaddedRows
<1>7. /\ r.set = SetWith(c, s) /\ NoneTwice(s) /\ c \subseteq d
      /\ RowsAre(s, r.prototype, r.client)
      /\ r.client # {} => c = d /\ r.prototype = d
      /\ \A f \in r.client : Named(f) \subseteq d
  BY <1>1, <1>2, <1>3, <1>5 DEF Indexed
<1>8. CASE now.set = r.set
  <2>1. RowsAre(s, d, r.client)
    <3>1. CASE r.client = {}
      BY <3>1, <1>7 DEF RowsAre
    <3>2. CASE r.client # {}
      BY <3>2, <1>7
    <3> QED BY <3>1, <3>2
  <2> QED BY <1>1, <1>2, <1>3, <1>7, <1>8, <2>1 DEF Indexed
<1>9. CASE now.set = Tuples!SetTupleSize(r.set, d)
  <2>1. now.set = SetWith(d, q)
    BY <1>4, <1>6, <1>7, <1>9, ResizeIsIndexed
  <2>2. PICK T : T = SetWith(d, q)
    OBVIOUS
  <2>3. T.columns = d /\ T.rows = q
    BY <2>2 DEF SetWith
  <2> QED BY <1>1, <1>6, <1>7, <2>1, <2>2, <2>3 DEF Indexed
<1> QED BY <1>1, <1>8, <1>9

\* The server passes on what a filter of the ambassador covers, and nothing else.
LEMMA DeliveredIsExact ==
  ASSUME RtiOK(rti), Indexed(rti), rti.active <=> rti.client # {},
         NEW m, m.network \in Networks, m.request \in BOOLEAN, m.id \in MessageIds
  PROVE  Delivered(m) <=> \E f \in rti.client : Covers(f, m)
<1>1. CASE rti.client = {}
  BY <1>1 DEF Delivered
<1>2. CASE rti.client # {}
  <2>1. PICK c : c = rti.prototype
    OBVIOUS
  <2>2. PICK s : s = rti.set.rows
    OBVIOUS
  <2>3. /\ rti.set = SetWith(c, s) /\ c \in SUBSET Parameters
        /\ RowsAre(s, c, rti.client)
        /\ rti.client \subseteq Filters /\ \A f \in rti.client : Named(f) \subseteq c
    BY <1>2, <2>1, <2>2 DEF Indexed, RtiOK
  <2>4. s \in Seq(Rows(c))
    BY <1>2, <2>1, <2>2 DEF RtiOK, Indexed, SetOK, Tuples!IsTupleSet, Rows
  <2>5. NetworkParameters \subseteq c
    BY <1>2, <2>3 DEF Named, Parameters
  <2>6. PICK t : t = Tuple(c, m)
    OBVIOUS
  <2>7. t \in [c -> Values] /\ c # {} /\ \A p \in c : t[p] = m[p]
    <3>1. \A p \in c : m[p] \in Values
      BY <2>3 DEF Parameters, NetworkParameters, Values
    <3> QED BY <3>1, <2>5, <2>6 DEF Tuple, NetworkParameters
  <2>8. ASSUME NEW f \in rti.client
        PROVE  (\A p \in c : Tuple(c, f)[p] \in {NoId, t[p]}) <=> Covers(f, m)
    <3>1. f \in Filters /\ Named(f) \subseteq c
      BY <2>3
    <3>2. \A p \in c : Tuple(c, f)[p] = f[p]
      BY DEF Tuple
    <3>3. f.network # NoId /\ f.request # NoId
      BY <3>1, NetworksAssumption DEF Filters, Values
    <3>4. (\A p \in c : f[p] \in {NoId, m[p]}) => Covers(f, m)
      <4>1. ASSUME \A p \in c : f[p] \in {NoId, m[p]} PROVE Covers(f, m)
        <5>1. f.network = m.network /\ f.request = m.request
          BY <4>1, <2>5, <3>3 DEF NetworkParameters
        <5>2. f.id \in {NoId, m.id}
          BY <4>1, <3>1 DEF Named, Parameters
        <5> QED BY <5>1, <5>2 DEF Covers
      <4> QED BY <4>1
    <3>5. Covers(f, m) => \A p \in c : f[p] \in {NoId, m[p]}
      BY <2>3 DEF Covers, Parameters, NetworkParameters
    <3> QED BY <2>7, <3>2, <3>4, <3>5
  <2>9. (\E k \in DOMAIN s : \A p \in c : s[k][p] \in {NoId, t[p]}) <=> \E f \in rti.client : Covers(f, m)
    <3> QED BY <2>3, <2>8 DEF RowsAre
  <2>10. Tuples!FindNormalized(rti.set, t) <=> \E f \in rti.client : Covers(f, m)
    BY <2>3, <2>4, <2>7, <2>9, FindIsExact
  <2>11. rti.set.rows # <<>> /\ rti.set # Tuples!EmptySet
    <3>1. DOMAIN s # {}
      BY <1>2, <2>3 DEF RowsAre
    <3>2. s # <<>>
      BY <3>1
    <3> QED BY <3>2, <2>2 DEF Tuples!EmptySet
  <2> QED BY <1>2, <2>1, <2>6, <2>10, <2>11 DEF Delivered, Matches
<1> QED BY <1>1, <1>2
-----------------------------------------------------------------------------
(* Filters.                                                                     *)

\* No network has handlers for messages and for requests, the application does not
\* register or unregister while it waits for the measurement, when the service takes the
\* federation for not joined, and filters with an id and filters without one come together
\* at the RTI only if none is taken back: erasing loses rows with a wildcard, and others
\* that are the first to name the id leave the set as it is.
Careful ==
  /\ RxTx \cap TxReq = {}
  /\ "WaitForMeasurementInit" \notin RegisterIn \cup UnregisterIn
  /\ Uses \subseteq {"networks", "ids", "keeps"}

\* The filters of the handlers.
Filtered == {h.filter : h \in handlers}

\* The networks and the ids that filters name.
NetworksOf(F) == {f.network : f \in {g \in F : g.id = NoId}}
IdsOf(F) == {<<f.network, f.id>> : f \in {g \in F : g.id # NoId}}

\* What the service remembers and what the ambassador has agree.
Agree(r, s) ==
  /\ r.active <=> r.client # {}
  /\ s.networks = NetworksOf(r.client)
  /\ s.ids = IdsOf(r.client)

\* What a federate uses together: no id is known where filters are of networks only.
UseInv ==
  /\ use \in {"networks", "ids", "keeps"}
  /\ \A f \in Filtered : MayWant(f)
  /\ use = "networks" => "id" \notin rti.prototype

\* Nothing is subscribed before the federation is joined; then some of the filters are,
\* those of handlers registered meanwhile, and all once OnJoined has subscribed the others.
ClientInv ==
  /\ rti.client \subseteq Filtered
  /\ mState \in {"Offline", "Connected"} => rti.client = {}
  /\ mState \in {"WaitForMeasurementInit", "Online"} => rti.client = Filtered
  /\ dispatch.stage = "subscribe" => /\ mState = "InitFederate" /\ dispatch.todo \subseteq Filtered
                                     /\ Filtered \subseteq rti.client \cup dispatch.todo

FiltersInv == Agree(rti, subscriptions) /\ Indexed(rti) /\ UseInv /\ ClientInv

\* A filter is known by its network and its id.
LEMMA WantedAreDetermined ==
  ASSUME NEW f \in Wanted, NEW g \in Wanted, f.network = g.network, f.id = g.id,
         f.id # NoId \/ RxTx \cap TxReq = {}
  PROVE  f = g
<1>1. /\ f \in Filters /\ g \in Filters
  BY WantedAreFilters
<1>2. f.request = g.request
  BY NetworksAssumption DEF Wanted, Values
<1> QED BY <1>1, <1>2 DEF Filters

\* A subscription as the invariants need it.
LEMMA RtiIsOK ==
  ASSUME TypeInv, FiltersInv
  PROVE  /\ RtiOK(rti) /\ Indexed(rti) /\ Agree(rti, subscriptions)
         /\ rti.client \subseteq Wanted /\ Filtered \subseteq Wanted
<1>1. /\ RtiOK(rti) /\ rti.client \subseteq Filters
  BY DEF TypeInv, TypeOK, RtiOK, SetOK
<1>2. Filtered \subseteq Wanted
  BY DEF TypeInv, HandleInv, Filtered
<1>3. /\ rti.client \subseteq Filtered /\ Indexed(rti) /\ Agree(rti, subscriptions)
  BY DEF FiltersInv, ClientInv
<1> QED BY <1>1, <1>2, <1>3

\* A filter that may be wanted names no id where none is known.
LEMMA UseKept ==
  ASSUME UseInv, use' = use, \A f \in Filtered' \ Filtered : MayWant(f),
         "id" \in rti'.prototype => "id" \in rti.prototype \/ use # "networks"
  PROVE  UseInv'
BY DEF UseInv, MayWant

\* SubscribeNetwork and SubscribeMessageId: the filter is at the ambassador and at the server.
LEMMA SubscribeAgrees ==
  ASSUME TypeInv, FiltersInv, NEW f \in Wanted, MayWant(f), Subscribe(f)
  PROVE  /\ Agree(rti', subscriptions') /\ Indexed(rti') /\ rti'.client = rti.client \cup {f}
         /\ "id" \in rti'.prototype => "id" \in rti.prototype \/ use # "networks"
<1>1. /\ RtiOK(rti) /\ Indexed(rti) /\ Agree(rti, subscriptions)
      /\ rti.client \subseteq Wanted /\ f \in Filters
  BY RtiIsOK, WantedAreFilters
<1>2. subscriptions \in Subscriptions
  BY DEF TypeInv, TypeOK, Subscriptions
<1>3. CASE f.id # NoId /\ IsMessageSubscribed(f.network, f.id)
  <2>1. rti' = rti
    BY <1>3 DEF Subscribe
  <2>2. <<f.network, f.id>> \in IdsOf(rti.client)
    BY <1>1, <1>3 DEF IsMessageSubscribed, Agree
  <2>3. PICK g \in rti.client : g.network = f.network /\ g.id = f.id
    BY <2>2 DEF IdsOf
  <2>4. f \in rti.client
    BY <1>1, <1>3, <2>3, WantedAreDetermined
  <2>5. subscriptions' = [subscriptions EXCEPT !.ids = @ \cup {<<f.network, f.id>>}]
    BY <1>3 DEF Subscribe
  <2>6. subscriptions'.networks = subscriptions.networks /\ subscriptions'.ids = subscriptions.ids
    BY <2>5, <1>2, <1>3 DEF Subscriptions, IsMessageSubscribed
  <2>7. Agree(rti', subscriptions')
    BY <1>1, <2>1, <2>6 DEF Agree
  <2>8. rti'.client = rti.client \cup {f}
    BY <2>1, <2>4
  <2> QED BY <1>1, <2>1, <2>7, <2>8
<1>4. CASE ~(f.id # NoId /\ IsMessageSubscribed(f.network, f.id))
  <2>1. rti' = SubscribeFilter(rti, f)
    BY <1>4 DEF Subscribe
  <2>2. Indexed(rti') /\ rti'.client = rti.client \cup {f} /\ rti'.active = TRUE
        /\ (rti'.prototype = rti.prototype \cup Named(f) \/ rti'.prototype = rti.prototype)
    BY <1>1, <2>1, SubscribeIndexed
  <2>3. CASE f.id = NoId
    <3>1. subscriptions' = [subscriptions EXCEPT !.networks = @ \cup {f.network}]
      BY <2>3 DEF Subscribe
    <3>2. /\ subscriptions'.networks = subscriptions.networks \cup {f.network}
          /\ subscriptions'.ids = subscriptions.ids
      BY <3>1, <1>2 DEF Subscriptions
    <3>3. /\ NetworksOf(rti.client \cup {f}) = NetworksOf(rti.client) \cup {f.network}
          /\ IdsOf(rti.client \cup {f}) = IdsOf(rti.client)
      BY <2>3 DEF NetworksOf, IdsOf
    <3>4. Agree(rti', subscriptions')
      BY <1>1, <2>2, <3>2, <3>3 DEF Agree
    <3>5. "id" \notin Named(f)
      BY <2>3 DEF Named, NetworkParameters
    <3> QED BY <2>2, <3>4, <3>5
  <2>4. CASE f.id # NoId
    <3>1. subscriptions' = [subscriptions EXCEPT !.ids = @ \cup {<<f.network, f.id>>}]
      BY <2>4 DEF Subscribe
    <3>2. /\ subscriptions'.ids = subscriptions.ids \cup {<<f.network, f.id>>}
          /\ subscriptions'.networks = subscriptions.networks
      BY <3>1, <1>2 DEF Subscriptions
    <3>3. /\ IdsOf(rti.client \cup {f}) = IdsOf(rti.client) \cup {<<f.network, f.id>>}
          /\ NetworksOf(rti.client \cup {f}) = NetworksOf(rti.client)
      BY <2>4 DEF NetworksOf, IdsOf
    <3>4. Agree(rti', subscriptions')
      BY <1>1, <2>2, <3>2, <3>3 DEF Agree
    <3>5. use # "networks"
      BY <2>4 DEF MayWant
    <3> QED BY <2>2, <3>4, <3>5
  <2> QED BY <2>3, <2>4
<1> QED BY <1>3, <1>4

\* Where filters are taken back, no row has a wildcard.
LEMMA NoWildcardRows ==
  ASSUME TypeInv, FiltersInv, use # "keeps", NEW f \in rti.client
  PROVE  Tuple(rti.prototype, f) \in [rti.prototype -> Values]
<1>1. /\ rti.prototype \subseteq Parameters /\ f \in Filters
      /\ MayWant(f) /\ use \in {"networks", "ids"} /\ (use = "networks" => "id" \notin rti.prototype)
  BY RtiIsOK, WantedAreFilters DEF FiltersInv, UseInv, ClientInv, RtiOK
<1>2. ASSUME NEW p \in rti.prototype PROVE f[p] \in Values
  <2>1. CASE p = "id"
    <3>1. f.id # NoId
      BY <1>1, <1>2, <2>1 DEF MayWant
    <3> QED BY <1>1, <2>1, <3>1 DEF Filters, Values
  <2>2. CASE p # "id"
    BY <1>1, <2>2 DEF Parameters, NetworkParameters, Filters, Values
  <2> QED BY <2>1, <2>2
<1> QED BY <1>2 DEF Tuple

\* Without the filter f, if it was the only one of its network and id.
LEMMA UnsubscribeAgrees ==
  ASSUME TypeInv, FiltersInv, Careful, IsFederationJoined, use # "keeps", NEW f \in Filtered,
         NEW u, u = IF f.id = NoId THEN UnsubscribeNetwork(f) ELSE UnsubscribeMessageId(f)
  PROVE  /\ Agree(u.rti, u.subs) /\ Indexed(u.rti)
         /\ u.rti.client = rti.client \ {f} /\ u.rti.prototype = rti.prototype
<1>1. \A g \in rti.client : g.network = f.network /\ g.id = f.id => g = f
  BY RtiIsOK, WantedAreDetermined DEF Careful
<1>2. /\ RtiOK(rti) /\ Indexed(rti) /\ Agree(rti, subscriptions)
      /\ subscriptions \in Subscriptions
  BY RtiIsOK DEF TypeInv, TypeOK, Subscriptions
<1>3. PICK left : left = rti.client \ {f}
  OBVIOUS
<1>4. PICK now : now = UnsubscribeFilter(rti, f)
  OBVIOUS
<1>5. f \in rti.client => /\ Indexed(now) /\ now.client = left /\ now.prototype = rti.prototype
                          /\ now.active <=> left # {}
  <2>1. SUFFICES ASSUME f \in rti.client
                 PROVE  /\ Indexed(now) /\ now.client = left /\ now.prototype = rti.prototype
                        /\ now.active <=> left # {}
    OBVIOUS
  <2>2. rti.active
    BY <1>2, <2>1 DEF Agree
  <2> QED BY <1>2, <1>3, <1>4, <2>1, <2>2, NoWildcardRows, UnsubscribeIndexed
<1>6. CASE f.id = NoId
  <2>1. f.network \in subscriptions.networks <=> f \in rti.client
    BY <1>1, <1>2, <1>6 DEF Agree, NetworksOf
  <2>2. CASE f \in rti.client
    <3>1. PICK s : s = [subscriptions EXCEPT !.networks = @ \ {f.network}]
      OBVIOUS
    <3>2. u = [rti |-> now, subs |-> s]
      BY <2>1, <2>2, <1>4, <1>6, <3>1 DEF UnsubscribeNetwork, IsNetworkSubscribed
    <3>3. s.networks = subscriptions.networks \ {f.network} /\ s.ids = subscriptions.ids
      BY <3>1, <1>2 DEF Subscriptions
    <3>4. NetworksOf(left) = NetworksOf(rti.client) \ {f.network}
      BY <1>1, <1>3, <1>6 DEF NetworksOf
    <3>5. IdsOf(left) = IdsOf(rti.client)
      BY <1>3, <1>6 DEF IdsOf
    <3>6. Agree(now, s)
      BY <1>2, <1>5, <2>2, <3>3, <3>4, <3>5 DEF Agree
    <3>7. u.rti = now /\ u.subs = s
      BY <3>2
    <3> QED BY <1>3, <1>5, <2>2, <3>6, <3>7
  <2>3. CASE f \notin rti.client
    <3>1. u = [rti |-> rti, subs |-> subscriptions]
      BY <2>1, <2>3, <1>6 DEF UnsubscribeNetwork, IsNetworkSubscribed
    <3>2. u.rti = rti /\ u.subs = subscriptions
      BY <3>1
    <3> QED BY <1>2, <2>3, <3>2
  <2> QED BY <2>2, <2>3
<1>7. CASE f.id # NoId
  <2>1. <<f.network, f.id>> \in subscriptions.ids <=> f \in rti.client
    BY <1>1, <1>2, <1>7 DEF Agree, IdsOf
  <2>2. CASE f \in rti.client
    <3>1. PICK s : s = [subscriptions EXCEPT !.ids = @ \ {<<f.network, f.id>>}]
      OBVIOUS
    <3>2. u = [rti |-> now, subs |-> s]
      BY <2>1, <2>2, <1>4, <1>7, <3>1 DEF UnsubscribeMessageId, IsMessageSubscribed
    <3>3. s.networks = subscriptions.networks /\ s.ids = subscriptions.ids \ {<<f.network, f.id>>}
      BY <3>1, <1>2 DEF Subscriptions
    <3>4. NetworksOf(left) = NetworksOf(rti.client)
      BY <1>3, <1>7 DEF NetworksOf
    <3>5. IdsOf(left) = IdsOf(rti.client) \ {<<f.network, f.id>>}
      BY <1>1, <1>3, <1>7 DEF IdsOf
    <3>6. Agree(now, s)
      BY <1>2, <1>5, <2>2, <3>3, <3>4, <3>5 DEF Agree
    <3>7. u.rti = now /\ u.subs = s
      BY <3>2
    <3> QED BY <1>3, <1>5, <2>2, <3>6, <3>7
  <2>3. CASE f \notin rti.client
    <3>1. u = [rti |-> rti, subs |-> subscriptions]
      BY <2>1, <2>3, <1>7 DEF UnsubscribeMessageId, IsMessageSubscribed
    <3>2. u.rti = rti /\ u.subs = subscriptions
      BY <3>1
    <3> QED BY <1>2, <2>3, <3>2
  <2> QED BY <2>2, <2>3
<1> QED BY <1>6, <1>7

\* A handler is registered: its filter is subscribed, or will be by OnJoined.
LEMMA RegisterFilters ==
  ASSUME TypeInv, FiltersInv, Careful, NEW f \in Wanted, Register(f)
  PROVE  FiltersInv'
<1>1. /\ Filtered' = Filtered \cup {f} /\ mState' = mState /\ mState \in RegisterIn
      /\ MayWant(f) /\ use' = use /\ dispatch' = dispatch /\ dispatch.stage # "subscribe"
  <2>1. PICK h : h = [handle |-> NewHandle, filter |-> f]
    OBVIOUS
  <2>2. /\ handlers' = handlers \cup {h} /\ mState' = mState /\ mState \in RegisterIn
        /\ MayWant(f) /\ use' = use /\ dispatch' = dispatch /\ Between("register")
    BY <2>1 DEF Register
  <2>3. h.filter = f
    BY <2>1
  <2> QED BY <2>2, <2>3 DEF Filtered, Between
<1>2. CASE IsFederationJoined
  <2>1. Subscribe(f)
    BY <1>2 DEF Register
  <2>2. /\ Agree(rti', subscriptions') /\ Indexed(rti') /\ rti'.client = rti.client \cup {f}
        /\ "id" \in rti'.prototype => "id" \in rti.prototype \/ use # "networks"
    BY <1>1, <2>1, SubscribeAgrees
  <2>3. UseInv'
    BY <1>1, <2>2, UseKept DEF FiltersInv
  <2>4. ClientInv'
    BY <1>1, <1>2, <2>2 DEF FiltersInv, ClientInv, IsFederationJoined
  <2> QED BY <2>2, <2>3, <2>4 DEF FiltersInv
<1>3. CASE ~IsFederationJoined
  <2>1. rti' = rti /\ subscriptions' = subscriptions
    BY <1>3 DEF Register
  <2>2. mState \in {"Offline", "Connected"}
    BY <1>1, <1>3 DEF Careful, IsFederationJoined, TypeInv, TypeOK, States
  <2>3. UseInv'
    BY <1>1, <2>1, UseKept DEF FiltersInv
  <2>4. ClientInv'
    BY <1>1, <2>1, <2>2 DEF FiltersInv, ClientInv
  <2> QED BY <2>1, <2>3, <2>4 DEF FiltersInv
<1> QED BY <1>2, <1>3

\* A handler is unregistered: its filter goes with the last handler that has it.
LEMMA UnregisterFilters ==
  ASSUME TypeInv, FiltersInv, Careful, NEW h \in handlers, Unregister(h)
  PROVE  FiltersInv'
<1>1. PICK left : left = handlers \ {h}
  OBVIOUS
<1>2. PICK last \in BOOLEAN : last <=> \A g \in left : g.filter # h.filter
  OBVIOUS
<1>3. PICK unsub : unsub = IF ~last THEN [rti |-> rti, subs |-> subscriptions]
                           ELSE IF h.filter.id = NoId THEN UnsubscribeNetwork(h.filter)
                           ELSE UnsubscribeMessageId(h.filter)
  OBVIOUS
<1>4. /\ handlers' = left /\ mState' = mState /\ mState \in UnregisterIn
      /\ use' = use /\ dispatch' = dispatch /\ Between("unregister") /\ MayUnregister
      /\ subscriptions' = unsub.subs
      /\ rti' = IF left = {} THEN UnsubscribeClass(unsub.rti) ELSE unsub.rti
  BY <1>1, <1>2, <1>3 DEF Unregister, callVars
<1>5. Filtered' = IF last THEN Filtered \ {h.filter} ELSE Filtered
  BY <1>1, <1>2, <1>4 DEF Filtered
<1>6. h.filter \in Filtered
  BY DEF Filtered
<1>7. /\ Agree(rti, subscriptions) /\ Indexed(rti) /\ RtiOK(rti) /\ rti.client \subseteq Filtered
      /\ subscriptions \in Subscriptions
  BY RtiIsOK DEF FiltersInv, ClientInv, TypeInv, TypeOK, Subscriptions
<1>8. /\ Agree(unsub.rti, unsub.subs) /\ Indexed(unsub.rti) /\ RtiOK(unsub.rti)
      /\ unsub.rti.client = IF last THEN rti.client \ {h.filter} ELSE rti.client
      /\ unsub.rti.prototype = rti.prototype
  <2>1. RtiOK(unsub.rti)
    BY <1>3, <1>7, UnsubscribeTypes
  <2>2. CASE ~last
    BY <2>1, <2>2, <1>3, <1>7
  <2>3. CASE last /\ IsFederationJoined
    <3>1. use # "keeps"
      BY <2>3, <1>4 DEF MayUnregister, Joined, IsFederationJoined
    <3>2. unsub = IF h.filter.id = NoId THEN UnsubscribeNetwork(h.filter) ELSE UnsubscribeMessageId(h.filter)
      BY <2>3, <1>3
    <3> QED BY <2>1, <2>3, <3>1, <3>2, <1>6, UnsubscribeAgrees
  <2>4. CASE last /\ ~IsFederationJoined
    <3>1. mState \in {"Offline", "Connected"}
      BY <2>4, <1>4 DEF Careful, IsFederationJoined, TypeInv, TypeOK, States
    <3>2. rti.client = {}
      BY <3>1 DEF FiltersInv, ClientInv
    <3>3. unsub = [rti |-> rti, subs |-> subscriptions]
      BY <2>4, <1>3 DEF UnsubscribeNetwork, UnsubscribeMessageId
    <3> QED BY <1>7, <3>2, <3>3
  <2> QED BY <2>2, <2>3, <2>4
<1>9. unsub.rti.client \subseteq Filtered'
  BY <1>5, <1>7, <1>8
<1>10. /\ Agree(rti', subscriptions') /\ Indexed(rti') /\ rti'.client = unsub.rti.client
       /\ rti'.prototype = rti.prototype
  <2>1. CASE left = {}
    <3>1. unsub.rti.client = {}
      BY <2>1, <1>4, <1>9 DEF Filtered
    <3>2. unsub.rti.active = FALSE
      BY <3>1, <1>8 DEF Agree, RtiOK
    <3>3. UnsubscribeClass(unsub.rti) = unsub.rti
      BY <3>2, <1>8 DEF UnsubscribeClass, RtiOK
    <3> QED BY <2>1, <3>3, <1>4, <1>8
  <2>2. CASE left # {}
    BY <2>2, <1>4, <1>8
  <2> QED BY <2>1, <2>2
<1>11. UseInv'
  BY <1>4, <1>5, <1>10, UseKept DEF FiltersInv
<1>12. ClientInv'
  <2>1. dispatch'.stage # "subscribe"
    BY <1>4 DEF Between
  <2> QED BY <2>1, <1>4, <1>5, <1>8, <1>9, <1>10 DEF FiltersInv, ClientInv
<1> QED BY <1>10, <1>11, <1>12 DEF FiltersInv

\* Others do not name the id where an own filter lacks it.
LEMMA OthersSubscribeFilters ==
  ASSUME TypeInv, FiltersInv, NEW named \in OthersName, NEW first \in BOOLEAN, OthersSubscribe(named, first)
  PROVE  FiltersInv'
<1>1. PICK d : d = rti.prototype \cup named
  OBVIOUS
<1>2. PICK T : T = IF first \/ rti.set = Tuples!EmptySet THEN rti.set ELSE Tuples!SetTupleSize(rti.set, d)
  OBVIOUS
<1>3. /\ rti' = [rti EXCEPT !.prototype = d, !.set = T]
      /\ UNCHANGED <<use, mState, handlers, subscriptions, dispatch>>
  BY <1>1, <1>2 DEF OthersSubscribe, callVars
<1>4. RtiOK(rti) /\ Indexed(rti) /\ Agree(rti, subscriptions) /\ rti.client \subseteq Filters
  BY RtiIsOK, WantedAreFilters
<1>5. /\ rti'.client = rti.client /\ rti'.active = rti.active /\ rti'.prototype = d /\ rti'.set = T
  BY <1>3, <1>4 DEF RtiOK
<1>6. named \subseteq Parameters /\ (named = NetworkParameters \/ use \in {"ids", "otherIds"})
  BY DEF OthersName, Parameters
<1>7. ASSUME rti.client # {} PROVE named \subseteq rti.prototype
  <2>1. PICK f \in rti.client : TRUE
    BY <1>7
  <2>2. Named(f) \subseteq rti.prototype /\ MayWant(f)
    BY <1>4 DEF Indexed, FiltersInv, UseInv, ClientInv
  <2>3. CASE named = NetworkParameters
    BY <2>2, <2>3 DEF Named, Parameters
  <2>4. CASE use \in {"ids", "otherIds"}
    <3>1. f.id # NoId
      BY <2>2, <2>4 DEF MayWant, FiltersInv, UseInv
    <3> QED BY <2>2, <3>1, <1>6 DEF Named
  <2> QED BY <1>6, <2>3, <2>4
<1>8. Indexed(rti')
  BY <1>1, <1>2, <1>4, <1>5, <1>6, <1>7, OthersIndexed
<1>9. Filtered' = Filtered
  BY <1>3 DEF Filtered
<1>10. "id" \in rti'.prototype => "id" \in rti.prototype \/ use # "networks"
  BY <1>1, <1>5, <1>6 DEF NetworkParameters
<1>11. UseInv'
  BY <1>3, <1>9, <1>10, UseKept DEF FiltersInv
<1>12. Agree(rti', subscriptions') /\ ClientInv'
  BY <1>3, <1>4, <1>5, <1>9 DEF FiltersInv, Agree, ClientInv
<1> QED BY <1>8, <1>11, <1>12 DEF FiltersInv

\* With an empty set and without filters.
LEMMA NotSubscribedFilters ==
  /\ Agree(NotSubscribed, [networks |-> {}, ids |-> {}]) /\ Indexed(NotSubscribed)
  /\ NotSubscribed.client = {} /\ NotSubscribed.prototype = {}
<1>1. /\ NotSubscribed.client = {} /\ NotSubscribed.active = FALSE
      /\ NotSubscribed.set = Tuples!EmptySet /\ NotSubscribed.prototype = {}
  BY DEF NotSubscribed
<1>2. /\ Tuples!EmptySet = SetWith({}, <<>>)
      /\ Tuples!EmptySet.columns = {} /\ Tuples!EmptySet.rows = <<>>
  BY EmptyIsIndexed DEF Tuples!EmptySet
<1>3. DOMAIN <<>> = {}
  OBVIOUS
<1>4. Indexed(NotSubscribed)
  BY <1>1, <1>2, <1>3 DEF Indexed, NoneTwice, RowsAre
<1> QED BY <1>1, <1>4 DEF Agree, NetworksOf, IdsOf

\* The federation is left: nothing is subscribed or remembered.
LEMMA LeaveFilters ==
  ASSUME FiltersInv, Leave
  PROVE  FiltersInv'
<1>1. /\ mState' = "Offline" /\ rti' = NotSubscribed
      /\ subscriptions' = [networks |-> {}, ids |-> {}]
      /\ UNCHANGED <<use, handlers, dispatch>> /\ dispatch.stage = "none"
  BY DEF Leave, keptByStates
<1>2. Agree(rti', subscriptions') /\ Indexed(rti') /\ rti'.client = {} /\ rti'.prototype = {}
  BY <1>1, NotSubscribedFilters
<1>3. Filtered' = Filtered
  BY <1>1 DEF Filtered
<1>4. UseInv'
  BY <1>1, <1>2, <1>3, UseKept DEF FiltersInv
<1>5. ClientInv'
  BY <1>1, <1>2 DEF ClientInv
<1> QED BY <1>2, <1>4, <1>5 DEF FiltersInv

LEMMA InitFilters ==
  ASSUME Careful, Init
  PROVE  FiltersInv
<1>1. /\ mState = "Offline" /\ rti = NotSubscribed /\ handlers = {}
      /\ subscriptions = [networks |-> {}, ids |-> {}]
      /\ use \in {"networks", "ids", "keeps"} /\ dispatch.stage = "none"
  BY DEF Init, Careful, Idle
<1>2. Agree(rti, subscriptions) /\ Indexed(rti) /\ rti.client = {} /\ rti.prototype = {}
  BY <1>1, NotSubscribedFilters
<1>3. UseInv /\ ClientInv
  BY <1>1, <1>2 DEF UseInv, ClientInv, Filtered
<1> QED BY <1>2, <1>3 DEF FiltersInv

\* OnJoined subscribes what is registered, one filter after another.
LEMMA OnJoinedFilters ==
  ASSUME TypeInv, FiltersInv, OnJoined
  PROVE  FiltersInv'
<1>1. /\ mState = "InitFederate" /\ mState' = mState
      /\ dispatch' = [stage |-> "subscribe", msg |-> <<>>, at |-> 0, todo |-> Filtered, called |-> {}]
      /\ UNCHANGED <<use, handlers, subscriptions, rti>>
  BY DEF OnJoined, Idle, Filtered
<1>2. dispatch'.todo = Filtered /\ Filtered' = Filtered
  BY <1>1 DEF Filtered
<1>3. ClientInv'
  BY <1>1, <1>2 DEF FiltersInv, ClientInv
<1>4. UseInv'
  BY <1>1, <1>2, UseKept DEF FiltersInv
<1> QED BY <1>1, <1>3, <1>4 DEF FiltersInv

LEMMA SubscribeNextFilters ==
  ASSUME TypeInv, FiltersInv, NEW f \in Wanted, SubscribeNext(f)
  PROVE  FiltersInv'
<1>1. /\ dispatch.stage = "subscribe" /\ f \in dispatch.todo /\ Subscribe(f)
      /\ dispatch' = [dispatch EXCEPT !.todo = @ \ {f}]
      /\ UNCHANGED <<use, mState, handlers>>
  BY DEF SubscribeNext
<1>2. f \in Filtered
  BY <1>1 DEF FiltersInv, ClientInv
<1>3. /\ Agree(rti', subscriptions') /\ Indexed(rti') /\ rti'.client = rti.client \cup {f}
      /\ "id" \in rti'.prototype => "id" \in rti.prototype \/ use # "networks"
  BY <1>1, <1>2, SubscribeAgrees DEF FiltersInv, UseInv
<1>4. dispatch'.todo = dispatch.todo \ {f}
  BY <1>1 DEF TypeInv, TypeOK
<1>5. Filtered' = Filtered
  BY <1>1 DEF Filtered
<1>6. UseInv'
  BY <1>1, <1>3, <1>5, UseKept DEF FiltersInv
<1>7. ClientInv'
  BY <1>1, <1>2, <1>3, <1>4, <1>5 DEF FiltersInv, ClientInv
<1> QED BY <1>3, <1>6, <1>7 DEF FiltersInv

LEMMA EndOnJoinedFilters ==
  ASSUME TypeInv, FiltersInv, EndOnJoined
  PROVE  FiltersInv'
<1>1. /\ dispatch.stage = "subscribe" /\ dispatch.todo = {} /\ dispatch' = Idle
      /\ UNCHANGED <<use, handlers, subscriptions, rti>>
  BY DEF EndOnJoined
<1>2. dispatch'.stage = "none" /\ Filtered' = Filtered
  BY <1>1 DEF Filtered, Idle
<1>3. rti.client = Filtered
  BY <1>1 DEF FiltersInv, ClientInv
<1>4. mState' \in {"WaitForMeasurementInit", "Online"}
  BY DEF EndOnJoined
<1>5. ClientInv'
  BY <1>1, <1>2, <1>3, <1>4 DEF ClientInv
<1>6. UseInv'
  BY <1>1, <1>2, UseKept DEF FiltersInv
<1> QED BY <1>1, <1>5, <1>6 DEF FiltersInv

\* The other steps leave the filters alone.
LEMMA OtherFilters ==
  ASSUME TypeInv, FiltersInv, UNCHANGED <<use, handlers, subscriptions, rti>>,
         dispatch' = dispatch \/ dispatch'.stage # "subscribe",
         \/ mState' = mState
         \/ mState = "Offline" /\ mState' = "Connected"
         \/ mState = "Connected" /\ mState' = "InitFederate"
         \/ mState = "WaitForMeasurementInit" /\ mState' = "Online"
  PROVE  FiltersInv'
<1>1. Filtered' = Filtered
  BY DEF Filtered
<1>2. UseInv'
  BY <1>1, UseKept DEF FiltersInv
<1>3. ClientInv'
  BY <1>1 DEF FiltersInv, ClientInv
<1> QED BY <1>2, <1>3 DEF FiltersInv

\* Callbacks leave the filters alone.
LEMMA CallbackFilters ==
  ASSUME TypeInv, FiltersInv, evokeCallback
  PROVE  FiltersInv'
<1>1. UNCHANGED <<use, mState, handlers, subscriptions, rti>>
  BY DEF evokeCallback, ReservationCompleted, receiveInteraction, NextGeneric, NextByID, EndReceive,
     keptByCallbacks
<1>2. dispatch' = dispatch \/ dispatch'.stage # "subscribe"
  <2>1. CASE ReservationCompleted
    BY <2>1 DEF ReservationCompleted
  <2>2. CASE receiveInteraction
    BY <2>2 DEF receiveInteraction, Idle
  <2>3. CASE NextGeneric
    <3>1. dispatch \in Dispatching
      BY <2>3 DEF NextGeneric, TypeInv, TypeOK, Dispatching
    <3>2. PICK next : next = {i \in Handles(GenericHandlers(dispatch.msg)) : i > dispatch.at}
      OBVIOUS
    <3>3. PICK least, byId : least = Least(next) /\ byId = Handles(HandlersByID(dispatch.msg))
      OBVIOUS
    <3>4. \/ dispatch' = Idle
          \/ dispatch' = [dispatch EXCEPT !.at = least, !.called = @ \cup {least}]
          \/ dispatch' = [dispatch EXCEPT !.stage = "byId", !.todo = byId]
      BY <2>3, <3>2, <3>3 DEF NextGeneric
    <3>5. dispatch' = Idle => dispatch'.stage = "none"
      BY DEF Idle
    <3>6. dispatch' = [dispatch EXCEPT !.at = least, !.called = @ \cup {least}] => dispatch'.stage = "generic"
      BY <2>3, <3>1 DEF Dispatching, NextGeneric
    <3>7. dispatch' = [dispatch EXCEPT !.stage = "byId", !.todo = byId] => dispatch'.stage = "byId"
      BY <3>1 DEF Dispatching
    <3> QED BY <3>4, <3>5, <3>6, <3>7
  <2>4. CASE NextByID
    <3>1. dispatch \in Dispatching
      BY <2>4 DEF NextByID, TypeInv, TypeOK, Dispatching
    <3>2. PICK next : dispatch' = [dispatch EXCEPT !.todo = @ \ {next}, !.called = @ \cup {next}]
      BY <2>4 DEF NextByID
    <3> QED BY <3>1, <3>2 DEF Dispatching
  <2>5. CASE EndReceive
    BY <2>5 DEF EndReceive, Idle
  <2> QED BY <2>1, <2>2, <2>3, <2>4, <2>5 DEF evokeCallback
<1> QED BY <1>1, <1>2, OtherFilters

\* So the filters stay exact in every step.
LEMMA FiltersStep ==
  ASSUME TypeInv, FiltersInv, Careful, Next
  PROVE  FiltersInv'
<1>1. CASE \E f \in Wanted : Register(f)
  BY <1>1, RegisterFilters
<1>2. CASE \E h \in handlers : Unregister(h)
  BY <1>2, UnregisterFilters
<1>3. CASE \E n \in Networks, request \in BOOLEAN, i \in MessageIds : Send(n, request, i)
  BY <1>3, OtherFilters DEF Send
<1>4. CASE Others
  BY <1>4, OtherFilters, OthersSubscribeFilters DEF Others, OthersRegister, OthersSend, callVars
<1>5. CASE evokeCallback
  BY <1>5, CallbackFilters
<1>6. CASE Connect
  BY <1>6, OtherFilters DEF Connect, keptByStates
<1>7. CASE JoinFederation
  BY <1>7, OtherFilters DEF JoinFederation, keptByStates
<1>8. CASE OnJoined \/ EndOnJoined \/ \E f \in Wanted : SubscribeNext(f)
  BY <1>8, OnJoinedFilters, SubscribeNextFilters, EndOnJoinedFilters
<1>9. CASE MeasurementInit
  BY <1>9, OtherFilters DEF MeasurementInit, keptByStates
<1>10. CASE Leave
  BY <1>10, LeaveFilters
<1> QED BY <1>1, <1>2, <1>3, <1>4, <1>5, <1>6, <1>7, <1>8, <1>9, <1>10
   DEF Next, Application, ChangesOfState

LEMMA FiltersInvCorrect ==
  ASSUME Careful
  PROVE  Spec => [](TypeInv /\ FiltersInv)
<1>1. Init => TypeInv /\ FiltersInv
  BY InitTypes, InitFilters
<1>2. TypeInv /\ FiltersInv /\ [Next]_vars => (TypeInv /\ FiltersInv)'
  <2>1. ASSUME TypeInv, FiltersInv, Next PROVE (TypeInv /\ FiltersInv)'
    BY <2>1, NextTypes, FiltersStep
  <2>2. ASSUME TypeInv, FiltersInv, UNCHANGED vars PROVE (TypeInv /\ FiltersInv)'
    BY <2>2, StutterTypes, OtherFilters DEF vars, callVars
  <2> QED BY <2>1, <2>2
<1> QED BY <1>1, <1>2, PTL DEF Spec

\* For an application that does not register while the service takes the federation for not
\* joined, nor messages and requests of one network, and filters that do not come together
\* with others in a way in which OpenRTI loses some (see Careful): while the federate is
\* online the filters at its ambassador are those of its handlers, and the rows and the index
\* at the server match exactly what they cover, through any number of registrations,
\* unregistrations and federations and whatever the other federates subscribe.
THEOREM FiltersAreExactCorrect ==
  ASSUME Careful
  PROVE  Spec => []FiltersAreExact
<1>1. TypeInv /\ FiltersInv => FiltersAreExact
  <2>1. ASSUME TypeInv, FiltersInv, mState = "Online",
               NEW m \in [network : Networks, request : BOOLEAN, id : MessageIds]
        PROVE  Delivered(m) <=> \E h \in handlers : Covers(h.filter, m)
    <3>1. rti.client = Filtered
      BY <2>1 DEF FiltersInv, ClientInv
    <3>2. RtiOK(rti) /\ Indexed(rti) /\ (rti.active <=> rti.client # {})
      BY <2>1, RtiIsOK DEF Agree
    <3>3. Delivered(m) <=> \E f \in rti.client : Covers(f, m)
      BY <3>2, DeliveredIsExact
    <3> QED BY <3>1, <3>3 DEF Filtered
  <2> QED BY <2>1 DEF FiltersInv, ClientInv, Filtered, FiltersAreExact
<1> QED BY <1>1, FiltersInvCorrect, PTL

-----------------------------------------------------------------------------
(* Delivery.                                                                    *)

\* The handlers a message is due to were registered when it was sent: those of them that
\* still are cover it.
DueOK(m) ==
  /\ m.due \subseteq 1..issued.handles
  /\ \A h \in handlers : h.handle \in m.due => Covers(h.filter, m)

QueueInv == \A k \in 1..Len(inbox) : inbox[k].type = "message" => DueOK(inbox[k])

\* The handlers behind the point receiveInteraction has reached have been called.
CalledInv ==
  /\ dispatch.stage \in {"generic", "byId"} => DueOK(dispatch.msg)
  /\ dispatch.stage = "generic" =>
       \A h \in handlers : h.handle \in dispatch.msg.due /\ h.filter.id = NoId /\ h.handle <= dispatch.at
                             => h.handle \in dispatch.called
  /\ dispatch.stage = "byId" =>
       \A h \in handlers : h.handle \in dispatch.msg.due => h.handle \in dispatch.called \cup dispatch.todo

DeliveryInv == QueueInv /\ CalledInv /\ missed = {}

\* Handlers that are added have handles nobody has had.
HandlersGrow ==
  /\ \A h \in handlers' : h \in handlers \/ h.handle > issued.handles
  /\ issued'.handles \in Nat /\ issued'.handles >= issued.handles

LEMMA DueKept ==
  ASSUME TypeInv, HandlersGrow, NEW m, DueOK(m)
  PROVE  DueOK(m)'
<1>1. issued.handles \in Nat /\ issued'.handles \in Nat /\ issued'.handles >= issued.handles
  BY DEF TypeInv, TypeOK, HandlersGrow
<1>2. \A i \in 1..issued.handles : i \in 1..issued'.handles /\ ~(i > issued.handles)
  BY <1>1
<1>3. m.due \subseteq 1..issued'.handles
  BY <1>2 DEF DueOK
<1>4. ASSUME NEW h \in handlers', h.handle \in m.due PROVE Covers(h.filter, m)
  <2>1. ~(h.handle > issued.handles)
    BY <1>2, <1>4 DEF DueOK
  <2>2. h \in handlers
    BY <2>1 DEF HandlersGrow
  <2> QED BY <2>2, <1>4 DEF DueOK
<1>5. \A h \in handlers' : h.handle \in m.due => Covers(h.filter, m)
  BY <1>4
<1> QED BY <1>3, <1>5 DEF DueOK

\* What another callback leaves in the queue.
LEMMA QueueKept ==
  ASSUME TypeInv, HandlersGrow, QueueInv,
         \/ inbox' = inbox
         \/ inbox # <<>> /\ inbox' = Tail(inbox)
         \/ \E m : (m.type = "message" => DueOK(m)) /\ inbox' = Append(inbox, m)
         \/ inbox' = <<>>
  PROVE  QueueInv'
<1>1. inbox \in Seq(Callbacks)
  BY DEF TypeInv, TypeOK
<1>2. ASSUME NEW k \in 1..Len(inbox'), NEW e, e = inbox'[k], e.type = "message"
      PROVE  DueOK(e)'
  <2>1. DueOK(e)
    <3>1. CASE inbox' = inbox
      BY <3>1, <1>2 DEF QueueInv
    <3>2. CASE inbox # <<>> /\ inbox' = Tail(inbox)
      <4>1. k + 1 \in 1..Len(inbox) /\ e = inbox[k + 1]
        BY <1>1, <1>2, <3>2, HeadTailProperties
      <4> QED BY <4>1, <1>2 DEF QueueInv
    <3>3. CASE \E m : (m.type = "message" => DueOK(m)) /\ inbox' = Append(inbox, m)
      <4>1. PICK m : (m.type = "message" => DueOK(m)) /\ inbox' = Append(inbox, m)
        BY <3>3
      <4>2. e = m \/ (k \in 1..Len(inbox) /\ e = inbox[k])
        BY <1>1, <1>2, <4>1
      <4> QED BY <4>1, <4>2, <1>2 DEF QueueInv
    <3>4. CASE inbox' = <<>>
      BY <3>4, <1>2
    <3> QED BY <3>1, <3>2, <3>3, <3>4
  <2> QED BY <2>1, DueKept
<1>3. ASSUME NEW k \in 1..Len(inbox'), inbox'[k].type = "message"
      PROVE  DueOK(inbox[k])'
  <2>1. PICK e : e = inbox'[k]
    OBVIOUS
  <2>2. DueOK(e)'
    BY <1>2, <1>3, <2>1
  <2> QED BY <2>1, <2>2 DEF DueOK
<1> QED BY <1>3 DEF QueueInv

LEMMA CalledKept ==
  ASSUME TypeInv, HandlersGrow, CalledInv, dispatch' = dispatch
  PROVE  CalledInv'
<1>1. CASE dispatch.stage \notin {"generic", "byId"}
  BY <1>1 DEF CalledInv
<1>2. CASE dispatch.stage \in {"generic", "byId"}
  <2>1. PICK m : m = dispatch.msg
    OBVIOUS
  <2>2. DueOK(m) /\ DueOK(m)'
    BY <1>2, <2>1, DueKept DEF CalledInv
  <2>3. DueOK(dispatch.msg)'
    BY <2>1, <2>2 DEF DueOK
  <2>4. issued.handles \in Nat
    BY DEF TypeInv, TypeOK
  <2>5. \A h \in handlers' : h.handle \in m.due => h \in handlers
    BY <2>2, <2>4 DEF DueOK, HandlersGrow
  <2> QED BY <2>1, <2>3, <2>5 DEF CalledInv
<1> QED BY <1>1, <1>2

LEMMA MessageIsDue ==
  ASSUME TypeInv, NEW n, NEW request, NEW i, NEW sender, NEW own
  PROVE  /\ DueOK(Message(n, request, i, sender, own))
         /\ mState # "Online" => Message(n, request, i, sender, own).due = {}
         /\ (\A h \in handlers : ~Covers(h.filter, Message(n, request, i, sender, own)))
              => Message(n, request, i, sender, own).due = {}
<1>1. PICK c : c = [network |-> n, request |-> request, id |-> i]
  OBVIOUS
<1>2. PICK D : D = IF mState = "Online" THEN Handles({h \in handlers : Covers(h.filter, c)}) ELSE {}
  OBVIOUS
<1>3. PICK m : m = Message(n, request, i, sender, own)
  OBVIOUS
<1>4. m.due = D /\ m.network = n /\ m.request = request /\ m.id = i
  BY <1>1, <1>2, <1>3 DEF Message
<1>5. \A f : Covers(f, m) <=> Covers(f, c)
  BY <1>1, <1>4 DEF Covers
<1>6. D \subseteq 1..issued.handles
  <2>1. \A h \in handlers : h.handle \in 1..issued.handles
    BY Bounds DEF TypeInv, TypeOK, HandleInv, Handlers
  <2> QED BY <1>2, <2>1 DEF Handles
<1>7. ASSUME NEW h \in handlers, h.handle \in D PROVE Covers(h.filter, m)
  <2>1. PICK g \in handlers : Covers(g.filter, c) /\ g.handle = h.handle
    BY <1>2, <1>7 DEF Handles
  <2>2. g = h
    BY <2>1 DEF TypeInv, HandleInv
  <2> QED BY <2>1, <2>2, <1>5
<1>8. (\A h \in handlers : ~Covers(h.filter, m)) => D = {}
  BY <1>2, <1>5 DEF Handles
<1> QED BY <1>2, <1>3, <1>4, <1>6, <1>7, <1>8 DEF DueOK

\* A step that adds no message, goes on with no other and adds no handler with a handle of old.
LEMMA DeliveryKept ==
  ASSUME TypeInv, DeliveryInv, HandlersGrow, UNCHANGED <<dispatch, missed>>,
         \/ inbox' = inbox
         \/ inbox # <<>> /\ inbox' = Tail(inbox)
         \/ \E m : (m.type = "message" => DueOK(m)) /\ inbox' = Append(inbox, m)
         \/ inbox' = <<>>
  PROVE  DeliveryInv'
BY QueueKept, CalledKept DEF DeliveryInv

LEMMA SameHandlersGrow ==
  ASSUME TypeInv, handlers' \subseteq handlers, issued'.handles = issued.handles
  PROVE  HandlersGrow
BY DEF TypeInv, TypeOK, HandlersGrow

LEMMA RegisterDelivers ==
  ASSUME TypeInv, DeliveryInv, NEW f \in Wanted, Register(f)
  PROVE  DeliveryInv'
<1>1. PICK h : h = [handle |-> issued.handles + 1, filter |-> f]
  OBVIOUS
<1>2. /\ handlers' = handlers \cup {h} /\ issued' = [issued EXCEPT !.handles = @ + 1]
      /\ UNCHANGED <<dispatch, missed>> /\ ReserveName(f.network)
  BY <1>1 DEF Register, NewHandle
<1>3. issued \in [handles : 0..MaxHandles, messages : 0..MaxMessages, joins : 0..MaxJoins]
  BY DEF TypeInv, TypeOK
<1>4. HandlersGrow
  <2>1. issued'.handles = issued.handles + 1 /\ issued.handles \in Nat /\ h.handle = issued.handles + 1
    BY <1>1, <1>2, <1>3
  <2> QED BY <1>2, <2>1 DEF HandlersGrow
<1>5. \/ inbox' = inbox
      \/ \E m : (m.type = "message" => DueOK(m)) /\ inbox' = Append(inbox, m)
  <2>1. PICK m : m = [type |-> "reserved", network |-> f.network]
    OBVIOUS
  <2>2. m.type # "message"
    BY <2>1
  <2> QED BY <1>2, <2>1, <2>2 DEF ReserveName
<1> QED BY <1>2, <1>4, <1>5, DeliveryKept

LEMMA UnregisterDelivers ==
  ASSUME TypeInv, DeliveryInv, NEW h \in handlers, Unregister(h)
  PROVE  DeliveryInv'
<1>1. handlers' \subseteq handlers /\ issued' = issued /\ UNCHANGED <<inbox, dispatch, missed>>
  BY DEF Unregister, callVars
<1> QED BY <1>1, SameHandlersGrow, DeliveryKept

\* The federate's own message is delivered if anything is subscribed.
LEMMA SendDelivers ==
  ASSUME TypeInv, FiltersInv, DeliveryInv, NEW n \in Networks, NEW request \in BOOLEAN,
         NEW i \in MessageIds, Send(n, request, i)
  PROVE  DeliveryInv'
<1>1. PICK m : m = Message(n, request, i, object[n], TRUE)
  OBVIOUS
<1>2. DueOK(m) /\ ((\A h \in handlers : ~Covers(h.filter, m)) => m.due = {})
  BY <1>1, MessageIsDue
<1>3. /\ mState = "Online" /\ handlers' = handlers /\ dispatch' = dispatch
      /\ inbox' = inbox \/ inbox' = Append(inbox, m)
      /\ missed' = IF published /\ ~rti.active THEN missed \cup m.due ELSE missed
  BY <1>1 DEF Send
<1>4. issued'.handles = issued.handles
  <2>1. issued.messages < MaxMessages /\ issued' = [issued EXCEPT !.messages = @ + 1]
    BY DEF Send
  <2> QED BY <2>1, OneMoreMessage
<1>5. ~rti.active => m.due = {}
  <2>1. ~rti.active => Filtered = {}
    BY <1>3 DEF FiltersInv, Agree, ClientInv
  <2>2. ~rti.active => handlers = {}
    BY <2>1 DEF Filtered
  <2> QED BY <2>2, <1>2
<1>6. missed' = missed
  BY <1>3, <1>5
<1> QED BY <1>2, <1>3, <1>4, <1>6, SameHandlersGrow, DeliveryKept

\* What another federate sends while a handler waits for it is passed on.
LEMMA OthersSendDelivers ==
  ASSUME TypeInv, FiltersInv, DeliveryInv, NEW n \in Networks, NEW request \in BOOLEAN,
         NEW i \in MessageIds, NEW sender, OthersSend(n, request, i, sender)
  PROVE  DeliveryInv'
<1>1. PICK m : m = Message(n, request, i, sender, sender \in OwnObject(n))
  OBVIOUS
<1>2. /\ DueOK(m)
      /\ mState # "Online" => m.due = {}
      /\ (\A h \in handlers : ~Covers(h.filter, m)) => m.due = {}
  BY <1>1, MessageIsDue
<1>3. /\ handlers' = handlers /\ dispatch' = dispatch
      /\ inbox' = inbox \/ inbox' = Append(inbox, m)
      /\ missed' = IF Delivered(m) THEN missed ELSE missed \cup m.due
  BY <1>1 DEF OthersSend
<1>4. issued'.handles = issued.handles
  <2>1. issued.messages < MaxMessages /\ issued' = [issued EXCEPT !.messages = @ + 1]
    BY DEF OthersSend
  <2> QED BY <2>1, OneMoreMessage
<1>5. Delivered(m) \/ m.due = {}
  <2>1. CASE mState = "Online"
    <3>1. rti.client = Filtered /\ (rti.active <=> rti.client # {})
      BY <2>1 DEF FiltersInv, ClientInv, Agree
    <3>2. m.network \in Networks /\ m.request \in BOOLEAN /\ m.id \in MessageIds
      BY <1>1 DEF Message
    <3>3. Delivered(m) <=> \E f \in rti.client : Covers(f, m)
      BY <3>1, <3>2, RtiIsOK, DeliveredIsExact
    <3> QED BY <3>1, <3>3, <1>2 DEF Filtered
  <2>2. CASE mState # "Online"
    BY <2>2, <1>2
  <2> QED BY <2>1, <2>2
<1>6. missed' = missed
  BY <1>3, <1>5
<1> QED BY <1>2, <1>3, <1>4, <1>6, SameHandlersGrow, DeliveryKept

LEMMA ReceiveDelivers ==
  ASSUME TypeInv, DeliveryInv, receiveInteraction
  PROVE  DeliveryInv'
<1>1. PICK m : m = Head(inbox)
  OBVIOUS
<1>2. /\ inbox \in Seq(Callbacks) /\ inbox # <<>> /\ m.type = "message" /\ inbox' = Tail(inbox)
      /\ UNCHANGED <<handlers, issued, missed>>
  BY <1>1 DEF TypeInv, TypeOK, receiveInteraction, keptByCallbacks
<1>3. dispatch' = [stage |-> "generic", msg |-> m, at |-> 0, todo |-> {}, called |-> {}]
  BY <1>1 DEF receiveInteraction, Idle
<1>4. DueOK(m)
  <2>1. 1 \in 1..Len(inbox) /\ m = inbox[1]
    BY <1>1, <1>2, HeadTailProperties
  <2> QED BY <2>1, <1>2 DEF DeliveryInv, QueueInv
<1>5. HandlersGrow
  BY <1>2, SameHandlersGrow
<1>6. QueueInv'
  BY <1>2, <1>5, QueueKept DEF DeliveryInv
<1>7. DueOK(dispatch.msg)'
  <2>1. DueOK(m)'
    BY <1>4, <1>5, DueKept
  <2>2. dispatch'.msg = m
    BY <1>3
  <2> QED BY <2>1, <2>2 DEF DueOK
<1>8. dispatch'.stage = "generic" /\ dispatch'.at = 0
  BY <1>3
<1>9. \A h \in handlers' : h.handle \in 1..MaxHandles
  BY <1>2 DEF TypeInv, TypeOK, Handlers
<1>10. \A h \in handlers' : ~(h.handle <= dispatch'.at)
  BY <1>8, <1>9, Bounds
<1>11. CalledInv'
  BY <1>7, <1>8, <1>10 DEF CalledInv
<1> QED BY <1>2, <1>6, <1>11 DEF DeliveryInv

LEMMA NextGenericDelivers ==
  ASSUME TypeInv, DeliveryInv, NextGeneric
  PROVE  DeliveryInv'
<1>1. PICK m : m = dispatch.msg
  OBVIOUS
<1>2. /\ dispatch \in Dispatching /\ dispatch.stage = "generic" /\ DueOK(m)
      /\ \A h \in handlers : h.handle \in m.due /\ h.filter.id = NoId /\ h.handle <= dispatch.at
                               => h.handle \in dispatch.called
  BY <1>1 DEF NextGeneric, TypeInv, TypeOK, Dispatching, DeliveryInv, CalledInv
<1>3. PICK list : list = Handles(GenericHandlers(m))
  OBVIOUS
<1>4. PICK next : next = {i \in list : i > dispatch.at}
  OBVIOUS
<1>5. PICK least : least = Least(next)
  OBVIOUS
<1>6. PICK byId : byId = Handles(HandlersByID(m))
  OBVIOUS
<1>7. /\ \/ dispatch' = Idle
         \/ next # {} /\ dispatch' = [dispatch EXCEPT !.at = least, !.called = @ \cup {least}]
         \/ next = {} /\ dispatch' = [dispatch EXCEPT !.stage = "byId", !.todo = byId]
      /\ UNCHANGED <<handlers, issued, inbox, missed>>
  BY <1>1, <1>3, <1>4, <1>5, <1>6 DEF NextGeneric, keptByCallbacks
<1>8. QueueInv' /\ DueOK(m)'
  BY <1>2, <1>7, SameHandlersGrow, QueueKept, DueKept DEF DeliveryInv
<1>9. \A h \in handlers : h.handle \in 1..MaxHandles /\ h.handle \in Nat
  BY Bounds DEF TypeInv, TypeOK, Handlers
<1>10. \A h \in handlers : h.handle \in m.due /\ h.filter.id = NoId
                             => h.handle \in next \/ h.handle \in dispatch.called
  <2>1. ASSUME NEW h \in handlers, h.handle \in m.due, h.filter.id = NoId, h.handle \notin dispatch.called
        PROVE  h.handle \in next
    <3>1. h.handle \in list
      BY <2>1, <1>2, <1>3 DEF DueOK, GenericHandlers, Handles
    <3>2. ~(h.handle <= dispatch.at) /\ dispatch.at \in Nat
      BY <2>1, <1>2, Bounds DEF Dispatching
    <3> QED BY <3>1, <3>2, <1>4, <1>9
  <2> QED BY <2>1
<1>11. CASE dispatch' = Idle
  <2>1. dispatch'.stage = "none"
    BY <1>11 DEF Idle
  <2> QED BY <2>1, <1>7, <1>8 DEF DeliveryInv, CalledInv
<1>12. CASE next # {} /\ dispatch' = [dispatch EXCEPT !.at = least, !.called = @ \cup {least}]
  <2>1. /\ dispatch'.stage = "generic" /\ dispatch'.msg = m /\ dispatch'.at = least
        /\ dispatch'.called = dispatch.called \cup {least}
    BY <1>1, <1>2, <1>12 DEF Dispatching
  <2>2. least \in Nat /\ \A i \in next : i \in Nat /\ least <= i
    <3>1. next \subseteq Nat
      BY <1>3, <1>4, <1>9 DEF Handles, GenericHandlers
    <3> QED BY <3>1, <1>5, <1>12, LeastIsLeast
  <2>3. ASSUME NEW h \in handlers', h.handle \in m.due, h.filter.id = NoId, h.handle <= least
        PROVE  h.handle \in dispatch'.called
    <3>1. h \in handlers /\ h.handle \in Nat
      BY <1>7, <1>9
    <3>2. CASE h.handle \in next
      <4>1. h.handle = least
        BY <3>1, <3>2, <2>2, <2>3
      <4> QED BY <4>1, <2>1
    <3>3. CASE h.handle \in dispatch.called
      BY <3>3, <2>1
    <3> QED BY <3>1, <3>2, <3>3, <2>3, <1>10
  <2>4. DueOK(dispatch.msg)'
    BY <2>1, <1>8 DEF DueOK
  <2>5. CalledInv'
    BY <2>1, <2>3, <2>4 DEF CalledInv
  <2> QED BY <2>5, <1>7, <1>8 DEF DeliveryInv
<1>13. CASE next = {} /\ dispatch' = [dispatch EXCEPT !.stage = "byId", !.todo = byId]
  <2>1. /\ dispatch'.stage = "byId" /\ dispatch'.msg = m /\ dispatch'.todo = byId
        /\ dispatch'.called = dispatch.called
    BY <1>1, <1>2, <1>13 DEF Dispatching
  <2>2. ASSUME NEW h \in handlers', h.handle \in m.due
        PROVE  h.handle \in dispatch'.called \cup dispatch'.todo
    <3>1. h \in handlers
      BY <1>7
    <3>2. CASE h.filter.id = NoId
      BY <3>1, <3>2, <2>1, <2>2, <1>10, <1>13
    <3>3. CASE h.filter.id # NoId
      <4>1. h.handle \in byId
        BY <3>1, <3>3, <2>2, <1>2, <1>6 DEF DueOK, HandlersByID, Handles
      <4> QED BY <4>1, <2>1
    <3> QED BY <3>2, <3>3
  <2>3. DueOK(dispatch.msg)'
    BY <2>1, <1>8 DEF DueOK
  <2>4. CalledInv'
    BY <2>1, <2>2, <2>3 DEF CalledInv
  <2> QED BY <2>4, <1>7, <1>8 DEF DeliveryInv
<1> QED BY <1>7, <1>11, <1>12, <1>13

LEMMA NextByIDDelivers ==
  ASSUME TypeInv, DeliveryInv, NextByID
  PROVE  DeliveryInv'
<1>1. PICK next : next = Least(dispatch.todo)
  OBVIOUS
<1>2. PICK m : m = dispatch.msg
  OBVIOUS
<1>3. /\ dispatch \in Dispatching /\ dispatch.stage = "byId" /\ DueOK(m)
      /\ \A h \in handlers : h.handle \in m.due => h.handle \in dispatch.called \cup dispatch.todo
  BY <1>2 DEF NextByID, TypeInv, TypeOK, Dispatching, DeliveryInv, CalledInv
<1>4. /\ dispatch' = [dispatch EXCEPT !.todo = @ \ {next}, !.called = @ \cup {next}]
      /\ UNCHANGED <<handlers, issued, inbox, missed>>
  BY <1>1 DEF NextByID, keptByCallbacks
<1>5. QueueInv' /\ DueOK(m)'
  BY <1>3, <1>4, SameHandlersGrow, QueueKept, DueKept DEF DeliveryInv
<1>6. /\ dispatch'.stage = "byId" /\ dispatch'.msg = m
      /\ dispatch'.todo = dispatch.todo \ {next} /\ dispatch'.called = dispatch.called \cup {next}
  BY <1>2, <1>3, <1>4 DEF Dispatching
<1>7. DueOK(dispatch.msg)'
  BY <1>5, <1>6 DEF DueOK
<1>8. \A h \in handlers' : h.handle \in m.due => h.handle \in dispatch'.called \cup dispatch'.todo
  BY <1>3, <1>4, <1>6
<1>9. CalledInv'
  BY <1>6, <1>7, <1>8 DEF CalledInv
<1> QED BY <1>4, <1>5, <1>9 DEF DeliveryInv

LEMMA EndReceiveDelivers ==
  ASSUME TypeInv, DeliveryInv, EndReceive
  PROVE  DeliveryInv'
<1>1. /\ dispatch.stage = "byId" /\ dispatch.todo = {} /\ dispatch' = Idle
      /\ missed' = missed \cup ((dispatch.msg.due \cap Handles(handlers)) \ dispatch.called)
      /\ UNCHANGED <<handlers, issued, inbox>>
  BY DEF EndReceive, keptByCallbacks
<1>2. (dispatch.msg.due \cap Handles(handlers)) \ dispatch.called = {}
  BY <1>1 DEF DeliveryInv, CalledInv, Handles
<1>3. missed' = {}
  BY <1>1, <1>2 DEF DeliveryInv
<1>4. QueueInv'
  BY <1>1, SameHandlersGrow, QueueKept DEF DeliveryInv
<1>5. CalledInv'
  <2>1. dispatch'.stage = "none"
    BY <1>1 DEF Idle
  <2> QED BY <2>1 DEF CalledInv
<1> QED BY <1>3, <1>4, <1>5 DEF DeliveryInv

\* What OnJoined does is before or after the callbacks.
LEMMA OnJoinedDispatch ==
  ASSUME TypeInv, OnJoined \/ EndOnJoined \/ \E f \in Wanted : SubscribeNext(f)
  PROVE  dispatch'.stage \in {"none", "subscribe"}
<1>1. CASE OnJoined
  BY <1>1 DEF OnJoined, Idle
<1>2. CASE EndOnJoined
  BY <1>2 DEF EndOnJoined, Idle
<1>3. ASSUME NEW f, SubscribeNext(f) PROVE dispatch'.stage = "subscribe"
  <2>1. /\ dispatch \in [stage : {"subscribe"}, msg : {<<>>}, at : {0}, todo : SUBSET Filters, called : {{}}]
        /\ dispatch' = [dispatch EXCEPT !.todo = @ \ {f}]
    BY <1>3 DEF SubscribeNext, TypeInv, TypeOK
  <2> QED BY <2>1
<1> QED BY <1>1, <1>2, <1>3

LEMMA OnJoinedDelivers ==
  ASSUME TypeInv, DeliveryInv, OnJoined \/ EndOnJoined \/ \E f \in Wanted : SubscribeNext(f)
  PROVE  DeliveryInv'
<1>1. UNCHANGED <<handlers, issued, inbox, missed>>
  BY DEF OnJoined, EndOnJoined, SubscribeNext, objectVars
<1>2. QueueInv'
  BY <1>1, SameHandlersGrow, QueueKept DEF DeliveryInv
<1>3. CalledInv'
  BY OnJoinedDispatch DEF CalledInv
<1> QED BY <1>1, <1>2, <1>3 DEF DeliveryInv

LEMMA InitDelivers ==
  ASSUME Init
  PROVE  DeliveryInv
<1>1. inbox = <<>> /\ dispatch.stage = "none" /\ missed = {}
  BY DEF Init, Idle
<1> QED BY <1>1 DEF DeliveryInv, QueueInv, CalledInv

LEMMA DeliveryStep ==
  ASSUME TypeInv, FiltersInv, DeliveryInv, Next
  PROVE  DeliveryInv'
<1>1. CASE \E f \in Wanted : Register(f)
  BY <1>1, RegisterDelivers
<1>2. CASE \E h \in handlers : Unregister(h)
  BY <1>2, UnregisterDelivers
<1>3. CASE \E n \in Networks, request \in BOOLEAN, i \in MessageIds : Send(n, request, i)
  BY <1>3, SendDelivers
<1>4. CASE Others
  <2>1. CASE OthersRegister
    BY <2>1, SameHandlersGrow, DeliveryKept DEF OthersRegister, callVars
  <2>2. ASSUME NEW named, NEW first, OthersSubscribe(named, first) PROVE DeliveryInv'
    BY <2>2, SameHandlersGrow, DeliveryKept DEF OthersSubscribe, callVars
  <2> QED BY <1>4, <2>1, <2>2, OthersSendDelivers DEF Others
<1>5. CASE evokeCallback
  <2>1. CASE ReservationCompleted
    BY <2>1, SameHandlersGrow, DeliveryKept DEF ReservationCompleted, keptByCallbacks
  <2> QED BY <1>5, <2>1, ReceiveDelivers, NextGenericDelivers, NextByIDDelivers, EndReceiveDelivers
      DEF evokeCallback
<1>6. CASE ChangesOfState
  <2>1. CASE Connect \/ JoinFederation \/ MeasurementInit \/ Leave
    <3>1. /\ UNCHANGED <<handlers, dispatch, missed>> /\ issued'.handles = issued.handles
          /\ inbox' = inbox \/ inbox' = <<>>
      BY <2>1 DEF Connect, JoinFederation, MeasurementInit, Leave, keptByStates, TypeInv, TypeOK
    <3> QED BY <3>1, SameHandlersGrow, DeliveryKept
  <2> QED BY <1>6, <2>1, OnJoinedDelivers DEF ChangesOfState
<1> QED BY <1>1, <1>2, <1>3, <1>4, <1>5, <1>6 DEF Next, Application

\* Under the same assumption (see Careful: no handlers for messages and for requests of one
\* network; filters with an id and without one come together only if none is taken back, and
\* no others are the first to name the id) every message that is sent while a handler
\* for it is registered and the federate is online reaches this handler, in whatever order
\* handlers are registered, also from callbacks, and callbacks are evoked, unless the handler
\* is unregistered or the federation is left before.
THEOREM HandlersGetMessagesCorrect ==
  ASSUME Careful
  PROVE  Spec => []HandlersGetMessages
<1>1. Init => DeliveryInv
  BY InitDelivers
<1>2. TypeInv /\ FiltersInv /\ DeliveryInv /\ [Next]_vars => DeliveryInv'
  <2>1. ASSUME TypeInv, DeliveryInv, UNCHANGED vars PROVE DeliveryInv'
    BY <2>1, SameHandlersGrow, DeliveryKept DEF vars, callVars
  <2> QED BY <2>1, DeliveryStep
<1>3. DeliveryInv => HandlersGetMessages
  BY DEF DeliveryInv, HandlersGetMessages
<1> QED BY <1>1, <1>2, <1>3, FiltersInvCorrect, PTL DEF Spec

-----------------------------------------------------------------------------
(* Whose message it was.                                                        *)

\* Before a federation is joined there is nothing of it.  In it, a controller that has its
\* object has a valid handle, and the objects are numbered upwards.
ObjectsInv ==
  /\ ~Joined => inbox = <<>> /\ dispatch.stage = "none" /\ federation.foreign = {}
  /\ \A n \in Networks : /\ since[n] <= issued.joins
                         /\ Joined /\ since[n] = issued.joins => object[n] # 0
  /\ \A i \in federation.foreign : i <= federation.last

\* A message can be told by its sender to be the controller's own; one that was sent before
\* the controller has its object is not its own and was sent by an older one.
SenderOK(m) ==
  /\ m.known /\ since[m.network] = issued.joins
       => (m.own <=> m.sender # 0 /\ m.sender = object[m.network])
  /\ m.known /\ since[m.network] # issued.joins
       => ~m.own /\ m.sender <= federation.last

SendersInv ==
  /\ \A k \in 1..Len(inbox) : inbox[k].type = "message" => SenderOK(inbox[k])
  /\ dispatch.stage \in {"generic", "byId"} => SenderOK(dispatch.msg)

OwnInv == ObjectsInv /\ SendersInv /\ RequestedBySelfIsRight

\* A step after which a sender that could be told still can.
SendersKept == \A m \in Messages : SenderOK(m) => SenderOK(m)'

LEMMA SendersInvKept ==
  ASSUME TypeInv, SendersInv, SendersKept, dispatch' = dispatch,
         \/ inbox' = inbox
         \/ inbox # <<>> /\ inbox' = Tail(inbox)
         \/ \E m \in Callbacks : (m.type = "message" => SenderOK(m)) /\ inbox' = Append(inbox, m)
         \/ inbox' = <<>>
  PROVE  SendersInv'
<1>1. inbox \in Seq(Callbacks)
  BY DEF TypeInv, TypeOK
<1>2. ASSUME NEW k \in 1..Len(inbox'), NEW e, e = inbox'[k], e.type = "message"
      PROVE  SenderOK(e)'
  <2>1. SenderOK(e) /\ e \in Callbacks
    <3>1. CASE inbox' = inbox
      BY <3>1, <1>1, <1>2 DEF SendersInv
    <3>2. CASE inbox # <<>> /\ inbox' = Tail(inbox)
      <4>1. k + 1 \in 1..Len(inbox) /\ e = inbox[k + 1]
        BY <1>1, <1>2, <3>2, HeadTailProperties
      <4> QED BY <4>1, <1>1, <1>2 DEF SendersInv
    <3>3. CASE \E m \in Callbacks : (m.type = "message" => SenderOK(m)) /\ inbox' = Append(inbox, m)
      <4>1. PICK m \in Callbacks : (m.type = "message" => SenderOK(m)) /\ inbox' = Append(inbox, m)
        BY <3>3
      <4>2. e = m \/ (k \in 1..Len(inbox) /\ e = inbox[k])
        BY <1>1, <1>2, <4>1
      <4> QED BY <4>1, <4>2, <1>1, <1>2 DEF SendersInv
    <3>4. CASE inbox' = <<>>
      BY <3>4, <1>2
    <3> QED BY <3>1, <3>2, <3>3, <3>4
  <2>2. e \in Messages
    BY <2>1, <1>2 DEF Callbacks
  <2> QED BY <2>1, <2>2 DEF SendersKept
<1>3. ASSUME NEW k \in 1..Len(inbox'), inbox'[k].type = "message"
      PROVE  SenderOK(inbox[k])'
  <2>1. PICK e : e = inbox'[k]
    OBVIOUS
  <2>2. SenderOK(e)'
    BY <1>2, <1>3, <2>1
  <2> QED BY <2>1, <2>2 DEF SenderOK
<1>4. ASSUME dispatch.stage \in {"generic", "byId"} PROVE SenderOK(dispatch.msg)'
  <2>1. PICK m : m = dispatch.msg
    OBVIOUS
  <2>2. m \in Messages
    BY <2>1, <1>4 DEF TypeInv, TypeOK
  <2>3. SenderOK(m)'
    BY <2>1, <2>2, <1>4 DEF SendersInv, SendersKept
  <2> QED BY <2>1, <2>3 DEF SenderOK
<1>5. dispatch'.stage \in {"generic", "byId"} => SenderOK(dispatch.msg)'
  BY <1>4
<1> QED BY <1>3, <1>5 DEF SendersInv

\* Nothing that tells senders changes, or more objects are registered.
LEMMA SameSendersKept ==
  ASSUME TypeInv, issued'.joins = issued.joins, UNCHANGED <<object, since>>,
         federation' = federation \/ federation' \in [last : {federation.last + 1}, foreign : SUBSET Nat]
  PROVE  SendersKept
<1>1. federation.last \in Nat
  BY DEF TypeInv, TypeOK
<1>2. federation'.last \in Nat /\ federation'.last >= federation.last
  BY <1>1
<1>3. \A m \in Messages : m.sender \in Nat
  BY DEF Messages
<1> QED BY <1>1, <1>2, <1>3 DEF SendersKept, SenderOK

LEMMA ObjectsKept ==
  ASSUME ObjectsInv, UNCHANGED <<mState, object, since, federation>>, issued'.joins = issued.joins,
         Joined \/ UNCHANGED <<inbox, dispatch>>
  PROVE  ObjectsInv'
BY DEF ObjectsInv, Joined

LEMMA CallKept ==
  ASSUME RequestedBySelfIsRight, lastCall' = lastCall
  PROVE  RequestedBySelfIsRight'
BY DEF RequestedBySelfIsRight

\* A message of the controller, if it has its object, or else one the handlers cannot tell.
LEMMA SentSenders ==
  ASSUME TypeInv, ObjectsInv, Joined, NEW n \in Networks, NEW m, m.network = n,
         m.known <=> (m.own => since[n] = issued.joins),
         \/ m.own /\ m.sender = object[n]
         \/ (m.own <=> m.sender \in OwnObject(n)) /\ m.sender \in federation.foreign \cup OwnObject(n) \cup {0}
  PROVE  SenderOK(m)
<1>1. CASE since[n] = issued.joins
  <2>1. object[n] # 0 /\ OwnObject(n) = {object[n]}
    BY <1>1 DEF ObjectsInv, OwnObject
  <2>2. m.own <=> m.sender # 0 /\ m.sender = object[n]
    BY <2>1
  <2> QED BY <1>1, <2>2 DEF SenderOK
<1>2. CASE since[n] # issued.joins
  <2>1. OwnObject(n) = {} /\ federation.last \in Nat
    BY <1>2 DEF OwnObject, TypeInv, TypeOK
  <2>2. ~m.own => m.sender \in federation.foreign \cup {0}
    BY <2>1
  <2>3. ~m.own => m.sender <= federation.last
    BY <2>1, <2>2 DEF ObjectsInv
  <2> QED BY <1>2, <2>3 DEF SenderOK
<1> QED BY <1>1, <1>2

LEMMA SendIsOwn ==
  ASSUME TypeInv, OwnInv, NEW n \in Networks, NEW request \in BOOLEAN, NEW i \in MessageIds,
         Send(n, request, i)
  PROVE  OwnInv'
<1>1. PICK m : m = Message(n, request, i, object[n], TRUE)
  OBVIOUS
<1>2. /\ mState = "Online"
      /\ inbox' = inbox \/ inbox' = Append(inbox, m)
      /\ UNCHANGED <<mState, objectVars, dispatch, lastCall>>
  BY <1>1 DEF Send
<1>3. Joined
  BY <1>2 DEF Joined
<1>4. m \in Callbacks
  <2>1. object[n] \in Nat
    BY DEF TypeInv, TypeOK
  <2> QED BY <1>1, <2>1, MessageTypes DEF Callbacks
<1>5. SenderOK(m)
  <2>1. ObjectsInv
    BY DEF OwnInv
  <2>2. m.network = n /\ m.sender = object[n] /\ m.own = TRUE
        /\ (m.known <=> (m.own => since[n] = issued.joins))
    BY <1>1 DEF Message
  <2> QED BY <1>3, <2>1, <2>2, SentSenders
<1>6. issued'.joins = issued.joins
  <2>1. issued.messages < MaxMessages /\ issued' = [issued EXCEPT !.messages = @ + 1]
    BY DEF Send
  <2> QED BY <2>1, OneMoreMessage
<1>7. SendersKept
  BY <1>2, <1>6, SameSendersKept DEF objectVars
<1> QED BY <1>2, <1>3, <1>4, <1>5, <1>6, <1>7, SendersInvKept, ObjectsKept, CallKept
        DEF OwnInv, objectVars

LEMMA OthersSendOwn ==
  ASSUME TypeInv, OwnInv, NEW n \in Networks, NEW request \in BOOLEAN, NEW i \in MessageIds,
         NEW sender \in federation.foreign \cup OwnObject(n) \cup {0},
         OthersSend(n, request, i, sender)
  PROVE  OwnInv'
<1>1. (sender \in OwnObject(n)) \in BOOLEAN
  OBVIOUS
<1>2. PICK m : m = Message(n, request, i, sender, sender \in OwnObject(n))
  OBVIOUS
<1>3. /\ Joined
      /\ inbox' = inbox \/ inbox' = Append(inbox, m)
      /\ UNCHANGED <<mState, objectVars, dispatch, lastCall>>
  BY <1>2 DEF OthersSend
<1>4. m \in Callbacks
  <2>1. sender \in Nat
    BY DEF TypeInv, TypeOK, OwnObject
  <2> QED BY <1>1, <1>2, <2>1, MessageTypes DEF Callbacks
<1>5. SenderOK(m)
  <2>1. ObjectsInv
    BY DEF OwnInv
  <2>2. m.network = n /\ m.sender = sender /\ (m.own <=> sender \in OwnObject(n))
        /\ (m.known <=> (m.own => since[n] = issued.joins))
    BY <1>2 DEF Message
  <2> QED BY <1>3, <2>1, <2>2, SentSenders
<1>6. issued'.joins = issued.joins
  <2>1. issued.messages < MaxMessages /\ issued' = [issued EXCEPT !.messages = @ + 1]
    BY DEF OthersSend
  <2> QED BY <2>1, OneMoreMessage
<1>7. SendersKept
  BY <1>3, <1>6, SameSendersKept DEF objectVars
<1> QED BY <1>3, <1>4, <1>5, <1>6, <1>7, SendersInvKept, ObjectsKept, CallKept
        DEF OwnInv, objectVars

LEMMA RegisterOwn ==
  ASSUME TypeInv, OwnInv, NEW f \in Wanted, Register(f)
  PROVE  OwnInv'
<1>1. PICK m : m = [type |-> "reserved", network |-> f.network]
  OBVIOUS
<1>2. m.type # "message" /\ m \in Callbacks
  BY <1>1, WantedAreFilters DEF Callbacks, Filters
<1>3. /\ UNCHANGED <<mState, objectVars, dispatch, lastCall>>
      /\ inbox' = inbox \/ (Joined /\ inbox' = Append(inbox, m))
      /\ issued' = [issued EXCEPT !.handles = @ + 1]
  BY <1>1 DEF Register, ReserveName
<1>4. issued'.joins = issued.joins
  BY <1>3 DEF TypeInv, TypeOK
<1>5. SendersKept
  BY <1>3, <1>4, SameSendersKept DEF objectVars
<1> QED BY <1>2, <1>3, <1>4, <1>5, SendersInvKept, ObjectsKept, CallKept
        DEF OwnInv, objectVars

LEMMA OthersRegisterOwn ==
  ASSUME TypeInv, OwnInv, OthersRegister
  PROVE  OwnInv'
<1>1. /\ Joined
      /\ federation' = [last |-> federation.last + 1, foreign |-> federation.foreign \cup {federation.last + 1}]
      /\ UNCHANGED <<mState, object, since, callVars, issued>>
  BY DEF OthersRegister
<1>2. federation \in [last : Nat, foreign : SUBSET Nat]
  BY DEF TypeInv, TypeOK
<1>3. federation' \in [last : {federation.last + 1}, foreign : SUBSET Nat]
  BY <1>1, <1>2
<1>4. SendersKept
  BY <1>1, <1>3, SameSendersKept
<1>5. \A i \in federation'.foreign : i <= federation'.last
  BY <1>1, <1>2 DEF OwnInv, ObjectsInv
<1>6. ObjectsInv'
  BY <1>1, <1>5 DEF OwnInv, ObjectsInv, Joined
<1> QED BY <1>1, <1>4, <1>6, SendersInvKept, CallKept DEF OwnInv, callVars

LEMMA ReservationCompletedOwn ==
  ASSUME TypeInv, OwnInv, ReservationCompleted
  PROVE  OwnInv'
<1>1. PICK n : n = Head(inbox).network
  OBVIOUS
<1>2. n \in Networks
  BY <1>1, TailTypes DEF ReservationCompleted, TypeInv, TypeOK, Callbacks, Messages
<1>3. /\ Joined /\ inbox # <<>> /\ inbox' = Tail(inbox)
      /\ \/ UNCHANGED objectVars
         \/ /\ since[n] # issued.joins
            /\ federation' = [federation EXCEPT !.last = @ + 1]
            /\ object' = [object EXCEPT ![n] = federation.last + 1]
            /\ since' = [since EXCEPT ![n] = issued.joins]
      /\ UNCHANGED <<mState, issued, dispatch, lastCall>>
  BY <1>1 DEF ReservationCompleted, keptByCallbacks
<1>4. /\ object \in [Networks -> Nat] /\ since \in [Networks -> 0..MaxJoins]
      /\ federation \in [last : Nat, foreign : SUBSET Nat] /\ issued.joins \in Nat
  BY Bounds DEF TypeInv, TypeOK
<1>5. CASE UNCHANGED objectVars
  <2>1. SendersKept
    BY <1>3, <1>5, SameSendersKept DEF objectVars
  <2> QED BY <1>3, <1>5, <2>1, SendersInvKept, ObjectsKept, CallKept DEF OwnInv, objectVars
<1>6. CASE ~UNCHANGED objectVars
  <2>1. /\ since[n] # issued.joins
        /\ federation'.last = federation.last + 1 /\ federation'.foreign = federation.foreign
        /\ object'[n] = federation.last + 1 /\ since'[n] = issued.joins
        /\ \A k \in Networks \ {n} : object'[k] = object[k] /\ since'[k] = since[k]
    BY <1>2, <1>3, <1>4, <1>6
  <2>2. SendersKept
    <3>1. SUFFICES ASSUME NEW m \in Messages, SenderOK(m) PROVE SenderOK(m)'
      BY DEF SendersKept
    <3>2. m.network \in Networks /\ m.sender \in Nat
      BY DEF Messages
    <3>3. CASE m.network = n
      <4>1. m.known => ~m.own /\ m.sender <= federation.last
        BY <3>1, <3>3, <2>1 DEF SenderOK
      <4>2. m.known => m.sender # object'[n]
        BY <4>1, <3>2, <2>1, <1>4
      <4> QED BY <4>1, <4>2, <3>3, <2>1, <1>3 DEF SenderOK
    <3>4. CASE m.network # n
      <4>1. object'[m.network] = object[m.network] /\ since'[m.network] = since[m.network]
        BY <3>2, <3>4, <2>1
      <4>2. m.sender <= federation.last => m.sender <= federation'.last
        BY <3>2, <2>1, <1>4
      <4> QED BY <3>1, <4>1, <4>2, <1>3 DEF SenderOK
    <3> QED BY <3>3, <3>4
  <2>3. ObjectsInv'
    <3>1. \A k \in Networks : since'[k] <= issued.joins /\ (since'[k] = issued.joins => object'[k] # 0)
      <4>1. ASSUME NEW k \in Networks, k # n
            PROVE  since'[k] <= issued.joins /\ (since'[k] = issued.joins => object'[k] # 0)
        BY <4>1, <2>1, <1>3 DEF OwnInv, ObjectsInv
      <4>2. since'[n] <= issued.joins /\ object'[n] # 0
        BY <2>1, <1>4
      <4> QED BY <4>1, <4>2
    <3>2. \A i \in federation'.foreign : i <= federation'.last
      BY <2>1, <1>4 DEF OwnInv, ObjectsInv
    <3> QED BY <3>1, <3>2, <1>3 DEF ObjectsInv, Joined
  <2> QED BY <1>3, <2>2, <2>3, SendersInvKept, CallKept DEF OwnInv
<1> QED BY <1>5, <1>6

LEMMA ReceiveOwn ==
  ASSUME TypeInv, OwnInv, receiveInteraction
  PROVE  OwnInv'
<1>1. PICK m : m = Head(inbox)
  OBVIOUS
<1>2. /\ inbox \in Seq(Callbacks) /\ inbox # <<>> /\ m.type = "message" /\ inbox' = Tail(inbox) /\ Joined
      /\ UNCHANGED <<mState, issued, objectVars, lastCall>>
  BY <1>1 DEF TypeInv, TypeOK, receiveInteraction, keptByCallbacks
<1>3. dispatch' = [stage |-> "generic", msg |-> m, at |-> 0, todo |-> {}, called |-> {}]
  BY <1>1 DEF receiveInteraction, Idle
<1>4. SenderOK(m)
  <2>1. 1 \in 1..Len(inbox) /\ m = inbox[1]
    BY <1>1, <1>2, HeadTailProperties
  <2> QED BY <2>1, <1>2 DEF OwnInv, SendersInv
<1>5. \A k \in 1..Len(inbox') : inbox'[k] = inbox[k + 1] /\ k + 1 \in 1..Len(inbox)
  BY <1>2, HeadTailProperties
<1>6. \A k \in 1..Len(inbox') : inbox'[k].type = "message" => SenderOK(inbox'[k])
  BY <1>5 DEF OwnInv, SendersInv
<1>7. \A k \in 1..Len(inbox') : inbox'[k].type = "message" => SenderOK(inbox[k])'
  BY <1>2, <1>6 DEF SenderOK, objectVars
<1>8. dispatch'.msg = m
  BY <1>3
<1>9. SenderOK(dispatch.msg)'
  BY <1>2, <1>4, <1>8 DEF SenderOK, objectVars
<1>10. SendersInv'
  BY <1>7, <1>9 DEF SendersInv
<1> QED BY <1>2, <1>10, ObjectsKept, CallKept DEF OwnInv, objectVars

\* A step of receiveInteraction that goes on with its message, or ends with it.
LEMMA DispatchOwn ==
  ASSUME TypeInv, OwnInv, dispatch.stage \in {"generic", "byId"},
         dispatch'.stage = "none" \/ dispatch'.msg = dispatch.msg,
         UNCHANGED <<mState, issued, objectVars, inbox>>
  PROVE  ObjectsInv' /\ SendersInv'
<1>1. Joined
  BY DEF OwnInv, ObjectsInv
<1>2. ObjectsInv'
  BY <1>1, ObjectsKept DEF OwnInv, objectVars
<1>3. SendersInv'
  BY DEF OwnInv, SendersInv, SenderOK, objectVars
<1> QED BY <1>2, <1>3

LEMMA NextGenericOwn ==
  ASSUME TypeInv, OwnInv, NextGeneric
  PROVE  OwnInv'
<1>1. PICK m : m = dispatch.msg
  OBVIOUS
<1>2. dispatch \in Dispatching /\ m \in Messages /\ SenderOK(m) /\ dispatch.stage = "generic"
  BY <1>1 DEF NextGeneric, TypeInv, TypeOK, Dispatching, OwnInv, SendersInv
<1>3. UNCHANGED <<mState, issued, objectVars, inbox>>
  BY DEF NextGeneric, keptByCallbacks
<1>4. PICK next : next = {i \in Handles(GenericHandlers(m)) : i > dispatch.at}
  OBVIOUS
<1>5. PICK byId : byId = Handles(HandlersByID(m))
  OBVIOUS
<1>6. PICK least : least = Least(next)
  OBVIOUS
<1>7. \/ dispatch' = Idle
      \/ dispatch' = [dispatch EXCEPT !.at = least, !.called = @ \cup {least}]
      \/ dispatch' = [dispatch EXCEPT !.stage = "byId", !.todo = byId]
  BY <1>1, <1>4, <1>5, <1>6 DEF NextGeneric
<1>8. dispatch'.stage = "none" \/ dispatch'.msg = dispatch.msg
  <2>1. dispatch' = Idle => dispatch'.stage = "none"
    BY DEF Idle
  <2>2. dispatch' = [dispatch EXCEPT !.at = least, !.called = @ \cup {least}] => dispatch'.msg = dispatch.msg
    BY <1>2 DEF Dispatching
  <2>3. dispatch' = [dispatch EXCEPT !.stage = "byId", !.todo = byId] => dispatch'.msg = dispatch.msg
    BY <1>2 DEF Dispatching
  <2> QED BY <1>7, <2>1, <2>2, <2>3
<1>9. ObjectsInv' /\ SendersInv'
  BY <1>2, <1>3, <1>8, DispatchOwn
<1>10. lastCall' = lastCall \/ \E h : Call(h, TRUE, RequestedBySelf(m))
  BY <1>1 DEF NextGeneric
<1>11. RequestedBySelfIsRight'
  <2>1. CASE lastCall' = lastCall
    BY <2>1, CallKept DEF OwnInv
  <2>2. CASE \E h : Call(h, TRUE, RequestedBySelf(m))
    <3>1. /\ lastCall'.own = m.own /\ lastCall'.self = RequestedBySelf(m)
          /\ lastCall'.known = (m.known /\ since[m.network] = issued.joins)
      BY <2>2, <1>1 DEF Call
    <3>2. m.known /\ since[m.network] = issued.joins => (m.own <=> RequestedBySelf(m))
      BY <1>2 DEF SenderOK, RequestedBySelf
    <3>3. m.own \in BOOLEAN /\ RequestedBySelf(m) \in BOOLEAN
      BY <1>2 DEF Messages, RequestedBySelf
    <3>4. lastCall'.known => lastCall'.self = lastCall'.own
      BY <3>1, <3>2, <3>3
    <3> QED BY <3>4 DEF RequestedBySelfIsRight
  <2> QED BY <1>10, <2>1, <2>2
<1> QED BY <1>9, <1>11 DEF OwnInv

LEMMA NextByIDOwn ==
  ASSUME TypeInv, OwnInv, NextByID
  PROVE  OwnInv'
<1>1. dispatch \in Dispatching /\ dispatch.stage = "byId"
  BY DEF NextByID, TypeInv, TypeOK, Dispatching
<1>2. PICK next : next = Least(dispatch.todo)
  OBVIOUS
<1>3. /\ dispatch' = [dispatch EXCEPT !.todo = @ \ {next}, !.called = @ \cup {next}]
      /\ UNCHANGED <<mState, issued, objectVars, inbox>>
  BY <1>2 DEF NextByID, keptByCallbacks
<1>4. dispatch'.msg = dispatch.msg
  BY <1>1, <1>3 DEF Dispatching
<1>5. ObjectsInv' /\ SendersInv'
  BY <1>1, <1>3, <1>4, DispatchOwn
<1>6. lastCall'.generic = FALSE
  BY DEF NextByID, Call
<1> QED BY <1>5, <1>6 DEF OwnInv, RequestedBySelfIsRight

LEMMA EndReceiveOwn ==
  ASSUME TypeInv, OwnInv, EndReceive
  PROVE  OwnInv'
<1>1. /\ dispatch.stage = "byId" /\ dispatch'.stage = "none" /\ lastCall' = lastCall
      /\ UNCHANGED <<mState, issued, objectVars, inbox>>
  BY DEF EndReceive, Idle, keptByCallbacks
<1> QED BY <1>1, DispatchOwn, CallKept DEF OwnInv

LEMMA JoinFederationOwn ==
  ASSUME TypeInv, OwnInv, JoinFederation
  PROVE  OwnInv'
<1>1. /\ mState = "Connected" /\ mState' = "InitFederate"
      /\ issued' = [issued EXCEPT !.joins = @ + 1]
      /\ UNCHANGED <<object, since, federation, inbox, dispatch, lastCall>>
  BY DEF JoinFederation, keptByStates
<1>2. issued'.joins = issued.joins + 1 /\ issued.joins \in Nat /\ \A n \in Networks : since[n] \in Nat
  BY <1>1, Bounds DEF TypeInv, TypeOK
<1>3. inbox = <<>> /\ dispatch.stage = "none"
  BY <1>1 DEF OwnInv, ObjectsInv, Joined
<1>4. \A n \in Networks : since'[n] <= issued'.joins /\ since'[n] # issued'.joins
  BY <1>1, <1>2 DEF OwnInv, ObjectsInv
<1>5. ObjectsInv'
  BY <1>1, <1>3, <1>4 DEF OwnInv, ObjectsInv, Joined
<1>6. SendersInv'
  BY <1>1, <1>3 DEF SendersInv
<1> QED BY <1>1, <1>5, <1>6, CallKept DEF OwnInv

LEMMA LeaveOwn ==
  ASSUME TypeInv, OwnInv, Leave
  PROVE  OwnInv'
<1>1. /\ mState' = "Offline" /\ dispatch.stage = "none" /\ inbox' = <<>>
      /\ federation' = [last |-> 0, foreign |-> {}]
      /\ UNCHANGED <<object, since, dispatch, lastCall, issued>>
  BY DEF Leave, keptByStates
<1>2. federation'.foreign = {}
  BY <1>1
<1>3. ObjectsInv'
  BY <1>1, <1>2 DEF OwnInv, ObjectsInv, Joined
<1>4. SendersInv'
  BY <1>1 DEF SendersInv
<1> QED BY <1>1, <1>3, <1>4, CallKept DEF OwnInv

\* The other steps, which keep the federation the federate is in.
LEMMA SameFederation ==
  ASSUME TypeInv, OwnInv, Joined' <=> Joined, UNCHANGED <<objectVars, inbox, dispatch, lastCall, issued>>
  PROVE  OwnInv'
<1>1. ObjectsInv'
  BY DEF OwnInv, ObjectsInv, objectVars
<1>2. SendersInv'
  BY DEF OwnInv, SendersInv, SenderOK, objectVars
<1> QED BY <1>1, <1>2, CallKept DEF OwnInv

\* OnJoined does nothing with objects and messages.
LEMMA OnJoinedOwn ==
  ASSUME TypeInv, OwnInv, OnJoined \/ EndOnJoined \/ \E f \in Wanted : SubscribeNext(f)
  PROVE  OwnInv'
<1>1. /\ UNCHANGED <<objectVars, inbox, lastCall>> /\ issued' = issued /\ mState' \in States
      /\ mState' = mState \/ mState' \in {"WaitForMeasurementInit", "Online"}
      /\ mState = "InitFederate" \/ dispatch.stage = "subscribe"
  BY DEF OnJoined, EndOnJoined, SubscribeNext, TypeInv, TypeOK, States
<1>2. Joined
  BY <1>1 DEF Joined, OwnInv, ObjectsInv
<1>3. Joined'
  BY <1>1, <1>2 DEF Joined
<1>4. dispatch'.stage \in {"none", "subscribe"}
  BY OnJoinedDispatch
<1>5. ObjectsInv'
  BY <1>1, <1>2, <1>3 DEF OwnInv, ObjectsInv, objectVars
<1>6. SendersInv'
  BY <1>1, <1>4 DEF OwnInv, SendersInv, SenderOK, objectVars
<1> QED BY <1>1, <1>5, <1>6, CallKept DEF OwnInv

LEMMA OwnStep ==
  ASSUME TypeInv, OwnInv, Next
  PROVE  OwnInv'
<1>1. CASE \E f \in Wanted : Register(f)
  BY <1>1, RegisterOwn
<1>2. CASE \E h \in handlers : Unregister(h)
  BY <1>2, SameFederation DEF Unregister, callVars, Joined
<1>3. CASE \E n \in Networks, request \in BOOLEAN, i \in MessageIds : Send(n, request, i)
  BY <1>3, SendIsOwn
<1>4. CASE Others
  <2>1. ASSUME NEW named, NEW first, OthersSubscribe(named, first) PROVE OwnInv'
    BY <2>1, SameFederation DEF OthersSubscribe, callVars, Joined
  <2> QED BY <1>4, <2>1, OthersRegisterOwn, OthersSendOwn DEF Others
<1>5. CASE evokeCallback
  BY <1>5, ReservationCompletedOwn, ReceiveOwn, NextGenericOwn, NextByIDOwn, EndReceiveOwn
     DEF evokeCallback
<1>6. CASE Connect
  BY <1>6, SameFederation DEF Connect, keptByStates, objectVars, Joined
<1>7. CASE JoinFederation
  BY <1>7, JoinFederationOwn
<1>8. CASE OnJoined \/ EndOnJoined \/ \E f \in Wanted : SubscribeNext(f)
  BY <1>8, OnJoinedOwn
<1>9. CASE MeasurementInit
  BY <1>9, SameFederation DEF MeasurementInit, keptByStates, objectVars, Joined
<1>10. CASE Leave
  BY <1>10, LeaveOwn
<1> QED BY <1>1, <1>2, <1>3, <1>4, <1>5, <1>6, <1>7, <1>8, <1>9, <1>10
   DEF Next, Application, ChangesOfState

LEMMA InitOwn ==
  ASSUME Init
  PROVE  OwnInv
<1>1. /\ mState = "Offline" /\ inbox = <<>> /\ dispatch.stage = "none" /\ lastCall.generic = FALSE
      /\ federation.foreign = {} /\ issued.joins = 0 /\ \A n \in Networks : since[n] = 0
  BY DEF Init, Idle, NoCall
<1> QED BY <1>1 DEF OwnInv, ObjectsInv, SendersInv, RequestedBySelfIsRight, Joined

\* A generic handler whose controller has its object is told that a message was requested by
\* itself exactly if its controller sent it or asked for it: object handles of federations
\* left long ago, which the controllers keep, are never taken for those of this one, in any
\* interleaving of registrations, messages and changes of the federation.
THEOREM RequestedBySelfIsRightCorrect ==
  Spec => []RequestedBySelfIsRight
<1>1. Init => OwnInv
  BY InitOwn
<1>2. TypeInv /\ OwnInv /\ [Next]_vars => OwnInv'
  <2>1. ASSUME TypeInv, OwnInv, UNCHANGED vars PROVE OwnInv'
    BY <2>1, SameFederation DEF vars, callVars, Joined
  <2> QED BY <2>1, OwnStep
<1>3. OwnInv => RequestedBySelfIsRight
  BY DEF OwnInv
<1> QED BY <1>1, <1>2, <1>3, TypeInvCorrect, PTL DEF Spec
=============================================================================
