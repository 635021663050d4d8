----------------------- MODULE InteractionFilters_proofs -----------------------
(* Theorems about InteractionFilters, for every value of its constants.          *)
EXTENDS InteractionFilters, SequenceTheorems, WellFoundedInduction, TLAPS

-----------------------------------------------------------------------------
(* Type correctness: every operation on a set of tuples yields one.              *)

\* The tuples a set with these parameters may have.
Tuples(columns) == [columns -> Values \cup {NoValue}]

\* An empty set is one.
LEMMA EmptySetOK == TupleSetOK(EmptySet)
  BY DEF TupleSetOK, IsTupleSet, EmptySet

\* A set that grows stays one.
LEMMA SetTupleSizeOK ==
  ASSUME NEW T, TupleSetOK(T), NEW columns \in SUBSET Parameters
  PROVE  /\ TupleSetOK(SetTupleSize(T, columns))
         /\ SetTupleSize(T, columns).columns = columns
         /\ Len(SetTupleSize(T, columns).rows) = Len(T.rows)
  <1> DEFINE R == SetTupleSize(T, columns)
  <1>1. T.rows \in Seq(Tuples(T.columns)) /\ Len(T.rows) \in Nat /\ DOMAIN T.rows = 1..Len(T.rows)
    BY DEF TupleSetOK, IsTupleSet, Tuples
  <1>2. \A r \in DOMAIN T.rows : T.rows[r] \in Tuples(T.columns)
    BY <1>1
  <1>3. \A r \in DOMAIN T.rows :
          [p \in columns |-> IF p \in T.columns THEN T.rows[r][p] ELSE NoValue] \in Tuples(columns)
    BY <1>2 DEF Tuples
  <1>4. R.rows \in Seq(Tuples(columns)) /\ Len(R.rows) = Len(T.rows)
    BY <1>1, <1>3 DEF SetTupleSize
  <1>5. R.index \in [columns -> [Values -> SUBSET Nat]]
    BY DEF SetTupleSize, TupleSetOK, IsTupleSet
  <1>6. R.wild \in [columns -> SUBSET Nat]
    BY <1>1 DEF SetTupleSize, TupleSetOK, IsTupleSet
  <1>7. R.columns = columns
    BY DEF SetTupleSize
  <1> HIDE DEF R
  <1>8. TupleSetOK(R)
    BY <1>4, <1>5, <1>6, <1>7 DEF TupleSetOK, IsTupleSet, Tuples
  <1> QED BY <1>4, <1>7, <1>8 DEF R

\* A tuple can be inserted.
LEMMA InsertOK ==
  ASSUME NEW T, TupleSetOK(T), NEW columns \in SUBSET Parameters, NEW t \in Tuples(columns)
  PROVE  TupleSetOK(Insert(T, t)) /\ Insert(T, t).columns = columns
  <1> DEFINE R == SetTupleSize(T, columns)
             row == Len(T.rows) + 1
  <1>1. TupleSetOK(R) /\ R.columns = columns /\ Len(R.rows) = Len(T.rows)
    BY SetTupleSizeOK
  <1>2. DOMAIN t = columns
    BY DEF Tuples
  <1> HIDE DEF R
  <1>3. R.rows \in Seq(Tuples(columns)) /\ Len(R.rows) \in Nat /\ row \in Nat /\ Len(T.rows) \in Nat
    BY <1>1 DEF TupleSetOK, IsTupleSet, Tuples
  <1>4. Insert(T, t) = [columns |-> columns, rows |-> Append(R.rows, t),
          index |-> [p \in columns |-> AddToIndex(R.index[p], R.wild[p], t[p], row)],
          wild |-> [p \in columns |-> IF t[p] = NoValue THEN R.wild[p] \cup {row} ELSE R.wild[p]]]
    BY <1>1, <1>2 DEF Insert, R
  <1>5. Append(R.rows, t) \in Seq(Tuples(columns))
    BY <1>3
  <1>7. \A p \in columns : R.index[p] \in [Values -> SUBSET Nat] /\ R.wild[p] \in SUBSET Nat
    BY <1>1 DEF TupleSetOK, IsTupleSet
  <1>8. \A p \in columns : AddToIndex(R.index[p], R.wild[p], t[p], row) \in [Values -> SUBSET Nat]
    BY <1>3, <1>7 DEF AddToIndex
  <1> DEFINE I == Insert(T, t)
  <1>9. /\ I.columns = columns /\ I.rows = Append(R.rows, t)
        /\ I.index \in [columns -> [Values -> SUBSET Nat]] /\ I.wild \in [columns -> SUBSET Nat]
    BY <1>3, <1>4, <1>7, <1>8
  <1> HIDE DEF I
  <1>10. TupleSetOK(I)
    BY <1>5, <1>9 DEF TupleSetOK, IsTupleSet, Tuples
  <1> QED BY <1>9, <1>10 DEF I

\* Row k of a sequence without row i.
LEMMA RemoveAtProperties ==
  ASSUME NEW S, NEW s \in Seq(S), NEW i \in DOMAIN s
  PROVE  /\ RemoveAt(s, i) \in Seq(S)
         /\ Len(RemoveAt(s, i)) = Len(s) - 1
         /\ \A k \in 1..(Len(s) - 1) : RemoveAt(s, i)[k] = IF k < i THEN s[k] ELSE s[k + 1]
  <1> DEFINE a == SubSeq(s, 1, i - 1)
             b == SubSeq(s, i + 1, Len(s))
  <1>1. i \in 1..Len(s) /\ Len(s) \in Nat
    OBVIOUS
  <1>2. a \in Seq(S) /\ Len(a) = i - 1 /\ \A k \in 1..(i - 1) : a[k] = s[k]
    BY <1>1, SubSeqProperties
  <1>3. b \in Seq(S) /\ Len(b) = Len(s) - i /\ \A k \in 1..(Len(s) - i) : b[k] = s[i + k]
    BY <1>1, SubSeqProperties
  <1> HIDE DEF a, b
  <1>4. /\ a \o b \in Seq(S) /\ Len(a \o b) = Len(s) - 1
        /\ \A k \in 1..(Len(s) - 1) :
             (a \o b)[k] = IF k <= i - 1 THEN a[k] ELSE b[k - (i - 1)]
    BY <1>1, <1>2, <1>3, ConcatProperties
  <1>5. \A k \in 1..(Len(s) - 1) : (a \o b)[k] = IF k < i THEN s[k] ELSE s[k + 1]
    <2> TAKE k \in 1..(Len(s) - 1)
    <2>1. CASE k < i
      BY <1>1, <1>2, <1>4, <2>1
    <2>2. CASE k >= i
      <3> DEFINE j == k - (i - 1)
      <3>1. j \in 1..(Len(s) - i) /\ i + j = k + 1 /\ ~(k <= i - 1)
        BY <1>1, <2>2
      <3>2. (a \o b)[k] = b[j]
        BY <1>4, <3>1
      <3> HIDE DEF j
      <3>3. b[j] = s[k + 1]
        BY <1>3, <3>1
      <3> QED BY <2>2, <3>2, <3>3, <1>1
    <2>3. k < i \/ k >= i
      BY <1>1
    <2> QED BY <2>1, <2>2, <2>3, Zenon
  <1> QED BY <1>4, <1>5 DEF RemoveAt, a, b

\* One that is there has a first row.
LEMMA FirstRowProperties ==
  ASSUME NEW T, TupleSetOK(T), NEW t, HasTuple(T, t)
  PROVE  FirstRow(T, t) \in DOMAIN T.rows /\ T.rows[FirstRow(T, t)] = t
  <1> DEFINE N == {r \in DOMAIN T.rows : T.rows[r] = t}
             R == {p \in Nat \X Nat : p[1] < p[2]}
  <1>1. N \subseteq Nat /\ N # {} /\ DOMAIN T.rows = 1..Len(T.rows) /\ Len(T.rows) \in Nat
    BY DEF HasTuple, TupleSetOK, IsTupleSet
  <1>2. OpToRel(<, Nat) = R
    BY DEF OpToRel
  <1>3. IsWellFoundedOn(R, Nat)
    BY <1>2, NatLessThanWellFounded
  <1> HIDE DEF N, R
  <1>4. PICK r \in N : \A q \in N : ~(<<q, r>> \in R)
    BY <1>1, <1>3, WFMin
  <1>5. ASSUME NEW q \in 1..(r - 1) PROVE T.rows[q] # t
    <2>1. r \in Nat /\ q \in Nat /\ q < r /\ q \in DOMAIN T.rows
      BY <1>1, <1>4 DEF N
    <2>2. <<q, r>> \in Nat \X Nat /\ <<q, r>>[1] < <<q, r>>[2]
      BY <2>1
    <2>3. <<q, r>> \in R
      BY <2>2 DEF R
    <2> QED BY <1>4, <2>1, <2>3 DEF N
  <1>6. r \in DOMAIN T.rows /\ T.rows[r] = t
    BY <1>4 DEF N
  <1> QED BY <1>5, <1>6 DEF FirstRow

\* So it can be erased.
LEMMA EraseOK ==
  ASSUME NEW T, TupleSetOK(T), NEW t, HasTuple(T, t)
  PROVE  TupleSetOK(Erase(T, t)) /\ Erase(T, t).columns = T.columns
  <1> DEFINE row == FirstRow(T, t)
             E == Erase(T, t)
  <1>1. row \in DOMAIN T.rows /\ T.rows[row] = t
    BY FirstRowProperties
  <1>2. T.rows \in Seq(Tuples(T.columns)) /\ Len(T.rows) \in Nat /\ DOMAIN T.rows = 1..Len(T.rows)
    BY DEF TupleSetOK, IsTupleSet, Tuples
  <1>3. /\ E.columns = T.columns /\ E.rows = RemoveAt(T.rows, row)
        /\ E.index = [p \in T.columns |-> [v \in Values |-> Shift(T.index[p][v], row)]]
        /\ E.wild = [p \in T.columns |-> T.wild[p] \ {row}]
    BY DEF Erase
  <1> HIDE DEF row, E
  <1>4. /\ E.rows \in Seq(Tuples(T.columns)) /\ Len(E.rows) = Len(T.rows) - 1
        /\ \A k \in 1..(Len(T.rows) - 1) :
             E.rows[k] = IF k < row THEN T.rows[k] ELSE T.rows[k + 1]
    <2> DEFINE s == T.rows
               S == Tuples(T.columns)
    <2>1. s \in Seq(S) /\ row \in DOMAIN s
      BY <1>1, <1>2
    <2> HIDE DEF s, S
    <2>2. /\ RemoveAt(s, row) \in Seq(S) /\ Len(RemoveAt(s, row)) = Len(s) - 1
          /\ \A k \in 1..(Len(s) - 1) : RemoveAt(s, row)[k] = IF k < row THEN s[k] ELSE s[k + 1]
      BY <2>1, RemoveAtProperties
    <2> QED BY <1>3, <2>2 DEF s, S
  <1>6. \A rows \in SUBSET Nat : Shift(rows, row) \in SUBSET Nat
    <2>1. row \in Nat /\ row >= 1
      BY <1>1, <1>2
    <2>2. \A r \in Nat : r > row => r - 1 \in Nat
      BY <2>1
    <2>3. ASSUME NEW rows \in SUBSET Nat, NEW k \in Shift(rows, row) PROVE k \in Nat
      <3>1. k \in rows \/ \E r \in rows : r > row /\ k = r - 1
        BY DEF Shift
      <3> QED BY <2>2, <3>1
    <2> QED BY <2>3
  <1>7. E.index \in [T.columns -> [Values -> SUBSET Nat]]
    BY <1>3, <1>6 DEF TupleSetOK, IsTupleSet
  <1>8. E.wild \in [T.columns -> SUBSET Nat]
    BY <1>3 DEF TupleSetOK, IsTupleSet
  <1>9. TupleSetOK(E)
    BY <1>3, <1>4, <1>7, <1>8 DEF TupleSetOK, IsTupleSet, Tuples
  <1> QED BY <1>3, <1>9 DEF E

\* What AddFilter, RemoveFilter and Normalize yield.
LEMMA AddFilterOK ==
  ASSUME NEW T, TupleSetOK(T), NEW columns \in SUBSET Parameters, NEW t \in Tuples(columns)
  PROVE  TupleSetOK(AddFilter(T, t)) /\ AddFilter(T, t).columns \subseteq T.columns \cup columns
  BY InsertOK DEF AddFilter

LEMMA RemoveFilterOK ==
  ASSUME NEW T, TupleSetOK(T), NEW t
  PROVE  TupleSetOK(RemoveFilter(T, t)) /\ RemoveFilter(T, t).columns = T.columns
  BY EraseOK DEF RemoveFilter

LEMMA NormalizeOK ==
  /\ \A f \in Filters : DOMAIN f \subseteq Parameters
  /\ \A f \in Filters, columns \in SUBSET Parameters : Normalize(columns, f) \in Tuples(columns)
  BY FiltersAssumption DEF Normalize, Tuples

\* A set without the tuple it is given does not lose a row.
LEMMA RowsStay ==
  ASSUME NEW T, NEW t, ~HasTuple(T, t)
  PROVE  RemoveFilter(T, t) = T
  BY DEF RemoveFilter

LEMMA TypeInductive ==
  ASSUME TypeOK, [Next]_vars
  PROVE  TypeOK'
  <1>1. ASSUME NEW c \in Federates, NEW f \in Filters, subscribeInteractionClassWithFilter(c, f)
        PROVE  TypeOK'
    <2> DEFINE columns == client[c].prototype \cup DOMAIN f
               tuple == Normalize(columns, f)
               now == [prototype |-> columns, set |-> AddFilter(client[c].set, tuple), active |-> TRUE]
    <2>1. columns \in SUBSET Parameters /\ tuple \in Tuples(columns)
      BY NormalizeOK DEF TypeOK
    <2>2. TupleSetOK(AddFilter(client[c].set, tuple))
      BY <2>1, AddFilterOK DEF TypeOK
    <2>3. client' = [client EXCEPT ![c] = now] /\ delivered' = delivered
      BY <1>1 DEF subscribeInteractionClassWithFilter
    <2> HIDE DEF tuple
    <2>4. DOMAIN client' = Federates /\ client'[c] = now
          /\ \A d \in Federates \ {c} : client'[d] = client[d]
      BY <2>3 DEF TypeOK
    <2>5. \A d \in Federates : /\ client'[d].prototype \subseteq Parameters
                               /\ TupleSetOK(client'[d].set) /\ client'[d].active \in BOOLEAN
      <3>1. now.prototype \subseteq Parameters /\ TupleSetOK(now.set) /\ now.active \in BOOLEAN
        BY <2>1, <2>2
      <3> HIDE DEF now
      <3> QED BY <2>4, <3>1 DEF TypeOK
    <2>6. CASE HasTuple(client[c].set, tuple)
      <3>1. UNCHANGED server
        BY <1>1, <2>6 DEF subscribeInteractionClassWithFilter, tuple
      <3>2. client[c].set.rows # <<>>
        BY <2>6 DEF HasTuple
      <3> QED BY <2>3, <2>4, <2>5, <3>1, <3>2 DEF TypeOK, server
    <2>7. CASE ~HasTuple(client[c].set, tuple)
      <3> DEFINE known == prototype \cup DOMAIN f
                 row == Normalize(known, f)
      <3>1. SubscribeAtServer(c, f)
        BY <1>1, <2>7 DEF subscribeInteractionClassWithFilter, tuple
      <3>2. known \in SUBSET Parameters /\ row \in Tuples(known)
        BY NormalizeOK DEF TypeOK
      <3>3. prototype' = known /\ subscribed' = subscribed \cup {c}
        BY <3>1 DEF SubscribeAtServer
      <3>4. /\ DOMAIN filters' = DOMAIN filters \cup {c}
            /\ \A d \in DOMAIN filters' : TupleSetOK(filters'[d])
        <4>1. CASE c \in DOMAIN filters
          <5>1. filters' = [d \in DOMAIN filters |->
                  IF d = c THEN AddFilter(filters[c], row) ELSE SetTupleSize(filters[d], known)]
            BY <3>1, <4>1 DEF SubscribeAtServer
          <5>2. TupleSetOK(AddFilter(filters[c], row))
            BY <3>2, <4>1, AddFilterOK DEF TypeOK
          <5>3. \A d \in DOMAIN filters : TupleSetOK(SetTupleSize(filters[d], known))
            BY <3>2, SetTupleSizeOK DEF TypeOK
          <5> HIDE DEF row, known
          <5> QED BY <4>1, <5>1, <5>2, <5>3
        <4>2. CASE c \notin DOMAIN filters
          <5>1. filters' = [d \in DOMAIN filters \cup {c} |->
                  IF d = c THEN Insert(EmptySet, row) ELSE filters[d]]
            BY <3>1, <4>2 DEF SubscribeAtServer
          <5>2. TupleSetOK(Insert(EmptySet, row))
            BY <3>2, EmptySetOK, InsertOK
          <5> HIDE DEF row
          <5> QED BY <5>1, <5>2 DEF TypeOK
        <4> QED BY <4>1, <4>2
      <3> HIDE DEF row, known
      <3> QED BY <2>3, <2>4, <2>5, <3>2, <3>3, <3>4 DEF TypeOK
    <2> QED BY <2>6, <2>7
  <1>2. ASSUME NEW c \in Federates, NEW f \in Dropped, unsubscribeInteractionClassWithFilter(c, f)
        PROVE  TypeOK'
    <2> DEFINE columns == client[c].prototype \cup DOMAIN f
               tuple == Normalize(columns, f)
               set == RemoveFilter(client[c].set, tuple)
               now == [prototype |-> columns, set |-> set,
                       active |-> client[c].active /\ set.rows # <<>>]
    <2>0. f \in Filters
      BY FiltersAssumption
    <2>1. columns \in SUBSET Parameters
      BY <2>0, NormalizeOK DEF TypeOK
    <2>2. TupleSetOK(set)
      BY RemoveFilterOK DEF TypeOK
    <2>3. client' = [client EXCEPT ![c] = now] /\ delivered' = delivered
      BY <1>2 DEF unsubscribeInteractionClassWithFilter
    <2>4. now.active \in BOOLEAN
      BY DEF TypeOK
    <2> HIDE DEF tuple
    <2>5. set.rows # <<>> => client[c].set.rows # <<>>
      <3>1. CASE HasTuple(client[c].set, tuple)
        BY <3>1 DEF HasTuple
      <3>2. CASE ~HasTuple(client[c].set, tuple)
        BY <3>2, RowsStay
      <3> QED BY <3>1, <3>2
    <2> HIDE DEF set
    <2>6. DOMAIN client' = Federates /\ client'[c] = now
          /\ \A d \in Federates \ {c} : client'[d] = client[d]
      BY <2>3 DEF TypeOK
    <2>7. \A d \in Federates : /\ client'[d].prototype \subseteq Parameters
                               /\ TupleSetOK(client'[d].set) /\ client'[d].active \in BOOLEAN
      <3>1. now.prototype \subseteq Parameters /\ TupleSetOK(now.set) /\ now.active \in BOOLEAN
        BY <2>1, <2>2, <2>4
      <3> HIDE DEF now
      <3> QED BY <2>6, <3>1 DEF TypeOK
    <2>8. CASE HasTuple(client[c].set, tuple)
      <3>1. UnsubscribeAtServer(c, f)
        BY <1>2, <2>8 DEF unsubscribeInteractionClassWithFilter, tuple
      <3> DEFINE row == Normalize(prototype \cup DOMAIN f, f)
      <3>2. /\ prototype' = prototype \cup DOMAIN f /\ subscribed' = subscribed
            /\ filters' = [filters EXCEPT ![c] = RemoveFilter(@, row)] /\ c \in DOMAIN filters
        BY <3>1 DEF UnsubscribeAtServer
      <3>3. prototype' \subseteq Parameters
        BY <2>0, <3>2, NormalizeOK DEF TypeOK
      <3>4. TupleSetOK(RemoveFilter(filters[c], row))
        BY <3>2, RemoveFilterOK DEF TypeOK
      <3> HIDE DEF row
      <3>5. DOMAIN filters' = DOMAIN filters /\ \A d \in DOMAIN filters' : TupleSetOK(filters'[d])
        BY <3>2, <3>4 DEF TypeOK
      <3> QED BY <2>3, <2>5, <2>6, <2>7, <3>2, <3>3, <3>5 DEF TypeOK
    <2>9. CASE ~HasTuple(client[c].set, tuple)
      <3>1. UNCHANGED server
        BY <1>2, <2>9 DEF unsubscribeInteractionClassWithFilter, tuple
      <3> QED BY <2>3, <2>5, <2>6, <2>7, <3>1 DEF TypeOK, server
    <2> QED BY <2>8, <2>9
  <1>3. ASSUME NEW c \in Leavers, Leave(c) PROVE TypeOK'
    <2>0. c \in Federates
      BY FiltersAssumption
    <2>1. NotSubscribed.prototype = {} /\ TupleSetOK(NotSubscribed.set)
          /\ NotSubscribed.active \in BOOLEAN /\ NotSubscribed.set.rows = <<>>
      BY EmptySetOK DEF NotSubscribed, EmptySet
    <2>2. client' = [client EXCEPT ![c] = NotSubscribed] /\ delivered' = delivered
          /\ prototype' = prototype /\ subscribed' = subscribed \ {c}
      BY <1>3 DEF Leave, RemoveConnect
    <2>3. /\ DOMAIN filters' = DOMAIN filters \ {c}
          /\ \A d \in DOMAIN filters' : filters'[d] = filters[d]
      BY <1>3 DEF Leave, RemoveConnect, TypeOK
    <2>4. DOMAIN client' = Federates /\ client'[c] = NotSubscribed
          /\ \A d \in Federates \ {c} : client'[d] = client[d]
      BY <2>0, <2>2 DEF TypeOK
    <2> HIDE DEF NotSubscribed
    <2> QED BY <2>1, <2>2, <2>3, <2>4 DEF TypeOK
  <1>4. ASSUME NEW c \in Federates, NEW m \in Messages, Send(c, m) PROVE TypeOK'
    <2>1. UNCHANGED <<client, prototype, filters, subscribed>>
      BY <1>4 DEF Send, server
    <2>2. delivered' \in Messages \X SUBSET Federates
      BY <1>4 DEF Send, TypeOK
    <2> QED BY <2>1, <2>2 DEF TypeOK
  <1>5. CASE UNCHANGED vars
    BY <1>5 DEF TypeOK, vars, server
  <1> QED BY <1>1, <1>2, <1>3, <1>4, <1>5 DEF Next

LEMMA TypeInitially == Init => TypeOK
  <1>1. NotSubscribed.prototype = {} /\ TupleSetOK(NotSubscribed.set)
        /\ NotSubscribed.active \in BOOLEAN /\ NotSubscribed.set.rows = <<>>
    BY EmptySetOK DEF NotSubscribed, EmptySet
  <1>2. DOMAIN <<>> = {}
    OBVIOUS
  <1> QED BY <1>1, <1>2 DEF Init, TypeOK

\* Every variable has its type, whatever the filters name; the server always has the set
\* of the connect that unsubscribes a filter (ServerModel.cpp 804-825 does not look).
THEOREM TypeCorrect == Spec => []TypeOK
  <1>1. Init => TypeOK
    BY TypeInitially
  <1>2. TypeOK /\ [Next]_vars => TypeOK'
    BY TypeInductive
  <1> QED BY <1>1, <1>2, PTL DEF Spec

-----------------------------------------------------------------------------
(* When every filter names every parameter, a set is the list of its filters with   *)
(* an index that has the rows of each value and no wildcards.                        *)

Uniform == \A f \in Filters : DOMAIN f = Parameters

Full == [Parameters -> Values]

NoneTwice(s) == \A r, q \in DOMAIN s : s[r] = s[q] => r = q

\* The rows of s with the value v in column p.
RowsWith(s, p, v) == {r \in DOMAIN s : s[r][p] = v}

SetOf(s) ==
  [columns |-> Parameters,
   rows |-> s,
   index |-> [p \in Parameters |-> [v \in Values |-> RowsWith(s, p, v)]],
   wild |-> [p \in Parameters |-> {}]]

\* Such a list is a set of tuples.
LEMMA SetOfOK ==
  ASSUME NEW s \in Seq(Full)
  PROVE  TupleSetOK(SetOf(s))
  <1>1. s \in Seq([Parameters -> Values \cup {NoValue}])
    BY DEF Full
  <1>2. \A p \in Parameters, v \in Values : RowsWith(s, p, v) \in SUBSET Nat
    BY DEF RowsWith
  <1> QED BY <1>1, <1>2 DEF SetOf, TupleSetOK, IsTupleSet

\* It does not change when it is resized to the parameters it has.
LEMMA ResizeFull ==
  ASSUME NEW s \in Seq(Full)
  PROVE  SetTupleSize(SetOf(s), Parameters) = SetOf(s)
  <1>1. \A r \in DOMAIN s : s[r] \in Full
    OBVIOUS
  <1>2. \A r \in DOMAIN s : [p \in Parameters |-> s[r][p]] = s[r]
    BY <1>1 DEF Full
  <1>3. [r \in DOMAIN s |-> [p \in Parameters |-> s[r][p]]] = s
    BY <1>2
  <1>4. SetTupleSize(SetOf(s), Parameters).rows = s
    BY <1>3 DEF SetTupleSize, SetOf
  <1> QED BY <1>3 DEF SetTupleSize, SetOf

\* A new filter becomes its last row.
LEMMA InsertFull ==
  ASSUME NEW s \in Seq(Full), NEW t \in Full
  PROVE  Insert(SetOf(s), t) = SetOf(Append(s, t))
  <1> DEFINE a == Append(s, t)
             row == Len(s) + 1
  <1>1. a \in Seq(Full) /\ DOMAIN a = 1..row /\ DOMAIN s = 1..(row - 1) /\ row \in Nat
        /\ a[row] = t /\ \A r \in DOMAIN s : a[r] = s[r]
    OBVIOUS
  <1>2. \A p \in Parameters : t[p] \in Values /\ t[p] # NoValue
    BY FiltersAssumption DEF Full
  <1>3. ASSUME NEW p \in Parameters, NEW v \in Values
        PROVE  RowsWith(a, p, v) =
                 IF v = t[p] THEN RowsWith(s, p, v) \cup {row} ELSE RowsWith(s, p, v)
    BY <1>1 DEF RowsWith
  <1>4. \A p \in Parameters :
          AddToIndex([v \in Values |-> RowsWith(s, p, v)], {}, t[p], row) =
            [v \in Values |-> RowsWith(a, p, v)]
    BY <1>2, <1>3 DEF AddToIndex
  <1>5. DOMAIN t = Parameters
    BY DEF Full
  <1>6. Insert(SetOf(s), t) =
          [columns |-> Parameters, rows |-> a,
           index |-> [p \in Parameters |->
             AddToIndex([v \in Values |-> RowsWith(s, p, v)], {}, t[p], row)],
           wild |-> [p \in Parameters |-> IF t[p] = NoValue THEN {} \cup {row} ELSE {}]]
    <2> DEFINE T == SetOf(s)
               R == SetTupleSize(T, Parameters)
    <2>1. Insert(T, t) =
            [columns |-> R.columns, rows |-> Append(R.rows, t),
             index |-> [p \in R.columns |->
               AddToIndex(R.index[p], R.wild[p], t[p], Len(T.rows) + 1)],
             wild |-> [p \in R.columns |->
               IF t[p] = NoValue THEN R.wild[p] \cup {Len(T.rows) + 1} ELSE R.wild[p]]]
      BY <1>5, Zenon DEF Insert
    <2>2. R = T
      BY ResizeFull
    <2>3. /\ T.columns = Parameters /\ T.rows = s
          /\ \A p \in Parameters : /\ T.index[p] = [v \in Values |-> RowsWith(s, p, v)]
                                   /\ T.wild[p] = {}
      BY DEF SetOf
    <2> HIDE DEF R, T
    <2> QED BY <2>1, <2>2, <2>3 DEF T
  <1> HIDE DEF a, row
  <1> QED BY <1>2, <1>4, <1>6 DEF SetOf, a

\* The first filter makes a set of one row.
LEMMA InsertFirst ==
  ASSUME NEW t \in Full
  PROVE  Insert(EmptySet, t) = SetOf(<<t>>)
  <1> DEFINE R == SetTupleSize(EmptySet, Parameters)
  <1>1. TupleSetOK(R) /\ R.columns = Parameters /\ Len(R.rows) = 0
    <2>1. Len(EmptySet.rows) = 0
      BY DEF EmptySet
    <2> QED BY <2>1, EmptySetOK, SetTupleSizeOK
  <1>2. R.rows = <<>>
    BY <1>1 DEF TupleSetOK, IsTupleSet
  <1>3. R.index = [p \in Parameters |-> [v \in Values |-> {}]] /\ R.wild = [p \in Parameters |-> {}]
    BY DEF SetTupleSize, EmptySet
  <1>4. \A p \in Parameters : t[p] \in Values /\ t[p] # NoValue
    BY FiltersAssumption DEF Full
  <1>5. \A p \in Parameters, v \in Values :
          RowsWith(<<t>>, p, v) = IF v = t[p] THEN {1} ELSE {}
    BY DEF RowsWith
  <1>6. \A p \in Parameters :
          AddToIndex([v \in Values |-> {}], {}, t[p], 1) = [v \in Values |-> RowsWith(<<t>>, p, v)]
    BY <1>4, <1>5 DEF AddToIndex
  <1>7. DOMAIN t = Parameters
    BY DEF Full
  <1>8. Len(EmptySet.rows) + 1 = 1
    BY DEF EmptySet
  <1> HIDE DEF R
  <1>9. Insert(EmptySet, t) =
          [columns |-> Parameters, rows |-> <<t>>,
           index |-> [p \in Parameters |-> AddToIndex([v \in Values |-> {}], {}, t[p], 1)],
           wild |-> [p \in Parameters |-> IF t[p] = NoValue THEN {} \cup {1} ELSE {}]]
    <2>1. Insert(EmptySet, t) =
            [columns |-> R.columns, rows |-> Append(R.rows, t),
             index |-> [p \in R.columns |->
               AddToIndex(R.index[p], R.wild[p], t[p], Len(EmptySet.rows) + 1)],
             wild |-> [p \in R.columns |->
               IF t[p] = NoValue THEN R.wild[p] \cup {Len(EmptySet.rows) + 1} ELSE R.wild[p]]]
      BY <1>7, Zenon DEF Insert, R
    <2>2. Append(<<>>, t) = <<t>>
      OBVIOUS
    <2>3. \A p \in Parameters : R.index[p] = [v \in Values |-> {}] /\ R.wild[p] = {}
      BY <1>3
    <2>4. [p \in Parameters |-> AddToIndex(R.index[p], R.wild[p], t[p], 1)] =
            [p \in Parameters |-> AddToIndex([v \in Values |-> {}], {}, t[p], 1)]
      BY <2>3
    <2>5. [p \in Parameters |-> IF t[p] = NoValue THEN R.wild[p] \cup {1} ELSE R.wild[p]] =
            [p \in Parameters |-> IF t[p] = NoValue THEN {} \cup {1} ELSE {}]
      BY <2>3
    <2>6. Append(R.rows, t) = <<t>>
      BY <1>2, <2>2
    <2> QED BY <1>1, <1>8, <2>1, <2>4, <2>5, <2>6, Zenon
  <1> QED BY <1>4, <1>6, <1>9 DEF SetOf

\* What an erased filter leaves: the other filters, with the rows they now have.
LEMMA EraseFull ==
  ASSUME NEW s \in Seq(Full), NoneTwice(s), NEW t \in Full, NEW row \in DOMAIN s, s[row] = t
  PROVE  \E u \in Seq(Full) :
           /\ NoneTwice(u) /\ Erase(SetOf(s), t) = SetOf(u)
           /\ {u[k] : k \in DOMAIN u} = {s[r] : r \in DOMAIN s} \ {t}
  <1> DEFINE u == RemoveAt(s, row)
  <1>1. Len(s) \in Nat /\ DOMAIN s = 1..Len(s) /\ row \in 1..Len(s)
    OBVIOUS
  <1>2. /\ u \in Seq(Full) /\ Len(u) = Len(s) - 1 /\ DOMAIN u = 1..(Len(s) - 1)
        /\ \A k \in 1..(Len(s) - 1) : u[k] = IF k < row THEN s[k] ELSE s[k + 1]
    <2>1. /\ u \in Seq(Full) /\ Len(u) = Len(s) - 1
          /\ \A k \in 1..(Len(s) - 1) : u[k] = IF k < row THEN s[k] ELSE s[k + 1]
      BY RemoveAtProperties
    <2> HIDE DEF u
    <2> QED BY <1>1, <2>1
  <1>3. row = FirstRow(SetOf(s), t)
    <2>1. HasTuple(SetOf(s), t)
      BY DEF HasTuple, SetOf
    <2>2. FirstRow(SetOf(s), t) \in DOMAIN s /\ s[FirstRow(SetOf(s), t)] = t
      BY <2>1, SetOfOK, FirstRowProperties DEF SetOf
    <2> QED BY <2>2 DEF NoneTwice
  <1>5. Erase(SetOf(s), t) =
          [columns |-> Parameters, rows |-> u,
           index |-> [p \in Parameters |-> [v \in Values |-> Shift(RowsWith(s, p, v), row)]],
           wild |-> [p \in Parameters |-> {} \ {row}]]
    BY <1>3 DEF Erase, SetOf
  <1> HIDE DEF u
  <1>7. ASSUME NEW p \in Parameters, NEW v \in Values
        PROVE  Shift(RowsWith(s, p, v), row) = RowsWith(u, p, v)
    <2>1. ASSUME NEW k \in RowsWith(u, p, v) PROVE k \in Shift(RowsWith(s, p, v), row)
      <3>1. k \in 1..(Len(s) - 1) /\ u[k][p] = v
        BY <1>2 DEF RowsWith
      <3>2. CASE k < row
        BY <1>1, <1>2, <3>1, <3>2 DEF RowsWith, Shift
      <3>3. CASE ~(k < row)
        <4>1. k + 1 \in RowsWith(s, p, v) /\ k + 1 > row /\ k = (k + 1) - 1
          BY <1>1, <1>2, <3>1, <3>3 DEF RowsWith
        <4> QED BY <4>1 DEF Shift
      <3> QED BY <3>2, <3>3
    <2>2. ASSUME NEW k \in Shift(RowsWith(s, p, v), row) PROVE k \in RowsWith(u, p, v)
      <3>1. CASE k \in RowsWith(s, p, v) /\ k < row
        BY <1>1, <1>2, <3>1 DEF RowsWith
      <3>2. CASE \E r \in RowsWith(s, p, v) : r > row /\ k = r - 1
        <4>1. PICK r \in RowsWith(s, p, v) : r > row /\ k = r - 1
          BY <3>2
        <4>2. r \in 1..Len(s) /\ s[r][p] = v /\ k \in 1..(Len(s) - 1) /\ ~(k < row) /\ k + 1 = r
          BY <1>1, <4>1 DEF RowsWith
        <4>3. u[k] = s[r]
          BY <1>2, <4>2
        <4> QED BY <1>2, <4>2, <4>3 DEF RowsWith
      <3> QED BY <3>1, <3>2 DEF Shift
    <2> QED BY <2>1, <2>2
  <1>6. NoneTwice(u)
    <2> DEFINE At(k) == IF k < row THEN k ELSE k + 1
    <2>1. \A k \in DOMAIN u : At(k) \in DOMAIN s /\ u[k] = s[At(k)]
      BY <1>1, <1>2
    <2>2. \A j, k \in DOMAIN u : At(j) = At(k) => j = k
      BY <1>1, <1>2
    <2> HIDE DEF At
    <2> SUFFICES ASSUME NEW j \in DOMAIN u, NEW k \in DOMAIN u, u[j] = u[k] PROVE j = k
      BY DEF NoneTwice
    <2>3. At(j) = At(k)
      BY <2>1 DEF NoneTwice
    <2> QED BY <2>2, <2>3
  <1>8. Erase(SetOf(s), t) = SetOf(u)
    BY <1>5, <1>7 DEF SetOf
  <1>9. {u[k] : k \in DOMAIN u} = {s[r] : r \in DOMAIN s} \ {t}
    <2>1. ASSUME NEW k \in DOMAIN u PROVE u[k] \in {s[r] : r \in DOMAIN s} \ {t}
      <3>1. PICK r \in DOMAIN s : r # row /\ u[k] = s[r]
        <4>1. CASE k < row
          BY <1>1, <1>2, <4>1
        <4>2. CASE ~(k < row)
          <5>1. k + 1 \in DOMAIN s /\ k + 1 # row /\ u[k] = s[k + 1]
            BY <1>1, <1>2, <4>2
          <5> QED BY <5>1
        <4> QED BY <4>1, <4>2
      <3> QED BY <3>1 DEF NoneTwice
    <2>2. ASSUME NEW r \in DOMAIN s, s[r] # t PROVE s[r] \in {u[k] : k \in DOMAIN u}
      <3>1. CASE r < row
        <4>1. r \in DOMAIN u /\ u[r] = s[r]
          BY <1>1, <1>2, <3>1
        <4> QED BY <4>1
      <3>2. CASE r > row
        <4> DEFINE k == r - 1
        <4>1. k \in 1..(Len(s) - 1) /\ ~(k < row) /\ k + 1 = r
          BY <1>1, <3>2
        <4> HIDE DEF k
        <4>2. k \in DOMAIN u /\ u[k] = s[r]
          BY <1>2, <4>1
        <4> QED BY <4>2
      <3>3. r # row
        BY <2>2
      <3> QED BY <1>1, <3>1, <3>2, <3>3
    <2> QED BY <2>1, <2>2
  <1> QED BY <1>2, <1>6, <1>8, <1>9

\* The index finds the filters that are there.
LEMMA MatchFull ==
  ASSUME NEW s \in Seq(Full), s # <<>>, NEW m \in Full
  PROVE  FindNormalized(SetOf(s), m) <=> \E r \in DOMAIN s : s[r] = m
  <1>1. DOMAIN m = Parameters /\ \A p \in Parameters : m[p] \in Values /\ m[p] # NoValue
    BY FiltersAssumption DEF Full
  <1>2. \A r \in DOMAIN s : s[r] \in Full
    OBVIOUS
  <1>3. \A r \in DOMAIN s : s[r] = m <=> \A p \in Parameters : s[r][p] = m[p]
    BY <1>2 DEF Full
  <1>4. \A p \in Parameters :
          /\ SetOf(s).index[p][m[p]] = RowsWith(s, p, m[p])
          /\ SetOf(s).wild[p] = {}
    BY <1>1 DEF SetOf
  <1>5. {p \in DOMAIN m : m[p] # NoValue} = Parameters /\ SetOf(s).columns = Parameters
    BY <1>1 DEF SetOf
  <1>6. FindNormalized(SetOf(s), m) <=>
          \/ Parameters = {}
          \/ \E r \in UNION {RowsWith(s, p, m[p]) : p \in Parameters} :
               \A p \in Parameters : r \in RowsWith(s, p, m[p])
    <2> DEFINE found(p) == IF SetOf(s).index[p][m[p]] # {} THEN SetOf(s).index[p][m[p]]
                           ELSE SetOf(s).wild[p]
    <2>1. \A p \in Parameters : found(p) = RowsWith(s, p, m[p])
      BY <1>4
    <2> HIDE DEF found
    <2>2. FindNormalized(SetOf(s), m) <=>
            \/ Parameters = {}
            \/ \E r \in UNION {found(p) : p \in Parameters} : \A p \in Parameters : r \in found(p)
      BY <1>1, <1>5, Zenon DEF FindNormalized, found
    <2>3. UNION {found(p) : p \in Parameters} = UNION {RowsWith(s, p, m[p]) : p \in Parameters}
      BY <2>1
    <2>4. \A r : (\A p \in Parameters : r \in found(p)) <=>
                \A p \in Parameters : r \in RowsWith(s, p, m[p])
      BY <2>1
    <2> HIDE DEF found
    <2> QED BY <2>2, <2>3, <2>4, Zenon
  <1>7. CASE Parameters = {}
    <2>1. 1 \in DOMAIN s
      OBVIOUS
    <2> QED BY <1>3, <1>6, <1>7, <2>1
  <1>8. CASE Parameters # {}
    BY <1>3, <1>6, <1>8 DEF RowsWith
  <1> QED BY <1>7, <1>8

\* Filters and interactions have a value for every parameter already.
LEMMA NormalizeFull ==
  ASSUME NEW f \in Full
  PROVE  Normalize(Parameters, f) = f
  BY DEF Normalize, Full

\* A row is the filter it was made for.
LEMMA FiltersOfFull ==
  /\ \A s \in Seq(Full) : FiltersOf(SetOf(s)) = {s[r] : r \in DOMAIN s}
  /\ FiltersOf(EmptySet) = {}
  <1>1. ASSUME NEW t \in Full PROVE Filter(t) = t
    <2>1. DOMAIN t = Parameters /\ \A p \in Parameters : t[p] # NoValue
      BY FiltersAssumption DEF Full
    <2>2. {p \in DOMAIN t : t[p] # NoValue} = Parameters
      BY <2>1
    <2> QED BY <2>2 DEF Filter, Full
  <1>2. ASSUME NEW s \in Seq(Full) PROVE FiltersOf(SetOf(s)) = {s[r] : r \in DOMAIN s}
    <2>1. \A r \in DOMAIN s : Filter(s[r]) = s[r]
      BY <1>1
    <2>2. FiltersOf(SetOf(s)) = {Filter(s[r]) : r \in DOMAIN s}
      BY DEF FiltersOf, SetOf
    <2> QED BY <2>1, <2>2
  <1>3. DOMAIN EmptySet.rows = {}
    BY DEF EmptySet
  <1> QED BY <1>2, <1>3 DEF FiltersOf

-----------------------------------------------------------------------------
(* Then the server's set of a connect is the ambassador's.                         *)

IsSet(T) == \E s \in Seq(Full) : NoneTwice(s) /\ T = SetOf(s)

ServedInv ==
  /\ DOMAIN filters = subscribed
  /\ subscribed # {} => prototype = Parameters
  /\ \A c \in subscribed : IsSet(client[c].set) /\ filters[c] = client[c].set
  /\ \A c \in Federates \ subscribed : client[c].set = EmptySet
  /\ \A c \in Federates : client[c].active <=> client[c].set.rows # <<>>

\* The filters of a set after one has been added or removed.
LEMMA SetsOfFilters ==
  ASSUME NEW T, IsSet(T), NEW t \in Full
  PROVE  /\ IsSet(AddFilter(T, t)) /\ FiltersOf(AddFilter(T, t)) = FiltersOf(T) \cup {t}
         /\ IsSet(RemoveFilter(T, t)) /\ FiltersOf(RemoveFilter(T, t)) = FiltersOf(T) \ {t}
         /\ SetTupleSize(T, Parameters) = T
         /\ AddFilter(T, t).rows # <<>>
  <1>1. PICK s \in Seq(Full) : NoneTwice(s) /\ T = SetOf(s)
    BY DEF IsSet
  <1>2. FiltersOf(T) = {s[r] : r \in DOMAIN s}
    BY <1>1, FiltersOfFull
  <1>3. HasTuple(T, t) <=> t \in FiltersOf(T)
    BY <1>1, <1>2 DEF HasTuple, SetOf
  <1>4. SetTupleSize(T, Parameters) = T
    BY <1>1, ResizeFull
  <1>5. CASE HasTuple(T, t)
    <2>1. AddFilter(T, t) = T /\ RemoveFilter(T, t) = Erase(T, t)
      BY <1>5 DEF AddFilter, RemoveFilter
    <2>2. PICK row \in DOMAIN s : s[row] = t
      BY <1>1, <1>5 DEF HasTuple, SetOf
    <2>3. PICK u \in Seq(Full) :
            /\ NoneTwice(u) /\ Erase(SetOf(s), t) = SetOf(u)
            /\ {u[k] : k \in DOMAIN u} = {s[r] : r \in DOMAIN s} \ {t}
      BY <1>1, <2>2, EraseFull
    <2>4. FiltersOf(SetOf(u)) = FiltersOf(T) \ {t}
      BY <1>2, <2>3, FiltersOfFull
    <2>5. T.rows # <<>>
      BY <1>1, <2>2 DEF SetOf
    <2> QED BY <1>1, <1>3, <1>4, <1>5, <2>1, <2>3, <2>4, <2>5 DEF IsSet
  <1>6. CASE ~HasTuple(T, t)
    <2> DEFINE a == Append(s, t)
    <2>1. AddFilter(T, t) = SetOf(a) /\ RemoveFilter(T, t) = T
      BY <1>1, <1>6, InsertFull DEF AddFilter, RemoveFilter
    <2>2. a \in Seq(Full) /\ DOMAIN a = 1..(Len(s) + 1) /\ DOMAIN s = 1..Len(s) /\ Len(s) \in Nat
          /\ a[Len(s) + 1] = t /\ \A r \in DOMAIN s : a[r] = s[r]
      OBVIOUS
    <2>3. \A r \in DOMAIN s : s[r] # t
      BY <1>1, <1>6 DEF HasTuple, SetOf
    <2> HIDE DEF a
    <2>4. NoneTwice(a)
      BY <1>1, <2>2, <2>3 DEF NoneTwice
    <2>5. {a[r] : r \in DOMAIN a} = {s[r] : r \in DOMAIN s} \cup {t}
      BY <2>2
    <2>6. FiltersOf(SetOf(a)) = FiltersOf(T) \cup {t}
      BY <1>2, <2>2, <2>5, FiltersOfFull
    <2>7. SetOf(a).rows # <<>>
      BY <2>2 DEF SetOf
    <2> QED BY <1>1, <1>3, <1>4, <1>6, <2>1, <2>2, <2>4, <2>6, <2>7 DEF IsSet
  <1> QED BY <1>5, <1>6

\* The first filter of a connect.
LEMMA FirstFilter ==
  ASSUME NEW t \in Full
  PROVE  /\ AddFilter(EmptySet, t) = Insert(EmptySet, t) /\ ~HasTuple(EmptySet, t)
         /\ IsSet(Insert(EmptySet, t)) /\ FiltersOf(Insert(EmptySet, t)) = {t}
         /\ Insert(EmptySet, t).rows # <<>>
         /\ RemoveFilter(EmptySet, t) = EmptySet /\ FiltersOf(EmptySet) = {}
  <1> DEFINE s == <<t>>
  <1>1. ~HasTuple(EmptySet, t)
    BY DEF HasTuple, EmptySet
  <1>2. Insert(EmptySet, t) = SetOf(s)
    BY InsertFirst
  <1>3. s \in Seq(Full) /\ DOMAIN s = {1} /\ s[1] = t
    OBVIOUS
  <1> HIDE DEF s
  <1>4. NoneTwice(s) /\ {s[r] : r \in DOMAIN s} = {t}
    BY <1>3 DEF NoneTwice
  <1>5. FiltersOf(SetOf(s)) = {t} /\ FiltersOf(EmptySet) = {}
    BY <1>3, <1>4, FiltersOfFull
  <1>6. SetOf(s).rows # <<>>
    BY <1>3 DEF SetOf
  <1> QED BY <1>1, <1>2, <1>3, <1>4, <1>5, <1>6 DEF IsSet, AddFilter, RemoveFilter

\* With such filters the columns are the parameters and a filter is its tuple.
LEMMA UniformFilters ==
  ASSUME Uniform, NEW f \in Filters, NEW columns \in SUBSET Parameters
  PROVE  /\ f \in Full /\ columns \cup DOMAIN f = Parameters
         /\ Normalize(columns \cup DOMAIN f, f) = f
  <1>1. f \in Full /\ columns \cup DOMAIN f = Parameters
    BY FiltersAssumption DEF Uniform, Full
  <1> QED BY <1>1, NormalizeFull

\* What a subscription and the end of one do.
LEMMA SubscribeStep ==
  ASSUME Uniform, TypeOK, ServedInv, NEW c \in Federates, NEW f \in Filters,
         subscribeInteractionClassWithFilter(c, f)
  PROVE  /\ ServedInv'
         /\ FiltersOf(client'[c].set) = FiltersOf(client[c].set) \cup {f}
         /\ \A d \in Federates \ {c} : client'[d] = client[d]
         /\ delivered' = delivered
  <1> DEFINE T == client[c].set
  <1>1. f \in Full
    BY UniformFilters
  <1>2. client[c].prototype \cup DOMAIN f = Parameters
        /\ Normalize(client[c].prototype \cup DOMAIN f, f) = f
    BY UniformFilters DEF TypeOK
  <1>3. prototype \cup DOMAIN f = Parameters /\ Normalize(prototype \cup DOMAIN f, f) = f
    BY UniformFilters DEF TypeOK
  <1>4. /\ client' = [client EXCEPT ![c] =
              [prototype |-> Parameters, set |-> AddFilter(T, f), active |-> TRUE]]
        /\ IF HasTuple(T, f) THEN UNCHANGED server ELSE SubscribeAtServer(c, f)
        /\ delivered' = delivered
    BY <1>2, Zenon DEF subscribeInteractionClassWithFilter
  <1>5. /\ DOMAIN client' = Federates
        /\ client'[c] = [prototype |-> Parameters, set |-> AddFilter(T, f), active |-> TRUE]
        /\ \A d \in Federates \ {c} : client'[d] = client[d]
    BY <1>4 DEF TypeOK
  <1>6. /\ IsSet(AddFilter(T, f)) /\ AddFilter(T, f).rows # <<>>
        /\ FiltersOf(AddFilter(T, f)) = FiltersOf(T) \cup {f}
    <2>1. CASE c \in subscribed
      BY <1>1, <2>1, SetsOfFilters DEF ServedInv
    <2>2. CASE c \notin subscribed
      BY <1>1, <2>2, FirstFilter DEF ServedInv
    <2> QED BY <2>1, <2>2
  <1>7. ServedInv'
    <2>1. CASE HasTuple(T, f)
      <3>1. UNCHANGED <<prototype, filters, subscribed>> /\ AddFilter(T, f) = T
        BY <1>4, <2>1 DEF server, AddFilter
      <3>2. c \in subscribed
        BY <1>1, <2>1, FirstFilter DEF ServedInv
      <3>3. client'[c].set = T /\ client'[c].active
        BY <1>5, <3>1
      <3>4. T.rows # <<>>
        BY <1>6, <3>1
      <3>5. \A d \in Federates : client'[d].set = client[d].set
        BY <1>5, <3>3
      <3>6. \A d \in Federates : client'[d].active <=> client'[d].set.rows # <<>>
        BY <1>5, <3>3, <3>4 DEF ServedInv
      <3> QED BY <3>1, <3>5, <3>6 DEF ServedInv, TypeOK
    <2>2. CASE ~HasTuple(T, f)
      <3>1. SubscribeAtServer(c, f)
        BY <1>4, <2>2
      <3>2. /\ prototype' = Parameters /\ subscribed' = subscribed \cup {c}
            /\ filters' =
                 IF c \in DOMAIN filters
                 THEN [d \in DOMAIN filters |->
                         IF d = c THEN AddFilter(filters[c], f)
                         ELSE SetTupleSize(filters[d], Parameters)]
                 ELSE [d \in DOMAIN filters \cup {c} |->
                         IF d = c THEN Insert(EmptySet, f) ELSE filters[d]]
        BY <1>3, <3>1, Zenon DEF SubscribeAtServer
      <3>3. DOMAIN filters' = subscribed'
        BY <3>2 DEF ServedInv
      <3>4. filters'[c] = AddFilter(T, f)
        <4>1. CASE c \in subscribed
          BY <3>2, <4>1 DEF ServedInv
        <4>2. CASE c \notin subscribed
          <5>1. filters'[c] = Insert(EmptySet, f) /\ T = EmptySet
            BY <3>2, <4>2 DEF ServedInv
          <5> QED BY <1>1, <5>1, FirstFilter
        <4> QED BY <4>1, <4>2
      <3>5. ASSUME NEW d \in subscribed, d # c PROVE filters'[d] = client[d].set
        <4>1. SetTupleSize(filters[d], Parameters) = filters[d] /\ filters[d] = client[d].set
          BY <1>1, <3>5, SetsOfFilters DEF ServedInv
        <4> QED BY <3>2, <3>5, <4>1 DEF ServedInv
      <3>6. \A d \in Federates \ subscribed' : client'[d].set = EmptySet
        BY <1>5, <3>2 DEF ServedInv
      <3>7. \A d \in subscribed' : IsSet(client'[d].set) /\ filters'[d] = client'[d].set
        BY <1>5, <1>6, <3>2, <3>4, <3>5 DEF ServedInv, TypeOK
      <3>8. \A d \in Federates : client'[d].active <=> client'[d].set.rows # <<>>
        BY <1>5, <1>6 DEF ServedInv
      <3> QED BY <3>2, <3>3, <3>6, <3>7, <3>8 DEF ServedInv
    <2> QED BY <2>1, <2>2
  <1> QED BY <1>4, <1>5, <1>6, <1>7

LEMMA UnsubscribeStep ==
  ASSUME Uniform, TypeOK, ServedInv, NEW c \in Federates, NEW f \in Filters,
         unsubscribeInteractionClassWithFilter(c, f)
  PROVE  /\ ServedInv'
         /\ FiltersOf(client'[c].set) = FiltersOf(client[c].set) \ {f}
         /\ \A d \in Federates \ {c} : client'[d] = client[d]
         /\ delivered' = delivered
  <1> DEFINE T == client[c].set
             E == RemoveFilter(T, f)
             on == client[c].active /\ E.rows # <<>>
  <1>1. f \in Full
    BY UniformFilters
  <1>2. client[c].prototype \cup DOMAIN f = Parameters
        /\ Normalize(client[c].prototype \cup DOMAIN f, f) = f
    BY UniformFilters DEF TypeOK
  <1>3. prototype \cup DOMAIN f = Parameters /\ Normalize(prototype \cup DOMAIN f, f) = f
    BY UniformFilters DEF TypeOK
  <1>4. /\ client' = [client EXCEPT ![c] =
              [prototype |-> Parameters, set |-> E, active |-> on]]
        /\ IF HasTuple(T, f) THEN UnsubscribeAtServer(c, f) ELSE UNCHANGED server
        /\ delivered' = delivered
    BY <1>2, Zenon DEF unsubscribeInteractionClassWithFilter
  <1>5. /\ DOMAIN client' = Federates
        /\ client'[c] = [prototype |-> Parameters, set |-> E, active |-> on]
        /\ \A d \in Federates \ {c} : client'[d] = client[d]
    BY <1>4 DEF TypeOK
  <1>6. /\ c \in subscribed => IsSet(E)
        /\ FiltersOf(E) = FiltersOf(T) \ {f}
        /\ c \notin subscribed => E = EmptySet
    <2>1. CASE c \in subscribed
      BY <1>1, <2>1, SetsOfFilters DEF ServedInv
    <2>2. CASE c \notin subscribed
      BY <1>1, <2>2, FirstFilter DEF ServedInv
    <2> QED BY <2>1, <2>2
  <1>7. E.rows # <<>> => T.rows # <<>>
    <2>1. CASE HasTuple(T, f)
      BY <2>1 DEF HasTuple
    <2>2. CASE ~HasTuple(T, f)
      BY <2>2, RowsStay
    <2> QED BY <2>1, <2>2
  <1> HIDE DEF E, on
  <1>8. \A d \in Federates : client'[d].active <=> client'[d].set.rows # <<>>
    <2>1. client'[c].active = on /\ client'[c].set = E
      BY <1>5
    <2>2. client'[c].active <=> client'[c].set.rows # <<>>
      BY <1>7, <2>1 DEF ServedInv, on
    <2> QED BY <1>5, <2>2 DEF ServedInv
  <1>9. /\ prototype' = Parameters \/ UNCHANGED prototype
        /\ subscribed' = subscribed /\ DOMAIN filters' = DOMAIN filters
        /\ c \in subscribed => filters'[c] = E
        /\ \A d \in subscribed \ {c} : filters'[d] = filters[d]
    <2>1. CASE HasTuple(T, f)
      <3>1. /\ prototype' = Parameters /\ subscribed' = subscribed /\ c \in DOMAIN filters
            /\ filters' = [filters EXCEPT ![c] = RemoveFilter(@, f)]
        BY <1>3, <1>4, <2>1, Zenon DEF UnsubscribeAtServer
      <3> QED BY <3>1 DEF ServedInv, E
    <2>2. CASE ~HasTuple(T, f)
      <3>1. UNCHANGED <<prototype, filters, subscribed>>
        BY <1>4, <2>2 DEF server
      <3>2. E = T
        BY <2>2, RowsStay DEF E
      <3> QED BY <3>1, <3>2 DEF ServedInv
    <2> QED BY <2>1, <2>2
  <1>10. ServedInv'
    <2>1. \A d \in subscribed' : IsSet(client'[d].set) /\ filters'[d] = client'[d].set
      BY <1>5, <1>6, <1>9 DEF ServedInv, TypeOK
    <2>2. \A d \in Federates \ subscribed' : client'[d].set = EmptySet
      BY <1>5, <1>6, <1>9 DEF ServedInv
    <2> QED BY <1>8, <1>9, <2>1, <2>2 DEF ServedInv
  <1> QED BY <1>4, <1>5, <1>6, <1>10

LEMMA LeaveStep ==
  ASSUME TypeOK, ServedInv, NEW c \in Federates, Leave(c)
  PROVE  /\ ServedInv'
         /\ client'[c].set = EmptySet
         /\ \A d \in Federates \ {c} : client'[d] = client[d]
         /\ delivered' = delivered
  <1>1. NotSubscribed.set = EmptySet /\ ~NotSubscribed.active /\ EmptySet.rows = <<>>
    BY DEF NotSubscribed, EmptySet
  <1> HIDE DEF NotSubscribed
  <1>2. client' = [client EXCEPT ![c] = NotSubscribed] /\ delivered' = delivered
        /\ prototype' = prototype /\ subscribed' = subscribed \ {c}
    BY DEF Leave, RemoveConnect
  <1>3. /\ DOMAIN filters' = DOMAIN filters \ {c}
        /\ \A d \in DOMAIN filters' : filters'[d] = filters[d]
    BY DEF Leave, RemoveConnect, ServedInv
  <1>4. /\ DOMAIN client' = Federates /\ client'[c] = NotSubscribed
        /\ \A d \in Federates \ {c} : client'[d] = client[d]
    BY <1>2 DEF TypeOK
  <1>5. ServedInv'
    BY <1>1, <1>2, <1>3, <1>4 DEF ServedInv, TypeOK
  <1> QED BY <1>1, <1>2, <1>4, <1>5

LEMMA ServedInitially == Init => ServedInv
  <1>1. NotSubscribed.set = EmptySet /\ ~NotSubscribed.active /\ EmptySet.rows = <<>>
    BY DEF NotSubscribed, EmptySet
  <1>2. DOMAIN <<>> = {}
    OBVIOUS
  <1> QED BY <1>1, <1>2 DEF Init, ServedInv

LEMMA ServedInductive ==
  ASSUME Uniform, TypeOK, ServedInv, [Next]_vars
  PROVE  ServedInv'
  <1>1. ASSUME NEW c \in Federates, NEW f \in Filters, subscribeInteractionClassWithFilter(c, f)
        PROVE  ServedInv'
    BY <1>1, SubscribeStep
  <1>2. ASSUME NEW c \in Federates, NEW f \in Dropped, unsubscribeInteractionClassWithFilter(c, f)
        PROVE  ServedInv'
    BY <1>2, UnsubscribeStep, FiltersAssumption
  <1>3. ASSUME NEW c \in Leavers, Leave(c) PROVE ServedInv'
    BY <1>3, LeaveStep, FiltersAssumption
  <1>4. ASSUME NEW c \in Federates, NEW m \in Messages, Send(c, m) PROVE ServedInv'
    BY <1>4 DEF Send, server, ServedInv
  <1>5. CASE UNCHANGED vars
    BY <1>5 DEF vars, server, ServedInv
  <1> QED BY <1>1, <1>2, <1>3, <1>4, <1>5 DEF Next

-----------------------------------------------------------------------------
(* What follows.                                                                   *)

\* The server's sets find what their filters cover.
LEMMA MatchesFollow ==
  ASSUME Uniform, TypeOK, ServedInv, NEW c \in subscribed, NEW m \in Messages,
         filters[c].rows # <<>>
  PROVE  isMatching(c, m) <=> m \in FiltersOf(filters[c])
  <1>1. PICK s \in Seq(Full) : filters[c] = SetOf(s)
    BY DEF ServedInv, IsSet
  <1>2. s # <<>> /\ m \in Full /\ Normalize(prototype, m) = m
    BY <1>1, NormalizeFull DEF ServedInv, SetOf, Messages, Full
  <1>3. isMatching(c, m) <=> FindNormalized(SetOf(s), m)
    BY <1>1, <1>2 DEF isMatching, ServedInv
  <1> QED BY <1>1, <1>2, <1>3, MatchFull, FiltersOfFull

\* A filter with all parameters covers one interaction.
LEMMA CoversOne ==
  ASSUME NEW T, IsSet(T), NEW m \in Messages
  PROVE  (\E f \in FiltersOf(T) : \A p \in DOMAIN f : f[p] = m[p]) <=> m \in FiltersOf(T)
  <1>1. FiltersOf(T) \subseteq Full
    BY FiltersOfFull DEF IsSet
  <1>2. ASSUME NEW f \in Full PROVE (\A p \in DOMAIN f : f[p] = m[p]) <=> f = m
    BY DEF Full, Messages
  <1> QED BY <1>1, <1>2

\* Where every filter names every parameter the index of the server is exact, however
\* many filters were added and removed and by whom (VariableLengthDataTuple.cpp).
THEOREM MatchesAreExactCorrect ==
  ASSUME Uniform
  PROVE  Spec => []MatchesAreExact
  <1>1. Init => TypeOK /\ ServedInv
    BY TypeInitially, ServedInitially
  <1>2. TypeOK /\ ServedInv /\ [Next]_vars => (TypeOK /\ ServedInv)'
    BY TypeInductive, ServedInductive
  <1>3. TypeOK /\ ServedInv => MatchesAreExact
    <2> SUFFICES ASSUME TypeOK, ServedInv, NEW c \in DOMAIN filters, NEW m \in Messages,
                        filters[c].rows # <<>>
                 PROVE  isMatching(c, m) <=>
                          \E f \in FiltersOf(filters[c]) : \A p \in DOMAIN f : f[p] = m[p]
      BY DEF MatchesAreExact
    <2>1. c \in subscribed /\ IsSet(filters[c])
      BY DEF ServedInv
    <2> QED BY <2>1, MatchesFollow, CoversOne
  <1> QED BY <1>1, <1>2, <1>3, PTL DEF Spec

\* Then what the server and the ambassadors do together keeps the promise: it implements
\* the abstract subscriptions, with the ambassadors' filters as what is subscribed.
THEOREM PromiseKeptCorrect ==
  ASSUME Uniform
  PROVE  Spec => PromiseKept
  <1> DEFINE now == [c \in Federates |-> FiltersOf(client[c].set)]
  <1>1. Init => Promise!Init
    <2> SUFFICES ASSUME Init PROVE Promise!Init
      OBVIOUS
    <2>1. \A c \in Federates : client[c].set = EmptySet
      BY DEF Init, NotSubscribed
    <2>2. now = [c \in Federates |-> {}]
      BY <2>1, FiltersOfFull
    <2> QED BY <2>2 DEF Init, Promise!Init
  <1>2. TypeOK /\ ServedInv /\ [Next]_vars => [Promise!Next]_(Promise!vars)
    <2> SUFFICES ASSUME TypeOK, ServedInv, [Next]_vars PROVE [Promise!Next]_(Promise!vars)
      OBVIOUS
    <2>1. ASSUME NEW c \in Federates, NEW f \in Filters, subscribeInteractionClassWithFilter(c, f)
          PROVE  Promise!Next
      <3>1. now' = [now EXCEPT ![c] = @ \cup {f}] /\ delivered' = delivered
        BY <2>1, SubscribeStep
      <3> QED BY <3>1 DEF Promise!Next, Promise!Subscribe
    <2>2. ASSUME NEW c \in Federates, NEW f \in Dropped, unsubscribeInteractionClassWithFilter(c, f)
          PROVE  Promise!Next
      <3>1. f \in Filters
        BY FiltersAssumption
      <3>2. now' = [now EXCEPT ![c] = @ \ {f}] /\ delivered' = delivered
        BY <2>2, <3>1, UnsubscribeStep
      <3> QED BY <3>1, <3>2 DEF Promise!Next, Promise!Unsubscribe
    <2>3. ASSUME NEW c \in Leavers, Leave(c) PROVE Promise!Next
      <3>1. c \in Federates
        BY FiltersAssumption
      <3>2. now' = [now EXCEPT ![c] = {}] /\ delivered' = delivered
        BY <2>3, <3>1, LeaveStep, FiltersOfFull
      <3> QED BY <3>1, <3>2 DEF Promise!Next, Promise!Leave
    <2>4. ASSUME NEW c \in Federates, NEW m \in Messages, Send(c, m) PROVE Promise!Next
      <3>1. ASSUME NEW d \in Federates
            PROVE  d \in subscribed /\ isMatching(d, m) /\ Delivers(d) <=>
                     \E f \in FiltersOf(client[d].set) : Promise!Covers(f, m)
        <4>1. CASE d \in subscribed /\ client[d].set.rows # <<>>
          BY <4>1, MatchesFollow, CoversOne DEF ServedInv, Delivers, Promise!Covers
        <4>2. CASE d \notin subscribed
          BY <4>2, FiltersOfFull DEF ServedInv
        <4>3. CASE d \in subscribed /\ client[d].set.rows = <<>>
          <5>1. ~Delivers(d)
            BY <4>3 DEF ServedInv, Delivers
          <5>2. FiltersOf(client[d].set) = {}
            BY <4>3 DEF FiltersOf
          <5> QED BY <5>1, <5>2
        <4> QED BY <4>1, <4>2, <4>3
      <3>2. {d \in subscribed \ {c} : isMatching(d, m) /\ Delivers(d)} =
              {d \in Federates \ {c} : \E f \in now[d] : Promise!Covers(f, m)}
        BY <3>1 DEF TypeOK
      <3>3. delivered' = <<m, {d \in Federates \ {c} : \E f \in now[d] : Promise!Covers(f, m)}>>
            /\ now' = now
        BY <2>4, <3>2 DEF Send
      <3> QED BY <3>3 DEF Promise!Next, Promise!Send
    <2>5. CASE UNCHANGED vars
      BY <2>5 DEF vars, Promise!vars
    <2> QED BY <2>1, <2>2, <2>3, <2>4, <2>5 DEF Next
  <1>3. Init => TypeOK /\ ServedInv
    BY TypeInitially, ServedInitially
  <1>4. TypeOK /\ ServedInv /\ [Next]_vars => (TypeOK /\ ServedInv)'
    BY TypeInductive, ServedInductive
  <1> QED BY <1>1, <1>2, <1>3, <1>4, PTL DEF Spec, PromiseKept, Promise!Spec

=============================================================================
