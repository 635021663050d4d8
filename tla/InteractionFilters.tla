--------------------------- MODULE InteractionFilters ---------------------------
(* The filters of one interaction class in OpenRTI: every federate's ambassador    *)
(* (Federate::InteractionClass) keeps a set of them and tells the server what       *)
(* changes it, the server (ServerModel::InteractionClass) keeps one set for every   *)
(* connect (see TupleSets) and sends an interaction to the connects whose sets it   *)
(* matches.  A call and the server's reaction are one step; a server has the        *)
(* federates' connects and no parent.                                               *)
EXTENDS TupleSets

CONSTANTS
  Federates,    \* with one connect each
  Parameters,   \* of the interaction class
  Filters,      \* what the federates subscribe: values for some of the parameters
  Dropped,      \* filters they unsubscribe again
  Leavers       \* federates that leave and join again

ASSUME FiltersAssumption ==
  /\ NoValue \notin Values /\ Dropped \subseteq Filters /\ Leavers \subseteq Federates
  /\ \A f \in Filters : DOMAIN f \subseteq Parameters /\ DOMAIN f # {} /\ f \in [DOMAIN f -> Values]

\* Interactions carry a value for every parameter.
Messages == [Parameters -> Values]

VARIABLES
  client,      \* [federate |-> its ambassador's view of the class, see NotSubscribed]
  prototype,   \* _parameterFilterKeyPrototype: the parameters any filter has named
  filters,     \* _parameterFiltersByConnect
  subscribed,  \* _subscribedConnects
  delivered    \* history: the last interaction and the federates that got it

server == <<prototype, filters, subscribed>>
vars == <<client, server, delivered>>

-----------------------------------------------------------------------------
(* The server: updateParameterFilterValues for a subscription and for the end of   *)
(* one.  A set whose last filter is removed stays, and so does the subscription.    *)

SubscribeAtServer(c, f) ==
  LET columns == prototype \cup DOMAIN f
      tuple == Normalize(columns, f)
  IN /\ prototype' = columns
     /\ subscribed' = subscribed \cup {c}
     /\ filters' =
          IF c \in DOMAIN filters
          THEN [d \in DOMAIN filters |->
                  IF d = c THEN AddFilter(filters[c], tuple) ELSE SetTupleSize(filters[d], columns)]
          ELSE [d \in DOMAIN filters \cup {c} |->
                  IF d = c THEN Insert(EmptySet, tuple) ELSE filters[d]]

UnsubscribeAtServer(c, f) ==
  LET columns == prototype \cup DOMAIN f
  IN /\ c \in DOMAIN filters
     /\ prototype' = columns
     /\ filters' = [filters EXCEPT ![c] = RemoveFilter(@, Normalize(columns, f))]
     /\ UNCHANGED subscribed

\* Variant: the connect goes, its set of filters stays.
RemoveConnectKeepsFilters(c) == subscribed' = subscribed \ {c} /\ UNCHANGED <<prototype, filters>>

\* unsubscribeConnect, as far as this class goes.
RemoveConnect(c) ==
  /\ subscribed' = subscribed \ {c}
  /\ filters' = IF c \in subscribed THEN [d \in DOMAIN filters \ {c} |-> filters[d]] ELSE filters
  /\ UNCHANGED prototype

\* Connects without filters match everything.
isMatching(c, m) ==
  c \in DOMAIN filters /\ filters[c].rows # <<>> => FindNormalized(filters[c], Normalize(prototype, m))

-----------------------------------------------------------------------------
(* The calls of the federates.                                                     *)

NotSubscribed == [prototype |-> {}, set |-> EmptySet, active |-> FALSE]

subscribeInteractionClassWithFilter(c, f) ==
  LET columns == client[c].prototype \cup DOMAIN f
      tuple == Normalize(columns, f)
  IN /\ client' = [client EXCEPT ![c] =
          [prototype |-> columns, set |-> AddFilter(client[c].set, tuple), active |-> TRUE]]
     /\ IF HasTuple(client[c].set, tuple) THEN UNCHANGED server ELSE SubscribeAtServer(c, f)
     /\ UNCHANGED delivered

unsubscribeInteractionClassWithFilter(c, f) ==
  LET columns == client[c].prototype \cup DOMAIN f
      tuple == Normalize(columns, f)
      set == RemoveFilter(client[c].set, tuple)
  IN /\ client' = [client EXCEPT ![c] =
          [prototype |-> columns, set |-> set, active |-> client[c].active /\ set.rows # <<>>]]
     /\ IF HasTuple(client[c].set, tuple) THEN UnsubscribeAtServer(c, f) ELSE UNCHANGED server
     /\ UNCHANGED delivered

Leave(c) ==
  /\ client' = [client EXCEPT ![c] = NotSubscribed]
  /\ RemoveConnect(c)
  /\ UNCHANGED delivered

\* Variant: the ambassador hands on whatever arrives.
DeliversAll(c) == TRUE

\* The ambassador drops interactions of a class that is not subscribed.
Delivers(c) == client[c].active

\* The server sends an interaction to the other connects, their ambassadors deliver it.
Send(c, m) ==
  /\ delivered' = <<m, {d \in subscribed \ {c} : isMatching(d, m) /\ Delivers(d)}>>
  /\ UNCHANGED <<client, server>>

Init ==
  /\ client = [c \in Federates |-> NotSubscribed]
  /\ prototype = {} /\ filters = <<>> /\ subscribed = {}
  /\ delivered = <<>>

Next ==
  \/ \E c \in Federates, f \in Filters : subscribeInteractionClassWithFilter(c, f)
  \/ \E c \in Federates, f \in Dropped : unsubscribeInteractionClassWithFilter(c, f)
  \/ \E c \in Leavers : Leave(c)
  \/ \E c \in Federates, m \in Messages : Send(c, m)

Spec == Init /\ [][Next]_vars

-----------------------------------------------------------------------------
(* Properties.                                                                     *)

\* The tuples of T have parameters of the class.
TupleSetOK(T) == T.columns \subseteq Parameters /\ IsTupleSet(T)

\* Every variable has its type; of a connect without a set the ambassador has no
\* filters, so that the server finds the set of every filter that is unsubscribed.
TypeOK ==
  /\ DOMAIN client = Federates
  /\ \A c \in Federates : /\ client[c].prototype \subseteq Parameters
                          /\ TupleSetOK(client[c].set) /\ client[c].active \in BOOLEAN
  /\ prototype \subseteq Parameters /\ subscribed \subseteq Federates
  /\ DOMAIN filters \subseteq subscribed /\ \A c \in DOMAIN filters : TupleSetOK(filters[c])
  /\ \A c \in Federates : client[c].set.rows # <<>> => c \in DOMAIN filters
  /\ delivered = <<>> \/ delivered \in Messages \X SUBSET Federates

\* The filter a row stands for.
Filter(tuple) == [p \in {q \in DOMAIN tuple : tuple[q] # NoValue} |-> tuple[p]]
FiltersOf(T) == {Filter(T.rows[r]) : r \in DOMAIN T.rows}

\* "Returns true if newTuple matches any existing tuple, including wildcard match"
\* (VariableLengthDataTuple.h): the indices of the server find what its filters cover.
MatchesAreExact ==
  \A c \in DOMAIN filters : \A m \in Messages :
    filters[c].rows # <<>> =>
      (isMatching(c, m) <=> \E f \in FiltersOf(filters[c]) : \A p \in DOMAIN f : f[p] = m[p])

\* The filters promise what the services build on: a federate gets the interactions that
\* the filters it has subscribed cover, and no others.
Promise == INSTANCE FilterPromise WITH subscribed <- [c \in Federates |-> FiltersOf(client[c].set)]
PromiseKept == Promise!Spec

\* "no filters left: remove the subscription" (ServerNode.cpp): the server sends nothing
\* to a federate that has unsubscribed.
NothingIsSentInVain ==
  \A c \in subscribed : \A m \in Messages : isMatching(c, m) => client[c].active

=============================================================================
