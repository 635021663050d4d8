------------------------------ MODULE FilterPromise ------------------------------
(* What a filtered subscription of an interaction class promises the services of   *)
(* the federates: a federate gets the interactions of the others that one of the    *)
(* filters it has subscribed covers, and no other one.                              *)
EXTENDS Naturals

CONSTANTS Federates, Filters, Messages   \* filters and messages: functions of parameters

VARIABLES
  subscribed,   \* the filters of every federate
  delivered     \* the last interaction: what it was and who got it

vars == <<subscribed, delivered>>

Covers(f, m) == \A p \in DOMAIN f : f[p] = m[p]

Init == subscribed = [c \in Federates |-> {}] /\ delivered = <<>>

Subscribe(c, f) ==
  subscribed' = [subscribed EXCEPT ![c] = @ \cup {f}] /\ UNCHANGED delivered

Unsubscribe(c, f) ==
  subscribed' = [subscribed EXCEPT ![c] = @ \ {f}] /\ UNCHANGED delivered

Leave(c) ==
  subscribed' = [subscribed EXCEPT ![c] = {}] /\ UNCHANGED delivered

Send(c, m) ==
  /\ delivered' = <<m, {d \in Federates \ {c} : \E f \in subscribed[d] : Covers(f, m)}>>
  /\ UNCHANGED subscribed

Next ==
  \E c \in Federates :
    \/ \E f \in Filters : Subscribe(c, f) \/ Unsubscribe(c, f)
    \/ Leave(c)
    \/ \E m \in Messages : Send(c, m)

Spec == Init /\ [][Next]_vars

===================================================================================
