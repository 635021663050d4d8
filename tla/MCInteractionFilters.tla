-------------------------- MODULE MCInteractionFilters --------------------------
(* Instances of InteractionFilters: the interactions are bus messages, which carry a *)
(* network and an id, and handlers subscribe an id of a network or whole networks.    *)
EXTENDS InteractionFilters

MCParameters == {"network", "id"}

\* Filters for ids, all but one of them, so that there is a message nobody wants.
ById == [MCParameters -> Values]
Three == ById \ {CHOOSE f \in ById : TRUE}

\* With filters for whole networks.
ByNetwork == [{"network"} -> Values]
Mixed == Three \cup ByNetwork
Nothing == {}
===================================================================================
