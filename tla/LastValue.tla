------------------------------ MODULE LastValue ------------------------------
(* What DOService promises of the data of a source, whatever happens between the *)
(* federates: a reader sees values that were written, and never an older one     *)
(* after a newer one.  It may miss values, and it may start anew, knowing        *)
(* nothing (a new target, a federate that left).                                 *)
EXTENDS Naturals

CONSTANTS Names,      \* sources
          Readers,    \* federates
          MaxValues   \* bound: values are the numbers of the transmissions

VARIABLES written,    \* the last value written by a source, 0 before the first
          got         \* the last value of a source that a reader saw

vars == <<written, got>>

Init == /\ written = [n \in Names |-> 0]
        /\ got = [r \in Readers |-> [n \in Names |-> 0]]

Write(n) == /\ \E v \in (written[n] + 1)..MaxValues : written' = [written EXCEPT ![n] = v]
            /\ UNCHANGED got

Read(r, n) == /\ \E v \in (got[r][n] + 1)..written[n] : got' = [got EXCEPT ![r][n] = v]
              /\ UNCHANGED written

StartAnew(r) == /\ got' = [got EXCEPT ![r] = [n \in Names |-> 0]]
                /\ UNCHANGED written

Next == \/ \E n \in Names : Write(n)
        \/ \E r \in Readers : StartAnew(r) \/ \E n \in Names : Read(r, n)

Spec == Init /\ [][Next]_vars
=============================================================================
