----------------------- MODULE DOServiceObjects_proofs -----------------------
(* What DOService keeps with the registrations of a federate, for every value of *)
(* its constants: one object for each, and the data last transmitted; and that    *)
(* the federates come to know each other's objects, and their callbacks the last  *)
(* data: what a federate does not know yet is on its way, or has been asked for.  *)
EXTENDS DOService_proofs

-----------------------------------------------------------------------------
(* Joining and leaving.                                                         *)

\* A federate joins.
LEMMA OnJoinedJoins ==
  ASSUME TypeInv, NEW f \in Federates, OnJoined(f)
  PROVE  /\ ~Joined(f) /\ Joined(f)'
         /\ \A g \in Federates : g # f => Joined(g)' = Joined(g)
<1>1. /\ mState[f] = "InitFederate" /\ phase[f] = "idle"
      /\ phase' = [phase EXCEPT ![f] = "targets"] /\ UNCHANGED mState
  BY DEF OnJoined
<1>2. phase \in [Federates -> Phases]
  BY DEF TypeInv, TypeOK, Phases
<1> QED BY <1>1, <1>2 DEF Joined

\* A federate leaves.
LEMMA ResetLeaves ==
  ASSUME TypeInv, NEW f \in Federates, Reset(f)
  PROVE  /\ Joined(f) /\ ~Joined(f)'
         /\ \A g \in Federates : g # f => Joined(g)' = Joined(g)
<1>1. /\ mState[f] \in {"WaitForMeasurementInit", "Online"} /\ phase[f] = "idle"
      /\ mState' = [mState EXCEPT ![f] = "Offline"] /\ UNCHANGED phase
  BY DEF Reset
<1>2. mState \in [Federates -> States]
  BY DEF TypeInv, TypeOK
<1> QED BY <1>1, <1>2 DEF Joined

\* No other step changes who has joined.
LEMMA JoinedStays ==
  ASSUME TypeInv, [Next]_vars, \A f \in Federates : ~OnJoined(f) /\ ~Reset(f)
  PROVE  \A g \in Federates : Joined(g)' = Joined(g)
<1>0. /\ mState \in [Federates -> States] /\ phase \in [Federates -> Phases] /\ PhaseInv
  BY DEF TypeInv, TypeOK, Phases
<1>1. ASSUME NEW f \in Federates,
             EnterInitFederate(f) \/ MeasurementStarts(f) \/ WaitForSingleEvent(f) \/ EndProcessBuffers(f)
      PROVE  \A g \in Federates : Joined(g)' = Joined(g)
  BY <1>0, <1>1
     DEF EnterInitFederate, MeasurementStarts, WaitForSingleEvent, EndProcessBuffers, PhaseInv, Joined
<1>2. ASSUME UNCHANGED <<mState, phase>> PROVE \A g \in Federates : Joined(g)' = Joined(g)
  BY <1>2 DEF Joined
<1>3. ASSUME NEW f \in Federates, NEW st, UNCHANGED mState, phase[f] # "idle", st # "idle",
             phase' = [phase EXCEPT ![f] = st]
      PROVE  \A g \in Federates : Joined(g)' = Joined(g)
  BY <1>0, <1>3 DEF Joined
<1>4. ASSUME NEW f \in Federates, EvokeCallbacks(f) \/ ProcessTargets(f) \/ ProcessSources(f)
      PROVE  \A g \in Federates : Joined(g)' = Joined(g)
  <2>1. UNCHANGED mState /\ (UNCHANGED phase \/ \E st \in {"targets", "sources", "transmits"} :
                               phase[f] # "idle" /\ phase' = [phase EXCEPT ![f] = st])
    BY <1>4 DEF EvokeCallbacks, evokeCallback, keptByCallbacks, ProcessTargets, ProcessSources
  <2> QED BY <1>2, <1>3, <2>1
<1>5. ASSUME NEW f \in Federates, BufferedTransmitDOMember(f) PROVE UNCHANGED <<mState, phase>>
  BY <1>5, Zenon DEF BufferedTransmitDOMember
<1>6. ASSUME NEW f \in Federates, Application(f) PROVE UNCHANGED <<mState, phase>>
  <2>1. ASSUME NEW h \in Handles, TransmitDOMember(f, h) PROVE UNCHANGED <<mState, phase>>
    BY <2>1, Zenon DEF TransmitDOMember
  <2>2. ASSUME NEW k, Register(f, k) PROVE UNCHANGED <<mState, phase>>
    BY <2>2, Zenon DEF Register
  <2>3. ASSUME NEW k \in Kinds, NEW h \in Handles, Unregister(f, k, h)
        PROVE  UNCHANGED <<mState, phase>>
    BY <2>3, Zenon DEF Unregister
  <2> QED BY <1>6, <2>1, <2>2, <2>3 DEF Application
<1>7. ASSUME NEW f \in Federates, EvokeWhileWaiting(f) PROVE UNCHANGED <<mState, phase>>
  BY <1>7 DEF EvokeWhileWaiting, evokeCallback, keptByCallbacks
<1>8. CASE UNCHANGED vars
  BY <1>2, <1>8 DEF vars
<1> QED BY <1>1, <1>2, <1>4, <1>5, <1>6, <1>7, <1>8 DEF Next, Thread, ProcessBuffers

-----------------------------------------------------------------------------
(* Handles.                                                                     *)

\* No handle twice.
Distinct(s) == \A i, j \in DOMAIN s : s[i].handle = s[j].handle => i = j

\* The entries of t are, by their handles, some of those of s.
Within(t, s) ==
  /\ \A i \in DOMAIN t : \E a \in DOMAIN s : t[i].handle = s[a].handle
  /\ \A i, j \in DOMAIN t : i # j =>
       \E a, b \in DOMAIN s : a # b /\ t[i].handle = s[a].handle /\ t[j].handle = s[b].handle

\* r is one more entry.
Longer(t, s, r) ==
  /\ \A i \in DOMAIN t : (i \in DOMAIN s /\ t[i] = s[i]) \/ (i \notin DOMAIN s /\ t[i] = r)
  /\ \A i, j \in DOMAIN t : i \notin DOMAIN s /\ j \notin DOMAIN s => i = j
  /\ DOMAIN s \subseteq DOMAIN t /\ \E i \in DOMAIN t : i \notin DOMAIN s

\* No registration of a federate has its handle twice, or is both waiting in the buffer
\* and a local member; handles were given out.
UniqueHandles ==
  \A f \in Federates, k \in Kinds :
    /\ Distinct(persistent[f][k]) /\ Distinct(buffered[f][k]) /\ Distinct(locals[f][k])
    /\ \A i \in DOMAIN buffered[f][k], j \in DOMAIN locals[f][k] :
         buffered[f][k][i].handle # locals[f][k][j].handle
    /\ \A i \in DOMAIN persistent[f][k] : persistent[f][k][i].handle <= issued[f][k]
    /\ \A i \in DOMAIN buffered[f][k] : buffered[f][k][i].handle <= issued[f][k]
    /\ \A i \in DOMAIN locals[f][k] : locals[f][k][i].handle <= issued[f][k]

\* A federate that has not joined has nothing in its buffers and no members.
Absent ==
  \A f \in Federates, k \in Kinds : ~Joined(f) => buffered[f][k] = <<>> /\ locals[f][k] = <<>>

\* What a step does to the registrations of g of kind k: fewer or the same ...
Fewer(g, k) ==
  /\ Within(persistent'[g][k], persistent[g][k]) /\ Within(buffered'[g][k], buffered[g][k])
  /\ Within(locals'[g][k], locals[g][k]) /\ issued'[g][k] = issued[g][k]
  /\ Joined(g)' \/ ~Joined(g) \/ (buffered'[g][k] = <<>> /\ locals'[g][k] = <<>>)

\* ... one more ...
OneMore(g, k) ==
  \E r : /\ r.handle = issued[g][k] + 1 /\ issued'[g][k] = issued[g][k] + 1
         /\ Longer(persistent'[g][k], persistent[g][k], r)
         /\ \/ buffered'[g][k] = buffered[g][k]
            \/ Longer(buffered'[g][k], buffered[g][k], r) /\ Joined(g)'
         /\ locals'[g][k] = locals[g][k] /\ Joined(g)' = Joined(g)

\* ... all are buffered ...
AllBuffered(g, k) ==
  /\ buffered'[g][k] = buffered[g][k] \o persistent[g][k]
  /\ persistent'[g][k] = persistent[g][k] /\ locals'[g][k] = locals[g][k]
  /\ issued'[g][k] = issued[g][k] /\ ~Joined(g) /\ Joined(g)'

\* ... or the first in the buffer becomes a member.
FirstTaken(g, k) ==
  /\ buffered[g][k] # <<>> /\ buffered'[g][k] = Tail(buffered[g][k])
  /\ \E l : l.handle = Head(buffered[g][k]).handle /\ Longer(locals'[g][k], locals[g][k], l)
  /\ persistent'[g][k] = persistent[g][k] /\ issued'[g][k] = issued[g][k] /\ Joined(g)'

\* Every step does one of these to the handles of one kind of a federate.
HandleChange(g, k) == Fewer(g, k) \/ OneMore(g, k) \/ AllBuffered(g, k) \/ FirstTaken(g, k)

\* What changes the handles of a sequence in these ways.
LEMMA WithinSame ==
  ASSUME NEW s
  PROVE  Within(s, s)
BY DEF Within

\* The empty sequence is within any.
LEMMA WithinEmpty ==
  ASSUME NEW s
  PROVE  Within(<<>>, s)
BY DEF Within

\* Another entry of the same handle.
LEMMA WithinReplaced ==
  ASSUME NEW s, NEW i \in DOMAIN s, NEW r, r.handle = s[i].handle
  PROVE  Within([s EXCEPT ![i] = r], s)
<1>1. PICK t : t = [s EXCEPT ![i] = r]
  OBVIOUS
<1>2. DOMAIN t = DOMAIN s /\ \A j \in DOMAIN s : t[j].handle = s[j].handle
  BY <1>1
<1> QED BY <1>1, <1>2 DEF Within

\* An entry less.
LEMMA WithinErased ==
  ASSUME NEW S, NEW s \in Seq(S), NEW n \in DOMAIN s
  PROVE  Within(RemoveAt(s, n), s)
<1>1. PICK t : t = RemoveAt(s, n)
  OBVIOUS
<1>2. /\ \A i \in DOMAIN t : \E j \in DOMAIN s : j # n /\ t[i] = s[j]
      /\ \A i, j \in DOMAIN t : i # j =>
           \E a, b \in DOMAIN s : a # b /\ a # n /\ b # n /\ t[i] = s[a] /\ t[j] = s[b]
  BY <1>1, RemoveAtEntries
<1>3. \A i \in DOMAIN t : \E a \in DOMAIN s : t[i].handle = s[a].handle
  BY <1>2
<1>4. \A i, j \in DOMAIN t : i # j =>
        \E a, b \in DOMAIN s : a # b /\ t[i].handle = s[a].handle /\ t[j].handle = s[b].handle
  BY <1>2
<1> QED BY <1>1, <1>3, <1>4 DEF Within

\* The entries of the same handles.
LEMMA WithinSimilar ==
  ASSUME NEW s, NEW t, DOMAIN t = DOMAIN s, \A i \in DOMAIN s : t[i].handle = s[i].handle
  PROVE  Within(t, s)
BY DEF Within

\* One more.
LEMMA LongerAppended ==
  ASSUME NEW S, NEW s \in Seq(S), NEW r \in S
  PROVE  Longer(Append(s, r), s, r)
<1>1. PICK t : t = Append(s, r)
  OBVIOUS
<1>2. \A i \in DOMAIN t : \/ i \in DOMAIN s /\ t[i] = s[i]
                          \/ i \notin DOMAIN s /\ i = Len(s) + 1 /\ t[i] = r
  BY <1>1, AppendEntries
<1>3. DOMAIN s \subseteq DOMAIN t /\ Len(s) + 1 \in DOMAIN t
  BY <1>1, AppendEntries
<1>4. Len(s) + 1 \notin DOMAIN s
  <2>1. DOMAIN s = 1..Len(s) /\ Len(s) \in Nat
    BY LenProperties
  <2> QED BY <2>1
<1> QED BY <1>1, <1>2, <1>3, <1>4 DEF Longer

\* The registrations or the local members of one kind of one federate are replaced.
LEMMA ExceptRegistrations ==
  ASSUME NEW h, h \in [Federates -> [Kinds -> Seq(Registration)]], NEW f \in Federates,
         NEW k \in Kinds, NEW s, s \in Seq(Registration)
  PROVE  \A g \in Federates, j \in Kinds :
           [h EXCEPT ![f][k] = s][g][j] = IF g = f /\ j = k THEN s ELSE h[g][j]
BY ExceptTypes

\* The same for the local members.
LEMMA ExceptLocals ==
  ASSUME NEW h, h \in [Federates -> [Kinds -> Seq(Local)]], NEW f \in Federates,
         NEW k \in Kinds, NEW s, s \in Seq(Local)
  PROVE  \A g \in Federates, j \in Kinds :
           [h EXCEPT ![f][k] = s][g][j] = IF g = f /\ j = k THEN s ELSE h[g][j]
BY ExceptTypes

\* The registrations of one kind of one federate change, those of the others stay.
LEMMA FewerHandles ==
  ASSUME TypeOK, NEW f \in Federates, NEW k \in Kinds, NEW p, NEW b, NEW l,
         p \in Seq(Registration), b \in Seq(Registration), l \in Seq(Local),
         UNCHANGED persistent \/ persistent' = [persistent EXCEPT ![f][k] = p],
         UNCHANGED buffered \/ buffered' = [buffered EXCEPT ![f][k] = b],
         UNCHANGED locals \/ locals' = [locals EXCEPT ![f][k] = l],
         Within(p, persistent[f][k]), Within(b, buffered[f][k]), Within(l, locals[f][k]),
         \A g \in Federates, j \in Kinds : issued'[g][j] = issued[g][j],
         \A g \in Federates : Joined(g)' = Joined(g)
  PROVE  \A g \in Federates, j \in Kinds : Fewer(g, j)
<1>0. /\ persistent \in [Federates -> [Kinds -> Seq(Registration)]]
      /\ buffered \in [Federates -> [Kinds -> Seq(Registration)]]
      /\ locals \in [Federates -> [Kinds -> Seq(Local)]]
  BY DEF TypeOK
<1> SUFFICES ASSUME NEW g \in Federates, NEW j \in Kinds PROVE Fewer(g, j)
  OBVIOUS
<1>1. Within(persistent'[g][j], persistent[g][j])
  <2>1. CASE UNCHANGED persistent
    BY <2>1, WithinSame
  <2>2. CASE persistent' = [persistent EXCEPT ![f][k] = p]
    <3>1. persistent'[g][j] = IF g = f /\ j = k THEN p ELSE persistent[g][j]
      BY <1>0, <2>2, ExceptRegistrations
    <3> QED BY <3>1, WithinSame
  <2> QED BY <2>1, <2>2
<1>2. Within(buffered'[g][j], buffered[g][j])
  <2>1. CASE UNCHANGED buffered
    BY <2>1, WithinSame
  <2>2. CASE buffered' = [buffered EXCEPT ![f][k] = b]
    <3>1. buffered'[g][j] = IF g = f /\ j = k THEN b ELSE buffered[g][j]
      BY <1>0, <2>2, ExceptRegistrations
    <3> QED BY <3>1, WithinSame
  <2> QED BY <2>1, <2>2
<1>3. Within(locals'[g][j], locals[g][j])
  <2>1. CASE UNCHANGED locals
    BY <2>1, WithinSame
  <2>2. CASE locals' = [locals EXCEPT ![f][k] = l]
    <3>1. locals'[g][j] = IF g = f /\ j = k THEN l ELSE locals[g][j]
      BY <1>0, <2>2, ExceptLocals
    <3> QED BY <3>1, WithinSame
  <2> QED BY <2>1, <2>2
<1> QED BY <1>1, <1>2, <1>3 DEF Fewer

\* A federate leaves.
LEMMA ResetHandles ==
  ASSUME TypeInv, NEW f \in Federates, Reset(f)
  PROVE  \A g \in Federates, j \in Kinds : Fewer(g, j)
<1>0. /\ TypeOK /\ IsFiniteSet(objects) /\ "source" \in Kinds
      /\ persistent \in [Federates -> [Kinds -> Seq(Registration)]]
      /\ buffered \in [Federates -> [Kinds -> Seq(Registration)]]
      /\ locals \in [Federates -> [Kinds -> Seq(Local)]]
      /\ issued \in [Federates -> [Counters -> Nat]]
      /\ Kinds \subseteq Counters /\ "leaves" \notin Kinds
  BY CounterTypes DEF TypeInv, TypeOK
<1>1. PICK out : ResetStep(f, out)
  BY <1>0, ResetSteps
<1>2. PICK q, none : q = KeepLastData(f) /\ none = [k \in Kinds |-> <<>>]
  OBVIOUS
<1>3. /\ persistent' = [persistent EXCEPT ![f]["source"] = q]
      /\ buffered' = [buffered EXCEPT ![f] = none] /\ locals' = [locals EXCEPT ![f] = none]
      /\ issued' = [issued EXCEPT ![f]["leaves"] = issued[f]["leaves"] + 1]
  BY <1>1, <1>2 DEF ResetStep
<1>4. q \in Seq(Registration) /\ Within(q, persistent[f]["source"])
  <2>1. /\ q \in Seq(Registration) /\ Len(q) = Len(persistent[f]["source"])
        /\ \A i \in DOMAIN persistent[f]["source"] :
             q[i].handle = persistent[f]["source"][i].handle
    BY <1>0, <1>2, KeptFacts
  <2>2. DOMAIN q = DOMAIN persistent[f]["source"]
    BY <1>0, <2>1, LenProperties
  <2> QED BY <2>1, <2>2, WithinSimilar
<1> SUFFICES ASSUME NEW g \in Federates, NEW j \in Kinds PROVE Fewer(g, j)
  OBVIOUS
<1>5. Within(persistent'[g][j], persistent[g][j])
  <2>1. persistent'[g][j] = IF g = f /\ j = "source" THEN q ELSE persistent[g][j]
    BY <1>0, <1>3, <1>4, ExceptRegistrations
  <2> QED BY <1>4, <2>1, WithinSame
<1>6. issued'[g][j] = issued[g][j]
  BY <1>0, <1>3
<1>7. CASE g = f
  <2>1. buffered'[g][j] = <<>> /\ locals'[g][j] = <<>>
    BY <1>0, <1>2, <1>3, <1>7
  <2> QED BY <1>5, <1>6, <2>1, WithinEmpty DEF Fewer
<1>8. CASE g # f
  <2>1. buffered'[g][j] = buffered[g][j] /\ locals'[g][j] = locals[g][j]
    BY <1>0, <1>3, <1>8
  <2>2. Joined(g)' = Joined(g)
    BY <1>8, ResetLeaves
  <2> QED BY <1>5, <1>6, <2>1, <2>2, WithinSame DEF Fewer
<1> QED BY <1>7, <1>8

\* A federate registers: only one that is online has it processed at once.
LEMMA RegisterHandles ==
  ASSUME TypeInv, "InitFederate" \notin RegisterIn, NEW f \in Federates, NEW k \in Kinds,
         Register(f, k)
  PROVE  /\ OneMore(f, k)
         /\ \A g \in Federates, j \in Kinds : g # f \/ j # k => Fewer(g, j)
<1>0. /\ TypeOK /\ Kinds \subseteq Counters
      /\ persistent \in [Federates -> [Kinds -> Seq(Registration)]]
      /\ buffered \in [Federates -> [Kinds -> Seq(Registration)]]
      /\ locals \in [Federates -> [Kinds -> Seq(Local)]]
      /\ issued \in [Federates -> [Counters -> Nat]]
  BY CounterTypes DEF TypeInv, TypeOK
<1>1. PICK r : RegisterStep(f, k, r)
  BY <1>0, RegisterSteps
<1>2. PICK p, b : p = Append(persistent[f][k], r) /\ b = Append(buffered[f][k], r)
  OBVIOUS
<1>3. /\ mState[f] \in RegisterIn /\ r.handle = issued[f][k] + 1 /\ r \in Registration
      /\ issued' = [issued EXCEPT ![f][k] = issued[f][k] + 1]
      /\ persistent' = [persistent EXCEPT ![f][k] = p]
      /\ buffered' = IF mState[f] \in {"Online", "InitFederate"}
                       THEN [buffered EXCEPT ![f][k] = b] ELSE buffered
      /\ UNCHANGED <<mState, phase, locals>>
  BY <1>1, <1>2 DEF RegisterStep, localVars
<1>4. /\ p \in Seq(Registration) /\ b \in Seq(Registration)
      /\ Longer(p, persistent[f][k], r) /\ Longer(b, buffered[f][k], r)
  BY <1>0, <1>2, <1>3, AppendEntries, LongerAppended
<1>5. \A g \in Federates : Joined(g)' = Joined(g)
  BY <1>3 DEF Joined
<1>6. \A g \in Federates, j \in Kinds :
        /\ persistent'[g][j] = IF g = f /\ j = k THEN p ELSE persistent[g][j]
        /\ issued'[g][j] = IF g = f /\ j = k THEN issued[f][k] + 1 ELSE issued[g][j]
        /\ locals'[g][j] = locals[g][j]
  <2>1. \A g \in Federates, j \in Kinds :
          persistent'[g][j] = IF g = f /\ j = k THEN p ELSE persistent[g][j]
    BY <1>0, <1>3, <1>4, ExceptRegistrations
  <2>2. \A g \in Federates, j \in Kinds :
          issued'[g][j] = IF g = f /\ j = k THEN issued[f][k] + 1 ELSE issued[g][j]
    BY <1>0, <1>3
  <2> QED BY <1>3, <2>1, <2>2
<1>7. \A g \in Federates, j \in Kinds :
        buffered'[g][j] = IF g = f /\ j = k /\ mState[f] = "Online" THEN b ELSE buffered[g][j]
  <2>1. CASE mState[f] = "Online"
    BY <1>0, <1>3, <1>4, <2>1, ExceptRegistrations
  <2>2. CASE mState[f] # "Online"
    BY <1>3, <2>2
  <2> QED BY <2>1, <2>2
<1>8. mState[f] = "Online" => Joined(f)'
  BY <1>5 DEF Joined
<1>9. OneMore(f, k)
  <2>1. \/ buffered'[f][k] = buffered[f][k]
        \/ Longer(buffered'[f][k], buffered[f][k], r) /\ Joined(f)'
    BY <1>4, <1>7, <1>8
  <2>2. /\ r.handle = issued[f][k] + 1 /\ issued'[f][k] = issued[f][k] + 1
        /\ Longer(persistent'[f][k], persistent[f][k], r)
        /\ locals'[f][k] = locals[f][k] /\ Joined(f)' = Joined(f)
    BY <1>3, <1>4, <1>5, <1>6
  <2> QED BY <2>1, <2>2 DEF OneMore
<1>10. ASSUME NEW g \in Federates, NEW j \in Kinds, g # f \/ j # k PROVE Fewer(g, j)
  <2>1. /\ persistent'[g][j] = persistent[g][j] /\ issued'[g][j] = issued[g][j]
        /\ locals'[g][j] = locals[g][j] /\ buffered'[g][j] = buffered[g][j]
        /\ Joined(g)' = Joined(g)
    BY <1>5, <1>6, <1>7, <1>10
  <2> QED BY <2>1, WithinSame DEF Fewer
<1> QED BY <1>9, <1>10

\* A registration of a federate that processes its buffers becomes a local member.
LEMMA ProcessHandles ==
  ASSUME TypeInv, NEW f \in Federates, ProcessTargets(f) \/ ProcessSources(f)
  PROVE  \A g \in Federates, j \in Kinds : Fewer(g, j) \/ FirstTaken(g, j)
<1>0. /\ TypeOK /\ Kinds \subseteq Counters /\ "names" \in Counters /\ "names" \notin Kinds
      /\ "source" \in Kinds /\ "target" \in Kinds
      /\ persistent \in [Federates -> [Kinds -> Seq(Registration)]]
      /\ buffered \in [Federates -> [Kinds -> Seq(Registration)]]
      /\ locals \in [Federates -> [Kinds -> Seq(Local)]]
      /\ issued \in [Federates -> [Counters -> Nat]] /\ phase \in [Federates -> Phases]
  BY CounterTypes DEF TypeInv, TypeOK, Phases
<1>1. CASE UNCHANGED <<buffered, locals, issued>>
  <2>1. UNCHANGED <<persistent, mState>>
        /\ (UNCHANGED phase \/ \E st \in {"sources", "transmits"} :
               phase[f] # "idle" /\ phase' = [phase EXCEPT ![f] = st])
    BY DEF ProcessTargets, ProcessSources
  <2>2. \A g \in Federates : Joined(g)' = Joined(g)
    BY <1>0, <2>1 DEF Joined
  <2> QED BY <1>1, <2>1, <2>2, WithinSame DEF Fewer
<1>2. ASSUME NEW k, NEW l, Created(f, k, l)
      PROVE  \A g \in Federates, j \in Kinds : Fewer(g, j) \/ FirstTaken(g, j)
  <2>0. /\ k \in Kinds /\ buffered[f][k] # <<>> /\ ReserveName(f) /\ phase[f] # "idle"
        /\ buffered' = [buffered EXCEPT ![f][k] = Tail(buffered[f][k])]
        /\ locals' = [locals EXCEPT ![f][k] = Append(locals[f][k], l)]
        /\ l \in Local /\ l.handle = Head(buffered[f][k]).handle
        /\ UNCHANGED <<persistent, mState, phase>>
    BY <1>2 DEF Created
  <2>1. PICK b, s : b = Tail(buffered[f][k]) /\ s = Append(locals[f][k], l)
    OBVIOUS
  <2>2. b \in Seq(Registration) /\ s \in Seq(Local) /\ Longer(s, locals[f][k], l)
    BY <1>0, <2>0, <2>1, TailEntries, AppendEntries, LongerAppended
  <2>3. /\ buffered' = [buffered EXCEPT ![f][k] = b] /\ locals' = [locals EXCEPT ![f][k] = s]
        /\ issued' = [issued EXCEPT ![f]["names"] = @ + 1]
    BY <2>0, <2>1 DEF ReserveName
  <2>4. \A g \in Federates, j \in Kinds :
          /\ buffered'[g][j] = IF g = f /\ j = k THEN b ELSE buffered[g][j]
          /\ locals'[g][j] = IF g = f /\ j = k THEN s ELSE locals[g][j]
    <3>1. /\ k \in Kinds /\ b \in Seq(Registration) /\ s \in Seq(Local)
          /\ buffered \in [Federates -> [Kinds -> Seq(Registration)]]
          /\ locals \in [Federates -> [Kinds -> Seq(Local)]]
      BY <1>0, <2>0, <2>2
    <3>2. \A g \in Federates, j \in Kinds :
            buffered'[g][j] = IF g = f /\ j = k THEN b ELSE buffered[g][j]
      BY <2>3, <3>1, ExceptRegistrations
    <3>3. \A g \in Federates, j \in Kinds :
            locals'[g][j] = IF g = f /\ j = k THEN s ELSE locals[g][j]
      BY <2>3, <3>1, ExceptLocals
    <3> QED BY <3>2, <3>3
  <2>5. \A g \in Federates, j \in Kinds : issued'[g][j] = issued[g][j]
    BY <1>0, <2>3
  <2>6. Joined(f)' /\ \A g \in Federates : Joined(g)' = Joined(g)
    BY <2>0 DEF Joined
  <2>7. FirstTaken(f, k)
    BY <2>0, <2>1, <2>2, <2>4, <2>5, <2>6 DEF FirstTaken
  <2>8. \A g \in Federates, j \in Kinds : g # f \/ j # k => Fewer(g, j)
    BY <2>0, <2>4, <2>5, <2>6, WithinSame DEF Fewer
  <2> QED BY <2>7, <2>8
<1>3. (\E k, l : Created(f, k, l)) \/ UNCHANGED <<buffered, locals, issued>>
  BY Creating DEF Untouched
<1> QED BY <1>1, <1>2, <1>3

\* Every step.
LEMMA HandleChanges ==
  ASSUME TypeInv, HandlesKnown, "InitFederate" \notin RegisterIn, [Next]_vars
  PROVE  \A g \in Federates, j \in Kinds : HandleChange(g, j)
<1>0. /\ TypeOK /\ IsFiniteSet(objects) /\ Kinds \subseteq Counters /\ "source" \in Kinds
      /\ "target" \in Kinds /\ "values" \in Counters /\ "values" \notin Kinds
      /\ persistent \in [Federates -> [Kinds -> Seq(Registration)]]
      /\ buffered \in [Federates -> [Kinds -> Seq(Registration)]]
      /\ locals \in [Federates -> [Kinds -> Seq(Local)]]
      /\ issued \in [Federates -> [Counters -> Nat]]
      /\ \A f \in Federates, k \in Kinds :
           /\ persistent[f][k] \in Seq(Registration) /\ buffered[f][k] \in Seq(Registration)
           /\ locals[f][k] \in Seq(Local)
  <2>1. /\ TypeOK /\ IsFiniteSet(objects)
        /\ persistent \in [Federates -> [Kinds -> Seq(Registration)]]
        /\ buffered \in [Federates -> [Kinds -> Seq(Registration)]]
        /\ locals \in [Federates -> [Kinds -> Seq(Local)]]
        /\ issued \in [Federates -> [Counters -> Nat]]
    BY DEF TypeInv, TypeOK
  <2> QED BY <2>1, CounterTypes
<1>1. ASSUME NEW f \in Federates, ProcessTargets(f) \/ ProcessSources(f)
      PROVE  \A g \in Federates, j \in Kinds : HandleChange(g, j)
  BY <1>1, ProcessHandles DEF HandleChange
<1>2. ASSUME NEW f \in Federates, Reset(f)
      PROVE  \A g \in Federates, j \in Kinds : HandleChange(g, j)
  BY <1>2, ResetHandles DEF HandleChange
<1>3. ASSUME NEW f \in Federates, NEW k \in Kinds, Register(f, k)
      PROVE  \A g \in Federates, j \in Kinds : HandleChange(g, j)
  BY <1>3, RegisterHandles DEF HandleChange
<1>4. ASSUME NEW f \in Federates, OnJoined(f)
      PROVE  \A g \in Federates, j \in Kinds : HandleChange(g, j)
  <2>1. PICK out : JoinStep(f, out)
    BY <1>0, <1>4, JoinSteps
  <2>2. /\ \A k \in Kinds : buffered'[f][k] = buffered[f][k] \o persistent[f][k]
        /\ \A g \in Federates : g # f => buffered'[g] = buffered[g]
        /\ UNCHANGED <<persistent, locals, issued>>
    BY <2>1 DEF JoinStep, localVars
  <2>3. ~Joined(f) /\ Joined(f)' /\ \A g \in Federates : g # f => Joined(g)' = Joined(g)
    BY <1>4, OnJoinedJoins
  <2>4. \A j \in Kinds : AllBuffered(f, j)
    BY <2>2, <2>3 DEF AllBuffered
  <2>5. \A g \in Federates, j \in Kinds : g # f => Fewer(g, j)
    BY <2>2, <2>3, WithinSame DEF Fewer
  <2> QED BY <2>4, <2>5 DEF HandleChange
<1>5. ASSUME ~\E f \in Federates : OnJoined(f) \/ Reset(f) PROVE \A g \in Federates : Joined(g)' = Joined(g)
  BY <1>5, JoinedStays
<1>6. ASSUME NEW f, NEW k, NEW i, NEW l, NEW r, Replaced(f, k, i, l, r), UNCHANGED <<persistent, buffered>>,
             \A g \in Federates : Joined(g)' = Joined(g)
      PROVE  \A g \in Federates, j \in Kinds : HandleChange(g, j)
  <2>1. PICK s : s = [locals[f][k] EXCEPT ![i] = r]
    OBVIOUS
  <2>2. /\ f \in Federates /\ k \in Kinds /\ i \in DOMAIN locals[f][k] /\ r \in Local
        /\ r.handle = locals[f][k][i].handle /\ locals' = [locals EXCEPT ![f][k] = s]
        /\ UNCHANGED issued
    BY <1>6, <2>1 DEF Replaced
  <2>3. s \in Seq(Local) /\ Within(s, locals[f][k])
    <3>1. locals[f][k] \in Seq(Local) /\ i \in 1..Len(locals[f][k])
      BY <1>0, <2>2, LenProperties
    <3>2. s \in Seq(Local)
      BY <2>1, <2>2, <3>1, ExceptSeq
    <3> QED BY <2>1, <2>2, <3>2, WithinReplaced
  <2>4. PICK p, b : p = persistent[f][k] /\ b = buffered[f][k]
    OBVIOUS
  <2>5. /\ p \in Seq(Registration) /\ b \in Seq(Registration)
        /\ Within(p, persistent[f][k]) /\ Within(b, buffered[f][k])
    BY <1>0, <2>2, <2>4, WithinSame
  <2>6. \A g \in Federates, j \in Kinds : Fewer(g, j)
    BY <1>0, <1>6, <2>2, <2>3, <2>5, FewerHandles
  <2> QED BY <2>6 DEF HandleChange
<1>7. ASSUME UNCHANGED <<persistent, buffered, locals>>,
             \A g \in Federates, j \in Kinds : issued'[g][j] = issued[g][j],
             \A g \in Federates : Joined(g)' = Joined(g)
      PROVE  \A g \in Federates, j \in Kinds : HandleChange(g, j)
  BY <1>7, WithinSame DEF Fewer, HandleChange
<1>8. ASSUME NEW f \in Federates, NEW k \in Kinds, NEW h \in Handles, Unregister(f, k, h)
      PROVE  \A g \in Federates, j \in Kinds : HandleChange(g, j)
  <2>1. PICK n : UnregisterStep(f, k, h, n)
    BY <1>0, <1>8, UnregisterSteps
  <2>2. PICK p : p = RemoveAt(persistent[f][k], n)
    OBVIOUS
  <2>3. /\ n \in DOMAIN persistent[f][k] /\ persistent' = [persistent EXCEPT ![f][k] = p]
        /\ UNCHANGED <<mState, phase, issued>>
    BY <2>1, <2>2 DEF UnregisterStep
  <2>4. p \in Seq(Registration) /\ Within(p, persistent[f][k])
    BY <1>0, <2>2, <2>3, RemoveAtFacts, WithinErased
  <2>5. \A g \in Federates : Joined(g)' = Joined(g)
    BY <2>3 DEF Joined
  <2>6. ASSUME NEW b \in Seq(Registration), NEW s \in Seq(Local),
               Within(b, buffered[f][k]), Within(s, locals[f][k]),
               UNCHANGED buffered \/ buffered' = [buffered EXCEPT ![f][k] = b],
               UNCHANGED locals \/ locals' = [locals EXCEPT ![f][k] = s]
        PROVE  \A g \in Federates, j \in Kinds : HandleChange(g, j)
    <3>1. \A g \in Federates, j \in Kinds : Fewer(g, j)
      BY <1>0, <2>3, <2>4, <2>5, <2>6, FewerHandles
    <3> QED BY <3>1 DEF HandleChange
  <2>7. PICK b, s : b = buffered[f][k] /\ s = locals[f][k]
    OBVIOUS
  <2>8. /\ b \in Seq(Registration) /\ s \in Seq(Local)
        /\ Within(b, buffered[f][k]) /\ Within(s, locals[f][k])
    BY <1>0, <2>7, WithinSame
  <2>9. ASSUME NEW m, EraseEntry(f, k, h, m)
        PROVE  \A g \in Federates, j \in Kinds : HandleChange(g, j)
    <3>1. PICK c : c = RemoveAt(b, m)
      OBVIOUS
    <3>2. /\ m \in DOMAIN b /\ buffered' = [buffered EXCEPT ![f][k] = c] /\ UNCHANGED locals
      BY <2>7, <2>9, <3>1 DEF EraseEntry
    <3>3. c \in Seq(Registration) /\ Within(c, b)
      BY <2>8, <3>1, <3>2, RemoveAtFacts, WithinErased
    <3> QED BY <2>6, <2>7, <2>8, <3>2, <3>3
  <2>10. ASSUME NEW m, NEW l, EraseMember(f, k, h, m, l)
         PROVE  \A g \in Federates, j \in Kinds : HandleChange(g, j)
    <3>1. PICK c : c = RemoveAt(s, m)
      OBVIOUS
    <3>2. /\ m \in DOMAIN s /\ locals' = [locals EXCEPT ![f][k] = c] /\ UNCHANGED buffered
      BY <2>7, <2>10, <3>1 DEF EraseMember
    <3>3. c \in Seq(Local) /\ Within(c, s)
      BY <2>8, <3>1, <3>2, RemoveAtFacts, WithinErased
    <3> QED BY <2>6, <2>7, <2>8, <3>2, <3>3
  <2>11. CASE UNCHANGED <<buffered, locals>>
    BY <2>6, <2>8, <2>11
  <2> QED BY <2>1, <2>9, <2>10, <2>11 DEF UnregisterStep, EraseNothing
<1>9. ASSUME NEW f \in Federates, evokeCallback(f), \A g \in Federates : Joined(g)' = Joined(g)
      PROVE  \A g \in Federates, j \in Kinds : HandleChange(g, j)
  <2>1. UNCHANGED <<persistent, buffered, issued>>
    BY <1>9 DEF evokeCallback, keptByCallbacks, regVars
  <2>2. CASE UNCHANGED locals
    BY <1>7, <1>9, <2>1, <2>2
  <2>3. CASE \E k, i, l, r : Replaced(f, k, i, l, r)
    BY <1>6, <1>9, <2>1, <2>3
  <2> QED BY <1>9, <2>2, <2>3, EvokeChange DEF Untouched
<1>10. ASSUME NEW f \in Federates, BufferedTransmitDOMember(f), \A g \in Federates : Joined(g)' = Joined(g)
       PROVE  \A g \in Federates, j \in Kinds : HandleChange(g, j)
  <2>1. UNCHANGED <<persistent, buffered, issued>>
    BY <1>10, Zenon DEF BufferedTransmitDOMember
  <2>2. \E k, i, l, r : Replaced(f, k, i, l, r)
    BY <1>0, <1>10, TransmitReplaces
  <2> QED BY <1>6, <1>10, <2>1, <2>2
<1>11. ASSUME NEW f \in Federates, NEW h \in Handles, TransmitDOMember(f, h),
              \A g \in Federates : Joined(g)' = Joined(g)
       PROVE  \A g \in Federates, j \in Kinds : HandleChange(g, j)
  <2>1. issued' = [issued EXCEPT ![f]["values"] = @ + 1] /\ UNCHANGED <<persistent, buffered, localVars>>
    BY <1>11, Zenon DEF TransmitDOMember
  <2>2. \A g \in Federates, j \in Kinds : issued'[g][j] = issued[g][j]
    BY <1>0, <2>1
  <2> QED BY <1>7, <1>11, <2>1, <2>2 DEF localVars
<1>12. ASSUME NEW f \in Federates,
              \/ EnterInitFederate(f) \/ MeasurementStarts(f) \/ WaitForSingleEvent(f)
              \/ EndProcessBuffers(f) \/ (EvokeCallbacks(f) /\ inbox[f] = <<>>),
              \A g \in Federates : Joined(g)' = Joined(g)
       PROVE  \A g \in Federates, j \in Kinds : HandleChange(g, j)
  <2>1. UNCHANGED <<persistent, buffered, locals, issued>>
    BY <1>12 DEF EnterInitFederate, MeasurementStarts, WaitForSingleEvent, EndProcessBuffers,
                 EvokeCallbacks, evokeCallback, regVars, localVars
  <2> QED BY <1>7, <1>12, <2>1
<1>13. CASE UNCHANGED vars
  <2>1. UNCHANGED <<persistent, buffered, locals, issued, mState, phase>>
    BY <1>13 DEF vars, regVars, localVars
  <2>2. \A g \in Federates : Joined(g)' = Joined(g)
    BY <2>1 DEF Joined
  <2> QED BY <1>7, <2>1, <2>2
<1>14. \A f \in Federates : EvokeCallbacks(f) => evokeCallback(f) \/ (EvokeCallbacks(f) /\ inbox[f] = <<>>)
  BY DEF EvokeCallbacks
<1>15. CASE \E f \in Federates : OnJoined(f) \/ Reset(f)
  BY <1>2, <1>4, <1>15
<1>16. CASE ~\E f \in Federates : OnJoined(f) \/ Reset(f)
  <2>1. \A g \in Federates : Joined(g)' = Joined(g)
    BY <1>5, <1>16
  <2>2. ASSUME NEW f \in Federates, Thread(f)
        PROVE  \A g \in Federates, j \in Kinds : HandleChange(g, j)
    BY <1>1, <1>9, <1>10, <1>12, <1>14, <1>16, <2>1, <2>2
       DEF Thread, ProcessBuffers, EvokeWhileWaiting
  <2>3. ASSUME NEW f \in Federates, Application(f)
        PROVE  \A g \in Federates, j \in Kinds : HandleChange(g, j)
    BY <1>0, <1>3, <1>8, <1>11, <2>1, <2>3 DEF Application
  <2> QED BY <1>13, <1>16, <2>2, <2>3 DEF Next
<1> QED BY <1>15, <1>16

\* UniqueHandles for one kind of registrations of one federate.
UniqueOf(g, k) ==
  /\ Distinct(persistent[g][k]) /\ Distinct(buffered[g][k]) /\ Distinct(locals[g][k])
  /\ \A i \in DOMAIN buffered[g][k], j \in DOMAIN locals[g][k] :
       buffered[g][k][i].handle # locals[g][k][j].handle
  /\ \A i \in DOMAIN persistent[g][k] : persistent[g][k][i].handle <= issued[g][k]
  /\ \A i \in DOMAIN buffered[g][k] : buffered[g][k][i].handle <= issued[g][k]
  /\ \A i \in DOMAIN locals[g][k] : locals[g][k][i].handle <= issued[g][k]

\* Handles are numbers.
LEMMA HandleNumbers ==
  ASSUME TypeOK, NEW g \in Federates, NEW k \in Kinds
  PROVE  /\ \A i \in DOMAIN persistent[g][k] : persistent[g][k][i].handle \in Nat
         /\ \A i \in DOMAIN buffered[g][k] : buffered[g][k][i].handle \in Nat
         /\ \A i \in DOMAIN locals[g][k] : locals[g][k][i].handle \in Nat
         /\ issued[g][k] \in Nat
<1>1. \A s \in Seq(Registration) : \A i \in DOMAIN s : s[i].handle \in Nat
  <2>1. ASSUME NEW s \in Seq(Registration), NEW i \in DOMAIN s PROVE s[i].handle \in Nat
    <3>1. s[i] \in Registration
      BY LenProperties, ElementOfSeq
    <3> QED BY <3>1, Bounds DEF Registration, Handles
  <2> QED BY <2>1
<1>2. ASSUME NEW i \in DOMAIN locals[g][k] PROVE locals[g][k][i].handle \in Nat
  <2>1. locals[g][k][i].handle \in Handles
    BY LocalTypes
  <2> QED BY <2>1, Bounds DEF Handles
<1>3. persistent[g][k] \in Seq(Registration) /\ buffered[g][k] \in Seq(Registration)
      /\ issued[g][k] \in Nat
  BY CounterTypes, CounterValues
<1> QED BY <1>1, <1>2, <1>3

\* Fewer entries of distinct handles.
LEMMA WithinDistinct ==
  ASSUME NEW s, NEW t, Within(t, s), Distinct(s)
  PROVE  Distinct(t)
BY DEF Within, Distinct

\* One more entry of another handle.
LEMMA LongerDistinct ==
  ASSUME NEW s, NEW t, NEW r, Longer(t, s, r), Distinct(s),
         \A i \in DOMAIN s : s[i].handle # r.handle
  PROVE  Distinct(t)
BY DEF Longer, Distinct

\* Handles stay unique.
LEMMA UniqueHandlesStep ==
  ASSUME TypeOK, UniqueHandles, Absent, NEW g \in Federates, NEW k \in Kinds, HandleChange(g, k)
  PROVE  UniqueOf(g, k)'
<1>0. /\ UniqueOf(g, k) /\ issued[g][k] \in Nat
      /\ \A i \in DOMAIN persistent[g][k] : persistent[g][k][i].handle \in Nat
      /\ \A i \in DOMAIN buffered[g][k] : buffered[g][k][i].handle \in Nat
      /\ \A i \in DOMAIN locals[g][k] : locals[g][k][i].handle \in Nat
  BY HandleNumbers DEF UniqueHandles, UniqueOf
<1>1. CASE Fewer(g, k)
  <2>1. /\ Distinct(persistent'[g][k]) /\ Distinct(buffered'[g][k]) /\ Distinct(locals'[g][k])
    BY <1>0, <1>1, WithinDistinct DEF Fewer, UniqueOf
  <2>2. \A i \in DOMAIN buffered'[g][k], j \in DOMAIN locals'[g][k] :
          buffered'[g][k][i].handle # locals'[g][k][j].handle
    BY <1>0, <1>1 DEF Fewer, UniqueOf, Within
  <2>3. /\ \A i \in DOMAIN persistent'[g][k] : persistent'[g][k][i].handle <= issued'[g][k]
        /\ \A i \in DOMAIN buffered'[g][k] : buffered'[g][k][i].handle <= issued'[g][k]
        /\ \A i \in DOMAIN locals'[g][k] : locals'[g][k][i].handle <= issued'[g][k]
    BY <1>0, <1>1 DEF Fewer, UniqueOf, Within
  <2> QED BY <2>1, <2>2, <2>3 DEF UniqueOf
<1>2. CASE OneMore(g, k)
  <2>1. PICK r : /\ r.handle = issued[g][k] + 1 /\ issued'[g][k] = issued[g][k] + 1
                 /\ Longer(persistent'[g][k], persistent[g][k], r)
                 /\ \/ buffered'[g][k] = buffered[g][k]
                    \/ Longer(buffered'[g][k], buffered[g][k], r)
                 /\ locals'[g][k] = locals[g][k]
    BY <1>2 DEF OneMore
  <2>2. /\ \A i \in DOMAIN persistent[g][k] : persistent[g][k][i].handle # r.handle
        /\ \A i \in DOMAIN buffered[g][k] : buffered[g][k][i].handle # r.handle
        /\ \A i \in DOMAIN locals[g][k] : locals[g][k][i].handle # r.handle
    BY <1>0, <2>1 DEF UniqueOf
  <2>3. /\ Distinct(persistent'[g][k]) /\ Distinct(buffered'[g][k]) /\ Distinct(locals'[g][k])
    BY <1>0, <2>1, <2>2, LongerDistinct DEF UniqueOf
  <2>4. \A i \in DOMAIN buffered'[g][k] :
          \/ i \in DOMAIN buffered[g][k] /\ buffered'[g][k][i] = buffered[g][k][i]
          \/ buffered'[g][k][i] = r
    BY <2>1 DEF Longer
  <2>5. \A i \in DOMAIN persistent'[g][k] :
          \/ i \in DOMAIN persistent[g][k] /\ persistent'[g][k][i] = persistent[g][k][i]
          \/ persistent'[g][k][i] = r
    BY <2>1 DEF Longer
  <2>6. \A i \in DOMAIN buffered'[g][k], j \in DOMAIN locals'[g][k] :
          buffered'[g][k][i].handle # locals'[g][k][j].handle
    BY <1>0, <2>1, <2>2, <2>4 DEF UniqueOf
  <2>7. /\ \A i \in DOMAIN persistent'[g][k] : persistent'[g][k][i].handle <= issued'[g][k]
        /\ \A i \in DOMAIN buffered'[g][k] : buffered'[g][k][i].handle <= issued'[g][k]
        /\ \A i \in DOMAIN locals'[g][k] : locals'[g][k][i].handle <= issued'[g][k]
    <3>1. \A n \in Nat : n <= issued[g][k] => n <= issued'[g][k]
      BY <1>0, <2>1
    <3>2. r.handle <= issued'[g][k]
      BY <1>0, <2>1
    <3> QED BY <1>0, <2>1, <2>4, <2>5, <3>1, <3>2 DEF UniqueOf
  <2> QED BY <2>3, <2>6, <2>7 DEF UniqueOf
<1>3. CASE AllBuffered(g, k)
  <2>1. buffered[g][k] = <<>> /\ locals[g][k] = <<>>
    BY <1>3 DEF AllBuffered, Absent
  <2>2. buffered'[g][k] = persistent[g][k]
    <3>1. persistent[g][k] \in Seq(Registration)
      BY CounterValues
    <3>2. <<>> \o persistent[g][k] = persistent[g][k]
      BY <3>1, ConcatEmptySeq
    <3> QED BY <1>3, <2>1, <3>2 DEF AllBuffered
  <2>3. /\ persistent'[g][k] = persistent[g][k] /\ locals'[g][k] = <<>>
        /\ issued'[g][k] = issued[g][k]
    BY <1>3, <2>1 DEF AllBuffered
  <2> QED BY <1>0, <2>2, <2>3 DEF UniqueOf, Distinct
<1>4. CASE FirstTaken(g, k)
  <2>1. PICK l : /\ buffered[g][k] # <<>> /\ l.handle = Head(buffered[g][k]).handle
                 /\ Longer(locals'[g][k], locals[g][k], l)
                 /\ buffered'[g][k] = Tail(buffered[g][k])
                 /\ persistent'[g][k] = persistent[g][k] /\ issued'[g][k] = issued[g][k]
    BY <1>4 DEF FirstTaken
  <2>2. PICK b, c : b = buffered[g][k] /\ c = Tail(b)
    OBVIOUS
  <2>3. /\ \A i \in DOMAIN c : i + 1 \in DOMAIN b /\ i \in Nat /\ c[i] = b[i + 1]
        /\ 1 \in DOMAIN b /\ Head(b) = b[1]
    <3>1. b \in Seq(Registration) /\ b # <<>>
      BY <2>1, <2>2, CounterValues
    <3>2. \A i \in DOMAIN c : i + 1 \in DOMAIN b /\ i \in Nat /\ c[i] = b[i + 1]
      BY <2>2, <3>1, TailEntries
    <3>3. 1 \in DOMAIN b /\ Head(b) = b[1]
      BY <3>1
    <3> QED BY <3>2, <3>3
  <2>4. /\ \A i \in DOMAIN c : c[i].handle # l.handle
        /\ \A i \in DOMAIN locals[g][k] : locals[g][k][i].handle # l.handle
        /\ l.handle <= issued[g][k] /\ Distinct(c)
    <3>1. \A i \in Nat : i \in DOMAIN c => i + 1 # 1
      <4>1. b \in Seq(Registration) /\ b # <<>>
        BY <2>1, <2>2, CounterValues
      <4>2. c \in Seq(Registration)
        BY <2>2, <4>1, TailEntries
      <4>3. DOMAIN c = 1..Len(c) /\ Len(c) \in Nat
        BY <4>2, LenProperties
      <4> QED BY <4>3
    <3>2. Distinct(c)
      BY <1>0, <2>2, <2>3 DEF UniqueOf, Distinct
    <3> QED BY <1>0, <2>1, <2>2, <2>3, <3>1, <3>2 DEF UniqueOf, Distinct
  <2>5. Distinct(locals'[g][k])
    BY <1>0, <2>1, <2>4, LongerDistinct DEF UniqueOf
  <2>6. \A i \in DOMAIN locals'[g][k] :
          \/ i \in DOMAIN locals[g][k] /\ locals'[g][k][i] = locals[g][k][i]
          \/ locals'[g][k][i] = l
    BY <2>1 DEF Longer
  <2>7. buffered'[g][k] = c
    BY <2>1, <2>2
  <2>8. \A i \in DOMAIN buffered'[g][k], j \in DOMAIN locals'[g][k] :
          buffered'[g][k][i].handle # locals'[g][k][j].handle
    BY <1>0, <2>2, <2>3, <2>4, <2>6, <2>7 DEF UniqueOf
  <2>9. /\ \A i \in DOMAIN persistent'[g][k] : persistent'[g][k][i].handle <= issued'[g][k]
        /\ \A i \in DOMAIN buffered'[g][k] : buffered'[g][k][i].handle <= issued'[g][k]
        /\ \A i \in DOMAIN locals'[g][k] : locals'[g][k][i].handle <= issued'[g][k]
    BY <1>0, <2>1, <2>2, <2>3, <2>4, <2>6, <2>7 DEF UniqueOf
  <2> QED BY <1>0, <2>1, <2>4, <2>5, <2>7, <2>8, <2>9 DEF UniqueOf
<1> QED BY <1>1, <1>2, <1>3, <1>4 DEF HandleChange

\* A federate that has not joined stays without buffers and members.
LEMMA AbsentStep ==
  ASSUME TypeOK', Absent, NEW g \in Federates, NEW k \in Kinds, HandleChange(g, k), ~Joined(g)'
  PROVE  buffered'[g][k] = <<>> /\ locals'[g][k] = <<>>
<1>1. ASSUME NEW S, NEW s \in Seq(S), Within(s, <<>>) PROVE s = <<>>
  <2>1. DOMAIN s = {}
    <3>1. DOMAIN <<>> = {}
      OBVIOUS
    <3> QED BY <1>1, <3>1, Zenon DEF Within
  <2>3. DOMAIN s = 1..Len(s) /\ Len(s) \in Nat
    BY LenProperties
  <2>2. Len(s) = 0
    BY <2>1, <2>3
  <2> QED BY <2>2, EmptySeq
<1>2. buffered'[g][k] \in Seq(Registration) /\ locals'[g][k] \in Seq(Local)
  BY DEF TypeOK
<1>3. CASE Fewer(g, k)
  <2>1. CASE buffered'[g][k] = <<>> /\ locals'[g][k] = <<>>
    BY <2>1
  <2>2. CASE ~Joined(g)
    <3>1. buffered[g][k] = <<>> /\ locals[g][k] = <<>>
      BY <2>2 DEF Absent
    <3> QED BY <1>1, <1>2, <1>3, <3>1 DEF Fewer
  <2> QED BY <1>3, <2>1, <2>2 DEF Fewer
<1>4. CASE OneMore(g, k)
  BY <1>4 DEF OneMore, Absent
<1> QED BY <1>3, <1>4 DEF HandleChange, AllBuffered, FirstTaken

\* Every step keeps the two.
LEMMA HandlesStep ==
  ASSUME TypeInv, HandlesKnown, "InitFederate" \notin RegisterIn, UniqueHandles, Absent,
         [Next]_vars
  PROVE  UniqueHandles' /\ Absent'
<1>1. TypeOK /\ TypeOK' /\ \A g \in Federates, k \in Kinds : HandleChange(g, k)
  BY TypesStep, HandleChanges DEF TypeInv
<1>2. \A g \in Federates, k \in Kinds : UniqueOf(g, k)'
  BY <1>1, UniqueHandlesStep
<1>3. \A g \in Federates, k \in Kinds : ~Joined(g)' => buffered'[g][k] = <<>> /\ locals'[g][k] = <<>>
  BY <1>1, AbsentStep
<1> QED BY <1>2, <1>3 DEF UniqueHandles, UniqueOf, Absent

\* They hold initially.
LEMMA HandlesInit ==
  Init => UniqueHandles /\ Absent
<1> SUFFICES ASSUME Init PROVE UniqueHandles /\ Absent
  OBVIOUS
<1>1. \A f \in Federates, k \in Kinds : /\ persistent[f][k] = <<>> /\ buffered[f][k] = <<>>
                                        /\ locals[f][k] = <<>>
  BY DEF Init
<1>2. DOMAIN <<>> = {}
  OBVIOUS
<1> QED BY <1>1, <1>2, Zenon DEF UniqueHandles, Distinct, Absent

\* Entries of distinct handles: at most one has the handle h.
LEMMA AtMostOne ==
  ASSUME NEW s, Distinct(s), NEW h, NEW S \in SUBSET {i \in DOMAIN s : s[i].handle = h}
  PROVE  Cardinality(S) <= 1
<1>1. CASE S = {}
  BY <1>1, FS_EmptySet
<1>2. ASSUME NEW i \in S PROVE Cardinality(S) <= 1
  <2>1. S = {i}
    BY <1>2 DEF Distinct
  <2>2. Cardinality(S) = 1
    BY <2>1, FS_Singleton
  <2> QED BY <2>2
<1> QED BY <1>1, <1>2

\* The inductive invariant.
LEMMA HandlesHold ==
  ASSUME "InitFederate" \notin RegisterIn
  PROVE  Spec => [](UniqueHandles /\ Absent)
<1>1. TypeInv /\ HandlesKnown /\ UniqueHandles /\ Absent /\ [Next]_vars => UniqueHandles' /\ Absent'
  BY HandlesStep
<1> QED BY <1>1, HandlesInit, TypesHold, PTL DEF Spec

\* A registration never has two HLA objects ("Create one HLA object per source", RegisterDOMember
\* and ProcessPersistentRegistrations), if no application registers in the state InitFederate:
\* what is registered there is processed twice.
THEOREM OneObject ==
  ASSUME "InitFederate" \notin RegisterIn
  PROVE  Spec => []OneObjectPerRegistration
<1>1. UniqueHandles => OneObjectPerRegistration
  <2> SUFFICES ASSUME UniqueHandles, NEW f \in Federates, NEW k \in Kinds, NEW h \in Handles
               PROVE  Cardinality({i \in Of(f, k, h) : locals[f][k][i].registered}) <= 1
    BY DEF OneObjectPerRegistration
  <2>1. Distinct(locals[f][k])
    BY DEF UniqueHandles
  <2>2. {i \in Of(f, k, h) : locals[f][k][i].registered}
          \in SUBSET {i \in DOMAIN locals[f][k] : locals[f][k][i].handle = h}
    BY DEF Of, OfHandle
  <2> QED BY <2>1, <2>2, AtMostOne
<1> QED BY <1>1, HandlesHold, PTL

-----------------------------------------------------------------------------
(* The data last transmitted through a handle.                                  *)

\* It is in the sources of the handle, also when they wait in the buffer, and in the
\* persistent registration as long as no source of the handle can transmit; handles
\* through which something was transmitted were given out.
LastKept(g) ==
  /\ \A i \in DOMAIN locals[g]["source"] :
       locals[g]["source"][i].last = lastSent[g][locals[g]["source"][i].handle]
  /\ \A i \in DOMAIN buffered[g]["source"] :
       buffered[g]["source"][i].last = lastSent[g][buffered[g]["source"][i].handle]
  /\ \A i \in DOMAIN persistent[g]["source"] :
       byHandle[g][persistent[g]["source"][i].handle] = NoName =>
         persistent[g]["source"][i].last = lastSent[g][persistent[g]["source"][i].handle]
  /\ \A h \in Handles : lastSent[g][h] # 0 => h <= issued[g]["source"]

\* This for all federates.
AllKept == \A g \in Federates : LastKept(g)

\* Nothing is transmitted, and the sources of g are some of those there were.
FewerSources(g) ==
  /\ \A i \in DOMAIN locals'[g]["source"] : \E a \in DOMAIN locals[g]["source"] :
       /\ locals'[g]["source"][i].handle = locals[g]["source"][a].handle
       /\ locals'[g]["source"][i].last = locals[g]["source"][a].last
  /\ \A i \in DOMAIN buffered'[g]["source"] : \E a \in DOMAIN buffered[g]["source"] :
       buffered'[g]["source"][i] = buffered[g]["source"][a]
  /\ \A i \in DOMAIN persistent'[g]["source"] :
       /\ \E a \in DOMAIN persistent[g]["source"] :
            persistent'[g]["source"][i] = persistent[g]["source"][a]
       /\ byHandle'[g][persistent'[g]["source"][i].handle] = NoName =>
            byHandle[g][persistent'[g]["source"][i].handle] = NoName
  /\ lastSent'[g] = lastSent[g] /\ issued'[g]["source"] = issued[g]["source"]

\* Fewer sources keep it.
LEMMA KeptFewer ==
  ASSUME NEW g \in Federates, LastKept(g), FewerSources(g)
  PROVE  LastKept(g)'
BY DEF LastKept, FewerSources

\* What the types say of the registrations of a federate.
LEMMA RegistrationTypes ==
  ASSUME TypeInv
  PROVE  /\ TypeOK /\ IsFiniteSet(objects)
         /\ persistent \in [Federates -> [Kinds -> Seq(Registration)]]
         /\ buffered \in [Federates -> [Kinds -> Seq(Registration)]]
         /\ locals \in [Federates -> [Kinds -> Seq(Local)]]
         /\ byHandle \in [Federates -> [Handles -> Names \cup {NoName}]]
         /\ lastSent \in [Federates -> [Handles -> 0..MaxValues]]
         /\ issued \in [Federates -> [Counters -> Nat]]
         /\ \A f \in Federates, k \in Kinds :
              /\ persistent[f][k] \in Seq(Registration) /\ buffered[f][k] \in Seq(Registration)
              /\ locals[f][k] \in Seq(Local) /\ issued[f][k] \in Nat
<1>1. /\ TypeOK /\ IsFiniteSet(objects)
      /\ persistent \in [Federates -> [Kinds -> Seq(Registration)]]
      /\ buffered \in [Federates -> [Kinds -> Seq(Registration)]]
      /\ locals \in [Federates -> [Kinds -> Seq(Local)]]
      /\ byHandle \in [Federates -> [Handles -> Names \cup {NoName}]]
      /\ lastSent \in [Federates -> [Handles -> 0..MaxValues]]
      /\ issued \in [Federates -> [Counters -> Nat]]
  BY DEF TypeInv, TypeOK
<1>2. \A f \in Federates, k \in Kinds :
        /\ persistent[f][k] \in Seq(Registration) /\ buffered[f][k] \in Seq(Registration)
        /\ locals[f][k] \in Seq(Local) /\ issued[f][k] \in Nat
  BY <1>1, CounterTypes
<1> QED BY <1>1, <1>2

\* A source registers.
LEMMA KeptRegistered ==
  ASSUME TypeInv, NEW g \in Federates, LastKept(g), Register(g, "source")
  PROVE  LastKept(g)'
<1>0. /\ TypeOK /\ "source" \in Kinds /\ issued[g]["source"] \in Nat
      /\ persistent \in [Federates -> [Kinds -> Seq(Registration)]]
      /\ buffered \in [Federates -> [Kinds -> Seq(Registration)]]
      /\ issued \in [Federates -> [Counters -> Nat]] /\ "source" \in Counters
      /\ persistent[g]["source"] \in Seq(Registration) /\ buffered[g]["source"] \in Seq(Registration)
  BY CounterTypes, RegistrationTypes
<1>1. PICK r : RegisterStep(g, "source", r)
  BY <1>0, RegisterSteps
<1>2. PICK p, b : p = Append(persistent[g]["source"], r) /\ b = Append(buffered[g]["source"], r)
  OBVIOUS
<1>3. /\ r.handle = issued[g]["source"] + 1 /\ r.last = 0 /\ r \in Registration
      /\ issued' = [issued EXCEPT ![g]["source"] = issued[g]["source"] + 1]
      /\ persistent' = [persistent EXCEPT ![g]["source"] = p]
      /\ UNCHANGED buffered \/ buffered' = [buffered EXCEPT ![g]["source"] = b]
      /\ UNCHANGED <<locals, byHandle, lastSent>>
  BY <1>1, <1>2 DEF RegisterStep, localVars, history
<1>4. p \in Seq(Registration) /\ b \in Seq(Registration)
      /\ Longer(p, persistent[g]["source"], r) /\ Longer(b, buffered[g]["source"], r)
  BY <1>0, <1>2, <1>3, AppendEntries, LongerAppended
<1>5. persistent'[g]["source"] = p
  BY <1>0, <1>3, <1>4, ExceptRegistrations
<1>6. buffered'[g]["source"] = buffered[g]["source"] \/ buffered'[g]["source"] = b
  <2>1. CASE buffered' = [buffered EXCEPT ![g]["source"] = b]
    BY <1>0, <1>4, <2>1, ExceptRegistrations
  <2> QED BY <1>3, <2>1
<1>7. issued'[g]["source"] = issued[g]["source"] + 1
  BY <1>0, <1>3
<1>8. r.handle \in Handles /\ lastSent[g][r.handle] = 0
  <2>1. r.handle \in Handles
    BY <1>3 DEF Registration
  <2>2. ~(r.handle <= issued[g]["source"])
    BY <1>0, <1>3
  <2> QED BY <2>1, <2>2 DEF LastKept
<1>9. \A i \in DOMAIN buffered'[g]["source"] :
        buffered'[g]["source"][i].last = lastSent'[g][buffered'[g]["source"][i].handle]
  BY <1>3, <1>4, <1>6, <1>8 DEF LastKept, Longer
<1>10. \A i \in DOMAIN persistent'[g]["source"] :
         byHandle'[g][persistent'[g]["source"][i].handle] = NoName =>
           persistent'[g]["source"][i].last = lastSent'[g][persistent'[g]["source"][i].handle]
  <2>1. \A i \in DOMAIN p : \/ i \in DOMAIN persistent[g]["source"] /\ p[i] = persistent[g]["source"][i]
                            \/ p[i] = r
    BY <1>4 DEF Longer
  <2> QED BY <1>3, <1>5, <1>8, <2>1 DEF LastKept
<1>11. \A h \in Handles : lastSent'[g][h] # 0 => h <= issued'[g]["source"]
  <2>1. \A h \in Handles : h \in Nat
    BY Bounds DEF Handles
  <2>2. \A h \in Nat : h <= issued[g]["source"] => h <= issued'[g]["source"]
    BY <1>0, <1>7
  <2> QED BY <1>3, <2>1, <2>2 DEF LastKept
<1> QED BY <1>3, <1>9, <1>10, <1>11 DEF LastKept

\* A source is taken from the buffer.
LEMMA KeptCreated ==
  ASSUME TypeInv, NEW g \in Federates, LastKept(g), NEW l, Created(g, "source", l),
         UNCHANGED byHandle
  PROVE  LastKept(g)'
<1>0. /\ TypeOK /\ "source" \in Kinds /\ "source" \in Counters /\ "names" # "source"
      /\ buffered \in [Federates -> [Kinds -> Seq(Registration)]]
      /\ issued \in [Federates -> [Counters -> Nat]]
      /\ buffered[g]["source"] \in Seq(Registration)
  BY CounterTypes, RegistrationTypes
<1>1. /\ buffered[g]["source"] # <<>> /\ l.handle = Head(buffered[g]["source"]).handle
      /\ l.last = Head(buffered[g]["source"]).last
      /\ buffered' = [buffered EXCEPT ![g]["source"] = Tail(buffered[g]["source"])]
      /\ issued' = [issued EXCEPT ![g]["names"] = @ + 1]
      /\ UNCHANGED <<lastSent, persistent, byHandle>>
  BY DEF Created, ReserveName
<1>2. PICK b, c : b = buffered[g]["source"] /\ c = Tail(b)
  OBVIOUS
<1>3. /\ c \in Seq(Registration) /\ \A i \in DOMAIN c : i + 1 \in DOMAIN b /\ c[i] = b[i + 1]
      /\ 1 \in DOMAIN b /\ Head(b) = b[1]
  <2>1. b \in Seq(Registration) /\ b # <<>>
    BY <1>0, <1>1, <1>2
  <2> QED BY <1>2, <2>1, TailEntries
<1>4. buffered'[g]["source"] = c
  BY <1>0, <1>1, <1>2, <1>3, ExceptRegistrations
<1>5. \A m \in DOMAIN locals'[g]["source"] :
        \/ m \in DOMAIN locals[g]["source"] /\ locals'[g]["source"][m] = locals[g]["source"][m]
        \/ locals'[g]["source"][m] = l
  BY <1>0, CreatedEntries
<1>6. l.last = lastSent[g][l.handle]
  BY <1>1, <1>2, <1>3 DEF LastKept
<1>7. \A m \in DOMAIN locals'[g]["source"] :
        locals'[g]["source"][m].last = lastSent'[g][locals'[g]["source"][m].handle]
  BY <1>1, <1>5, <1>6 DEF LastKept
<1>8. \A i \in DOMAIN buffered'[g]["source"] :
        buffered'[g]["source"][i].last = lastSent'[g][buffered'[g]["source"][i].handle]
  BY <1>1, <1>2, <1>3, <1>4 DEF LastKept
<1>9. issued'[g]["source"] = issued[g]["source"]
  BY <1>0, <1>1
<1> QED BY <1>1, <1>7, <1>8, <1>9 DEF LastKept

\* A source transmits.
LEMMA KeptTransmitted ==
  ASSUME TypeInv, HandlesKnown, UniqueNames, UniqueHandles, NEW g \in Federates, LastKept(g),
         BufferedTransmitDOMember(g)
  PROVE  LastKept(g)'
<1>0. /\ TypeOK /\ "source" \in Kinds /\ "source" \in Counters
      /\ locals \in [Federates -> [Kinds -> Seq(Local)]]
      /\ lastSent \in [Federates -> [Handles -> 0..MaxValues]]
  BY CounterTypes, RegistrationTypes
<1>1. PICK n, t, i, l : TransmitStep(g, n, t, i, l)
  BY <1>0, TransmitSteps
<1>2. PICK r, s : r = [l EXCEPT !.last = t.value] /\ s = [locals[g]["source"] EXCEPT ![i] = r]
  OBVIOUS
<1>3. /\ i \in DOMAIN locals[g]["source"] /\ l = locals[g]["source"][i] /\ l \in Local
      /\ t.handle \in Handles /\ t.value \in 0..MaxValues /\ l.name = byHandle[g][t.handle]
      /\ byHandle[g][t.handle] # NoName
      /\ locals' = [locals EXCEPT ![g]["source"] = s]
      /\ lastSent' = [lastSent EXCEPT ![g][t.handle] = t.value]
      /\ UNCHANGED <<persistent, buffered, byHandle, issued>>
  BY <1>1, <1>2 DEF TransmitStep
<1>4. l.handle = t.handle /\ r.handle = t.handle /\ r.last = t.value /\ r \in Local
  <2>1. l.handle = t.handle
    BY <1>0, <1>3, HandleOfName
  <2> QED BY <1>2, <1>3, <2>1 DEF Local
<1>5. s \in Seq(Local) /\ DOMAIN s = DOMAIN locals[g]["source"]
      /\ \A m \in DOMAIN s : s[m] = IF m = i THEN r ELSE locals[g]["source"][m]
  <2>1. locals[g]["source"] \in Seq(Local) /\ i \in 1..Len(locals[g]["source"])
    BY <1>0, <1>3, LenProperties
  <2>2. s \in Seq(Local)
    BY <1>2, <1>4, <2>1, ExceptSeq
  <2> QED BY <1>2, <2>1, <2>2
<1>6. locals'[g]["source"] = s
  BY <1>0, <1>3, <1>5, ExceptLocals
<1>7. \A h \in Handles : lastSent'[g][h] = IF h = t.handle THEN t.value ELSE lastSent[g][h]
  BY <1>0, <1>3
<1>8. /\ \A m \in DOMAIN s : m # i => locals[g]["source"][m].handle # t.handle
      /\ \A m \in DOMAIN buffered[g]["source"] : buffered[g]["source"][m].handle # t.handle
      /\ t.handle <= issued[g]["source"]
  BY <1>0, <1>3, <1>4, <1>5 DEF UniqueHandles, Distinct
<1>9. /\ \A m \in DOMAIN s : m # i => locals[g]["source"][m].handle \in Handles
      /\ \A m \in DOMAIN buffered[g]["source"] : buffered[g]["source"][m].handle \in Handles
      /\ \A m \in DOMAIN persistent[g]["source"] : persistent[g]["source"][m].handle \in Handles
  BY <1>0, <1>5, LocalTypes, ValueTypes
<1>10. \A m \in DOMAIN s : s[m].last = lastSent'[g][s[m].handle]
  BY <1>3, <1>4, <1>5, <1>7, <1>8, <1>9 DEF LastKept
<1>11. \A m \in DOMAIN buffered[g]["source"] :
         buffered[g]["source"][m].last = lastSent'[g][buffered[g]["source"][m].handle]
  BY <1>7, <1>8, <1>9 DEF LastKept
<1>12. \A m \in DOMAIN persistent[g]["source"] :
         byHandle[g][persistent[g]["source"][m].handle] = NoName =>
           persistent[g]["source"][m].last = lastSent'[g][persistent[g]["source"][m].handle]
  BY <1>3, <1>7, <1>9 DEF LastKept
<1>13. \A h \in Handles : lastSent'[g][h] # 0 => h <= issued[g]["source"]
  BY <1>7, <1>8 DEF LastKept
<1> QED BY <1>3, <1>6, <1>10, <1>11, <1>12, <1>13 DEF LastKept

\* The federate joins: it had no source that can transmit, what is buffered is up to date.
LEMMA KeptJoined ==
  ASSUME TypeInv, HandlesKnown, Absent, NEW g \in Federates, LastKept(g), OnJoined(g)
  PROVE  LastKept(g)'
<1>0. /\ TypeOK /\ IsFiniteSet(objects) /\ "source" \in Kinds
      /\ persistent[g]["source"] \in Seq(Registration)
      /\ byHandle \in [Federates -> [Handles -> Names \cup {NoName}]]
  BY CounterTypes, RegistrationTypes
<1>1. PICK out : JoinStep(g, out)
  BY <1>0, JoinSteps
<1>2. /\ buffered'[g]["source"] = buffered[g]["source"] \o persistent[g]["source"]
      /\ UNCHANGED <<persistent, locals, byHandle, lastSent, issued>>
  BY <1>0, <1>1 DEF JoinStep, localVars, history
<1>3. buffered[g]["source"] = <<>> /\ locals[g]["source"] = <<>>
  BY <1>0, OnJoinedJoins DEF Absent
<1>4. buffered'[g]["source"] = persistent[g]["source"]
  <2>1. <<>> \o persistent[g]["source"] = persistent[g]["source"]
    BY <1>0, ConcatEmptySeq
  <2> QED BY <1>2, <1>3, <2>1
<1>5. \A h \in Handles : byHandle[g][h] = NoName
  <2>1. DOMAIN locals[g]["source"] = {}
    BY <1>3
  <2> QED BY <2>1 DEF HandlesKnown
<1>6. \A m \in DOMAIN persistent[g]["source"] : persistent[g]["source"][m].handle \in Handles
  BY <1>0, ValueTypes
<1>7. \A m \in DOMAIN persistent[g]["source"] :
        persistent[g]["source"][m].last = lastSent[g][persistent[g]["source"][m].handle]
  BY <1>5, <1>6 DEF LastKept
<1> QED BY <1>2, <1>4, <1>7 DEF LastKept

\* The federate leaves: the sources leave their data with the persistent registrations.
LEMMA KeptReset ==
  ASSUME TypeInv, HandlesKnown, UniqueNames, LastOfRegistrations, NEW g \in Federates,
         LastKept(g), Reset(g)
  PROVE  LastKept(g)'
<1>0. /\ TypeOK /\ IsFiniteSet(objects) /\ "source" \in Kinds /\ "source" \in Counters
      /\ persistent \in [Federates -> [Kinds -> Seq(Registration)]]
      /\ buffered \in [Federates -> [Kinds -> Seq(Registration)]]
      /\ locals \in [Federates -> [Kinds -> Seq(Local)]]
      /\ byHandle \in [Federates -> [Handles -> Names \cup {NoName}]]
      /\ issued \in [Federates -> [Counters -> Nat]]
  BY CounterTypes, RegistrationTypes
<1>1. PICK out : ResetStep(g, out)
  BY <1>0, ResetSteps
<1>2. PICK q, none : q = KeepLastData(g) /\ none = [k \in Kinds |-> <<>>]
  OBVIOUS
<1>3. /\ persistent' = [persistent EXCEPT ![g]["source"] = q]
      /\ buffered' = [buffered EXCEPT ![g] = none] /\ locals' = [locals EXCEPT ![g] = none]
      /\ issued' = [issued EXCEPT ![g]["leaves"] = issued[g]["leaves"] + 1]
      /\ UNCHANGED lastSent
  BY <1>1, <1>2 DEF ResetStep
<1>4. /\ q \in Seq(Registration) /\ Len(q) = Len(persistent[g]["source"])
      /\ \A i \in DOMAIN persistent[g]["source"] :
           /\ q[i].handle = persistent[g]["source"][i].handle
           /\ \/ /\ q[i] = persistent[g]["source"][i]
                 /\ \A j \in DOMAIN locals[g]["source"] :
                      locals[g]["source"][j].name = byHandle[g][persistent[g]["source"][i].handle]
                      => locals[g]["source"][j].last = 0
              \/ \E j \in DOMAIN locals[g]["source"] :
                   /\ locals[g]["source"][j].name = byHandle[g][persistent[g]["source"][i].handle]
                   /\ q[i].last = locals[g]["source"][j].last
  BY <1>0, <1>2, KeptFacts
<1>5. DOMAIN q = DOMAIN persistent[g]["source"]
  BY <1>0, <1>4, LenProperties
<1>6. /\ persistent'[g]["source"] = q /\ DOMAIN buffered'[g]["source"] = {}
      /\ DOMAIN locals'[g]["source"] = {}
  <2>1. persistent'[g]["source"] = q
    BY <1>0, <1>3, <1>4, ExceptRegistrations
  <2> QED BY <1>0, <1>2, <1>3, <2>1
<1>7. issued'[g]["source"] = issued[g]["source"]
  <2>1. "leaves" # "source"
    OBVIOUS
  <2> QED BY <1>0, <1>3, <2>1
<1>8. ASSUME NEW i \in DOMAIN q PROVE q[i].last = lastSent[g][q[i].handle]
  <2>1. PICK h : h = persistent[g]["source"][i].handle /\ q[i].handle = h /\ h \in Handles
    BY <1>0, <1>4, <1>5, ValueTypes
  <2>2. ASSUME NEW j \in DOMAIN locals[g]["source"], locals[g]["source"][j].name = byHandle[g][h]
        PROVE  locals[g]["source"][j].last = lastSent[g][h]
    <3>1. locals[g]["source"][j].handle = h
      BY <1>0, <2>1, <2>2, HandleOfName
    <3> QED BY <3>1 DEF LastKept
  <2>3. CASE \E j \in DOMAIN locals[g]["source"] :
               locals[g]["source"][j].name = byHandle[g][h] /\ q[i].last = locals[g]["source"][j].last
    BY <2>1, <2>2, <2>3
  <2>4. CASE /\ q[i] = persistent[g]["source"][i]
             /\ \A j \in DOMAIN locals[g]["source"] :
                  locals[g]["source"][j].name = byHandle[g][h] => locals[g]["source"][j].last = 0
    <3>1. CASE byHandle[g][h] = NoName
      BY <1>5, <2>1, <2>4, <3>1 DEF LastKept
    <3>2. CASE byHandle[g][h] # NoName
      <4>1. PICK j \in DOMAIN locals[g]["source"] : locals[g]["source"][j].name = byHandle[g][h]
        BY <2>1, <3>2 DEF HandlesKnown
      <4>2. lastSent[g][h] = 0
        BY <2>2, <2>4, <4>1
      <4>3. q[i].last <= lastSent[g][h] /\ q[i].last \in Nat
        BY <1>0, <1>5, <2>1, <2>4, ValueTypes DEF LastOfRegistrations
      <4> QED BY <2>1, <4>2, <4>3
    <3> QED BY <3>1, <3>2
  <2> QED BY <1>4, <1>5, <2>1, <2>3, <2>4
<1> QED BY <1>3, <1>5, <1>6, <1>7, <1>8 DEF LastKept

\* Nothing happens to the sources of a federate ...
LEMMA SameSources ==
  ASSUME NEW g \in Federates, persistent'[g]["source"] = persistent[g]["source"],
         buffered'[g]["source"] = buffered[g]["source"],
         locals'[g]["source"] = locals[g]["source"], byHandle'[g] = byHandle[g],
         lastSent'[g] = lastSent[g], issued'[g]["source"] = issued[g]["source"]
  PROVE  FewerSources(g)
BY DEF FewerSources

\* ... when those of another federate, or the targets, change.
LEMMA OtherSources ==
  ASSUME TypeInv, NEW f \in Federates, NEW k \in Kinds,
         NEW p, p \in Seq(Registration), NEW b, b \in Seq(Registration), NEW s, s \in Seq(Local),
         UNCHANGED persistent \/ persistent' = [persistent EXCEPT ![f][k] = p],
         UNCHANGED buffered \/ buffered' = [buffered EXCEPT ![f][k] = b],
         UNCHANGED locals \/ locals' = [locals EXCEPT ![f][k] = s],
         NEW g \in Federates, g # f \/ k # "source",
         byHandle'[g] = byHandle[g], lastSent'[g] = lastSent[g],
         issued'[g]["source"] = issued[g]["source"]
  PROVE  FewerSources(g)
<1>0. /\ persistent \in [Federates -> [Kinds -> Seq(Registration)]]
      /\ buffered \in [Federates -> [Kinds -> Seq(Registration)]]
      /\ locals \in [Federates -> [Kinds -> Seq(Local)]] /\ "source" \in Kinds
  BY RegistrationTypes, CounterTypes
<1>1. persistent'[g]["source"] = persistent[g]["source"]
  <2>1. CASE persistent' = [persistent EXCEPT ![f][k] = p]
    BY <1>0, <2>1, ExceptRegistrations
  <2> QED BY <2>1
<1>2. buffered'[g]["source"] = buffered[g]["source"]
  <2>1. CASE buffered' = [buffered EXCEPT ![f][k] = b]
    BY <1>0, <2>1, ExceptRegistrations
  <2> QED BY <2>1
<1>3. locals'[g]["source"] = locals[g]["source"]
  <2>1. CASE locals' = [locals EXCEPT ![f][k] = s]
    BY <1>0, <2>1, ExceptLocals
  <2> QED BY <2>1
<1> QED BY <1>1, <1>2, <1>3, SameSources

\* A callback.
LEMMA KeptEvoked ==
  ASSUME TypeInv, NEW f \in Federates, evokeCallback(f), NEW g \in Federates
  PROVE  FewerSources(g)
<1>0. /\ TypeOK /\ byHandle \in [Federates -> [Handles -> Names \cup {NoName}]]
      /\ "source" \in Kinds /\ UNCHANGED <<persistent, buffered, lastSent, issued>>
  BY RegistrationTypes, CounterTypes DEF evokeCallback, keptByCallbacks, regVars
<1>1. PICK m : m = Head(inbox[f])
  OBVIOUS
<1>2. m.obj \in Objects
  <2>1. inbox \in Queues /\ inbox[f] # <<>>
    BY <1>0 DEF TypeOK, Queues, evokeCallback
  <2>2. m \in Message
    BY <1>1, <2>1, RestTypes
  <2> QED BY <2>2 DEF Message
<1>3. CASE UNCHANGED <<locals, byHandle>>
  BY <1>0, <1>3, SameSources
<1>4. CASE OnDOObjectReservationCompleted(f, m.obj)
  <2>1. ASSUME NEW i, NEW l, ReservationStep(f, m.obj, i, l) PROVE FewerSources(g)
    <3>1. PICK k, r, s : /\ k = m.obj.kind /\ r = [l EXCEPT !.registered = TRUE]
                         /\ s = [locals[f][k] EXCEPT ![i] = r]
      OBVIOUS
    <3>2. /\ k \in Kinds /\ i \in DOMAIN locals[f][k] /\ l = locals[f][k][i] /\ l \in Local
          /\ locals' = [locals EXCEPT ![f][k] = s]
          /\ l.handle \in Handles /\ m.obj.name \in Names
          /\ byHandle' = IF k = "source"
                           THEN [byHandle EXCEPT ![f][l.handle] = m.obj.name] ELSE byHandle
      BY <2>1, <3>1 DEF ReservationStep
    <3>3. r \in Local /\ r.handle = l.handle /\ r.last = l.last
      BY <3>1, <3>2 DEF Local
    <3>4. s \in Seq(Local) /\ DOMAIN s = DOMAIN locals[f][k]
          /\ \A j \in DOMAIN s : s[j].handle = locals[f][k][j].handle
                                 /\ s[j].last = locals[f][k][j].last
      <4>1. locals[f][k] \in Seq(Local) /\ i \in 1..Len(locals[f][k])
        BY <3>2, RegistrationTypes, LenProperties
      <4>2. s \in Seq(Local)
        BY <3>1, <3>3, <4>1, ExceptSeq
      <4> QED BY <3>1, <3>2, <3>3, <4>2
    <3>5. locals'[g]["source"] = IF g = f /\ k = "source" THEN s ELSE locals[g]["source"]
      <4>1. locals \in [Federates -> [Kinds -> Seq(Local)]]
        BY RegistrationTypes
      <4> QED BY <1>0, <3>2, <3>4, <4>1, ExceptLocals
    <3>6. \A h \in Handles : byHandle'[g][h] = NoName => byHandle[g][h] = NoName
      <4>1. \A h \in Handles : \/ byHandle'[g][h] = byHandle[g][h]
                               \/ byHandle'[g][h] = m.obj.name
        BY <1>0, <3>2
      <4> QED BY <3>2, <4>1, NoNameIsNoName
    <3>7. \A j \in DOMAIN persistent[g]["source"] : persistent[g]["source"][j].handle \in Handles
      BY <1>0, ValueTypes
    <3> QED BY <1>0, <3>4, <3>5, <3>6, <3>7 DEF FewerSources
  <2>2. CASE ReservationUnused(f)
    <3>1. UNCHANGED <<locals, byHandle>>
      BY <2>2 DEF ReservationUnused
    <3> QED BY <1>3, <3>1
  <2> QED BY <1>0, <1>2, <1>4, <2>1, <2>2, ReservationSteps
<1> QED BY <1>1, <1>3, <1>4
        DEF evokeCallback, discoverObjectInstance, removeObjectInstance, reflectAttributeValues,
            provideAttributeValueUpdate, localVars

\* A source is unregistered.
LEMMA KeptUnregistered ==
  ASSUME TypeInv, UniqueHandles, NEW g \in Federates, NEW h \in Handles, Unregister(g, "source", h)
  PROVE  FewerSources(g)
<1>0. /\ TypeOK /\ "source" \in Kinds
      /\ persistent \in [Federates -> [Kinds -> Seq(Registration)]]
      /\ buffered \in [Federates -> [Kinds -> Seq(Registration)]]
      /\ locals \in [Federates -> [Kinds -> Seq(Local)]]
      /\ byHandle \in [Federates -> [Handles -> Names \cup {NoName}]]
      /\ persistent[g]["source"] \in Seq(Registration) /\ buffered[g]["source"] \in Seq(Registration)
      /\ locals[g]["source"] \in Seq(Local)
  BY CounterTypes, RegistrationTypes
<1>1. PICK n : UnregisterStep(g, "source", h, n)
  BY <1>0, UnregisterSteps
<1>2. PICK p : p = RemoveAt(persistent[g]["source"], n)
  OBVIOUS
<1>3. /\ n \in DOMAIN persistent[g]["source"] /\ persistent[g]["source"][n].handle = h
      /\ persistent' = [persistent EXCEPT ![g]["source"] = p]
      /\ UNCHANGED <<lastSent, issued>>
  BY <1>1, <1>2 DEF UnregisterStep, history
<1>4. /\ p \in Seq(Registration)
      /\ \A i \in DOMAIN p : \E a \in DOMAIN persistent[g]["source"] :
           a # n /\ p[i] = persistent[g]["source"][a]
  BY <1>0, <1>2, <1>3, RemoveAtFacts, RemoveAtEntries
<1>5. persistent'[g]["source"] = p
  BY <1>0, <1>3, <1>4, ExceptRegistrations
<1>6. \A i \in DOMAIN p : p[i].handle # h /\ p[i].handle \in Handles
  BY <1>0, <1>3, <1>4, ValueTypes DEF UniqueHandles, Distinct
<1>7. ASSUME \A j \in Handles : j # h => byHandle'[g][j] = byHandle[g][j],
             \A i \in DOMAIN locals'[g]["source"] : \E a \in DOMAIN locals[g]["source"] :
               locals'[g]["source"][i] = locals[g]["source"][a],
             \A i \in DOMAIN buffered'[g]["source"] : \E a \in DOMAIN buffered[g]["source"] :
               buffered'[g]["source"][i] = buffered[g]["source"][a]
      PROVE  FewerSources(g)
  <2>1. \A i \in DOMAIN p : byHandle'[g][p[i].handle] = NoName => byHandle[g][p[i].handle] = NoName
    BY <1>6, <1>7
  <2>2. \A i \in DOMAIN locals'[g]["source"] : \E a \in DOMAIN locals[g]["source"] :
          /\ locals'[g]["source"][i].handle = locals[g]["source"][a].handle
          /\ locals'[g]["source"][i].last = locals[g]["source"][a].last
    BY <1>7
  <2>3. \A i \in DOMAIN p : \E a \in DOMAIN persistent[g]["source"] : p[i] = persistent[g]["source"][a]
    BY <1>4
  <2> QED BY <1>3, <1>5, <1>7, <2>1, <2>2, <2>3 DEF FewerSources
<1>8. ASSUME NEW m, EraseEntry(g, "source", h, m) PROVE FewerSources(g)
  <2>1. PICK b : b = RemoveAt(buffered[g]["source"], m)
    OBVIOUS
  <2>2. m \in DOMAIN buffered[g]["source"] /\ buffered' = [buffered EXCEPT ![g]["source"] = b]
        /\ UNCHANGED <<locals, byHandle>>
    BY <1>8, <2>1 DEF EraseEntry
  <2>3. b \in Seq(Registration)
        /\ \A i \in DOMAIN b : \E a \in DOMAIN buffered[g]["source"] : b[i] = buffered[g]["source"][a]
    BY <1>0, <2>1, <2>2, RemoveAtFacts, RemoveAtEntries
  <2>4. buffered'[g]["source"] = b
    BY <1>0, <2>2, <2>3, ExceptRegistrations
  <2> QED BY <1>7, <2>2, <2>3, <2>4
<1>9. ASSUME NEW m, NEW l, EraseMember(g, "source", h, m, l) PROVE FewerSources(g)
  <2>1. PICK s : s = RemoveAt(locals[g]["source"], m)
    OBVIOUS
  <2>2. m \in DOMAIN locals[g]["source"] /\ locals' = [locals EXCEPT ![g]["source"] = s]
        /\ byHandle' = [byHandle EXCEPT ![g][h] = NoName] /\ UNCHANGED buffered
    BY <1>9, <2>1 DEF EraseMember
  <2>3. s \in Seq(Local)
        /\ \A i \in DOMAIN s : \E a \in DOMAIN locals[g]["source"] : s[i] = locals[g]["source"][a]
    BY <1>0, <2>1, <2>2, RemoveAtFacts, RemoveAtEntries
  <2>4. locals'[g]["source"] = s
    BY <1>0, <2>2, <2>3, ExceptLocals
  <2>5. \A j \in Handles : j # h => byHandle'[g][j] = byHandle[g][j]
    BY <1>0, <2>2
  <2> QED BY <1>7, <2>2, <2>3, <2>4, <2>5
<1>10. CASE UNCHANGED <<buffered, locals, byHandle>>
  BY <1>7, <1>10
<1> QED BY <1>1, <1>8, <1>9, <1>10 DEF UnregisterStep, EraseNothing

\* Unregistering leaves the sources of others, and unregistering a target all sources.
LEMMA KeptByOthers ==
  ASSUME TypeInv, NEW f \in Federates, NEW k \in Kinds, NEW h \in Handles, Unregister(f, k, h),
         NEW g \in Federates, g # f \/ k # "source"
  PROVE  FewerSources(g)
<1>0. /\ TypeOK /\ byHandle \in [Federates -> [Handles -> Names \cup {NoName}]]
      /\ persistent[f][k] \in Seq(Registration) /\ buffered[f][k] \in Seq(Registration)
      /\ locals[f][k] \in Seq(Local)
  BY RegistrationTypes
<1>1. PICK n : UnregisterStep(f, k, h, n)
  BY <1>0, UnregisterSteps
<1>2. PICK p, c, t : p = RemoveAt(persistent[f][k], n) /\ c = buffered[f][k] /\ t = locals[f][k]
  OBVIOUS
<1>3. /\ n \in DOMAIN persistent[f][k] /\ persistent' = [persistent EXCEPT ![f][k] = p]
      /\ UNCHANGED <<lastSent, issued>>
  BY <1>1, <1>2 DEF UnregisterStep, history
<1>4. p \in Seq(Registration) /\ c \in Seq(Registration) /\ t \in Seq(Local)
  BY <1>0, <1>2, <1>3, RemoveAtFacts
<1>5. ASSUME NEW m, EraseEntry(f, k, h, m) PROVE FewerSources(g)
  <2>1. PICK b : b = RemoveAt(c, m)
    OBVIOUS
  <2>2. m \in DOMAIN c /\ buffered' = [buffered EXCEPT ![f][k] = b] /\ UNCHANGED <<locals, byHandle>>
    BY <1>2, <1>5, <2>1 DEF EraseEntry
  <2>3. b \in Seq(Registration)
    BY <1>4, <2>1, <2>2, RemoveAtFacts
  <2> QED BY <1>3, <1>4, <2>2, <2>3, OtherSources
<1>6. ASSUME NEW m, NEW l, EraseMember(f, k, h, m, l) PROVE FewerSources(g)
  <2>1. PICK s : s = RemoveAt(t, m)
    OBVIOUS
  <2>2. m \in DOMAIN t /\ locals' = [locals EXCEPT ![f][k] = s] /\ UNCHANGED buffered
        /\ byHandle' = IF k = "source" THEN [byHandle EXCEPT ![f][h] = NoName] ELSE byHandle
    BY <1>2, <1>6, <2>1 DEF EraseMember
  <2>3. s \in Seq(Local)
    BY <1>4, <2>1, <2>2, RemoveAtFacts
  <2>4. byHandle'[g] = byHandle[g]
    BY <1>0, <2>2
  <2> QED BY <1>3, <1>4, <2>2, <2>3, <2>4, OtherSources
<1>7. CASE UNCHANGED <<buffered, locals, byHandle>>
  BY <1>3, <1>4, <1>7, OtherSources
<1> QED BY <1>1, <1>5, <1>6, <1>7 DEF UnregisterStep, EraseNothing

\* Every step.
LEMMA LastKeptStep ==
  ASSUME TypeInv, HandlesKnown, ValuesInv, UniqueHandles, Absent, AllKept, [Next]_vars
  PROVE  AllKept'
<1>0. /\ TypeOK /\ IsFiniteSet(objects) /\ "source" \in Kinds /\ "target" \in Kinds
      /\ "source" # "target" /\ UniqueNames /\ LastOfRegistrations
      /\ "names" # "source" /\ "leaves" # "source" /\ "values" # "source"
  BY CounterTypes, RegistrationTypes DEF ValuesInv
<1>t. /\ persistent \in [Federates -> [Kinds -> Seq(Registration)]]
      /\ buffered \in [Federates -> [Kinds -> Seq(Registration)]]
      /\ locals \in [Federates -> [Kinds -> Seq(Local)]]
      /\ byHandle \in [Federates -> [Handles -> Names \cup {NoName}]]
      /\ lastSent \in [Federates -> [Handles -> 0..MaxValues]]
      /\ issued \in [Federates -> [Counters -> Nat]] /\ "source" \in Counters
  BY CounterTypes, RegistrationTypes
<1> SUFFICES ASSUME NEW g \in Federates PROVE LastKept(g)'
  BY DEF AllKept
<1>1. LastKept(g)
  BY DEF AllKept
<1>2. ASSUME FewerSources(g) PROVE LastKept(g)'
  BY <1>1, <1>2, KeptFewer
<1>3. ASSUME UNCHANGED <<persistent, buffered, locals, byHandle, lastSent>>,
             issued'[g]["source"] = issued[g]["source"]
      PROVE  LastKept(g)'
  BY <1>2, <1>3, SameSources
<1>4. ASSUME NEW f \in Federates, NEW k \in Kinds, Register(f, k) PROVE LastKept(g)'
  <2>1. CASE g = f /\ k = "source"
    BY <1>1, <1>4, <2>1, KeptRegistered
  <2>2. CASE g # f \/ k # "source"
    <3>1. PICK r : RegisterStep(f, k, r)
      BY <1>0, <1>4, RegisterSteps
    <3>2. PICK p, b, s : /\ p = Append(persistent[f][k], r) /\ b = Append(buffered[f][k], r)
                         /\ s = locals[f][k]
      OBVIOUS
    <3>3. /\ r \in Registration /\ persistent' = [persistent EXCEPT ![f][k] = p]
          /\ UNCHANGED buffered \/ buffered' = [buffered EXCEPT ![f][k] = b]
          /\ issued' = [issued EXCEPT ![f][k] = issued[f][k] + 1]
          /\ UNCHANGED <<locals, byHandle, lastSent>>
      BY <3>1, <3>2 DEF RegisterStep, localVars, history
    <3>4. p \in Seq(Registration) /\ b \in Seq(Registration) /\ s \in Seq(Local)
      BY <3>2, <3>3, RegistrationTypes, AppendEntries
    <3>5. issued'[g]["source"] = issued[g]["source"]
      BY <1>t, <2>2, <3>3
    <3> QED BY <1>2, <2>2, <3>3, <3>4, <3>5, OtherSources
  <2> QED BY <2>1, <2>2
<1>5. ASSUME NEW f \in Federates, ProcessTargets(f) \/ ProcessSources(f) PROVE LastKept(g)'
  <2>1. UNCHANGED byHandle
    BY <1>5 DEF ProcessTargets, ProcessSources, RegisterBufferedDOTarget, RegisterBufferedDOSource,
                localVars
  <2>2. ASSUME NEW k, NEW l, Created(f, k, l) PROVE LastKept(g)'
    <3>1. CASE g = f /\ k = "source"
      BY <1>1, <2>1, <2>2, <3>1, KeptCreated
    <3>2. CASE g # f \/ k # "source"
      <4>1. /\ k \in Kinds /\ buffered[f][k] # <<>> /\ l \in Local
            /\ locals' = [locals EXCEPT ![f][k] = Append(locals[f][k], l)]
            /\ buffered' = [buffered EXCEPT ![f][k] = Tail(buffered[f][k])]
            /\ issued' = [issued EXCEPT ![f]["names"] = @ + 1]
            /\ UNCHANGED <<persistent, lastSent>>
        BY <2>2 DEF Created, ReserveName
      <4>2. PICK p, b, s : /\ p = persistent[f][k] /\ b = Tail(buffered[f][k])
                           /\ s = Append(locals[f][k], l)
        OBVIOUS
      <4>3. p \in Seq(Registration) /\ b \in Seq(Registration) /\ s \in Seq(Local)
        BY <4>1, <4>2, RegistrationTypes, AppendEntries, TailEntries
      <4>4. issued'[g]["source"] = issued[g]["source"]
        BY <1>0, <1>t, <4>1
      <4>5. /\ buffered' = [buffered EXCEPT ![f][k] = b] /\ locals' = [locals EXCEPT ![f][k] = s]
            /\ byHandle'[g] = byHandle[g] /\ lastSent'[g] = lastSent[g] /\ UNCHANGED persistent
        BY <2>1, <4>1, <4>2
      <4>6. FewerSources(g)
        BY <3>2, <4>1, <4>3, <4>4, <4>5, OtherSources
      <4> QED BY <1>2, <4>6
    <3> QED BY <3>1, <3>2
  <2>3. CASE UNCHANGED <<buffered, locals, issued, lastSent>>
    <3>1. UNCHANGED persistent
      BY <1>5 DEF ProcessTargets, ProcessSources
    <3> QED BY <1>3, <2>1, <2>3, <3>1
  <2> QED BY <1>5, <2>2, <2>3, Creating DEF Untouched
<1>6. ASSUME NEW f \in Federates, BufferedTransmitDOMember(f) PROVE LastKept(g)'
  <2>1. CASE g = f
    BY <1>0, <1>1, <1>6, <2>1, KeptTransmitted
  <2>2. CASE g # f
    <3>1. PICK n, t, i, l : TransmitStep(f, n, t, i, l)
      BY <1>0, <1>6, TransmitSteps
    <3>2. PICK s : s = [locals[f]["source"] EXCEPT ![i] = [l EXCEPT !.last = t.value]]
      OBVIOUS
    <3>3. /\ locals' = [locals EXCEPT ![f]["source"] = s] /\ t.value \in 0..MaxValues
          /\ lastSent' = [lastSent EXCEPT ![f][t.handle] = t.value]
          /\ i \in DOMAIN locals[f]["source"] /\ l \in Local
          /\ UNCHANGED <<persistent, buffered, byHandle, issued>>
      BY <3>1, <3>2 DEF TransmitStep
    <3>4. s \in Seq(Local)
      <4>1. locals[f]["source"] \in Seq(Local) /\ i \in 1..Len(locals[f]["source"])
        BY <1>0, <3>3, RegistrationTypes, LenProperties
      <4>2. [l EXCEPT !.last = t.value] \in Local
        BY <3>3 DEF Local
      <4> QED BY <3>2, <4>1, <4>2, ExceptSeq
    <3>5. PICK p, b : p = persistent[f]["source"] /\ b = buffered[f]["source"]
      OBVIOUS
    <3>6. p \in Seq(Registration) /\ b \in Seq(Registration)
      BY <1>0, <3>5, RegistrationTypes
    <3>7. lastSent'[g] = lastSent[g] /\ byHandle'[g] = byHandle[g]
          /\ issued'[g]["source"] = issued[g]["source"]
      BY <1>t, <2>2, <3>3
    <3>8. FewerSources(g)
      BY <1>0, <2>2, <3>3, <3>4, <3>6, <3>7, OtherSources
    <3> QED BY <1>2, <3>8
  <2> QED BY <2>1, <2>2
<1>7. ASSUME NEW f \in Federates, OnJoined(f) PROVE LastKept(g)'
  <2>1. CASE g = f
    BY <1>1, <1>7, <2>1, KeptJoined
  <2>2. CASE g # f
    <3>1. PICK out : JoinStep(f, out)
      BY <1>0, <1>7, JoinSteps
    <3>2. /\ buffered'[g] = buffered[g]
          /\ UNCHANGED <<persistent, locals, byHandle, lastSent, issued>>
      BY <2>2, <3>1 DEF JoinStep, localVars, history
    <3> QED BY <1>2, <3>2, SameSources
  <2> QED BY <2>1, <2>2
<1>8. ASSUME NEW f \in Federates, Reset(f) PROVE LastKept(g)'
  <2>1. CASE g = f
    BY <1>0, <1>1, <1>8, <2>1, KeptReset
  <2>2. CASE g # f
    <3>1. PICK out : ResetStep(f, out)
      BY <1>0, <1>8, ResetSteps
    <3>2. PICK q, none, away : /\ q = KeepLastData(f) /\ none = [k \in Kinds |-> <<>>]
                               /\ away = [h \in Handles |-> NoName]
      OBVIOUS
    <3>3. /\ persistent' = [persistent EXCEPT ![f]["source"] = q]
          /\ buffered' = [buffered EXCEPT ![f] = none] /\ locals' = [locals EXCEPT ![f] = none]
          /\ byHandle' = [byHandle EXCEPT ![f] = away]
          /\ issued' = [issued EXCEPT ![f]["leaves"] = issued[f]["leaves"] + 1]
          /\ UNCHANGED lastSent
      BY <3>1, <3>2 DEF ResetStep
    <3>4. persistent'[g]["source"] = persistent[g]["source"]
      BY <1>t, <2>2, <3>3
    <3>5. /\ buffered'[g] = buffered[g] /\ locals'[g] = locals[g] /\ byHandle'[g] = byHandle[g]
          /\ issued'[g] = issued[g]
      BY <1>t, <2>2, <3>3
    <3> QED BY <1>2, <3>3, <3>4, <3>5, SameSources
  <2> QED BY <2>1, <2>2
<1>9. ASSUME NEW f \in Federates, NEW k \in Kinds, NEW h \in Handles, Unregister(f, k, h)
      PROVE  LastKept(g)'
  BY <1>2, <1>9, KeptUnregistered, KeptByOthers
<1>10. ASSUME NEW f \in Federates, evokeCallback(f) PROVE LastKept(g)'
  BY <1>2, <1>10, KeptEvoked
<1>11. ASSUME NEW f \in Federates, NEW h \in Handles, TransmitDOMember(f, h) PROVE LastKept(g)'
  <2>1. /\ issued' = [issued EXCEPT ![f]["values"] = @ + 1]
        /\ UNCHANGED <<persistent, buffered, localVars, history>>
    BY <1>11, Zenon DEF TransmitDOMember
  <2>2. issued'[g]["source"] = issued[g]["source"]
    BY <1>0, <1>t, <2>1
  <2> QED BY <1>3, <2>1, <2>2 DEF localVars, history
<1>12. ASSUME NEW f \in Federates,
              \/ EnterInitFederate(f) \/ MeasurementStarts(f) \/ WaitForSingleEvent(f)
              \/ EndProcessBuffers(f) \/ (EvokeCallbacks(f) /\ inbox[f] = <<>>)
       PROVE  LastKept(g)'
  <2>1. UNCHANGED <<persistent, buffered, locals, byHandle, lastSent, issued>>
    BY <1>12 DEF EnterInitFederate, MeasurementStarts, WaitForSingleEvent, EndProcessBuffers,
                 EvokeCallbacks, evokeCallback, regVars, localVars, history
  <2> QED BY <1>3, <2>1
<1>13. CASE UNCHANGED vars
  BY <1>3, <1>13 DEF vars, regVars, localVars, history
<1>14. \A f \in Federates : EvokeCallbacks(f) => evokeCallback(f) \/ (EvokeCallbacks(f) /\ inbox[f] = <<>>)
  BY DEF EvokeCallbacks
<1>15. ASSUME NEW f \in Federates, Thread(f) PROVE LastKept(g)'
  BY <1>5, <1>6, <1>7, <1>10, <1>12, <1>14, <1>15 DEF Thread, ProcessBuffers, EvokeWhileWaiting
<1>16. ASSUME NEW f \in Federates, Application(f) PROVE LastKept(g)'
  BY <1>0, <1>4, <1>9, <1>11, <1>16 DEF Application
<1> QED BY <1>8, <1>13, <1>15, <1>16 DEF Next

\* Nothing has been transmitted yet.
LEMMA LastKeptInit ==
  Init => AllKept
<1> SUFFICES ASSUME Init, NEW g \in Federates PROVE LastKept(g)
  BY DEF AllKept
<1>1. /\ DOMAIN locals[g]["source"] = {} /\ DOMAIN buffered[g]["source"] = {}
      /\ DOMAIN persistent[g]["source"] = {}
  BY CounterTypes DEF Init
<1>2. \A h \in Handles : lastSent[g][h] = 0
  BY DEF Init
<1> QED BY <1>1, <1>2 DEF LastKept

\* "LastData should survive any reset (measurementStop, connectionLost)" (DOService.cpp, Reset):
\* a source that can transmit holds what was last transmitted through its handle, if no
\* application registers in the state InitFederate: the second source of a handle would begin
\* without the data that was sent by the first.
THEOREM LastDataKept ==
  ASSUME "InitFederate" \notin RegisterIn
  PROVE  Spec => []LastDataSurvives
<1>1. TypeInv /\ HandlesKnown /\ PromiseInv /\ UniqueHandles /\ Absent /\ AllKept /\ [Next]_vars
        => AllKept'
  BY LastKeptStep DEF PromiseInv
<1>2. AllKept => LastDataSurvives
  BY DEF AllKept, LastKept, LastDataSurvives, Range
<1> QED BY <1>1, <1>2, LastKeptInit, HandlesHold, PromiseInvHolds, TypesHold, PTL DEF Spec

-----------------------------------------------------------------------------
(* The HLA objects and the registrations they belong to.                        *)

\* What is buffered or local belongs to a registration that was not taken back.
Backed(g, k) ==
  /\ \A i \in DOMAIN buffered[g][k] : \E p \in DOMAIN persistent[g][k] :
       persistent[g][k][p].handle = buffered[g][k][i].handle
  /\ \A i \in DOMAIN locals[g][k] : \E p \in DOMAIN persistent[g][k] :
       persistent[g][k][p].handle = locals[g][k][i].handle

\* This for all federates.
AllBacked == \A g \in Federates, k \in Kinds : Backed(g, k)

\* No registration of g is taken back.
PersistentStays(g, k) ==
  \A a \in DOMAIN persistent[g][k] : \E b \in DOMAIN persistent'[g][k] :
    persistent'[g][k][b].handle = persistent[g][k][a].handle

\* As long as none is, everything stays backed.
LEMMA BackedStays ==
  ASSUME TypeInv, NEW g \in Federates, NEW k \in Kinds, Backed(g, k), HandleChange(g, k),
         PersistentStays(g, k)
  PROVE  Backed(g, k)'
<1>1. CASE Fewer(g, k)
  <2>1. \A i \in DOMAIN buffered'[g][k] : \E a \in DOMAIN buffered[g][k] :
          buffered'[g][k][i].handle = buffered[g][k][a].handle
    BY <1>1 DEF Fewer, Within
  <2>2. \A i \in DOMAIN locals'[g][k] : \E a \in DOMAIN locals[g][k] :
          locals'[g][k][i].handle = locals[g][k][a].handle
    BY <1>1 DEF Fewer, Within
  <2>3. ASSUME NEW i \in DOMAIN buffered'[g][k]
        PROVE  \E p \in DOMAIN persistent'[g][k] :
                 persistent'[g][k][p].handle = buffered'[g][k][i].handle
    BY <2>1 DEF Backed, PersistentStays
  <2>4. ASSUME NEW i \in DOMAIN locals'[g][k]
        PROVE  \E p \in DOMAIN persistent'[g][k] :
                 persistent'[g][k][p].handle = locals'[g][k][i].handle
    BY <2>2 DEF Backed, PersistentStays
  <2> QED BY <2>3, <2>4 DEF Backed
<1>2. CASE OneMore(g, k)
  <2>1. PICK r : /\ Longer(persistent'[g][k], persistent[g][k], r)
                 /\ \/ buffered'[g][k] = buffered[g][k]
                    \/ Longer(buffered'[g][k], buffered[g][k], r)
                 /\ locals'[g][k] = locals[g][k]
    BY <1>2 DEF OneMore
  <2>2. \E p \in DOMAIN persistent'[g][k] : persistent'[g][k][p].handle = r.handle
    BY <2>1 DEF Longer
  <2>3. ASSUME NEW i \in DOMAIN buffered'[g][k]
        PROVE  \E p \in DOMAIN persistent'[g][k] :
                 persistent'[g][k][p].handle = buffered'[g][k][i].handle
    <3>1. \/ i \in DOMAIN buffered[g][k] /\ buffered'[g][k][i] = buffered[g][k][i]
          \/ buffered'[g][k][i] = r
      BY <2>1, <2>3 DEF Longer
    <3> QED BY <2>2, <3>1 DEF Backed, PersistentStays
  <2>4. \A i \in DOMAIN locals'[g][k] : \E p \in DOMAIN persistent'[g][k] :
          persistent'[g][k][p].handle = locals'[g][k][i].handle
    BY <2>1 DEF Backed, PersistentStays
  <2> QED BY <2>3, <2>4 DEF Backed
<1>3. CASE AllBuffered(g, k)
  <2>1. /\ persistent'[g][k] = persistent[g][k] /\ locals'[g][k] = locals[g][k]
        /\ buffered'[g][k] = buffered[g][k] \o persistent[g][k]
    BY <1>3 DEF AllBuffered
  <2>2. PICK b, p, c : b = buffered[g][k] /\ p = persistent[g][k] /\ c = b \o p
    OBVIOUS
  <2>3. b \in Seq(Registration) /\ p \in Seq(Registration)
    BY <2>2, RegistrationTypes
  <2>4. \A i \in DOMAIN c : \/ i \in DOMAIN b /\ c[i] = b[i]
                            \/ i - Len(b) \in DOMAIN p /\ c[i] = p[i - Len(b)]
    <3>1. \A i \in DOMAIN (b \o p) : \/ i \in DOMAIN b /\ (b \o p)[i] = b[i]
                                     \/ i \notin DOMAIN b /\ i - Len(b) \in DOMAIN p
                                        /\ (b \o p)[i] = p[i - Len(b)]
      BY <2>3, ConcatEntries
    <3>2. c = b \o p
      BY <2>2
    <3> QED BY <3>1, <3>2
  <2>5. /\ \A i \in DOMAIN b : \E n \in DOMAIN p : p[n].handle = b[i].handle
        /\ \A i \in DOMAIN locals[g][k] : \E n \in DOMAIN p : p[n].handle = locals[g][k][i].handle
    BY <2>2 DEF Backed
  <2>6. ASSUME NEW i \in DOMAIN c PROVE \E n \in DOMAIN p : p[n].handle = c[i].handle
    <3>1. CASE i \in DOMAIN b /\ c[i] = b[i]
      BY <2>5, <3>1
    <3>2. CASE i - Len(b) \in DOMAIN p /\ c[i] = p[i - Len(b)]
      BY <3>2
    <3> QED BY <2>4, <2>6, <3>1, <3>2
  <2>7. buffered'[g][k] = c /\ persistent'[g][k] = p /\ locals'[g][k] = locals[g][k]
    BY <2>1, <2>2
  <2> QED BY <2>5, <2>6, <2>7 DEF Backed
<1>4. CASE FirstTaken(g, k)
  <2>1. PICK l : /\ buffered[g][k] # <<>> /\ l.handle = Head(buffered[g][k]).handle
                 /\ Longer(locals'[g][k], locals[g][k], l)
                 /\ buffered'[g][k] = Tail(buffered[g][k])
                 /\ persistent'[g][k] = persistent[g][k]
    BY <1>4 DEF FirstTaken
  <2>2. PICK b, c : b = buffered[g][k] /\ c = Tail(b)
    OBVIOUS
  <2>3. /\ \A i \in DOMAIN c : i + 1 \in DOMAIN b /\ c[i] = b[i + 1]
        /\ 1 \in DOMAIN b /\ Head(b) = b[1]
    <3>1. b \in Seq(Registration) /\ b # <<>>
      BY <2>1, <2>2, RegistrationTypes
    <3> QED BY <2>2, <3>1, TailEntries
  <2>4. \A i \in DOMAIN c : \E p \in DOMAIN persistent[g][k] :
          persistent[g][k][p].handle = c[i].handle
    BY <2>2, <2>3 DEF Backed
  <2>5. \E p \in DOMAIN persistent[g][k] : persistent[g][k][p].handle = l.handle
    BY <2>1, <2>2, <2>3 DEF Backed
  <2>6. \A i \in DOMAIN locals'[g][k] :
          \/ i \in DOMAIN locals[g][k] /\ locals'[g][k][i] = locals[g][k][i]
          \/ locals'[g][k][i] = l
    BY <2>1 DEF Longer
  <2>7. \A i \in DOMAIN locals'[g][k] : \E p \in DOMAIN persistent[g][k] :
          persistent[g][k][p].handle = locals'[g][k][i].handle
    BY <2>5, <2>6 DEF Backed
  <2> QED BY <2>1, <2>2, <2>4, <2>7 DEF Backed
<1> QED BY <1>1, <1>2, <1>3, <1>4 DEF HandleChange

\* Only unregistering takes a registration back.
LEMMA PersistentOfOthers ==
  ASSUME TypeInv, [Next]_vars, NEW g \in Federates, NEW k \in Kinds,
         \A h \in Handles : ~Unregister(g, k, h)
  PROVE  PersistentStays(g, k)
<1>0. /\ TypeOK /\ IsFiniteSet(objects) /\ "source" \in Kinds /\ "target" \in Kinds
      /\ persistent \in [Federates -> [Kinds -> Seq(Registration)]]
      /\ persistent[g][k] \in Seq(Registration)
  BY RegistrationTypes, CounterTypes
<1>1. CASE persistent'[g][k] = persistent[g][k]
  BY <1>1 DEF PersistentStays
<1>2. ASSUME NEW f \in Federates, NEW j \in Kinds, Register(f, j) PROVE PersistentStays(g, k)
  <2>1. PICK r : RegisterStep(f, j, r)
    BY <1>0, <1>2, RegisterSteps
  <2>2. PICK p : p = Append(persistent[f][j], r)
    OBVIOUS
  <2>3. r \in Registration /\ persistent' = [persistent EXCEPT ![f][j] = p]
    BY <2>1, <2>2 DEF RegisterStep
  <2>4. p \in Seq(Registration) /\ Longer(p, persistent[f][j], r)
    BY <2>2, <2>3, RegistrationTypes, AppendEntries, LongerAppended
  <2>5. persistent'[g][k] = IF g = f /\ k = j THEN p ELSE persistent[g][k]
    BY <1>0, <2>3, <2>4, ExceptRegistrations
  <2>6. CASE g = f /\ k = j
    <3>1. \A a \in DOMAIN persistent[f][j] : a \in DOMAIN p /\ p[a] = persistent[f][j][a]
      BY <2>4 DEF Longer
    <3> QED BY <2>5, <2>6, <3>1 DEF PersistentStays
  <2> QED BY <1>1, <2>5, <2>6
<1>3. ASSUME NEW f \in Federates, Reset(f) PROVE PersistentStays(g, k)
  <2>1. PICK out : ResetStep(f, out)
    BY <1>0, <1>3, ResetSteps
  <2>2. PICK q : q = KeepLastData(f)
    OBVIOUS
  <2>3. persistent' = [persistent EXCEPT ![f]["source"] = q]
    BY <2>1, <2>2 DEF ResetStep
  <2>4. /\ q \in Seq(Registration) /\ Len(q) = Len(persistent[f]["source"])
        /\ \A i \in DOMAIN persistent[f]["source"] :
             q[i].handle = persistent[f]["source"][i].handle
    BY <1>0, <2>2, KeptFacts
  <2>5. persistent'[g][k] = IF g = f /\ k = "source" THEN q ELSE persistent[g][k]
    BY <1>0, <2>3, <2>4, ExceptRegistrations
  <2>6. DOMAIN q = DOMAIN persistent[f]["source"]
    BY <1>0, <2>4, LenProperties
  <2> QED BY <1>1, <2>4, <2>5, <2>6 DEF PersistentStays
<1>4. ASSUME NEW f \in Federates, NEW j \in Kinds, NEW h \in Handles, Unregister(f, j, h)
      PROVE  PersistentStays(g, k)
  <2>1. PICK n : UnregisterStep(f, j, h, n)
    BY <1>0, <1>4, UnregisterSteps
  <2>2. PICK p : p = RemoveAt(persistent[f][j], n)
    OBVIOUS
  <2>3. n \in DOMAIN persistent[f][j] /\ persistent' = [persistent EXCEPT ![f][j] = p]
    BY <2>1, <2>2 DEF UnregisterStep
  <2>4. p \in Seq(Registration)
    BY <2>2, <2>3, RegistrationTypes, RemoveAtFacts
  <2>5. g # f \/ j # k
    BY <1>4
  <2>6. persistent'[g][k] = persistent[g][k]
    BY <1>0, <2>3, <2>4, <2>5, ExceptRegistrations
  <2> QED BY <1>1, <2>6
<1>5. ASSUME NEW f \in Federates, ProcessTargets(f) \/ ProcessSources(f) \/ OnJoined(f)
      PROVE  UNCHANGED persistent
  BY <1>5 DEF ProcessTargets, ProcessSources, OnJoined
<1>6. CASE \E f \in Federates : \/ EnterInitFederate(f) \/ MeasurementStarts(f)
                                \/ WaitForSingleEvent(f) \/ EndProcessBuffers(f)
                                \/ EvokeCallbacks(f) \/ EvokeWhileWaiting(f)
                                \/ BufferedTransmitDOMember(f)
                                \/ \E h \in Handles : TransmitDOMember(f, h)
  <2>1. UNCHANGED persistent
    BY <1>6 DEF EnterInitFederate, MeasurementStarts, WaitForSingleEvent, EndProcessBuffers,
                EvokeCallbacks, EvokeWhileWaiting, evokeCallback, keptByCallbacks,
                BufferedTransmitDOMember, TransmitDOMember, regVars
  <2> QED BY <1>1, <2>1
<1>7. CASE UNCHANGED vars
  BY <1>1, <1>7 DEF vars, regVars
<1> QED BY <1>0, <1>1, <1>2, <1>3, <1>4, <1>5, <1>6, <1>7 DEF Next, Thread, Application, ProcessBuffers

\* Unregistering takes the entry of the buffer, or the member, away with the registration.
LEMMA BackedUnregistered ==
  ASSUME TypeInv, UniqueHandles, ~EarlyUnregister, NEW g \in Federates, NEW k \in Kinds,
         NEW h \in Handles, Backed(g, k), Unregister(g, k, h)
  PROVE  Backed(g, k)'
<1>0. /\ TypeOK /\ persistent \in [Federates -> [Kinds -> Seq(Registration)]]
      /\ buffered \in [Federates -> [Kinds -> Seq(Registration)]]
      /\ locals \in [Federates -> [Kinds -> Seq(Local)]]
      /\ persistent[g][k] \in Seq(Registration) /\ buffered[g][k] \in Seq(Registration)
      /\ locals[g][k] \in Seq(Local)
      /\ Distinct(persistent[g][k]) /\ Distinct(buffered[g][k]) /\ Distinct(locals[g][k])
      /\ \A i \in DOMAIN buffered[g][k], j \in DOMAIN locals[g][k] :
           buffered[g][k][i].handle # locals[g][k][j].handle
  BY RegistrationTypes DEF UniqueHandles
<1>1. PICK n : UnregisterStep(g, k, h, n)
  BY <1>0, UnregisterSteps
<1>2. PICK p : p = RemoveAt(persistent[g][k], n)
  OBVIOUS
<1>3. /\ n \in DOMAIN persistent[g][k] /\ persistent[g][k][n].handle = h
      /\ persistent' = [persistent EXCEPT ![g][k] = p]
      /\ Of(g, k, h) = {} \/ HandleExists(g, k, h)
  BY <1>1, <1>2 DEF UnregisterStep
<1>4. /\ p \in Seq(Registration)
      /\ \A a \in DOMAIN persistent[g][k] : a # n => \E i \in DOMAIN p : p[i] = persistent[g][k][a]
  BY <1>0, <1>2, <1>3, RemoveAtFacts, RemoveAtEntries
<1>5. persistent'[g][k] = p
  BY <1>0, <1>3, <1>4, ExceptRegistrations
<1>6. ASSUME \A i \in DOMAIN buffered'[g][k] : \E a \in DOMAIN buffered[g][k] :
               buffered'[g][k][i] = buffered[g][k][a] /\ buffered[g][k][a].handle # h,
             \A i \in DOMAIN locals'[g][k] : \E a \in DOMAIN locals[g][k] :
               locals'[g][k][i] = locals[g][k][a] /\ locals[g][k][a].handle # h
      PROVE  Backed(g, k)'
  <2>1. ASSUME NEW i \in DOMAIN buffered'[g][k]
        PROVE  \E b \in DOMAIN p : p[b].handle = buffered'[g][k][i].handle
    <3>1. PICK a \in DOMAIN persistent[g][k] :
            /\ persistent[g][k][a].handle = buffered'[g][k][i].handle
            /\ buffered'[g][k][i].handle # h
      BY <1>6, <2>1 DEF Backed
    <3> QED BY <1>3, <1>4, <3>1
  <2>2. ASSUME NEW i \in DOMAIN locals'[g][k]
        PROVE  \E b \in DOMAIN p : p[b].handle = locals'[g][k][i].handle
    <3>1. PICK a \in DOMAIN persistent[g][k] :
            /\ persistent[g][k][a].handle = locals'[g][k][i].handle
            /\ locals'[g][k][i].handle # h
      BY <1>6, <2>2 DEF Backed
    <3> QED BY <1>3, <1>4, <3>1
  <2> QED BY <1>5, <2>1, <2>2 DEF Backed
<1>7. ASSUME NEW m, EraseEntry(g, k, h, m) PROVE Backed(g, k)'
  <2>1. PICK b : b = RemoveAt(buffered[g][k], m)
    OBVIOUS
  <2>2. /\ m \in DOMAIN buffered[g][k] /\ buffered[g][k][m].handle = h
        /\ buffered' = [buffered EXCEPT ![g][k] = b] /\ UNCHANGED locals
    BY <1>7, <2>1 DEF EraseEntry
  <2>3. b \in Seq(Registration)
        /\ \A i \in DOMAIN b : \E a \in DOMAIN buffered[g][k] : a # m /\ b[i] = buffered[g][k][a]
    BY <1>0, <2>1, <2>2, RemoveAtFacts, RemoveAtEntries
  <2>4. buffered'[g][k] = b
    BY <1>0, <2>2, <2>3, ExceptRegistrations
  <2>5. \A i \in DOMAIN b : \E a \in DOMAIN buffered[g][k] :
          b[i] = buffered[g][k][a] /\ buffered[g][k][a].handle # h
    BY <1>0, <2>2, <2>3 DEF Distinct
  <2>6. \A i \in DOMAIN locals[g][k] : locals[g][k][i].handle # h
    BY <1>0, <2>2
  <2> QED BY <1>6, <2>2, <2>4, <2>5, <2>6
<1>8. ASSUME NEW m, NEW l, EraseMember(g, k, h, m, l) PROVE Backed(g, k)'
  <2>1. PICK s : s = RemoveAt(locals[g][k], m)
    OBVIOUS
  <2>2. /\ m \in DOMAIN locals[g][k] /\ locals[g][k][m].handle = h
        /\ OfHandle(buffered[g][k], h) = {}
        /\ locals' = [locals EXCEPT ![g][k] = s] /\ UNCHANGED buffered
    BY <1>8, <2>1 DEF EraseMember
  <2>3. s \in Seq(Local)
        /\ \A i \in DOMAIN s : \E a \in DOMAIN locals[g][k] : a # m /\ s[i] = locals[g][k][a]
    BY <1>0, <2>1, <2>2, RemoveAtFacts, RemoveAtEntries
  <2>4. locals'[g][k] = s
    BY <1>0, <2>2, <2>3, ExceptLocals
  <2>5. \A i \in DOMAIN s : \E a \in DOMAIN locals[g][k] :
          s[i] = locals[g][k][a] /\ locals[g][k][a].handle # h
    BY <1>0, <2>2, <2>3 DEF Distinct
  <2>6. \A i \in DOMAIN buffered[g][k] : buffered[g][k][i].handle # h
    BY <2>2 DEF OfHandle
  <2> QED BY <1>6, <2>2, <2>4, <2>5, <2>6
<1>9. CASE EraseNothing(g, k, h)
  <2>1. /\ OfHandle(buffered[g][k], h) = {} /\ UNCHANGED <<buffered, locals>>
        /\ Of(g, k, h) # {} => \E m \in Of(g, k, h) : ~locals[g][k][m].registered
    BY <1>9 DEF EraseNothing
  <2>2. Of(g, k, h) = {}
    <3>1. ASSUME Of(g, k, h) # {} PROVE FALSE
      <4>1. PICK m \in Of(g, k, h) : ~locals[g][k][m].registered
        BY <2>1, <3>1
      <4>2. PICK o \in Of(g, k, h) : locals[g][k][o].registered
        BY <1>3, <3>1 DEF HandleExists
      <4>3. m = o
        BY <1>0, <4>1, <4>2 DEF Distinct, Of, OfHandle
      <4> QED BY <4>1, <4>2, <4>3
    <3> QED BY <3>1
  <2>3. /\ \A i \in DOMAIN buffered[g][k] : buffered[g][k][i].handle # h
        /\ \A i \in DOMAIN locals[g][k] : locals[g][k][i].handle # h
    BY <2>1, <2>2 DEF Of, OfHandle
  <2> QED BY <1>6, <2>1, <2>3
<1> QED BY <1>1, <1>7, <1>8, <1>9 DEF UnregisterStep

\* Every step.
LEMMA BackedStep ==
  ASSUME TypeInv, HandlesKnown, "InitFederate" \notin RegisterIn, ~EarlyUnregister, UniqueHandles,
         AllBacked, [Next]_vars
  PROVE  AllBacked'
<1> SUFFICES ASSUME NEW g \in Federates, NEW k \in Kinds PROVE Backed(g, k)'
  BY DEF AllBacked
<1>1. Backed(g, k) /\ HandleChange(g, k)
  BY HandleChanges DEF AllBacked
<1>2. CASE \E h \in Handles : Unregister(g, k, h)
  BY <1>1, <1>2, BackedUnregistered
<1>3. CASE ~\E h \in Handles : Unregister(g, k, h)
  BY <1>1, <1>3, PersistentOfOthers, BackedStays
<1> QED BY <1>2, <1>3

\* At first nothing is registered.
LEMMA BackedInit ==
  Init => AllBacked
<1> SUFFICES ASSUME Init PROVE AllBacked
  OBVIOUS
<1>1. \A f \in Federates, k \in Kinds : buffered[f][k] = <<>> /\ locals[f][k] = <<>>
  BY DEF Init
<1>2. DOMAIN <<>> = {}
  OBVIOUS
<1> QED BY <1>1, <1>2, Zenon DEF AllBacked, Backed

\* States in which a federate has not joined, or has not ended joining.
Early == {"Offline", "InitFederate"}

\* A federate evokes callbacks when it is online or waits, so that no member has its HLA
\* object before.
NotYet ==
  \A f \in Federates :
    /\ phase[f] = "evoke" => mState[f] = "Online"
    /\ mState[f] \in Early => \A k \in Kinds : \A i \in DOMAIN locals[f][k] :
                                ~locals[f][k][i].registered

\* What a step does to the members and the objects: a reservation is completed, ...
Reserves(f, obj, i, l) ==
  /\ f \in Federates /\ obj \in Objects /\ mState[f] \in {"WaitForMeasurementInit", "Online"}
  /\ ReservationStep(f, obj, i, l) /\ UNCHANGED <<mState, phase, lastSent, issued>>

\* ... a member is unregistered, ...
Erases(f, k, h, n, l) ==
  /\ f \in Federates /\ k \in Kinds /\ h \in Handles /\ mState[f] \in UnregisterIn
  /\ EraseMember(f, k, h, n, l) /\ UNCHANGED <<mState, phase, written, lastSent, issued>>

\* ... or nothing, and no federate goes back.
NothingErased ==
  /\ UNCHANGED <<locals, objects>>
  /\ \A f \in Federates : /\ mState'[f] \in Early => mState[f] \in Early
                          /\ phase'[f] = "evoke" => mState'[f] = "Online"

\* Every step does one of these to the members and the objects.
ObjectChange ==
  \/ \E f, obj, i, l : Reserves(f, obj, i, l)
  \/ \E f, k, h, n, l : Erases(f, k, h, n, l)
  \/ \E f, k, l : Created(f, k, l) /\ UNCHANGED objects
  \/ \E f \in Federates : \E n, t, i, l : TransmitStep(f, n, t, i, l)
  \/ \E f \in Federates : \E out : ResetStep(f, out)
  \/ NothingErased

\* The callbacks of a federate that is online or waits.
LEMMA EvokeObjects ==
  ASSUME TypeInv, NotYet, NEW f \in Federates, evokeCallback(f), UNCHANGED <<mState, phase>>,
         mState[f] \in {"WaitForMeasurementInit", "Online"}
  PROVE  ObjectChange
<1>0. TypeOK /\ inbox \in Queues /\ inbox[f] # <<>> /\ UNCHANGED <<lastSent, issued>>
  BY DEF TypeInv, TypeOK, Queues, evokeCallback, keptByCallbacks
<1>1. PICK m : m = Head(inbox[f])
  OBVIOUS
<1>2. m.obj \in Objects
  <2>1. m \in Message
    BY <1>0, <1>1, RestTypes
  <2> QED BY <2>1 DEF Message
<1>3. CASE UNCHANGED <<locals, objects>>
  <2>1. NothingErased
    BY <1>3 DEF NothingErased, NotYet
  <2> QED BY <2>1 DEF ObjectChange
<1>4. CASE OnDOObjectReservationCompleted(f, m.obj)
  <2>1. CASE ReservationUnused(f)
    BY <1>3, <2>1 DEF ReservationUnused
  <2>2. ASSUME NEW i, NEW l, ReservationStep(f, m.obj, i, l) PROVE ObjectChange
    <3>1. Reserves(f, m.obj, i, l)
      BY <1>0, <1>2, <2>2 DEF Reserves
    <3> QED BY <3>1 DEF ObjectChange
  <2> QED BY <1>0, <1>2, <1>4, <2>1, <2>2, ReservationSteps
<1> QED BY <1>1, <1>3, <1>4
        DEF evokeCallback, discoverObjectInstance, removeObjectInstance, reflectAttributeValues,
            provideAttributeValueUpdate, localVars

\* Every step.
LEMMA ObjectSteps ==
  ASSUME TypeInv, HandlesKnown, NotYet, [Next]_vars
  PROVE  ObjectChange
<1>0. /\ TypeOK /\ IsFiniteSet(objects) /\ phase \in [Federates -> Phases]
      /\ mState \in [Federates -> States]
  BY DEF TypeInv, TypeOK, Phases
<1>1. ASSUME UNCHANGED <<locals, objects, mState, phase>> PROVE ObjectChange
  BY <1>1 DEF ObjectChange, NothingErased, NotYet
<1>2. ASSUME NEW f \in Federates, UNCHANGED <<locals, objects, mState>>, NEW st, st # "evoke",
             phase' = [phase EXCEPT ![f] = st]
      PROVE  ObjectChange
  <2>1. \A g \in Federates : phase'[g] = "evoke" => phase[g] = "evoke"
    BY <1>0, <1>2
  <2> QED BY <1>2, <2>1 DEF ObjectChange, NothingErased, NotYet
<1>3. ASSUME NEW f \in Federates, ProcessTargets(f) \/ ProcessSources(f) PROVE ObjectChange
  <2>1. (\E k, l : Created(f, k, l)) \/ UNCHANGED locals
    BY <1>3, Creating DEF Untouched
  <2>2. /\ UNCHANGED <<objects, mState>>
        /\ UNCHANGED phase \/ \E st \in {"sources", "transmits"} : phase' = [phase EXCEPT ![f] = st]
    BY <1>3 DEF ProcessTargets, ProcessSources
  <2> QED BY <1>1, <1>2, <2>1, <2>2 DEF ObjectChange
<1>4. ASSUME NEW f \in Federates, EnterInitFederate(f) \/ MeasurementStarts(f) PROVE ObjectChange
  <2>1. /\ UNCHANGED <<locals, objects, phase>> /\ mState' = [mState EXCEPT ![f] =
              IF mState[f] = "Offline" THEN "InitFederate" ELSE "Online"]
        /\ mState[f] \in {"Offline", "WaitForMeasurementInit"}
    BY <1>4 DEF EnterInitFederate, MeasurementStarts, localVars, rtiVars
  <2>2. NothingErased
    BY <1>0, <2>1 DEF NothingErased, NotYet, Early
  <2> QED BY <2>2 DEF ObjectChange
<1>5. ASSUME NEW f \in Federates, WaitForSingleEvent(f) PROVE ObjectChange
  <2>1. NothingErased
    BY <1>0, <1>5 DEF WaitForSingleEvent, NothingErased, NotYet, localVars, rtiVars
  <2> QED BY <2>1 DEF ObjectChange
<1>6. ASSUME NEW f \in Federates, EndProcessBuffers(f) PROVE ObjectChange
  <2>1. NothingErased
    BY <1>0, <1>6 DEF EndProcessBuffers, NothingErased, NotYet, Early, localVars, rtiVars
  <2> QED BY <2>1 DEF ObjectChange
<1>7. ASSUME NEW f \in Federates, OnJoined(f) PROVE ObjectChange
  <2>1. UNCHANGED <<locals, objects, mState>> /\ phase' = [phase EXCEPT ![f] = "targets"]
    BY <1>7 DEF OnJoined, localVars
  <2> QED BY <1>2, <2>1
<1>8. ASSUME NEW f \in Federates, EvokeCallbacks(f) PROVE ObjectChange
  <2>1. mState[f] = "Online"
    BY <1>8 DEF EvokeCallbacks, NotYet
  <2>2. CASE evokeCallback(f) /\ UNCHANGED phase
    BY <2>1, <2>2, EvokeObjects DEF evokeCallback, keptByCallbacks
  <2>3. CASE UNCHANGED <<locals, objects, mState>> /\ phase' = [phase EXCEPT ![f] = "targets"]
    BY <1>2, <2>3
  <2> QED BY <1>8, <2>2, <2>3 DEF EvokeCallbacks, localVars, rtiVars
<1>9. ASSUME NEW f \in Federates, EvokeWhileWaiting(f) PROVE ObjectChange
  <2>1. evokeCallback(f) /\ UNCHANGED <<mState, phase>> /\ mState[f] = "WaitForMeasurementInit"
    BY <1>9 DEF EvokeWhileWaiting, evokeCallback, keptByCallbacks
  <2> QED BY <2>1, EvokeObjects
<1>10. ASSUME NEW f \in Federates, NEW k \in Kinds, NEW h \in Handles, Unregister(f, k, h)
       PROVE  ObjectChange
  <2>1. PICK p : UnregisterStep(f, k, h, p)
    BY <1>0, <1>10, UnregisterSteps
  <2>2. UNCHANGED <<mState, phase, written, lastSent, issued>> /\ mState[f] \in UnregisterIn
    BY <2>1 DEF UnregisterStep, history
  <2>3. ASSUME NEW n, NEW l, EraseMember(f, k, h, n, l) PROVE ObjectChange
    <3>1. Erases(f, k, h, n, l)
      BY <2>2, <2>3 DEF Erases
    <3> QED BY <3>1 DEF ObjectChange
  <2>4. CASE UNCHANGED <<locals, objects>>
    BY <1>1, <2>2, <2>4
  <2> QED BY <2>1, <2>3, <2>4 DEF UnregisterStep, EraseEntry, EraseNothing
<1>11. ASSUME NEW f \in Federates, BufferedTransmitDOMember(f) PROVE ObjectChange
  BY <1>0, <1>11, TransmitSteps DEF ObjectChange
<1>12. ASSUME NEW f \in Federates, Reset(f) PROVE ObjectChange
  BY <1>0, <1>12, ResetSteps DEF ObjectChange
<1>13. ASSUME NEW f \in Federates, NEW h \in Handles, TransmitDOMember(f, h) PROVE ObjectChange
  <2>1. UNCHANGED <<mState, phase, localVars, rtiVars>>
    BY <1>13, Zenon DEF TransmitDOMember
  <2> QED BY <1>1, <2>1 DEF localVars, rtiVars
<1>14. ASSUME NEW f \in Federates, NEW k \in Kinds, Register(f, k) PROVE ObjectChange
  <2>1. UNCHANGED <<mState, phase, localVars, rtiVars>>
    BY <1>14, Zenon DEF Register
  <2> QED BY <1>1, <2>1 DEF localVars, rtiVars
<1>15. CASE UNCHANGED vars
  BY <1>1, <1>15 DEF vars, localVars, rtiVars
<1> QED BY <1>3, <1>4, <1>5, <1>6, <1>7, <1>8, <1>9, <1>10, <1>11, <1>12, <1>13, <1>14, <1>15,
           CounterTypes DEF Next, Thread, Application, ProcessBuffers

\* In terms of the local members: one is replaced, ...
LEMMA ReservesReplaces ==
  ASSUME TypeOK, NEW f, NEW obj, NEW i, NEW l, Reserves(f, obj, i, l)
  PROVE  \E r : Replaced(f, obj.kind, i, l, r) /\ r.registered
<1>1. PICK r, k : r = [l EXCEPT !.registered = TRUE] /\ k = obj.kind
  OBVIOUS
<1>2. /\ f \in Federates /\ k \in Kinds /\ i \in DOMAIN locals[f][k] /\ l = locals[f][k][i]
      /\ l \in Local /\ l.name = obj.name
      /\ locals' = [locals EXCEPT ![f][k] = [locals[f][k] EXCEPT ![i] = r]]
      /\ written' = [written EXCEPT ![obj.name] = l.last] /\ UNCHANGED <<lastSent, issued>>
  BY <1>1 DEF Reserves, ReservationStep
<1>3. /\ r \in Local /\ r.name = l.name /\ r.handle = l.handle /\ r.registered
      /\ r.last = l.last
  BY <1>1, <1>2 DEF Local
<1>4. Replaced(f, k, i, l, r)
  BY <1>2, <1>3 DEF Replaced
<1> QED BY <1>1, <1>3, <1>4

\* A transmission replaces the source and leaves its object.
LEMMA TransmitStepReplaces ==
  ASSUME TypeOK, NEW f \in Federates, NEW n, NEW t, NEW i, NEW l, TransmitStep(f, n, t, i, l)
  PROVE  \E r : Replaced(f, "source", i, l, r) /\ r.registered = l.registered
<1>1. PICK r : r = [l EXCEPT !.last = t.value]
  OBVIOUS
<1>2. /\ i \in DOMAIN locals[f]["source"] /\ l = locals[f]["source"][i] /\ l \in Local
      /\ t.value \in 0..MaxValues /\ "source" \in Kinds
      /\ locals' = [locals EXCEPT ![f]["source"] = [locals[f]["source"] EXCEPT ![i] = r]]
      /\ written' = [written EXCEPT ![l.name] = t.value] /\ UNCHANGED issued
  BY <1>1, CounterTypes DEF TransmitStep
<1>3. /\ r \in Local /\ r.name = l.name /\ r.handle = l.handle /\ r.last = t.value
      /\ r.registered = l.registered
  BY <1>1, <1>2 DEF Local
<1>4. Replaced(f, "source", i, l, r)
  BY <1>2, <1>3 DEF Replaced
<1> QED BY <1>3, <1>4

\* ... one is erased, ...
LEMMA ErasesErased ==
  ASSUME NEW f, NEW k, NEW h, NEW n, NEW l, Erases(f, k, h, n, l)
  PROVE  Erased(f, k, n) /\ l = locals[f][k][n] /\ n \in DOMAIN locals[f][k]
BY DEF Erases, EraseMember, Erased

\* ... or all are forgotten.
LEMMA ResetForgets ==
  ASSUME TypeOK, NEW f \in Federates, NEW out, ResetStep(f, out)
  PROVE  Forgotten(f)
<1>1. /\ issued' = [issued EXCEPT ![f]["leaves"] = issued[f]["leaves"] + 1]
      /\ locals' = [locals EXCEPT ![f] = [k \in Kinds |-> <<>>]] /\ UNCHANGED <<written, lastSent>>
  BY DEF ResetStep
<1>2. \A g \in Federates : issued'[g]["names"] = issued[g]["names"]
  <2>1. issued \in [Federates -> [Counters -> Nat]] /\ "names" \in Counters
    BY CounterTypes DEF TypeOK
  <2> QED BY <1>1, <2>1
<1> QED BY <1>1, <1>2 DEF Forgotten

\* Nothing gets its object before.
LEMMA NotYetStep ==
  ASSUME TypeInv, HandlesKnown, NotYet, [Next]_vars
  PROVE  NotYet'
<1>0. TypeOK /\ ObjectChange /\ mState \in [Federates -> States] /\ phase \in [Federates -> Phases]
  BY ObjectSteps DEF TypeInv, TypeOK, Phases
<1>1. ASSUME \A g \in Federates : /\ phase'[g] = "evoke" => mState'[g] = "Online"
                                  /\ mState'[g] \in Early => mState[g] \in Early,
             \A g \in Federates : mState'[g] \in Early => \A k \in Kinds :
               \A m \in DOMAIN locals'[g][k] : locals'[g][k][m].registered =>
                 \E a \in DOMAIN locals[g][k] : locals[g][k][a].registered
      PROVE  NotYet'
  BY <1>1 DEF NotYet
<1>2. ASSUME NEW f, NEW obj, NEW i, NEW l, Reserves(f, obj, i, l) PROVE NotYet'
  <2>1. PICK r : Replaced(f, obj.kind, i, l, r)
    BY <1>0, <1>2, ReservesReplaces
  <2>2. UNCHANGED <<mState, phase>> /\ mState[f] \notin Early /\ f \in Federates
    BY <1>2 DEF Reserves, Early
  <2>3. \A g \in Federates, k \in Kinds : g # f => DOMAIN locals'[g][k] = DOMAIN locals[g][k]
          /\ \A m \in DOMAIN locals[g][k] : locals'[g][k][m] = locals[g][k][m]
    BY <1>0, <2>1, ReplacedEntries
  <2> QED BY <1>1, <2>2, <2>3 DEF NotYet
<1>3. ASSUME NEW f, NEW k, NEW h, NEW n, NEW l, Erases(f, k, h, n, l) PROVE NotYet'
  <2>1. Erased(f, k, n)
    BY <1>3, ErasesErased
  <2>2. UNCHANGED <<mState, phase>>
    BY <1>3 DEF Erases
  <2>3. \A g \in Federates, j \in Kinds : \A m \in DOMAIN locals'[g][j] :
          \E a \in DOMAIN locals[g][j] : locals'[g][j][m] = locals[g][j][a]
    BY <1>0, <2>1, ErasedEntries
  <2> QED BY <1>1, <2>2, <2>3 DEF NotYet
<1>4. ASSUME NEW f, NEW k, NEW l, Created(f, k, l) PROVE NotYet'
  <2>1. UNCHANGED <<mState, phase>> /\ ~l.registered
    BY <1>4 DEF Created
  <2>2. \A g \in Federates, j \in Kinds : \A m \in DOMAIN locals'[g][j] :
          locals'[g][j][m].registered =>
            \E a \in DOMAIN locals[g][j] : locals'[g][j][m] = locals[g][j][a]
    <3>1. \A g \in Federates, j \in Kinds : g # f \/ j # k => locals'[g][j] = locals[g][j]
      BY <1>0, <1>4, CreatedEntries
    <3>2. \A m \in DOMAIN locals'[f][k] :
            \/ m \in DOMAIN locals[f][k] /\ locals'[f][k][m] = locals[f][k][m]
            \/ locals'[f][k][m] = l
      BY <1>0, <1>4, CreatedEntries
    <3> QED BY <2>1, <3>1, <3>2
  <2> QED BY <1>1, <2>1, <2>2 DEF NotYet
<1>5. ASSUME NEW f \in Federates, NEW n, NEW t, NEW i, NEW l, TransmitStep(f, n, t, i, l)
      PROVE  NotYet'
  <2>1. PICK r : Replaced(f, "source", i, l, r) /\ r.registered = l.registered
    BY <1>0, <1>5, TransmitStepReplaces
  <2>2. UNCHANGED <<mState, phase>> /\ l = locals[f]["source"][i]
    BY <1>5 DEF TransmitStep
  <2>3. \A g \in Federates, k \in Kinds : DOMAIN locals'[g][k] = DOMAIN locals[g][k]
          /\ \A m \in DOMAIN locals[g][k] :
               locals'[g][k][m].registered = locals[g][k][m].registered
    BY <1>0, <2>1, <2>2, ReplacedEntries
  <2> QED BY <1>1, <2>2, <2>3 DEF NotYet
<1>6. ASSUME NEW f \in Federates, NEW out, ResetStep(f, out) PROVE NotYet'
  <2>1. mState' = [mState EXCEPT ![f] = "Offline"] /\ UNCHANGED phase /\ phase[f] = "idle"
    BY <1>6 DEF ResetStep
  <2>2. Forgotten(f)
    BY <1>0, <1>6, ResetForgets
  <2>3. \A g \in Federates : g # f => mState'[g] = mState[g]
    BY <1>0, <2>1
  <2>4. \A g \in Federates : phase'[g] = "evoke" => mState'[g] = "Online"
    BY <2>1, <2>3 DEF NotYet
  <2>5. \A g \in Federates, k \in Kinds : \A m \in DOMAIN locals'[g][k] :
          g # f /\ \E a \in DOMAIN locals[g][k] : locals'[g][k][m] = locals[g][k][a]
    BY <1>0, <2>2, ForgottenEntries
  <2>6. \A g \in Federates : mState'[g] \in Early => \A k \in Kinds :
          \A m \in DOMAIN locals'[g][k] : ~locals'[g][k][m].registered
    BY <2>3, <2>5 DEF NotYet
  <2> QED BY <2>4, <2>6 DEF NotYet
<1>7. CASE NothingErased
  BY <1>7 DEF NothingErased, NotYet
<1> QED BY <1>0, <1>2, <1>3, <1>4, <1>5, <1>6, <1>7 DEF ObjectChange

\* o has a local member.
HasMember(o) == \E i \in DOMAIN locals[Owner(o)][o.kind] : locals[Owner(o)][o.kind][i].name = o.name

\* Every object has, ...
ObjectsAreLocal == \A o \in objects : HasMember(o)

\* ... and a local member that is registered has its object.
MembersHaveObjects ==
  \A f \in Federates, k \in Kinds : \A i \in DOMAIN locals[f][k] :
    locals[f][k][i].registered => [name |-> locals[f][k][i].name, kind |-> k] \in objects

\* The owner and the kind of an object.
LEMMA ObjectParts ==
  ASSUME NEW o \in Objects
  PROVE  /\ Owner(o) \in Federates /\ o.kind \in Kinds /\ o.name \in Names
         /\ Owner(o) = o.name[1] /\ o = [name |-> o.name, kind |-> o.kind]
<1>1. o.kind \in Kinds /\ o.name \in Names /\ o = [name |-> o.name, kind |-> o.kind]
  BY DEF Objects
<1> QED BY <1>1, NameParts DEF Owner

\* Members keep their names when one is replaced or added.
LEMMA MembersStay ==
  ASSUME TypeOK, NEW o \in Objects, HasMember(o), NEW f, NEW k, NEW l,
         (\E i, r : Replaced(f, k, i, l, r)) \/ Created(f, k, l)
  PROVE  HasMember(o)'
<1>0. PICK g, j : g = Owner(o) /\ j = o.kind
  OBVIOUS
<1>1. g \in Federates /\ j \in Kinds
  BY <1>0, ObjectParts
<1>2. PICK a \in DOMAIN locals[g][j] : locals[g][j][a].name = o.name
  BY <1>0 DEF HasMember
<1>3. ASSUME NEW i, NEW r, Replaced(f, k, i, l, r)
      PROVE  a \in DOMAIN locals'[g][j] /\ locals'[g][j][a].name = o.name
  <2>1. l = locals[f][k][i] /\ r.name = l.name
    BY <1>3 DEF Replaced
  <2> QED BY <1>1, <1>2, <1>3, <2>1, ReplacedEntries
<1>4. ASSUME Created(f, k, l)
      PROVE  a \in DOMAIN locals'[g][j] /\ locals'[g][j][a].name = o.name
  <2>1. g # f \/ j # k => locals'[g][j] = locals[g][j]
    BY <1>1, <1>4, CreatedEntries
  <2>2. CASE g = f /\ j = k
    <3>1. a \in DOMAIN locals'[f][k]
      BY <1>2, <1>4, <2>2, CreatedEntries
    <3>2. \/ a \in DOMAIN locals[f][k] /\ locals'[f][k][a] = locals[f][k][a]
          \/ a \notin DOMAIN locals[f][k] /\ locals'[f][k][a] = l
      BY <1>4, <3>1, CreatedEntries
    <3> QED BY <1>2, <2>2, <3>1, <3>2
  <2> QED BY <1>2, <2>1, <2>2
<1>5. \E b \in DOMAIN locals'[g][j] : locals'[g][j][b].name = o.name
  BY <1>3, <1>4
<1> QED BY <1>0, <1>5 DEF HasMember, Owner

\* An object leaves the federation with its member, if nobody unregisters while it waits
\* for the measurement, when the object is not deleted.
LEMMA ObjectsAreLocalStep ==
  ASSUME TypeInv, HandlesKnown, NotYet, NamesOwned, ObjectsRegistered,
         "WaitForMeasurementInit" \notin UnregisterIn, ObjectsAreLocal, [Next]_vars
  PROVE  ObjectsAreLocal'
<1>0. TypeOK /\ ObjectChange /\ mState \in [Federates -> States] /\ objects \subseteq Objects
  BY ObjectSteps DEF TypeInv, TypeOK
<1>1. ASSUME NEW f, NEW k, NEW l, (\E i, r : Replaced(f, k, i, l, r)) \/ Created(f, k, l),
             UNCHANGED objects
      PROVE  ObjectsAreLocal'
  <2>1. \A o \in objects : HasMember(o)'
    BY <1>0, <1>1, MembersStay DEF ObjectsAreLocal
  <2> QED BY <1>1, <2>1 DEF ObjectsAreLocal
<1>2. ASSUME NEW f, NEW obj, NEW i, NEW l, Reserves(f, obj, i, l) PROVE ObjectsAreLocal'
  <2>1. PICK r : Replaced(f, obj.kind, i, l, r)
    BY <1>0, <1>2, ReservesReplaces
  <2>2. /\ objects' = objects \cup {obj} /\ obj \in Objects /\ l.name = obj.name
        /\ l = locals[f][obj.kind][i] /\ i \in DOMAIN locals[f][obj.kind] /\ f \in Federates
    BY <1>2 DEF Reserves, ReservationStep
  <2>3. Owner(obj) = f
    BY <2>2, ObjectParts DEF NamesOwned, Owner
  <2>4. HasMember(obj)
    BY <2>2, <2>3 DEF HasMember
  <2>5. \A o \in objects' : HasMember(o)'
    BY <1>0, <2>1, <2>2, <2>4, MembersStay DEF ObjectsAreLocal
  <2> QED BY <2>5 DEF ObjectsAreLocal
<1>3. ASSUME NEW f, NEW k, NEW h, NEW n, NEW l, Erases(f, k, h, n, l) PROVE ObjectsAreLocal'
  <2>1. Erased(f, k, n) /\ l = locals[f][k][n] /\ n \in DOMAIN locals[f][k]
    BY <1>3, ErasesErased
  <2>2. /\ f \in Federates /\ k \in Kinds
        /\ objects' = IF mState[f] = "Online" THEN objects \ {[name |-> l.name, kind |-> k]}
                                              ELSE objects
        /\ mState[f] # "Online" => mState[f] \in Early
    BY <1>0, <1>3 DEF Erases, EraseMember, States, Early
  <2> SUFFICES ASSUME NEW o \in objects' PROVE HasMember(o)'
    BY DEF ObjectsAreLocal
  <2>3. PICK g, j : g = Owner(o) /\ j = o.kind
    OBVIOUS
  <2>4. o \in objects /\ o = [name |-> o.name, kind |-> j] /\ g \in Federates /\ j \in Kinds
    BY <1>0, <2>2, <2>3, ObjectParts
  <2>5. PICK a \in DOMAIN locals[g][j] : locals[g][j][a].name = o.name
    BY <2>3, <2>4 DEF ObjectsAreLocal, HasMember
  <2>6. ~(g = f /\ j = k /\ a = n)
    <3>1. SUFFICES ASSUME g = f, j = k, a = n PROVE FALSE
      OBVIOUS
    <3>2. CASE mState[f] = "Online"
      <4>1. l.name = o.name
        BY <2>1, <2>5, <3>1
      <4> QED BY <2>2, <2>4, <3>1, <3>2, <4>1
    <3>3. CASE mState[f] # "Online"
      <4>1. ~l.registered
        BY <2>1, <2>2, <3>3 DEF NotYet
      <4>2. locals[g][j][a].registered
        BY <2>3, <2>4, <2>5 DEF ObjectsRegistered, Settled
      <4> QED BY <2>1, <3>1, <4>1, <4>2
    <3> QED BY <3>2, <3>3
  <2>7. \E b \in DOMAIN locals'[g][j] : locals'[g][j][b] = locals[g][j][a]
    <3>1. CASE g # f \/ j # k
      <4>1. locals'[g][j] = locals[g][j]
        BY <1>0, <2>1, <2>4, <3>1, ErasedEntries
      <4> QED BY <4>1
    <3>2. CASE g = f /\ j = k
      BY <1>0, <2>1, <2>6, <3>2, ErasedEntries
    <3> QED BY <3>1, <3>2
  <2>8. \E b \in DOMAIN locals'[g][j] : locals'[g][j][b].name = o.name
    BY <2>5, <2>7
  <2> QED BY <2>3, <2>8 DEF HasMember, Owner
<1>4. ASSUME NEW f \in Federates, NEW n, NEW t, NEW i, NEW l, TransmitStep(f, n, t, i, l)
      PROVE  ObjectsAreLocal'
  <2>1. PICK r : Replaced(f, "source", i, l, r)
    BY <1>0, <1>4, TransmitStepReplaces
  <2>2. UNCHANGED objects
    BY <1>4 DEF TransmitStep
  <2> QED BY <1>1, <2>1, <2>2
<1>5. ASSUME NEW f \in Federates, NEW out, ResetStep(f, out) PROVE ObjectsAreLocal'
  <2>1. objects' = {o \in objects : Owner(o) # f} /\ Forgotten(f)
    BY <1>0, <1>5, ResetForgets DEF ResetStep
  <2>2. \A g \in Federates : g # f => locals'[g] = locals[g]
    BY <1>0, <2>1, ForgottenEntries
  <2>3. \A o \in objects' : Owner(o) \in Federates /\ Owner(o) # f /\ HasMember(o)
    BY <1>0, <2>1, ObjectParts DEF ObjectsAreLocal
  <2>4. \A o \in objects' : HasMember(o)'
    BY <2>2, <2>3 DEF HasMember, Owner
  <2> QED BY <2>4 DEF ObjectsAreLocal
<1>6. CASE NothingErased
  BY <1>6 DEF NothingErased, ObjectsAreLocal, HasMember, Owner
<1> QED BY <1>0, <1>1, <1>2, <1>3, <1>4, <1>5, <1>6 DEF ObjectChange

\* The member of an object is there as long as the object is.
LEMMA MembersHaveObjectsStep ==
  ASSUME TypeInv, HandlesKnown, NotYet, NamesOwned, UniqueNames, MembersHaveObjects, [Next]_vars
  PROVE  MembersHaveObjects'
<1>0. TypeOK /\ ObjectChange /\ mState \in [Federates -> States]
  BY ObjectSteps DEF TypeInv, TypeOK
<1> SUFFICES ASSUME NEW g \in Federates, NEW j \in Kinds, NEW m \in DOMAIN locals'[g][j],
                    locals'[g][j][m].registered
             PROVE  [name |-> locals'[g][j][m].name, kind |-> j] \in objects'
  BY DEF MembersHaveObjects
<1>1. ASSUME NEW a \in DOMAIN locals[g][j], locals[g][j][a].registered,
             locals[g][j][a].name = locals'[g][j][m].name, objects \subseteq objects'
      PROVE  [name |-> locals'[g][j][m].name, kind |-> j] \in objects'
  BY <1>1 DEF MembersHaveObjects
<1>2. ASSUME NEW f, NEW obj, NEW i, NEW l, Reserves(f, obj, i, l)
      PROVE  [name |-> locals'[g][j][m].name, kind |-> j] \in objects'
  <2>1. PICK r : Replaced(f, obj.kind, i, l, r)
    BY <1>0, <1>2, ReservesReplaces
  <2>2. objects' = objects \cup {obj} /\ obj \in Objects /\ l.name = obj.name /\ r.name = l.name
    BY <1>2, <2>1 DEF Reserves, ReservationStep, Replaced
  <2>3. /\ m \in DOMAIN locals[g][j]
        /\ locals'[g][j][m] = IF g = f /\ j = obj.kind /\ m = i THEN r ELSE locals[g][j][m]
    BY <1>0, <2>1, ReplacedEntries
  <2>4. CASE g = f /\ j = obj.kind /\ m = i
    BY <2>2, <2>3, <2>4, ObjectParts
  <2> QED BY <1>1, <2>2, <2>3, <2>4
<1>3. ASSUME NEW f, NEW k, NEW h, NEW n, NEW l, Erases(f, k, h, n, l)
      PROVE  [name |-> locals'[g][j][m].name, kind |-> j] \in objects'
  <2>1. Erased(f, k, n) /\ l = locals[f][k][n] /\ n \in DOMAIN locals[f][k]
    BY <1>3, ErasesErased
  <2>2. /\ f \in Federates /\ k \in Kinds
        /\ objects' = objects \/ objects' = objects \ {[name |-> l.name, kind |-> k]}
    BY <1>3 DEF Erases, EraseMember
  <2>3. PICK a \in DOMAIN locals[g][j] :
          locals'[g][j][m] = locals[g][j][a] /\ ~(g = f /\ j = k /\ a = n)
    <3>1. CASE g # f \/ j # k
      <4>1. locals'[g][j] = locals[g][j]
        BY <1>0, <2>1, <3>1, ErasedEntries
      <4> QED BY <3>1, <4>1
    <3>2. CASE g = f /\ j = k
      <4>1. m \in DOMAIN locals'[f][k]
        BY <3>2
      <4>2. \E a \in DOMAIN locals[f][k] : a # n /\ locals'[f][k][m] = locals[f][k][a]
        BY <1>0, <2>1, <4>1, ErasedEntries
      <4> QED BY <3>2, <4>2
    <3> QED BY <3>1, <3>2
  <2>4. [name |-> locals[g][j][a].name, kind |-> j] \in objects
    BY <2>3 DEF MembersHaveObjects
  <2>5. [name |-> locals[g][j][a].name, kind |-> j] # [name |-> l.name, kind |-> k]
    <3>1. SUFFICES ASSUME locals[g][j][a].name = l.name, j = k PROVE FALSE
      OBVIOUS
    <3>2. locals[g][j][a].name[1] = g /\ l.name[1] = f
      BY <2>1, <2>2 DEF NamesOwned, Owner
    <3>3. g = f
      BY <3>1, <3>2
    <3>4. locals[f][k][a].name = locals[f][k][n].name /\ a \in DOMAIN locals[f][k]
      BY <2>1, <3>1, <3>3
    <3>5. a = n
      BY <2>1, <2>2, <3>4 DEF UniqueNames
    <3> QED BY <2>3, <3>1, <3>3, <3>5
  <2> QED BY <2>2, <2>3, <2>4, <2>5
<1>4. ASSUME NEW f, NEW k, NEW l, Created(f, k, l), UNCHANGED objects
      PROVE  [name |-> locals'[g][j][m].name, kind |-> j] \in objects'
  <2>1. ~l.registered
    BY <1>4 DEF Created
  <2>2. CASE g # f \/ j # k
    <3>1. locals'[g][j] = locals[g][j]
      BY <1>0, <1>4, <2>2, CreatedEntries
    <3> QED BY <1>1, <1>4, <3>1
  <2>3. CASE g = f /\ j = k
    <3>1. \/ m \in DOMAIN locals[f][k] /\ locals'[f][k][m] = locals[f][k][m]
          \/ locals'[f][k][m] = l
      BY <1>0, <1>4, <2>3, CreatedEntries
    <3> QED BY <1>1, <1>4, <2>1, <2>3, <3>1
  <2> QED BY <2>2, <2>3
<1>5. ASSUME NEW f \in Federates, NEW n, NEW t, NEW i, NEW l, TransmitStep(f, n, t, i, l)
      PROVE  [name |-> locals'[g][j][m].name, kind |-> j] \in objects'
  <2>1. PICK r : Replaced(f, "source", i, l, r) /\ r.registered = l.registered
    BY <1>0, <1>5, TransmitStepReplaces
  <2>2. UNCHANGED objects /\ l = locals[f]["source"][i] /\ r.name = l.name
    BY <1>5, <2>1 DEF TransmitStep, Replaced
  <2>3. /\ m \in DOMAIN locals[g][j]
        /\ locals'[g][j][m] = IF g = f /\ j = "source" /\ m = i THEN r ELSE locals[g][j][m]
    BY <1>0, <2>1, ReplacedEntries
  <2>4. /\ locals[g][j][m].name = locals'[g][j][m].name
        /\ locals[g][j][m].registered = locals'[g][j][m].registered
    BY <2>1, <2>2, <2>3
  <2> QED BY <1>1, <2>2, <2>3, <2>4
<1>6. ASSUME NEW f \in Federates, NEW out, ResetStep(f, out)
      PROVE  [name |-> locals'[g][j][m].name, kind |-> j] \in objects'
  <2>1. objects' = {o \in objects : Owner(o) # f} /\ Forgotten(f)
    BY <1>0, <1>6, ResetForgets DEF ResetStep
  <2>2. g # f /\ locals'[g] = locals[g]
    BY <1>0, <2>1, ForgottenEntries
  <2>3. [name |-> locals[g][j][m].name, kind |-> j] \in objects
    BY <2>2 DEF MembersHaveObjects
  <2>4. locals[g][j][m].name[1] = g
    BY <2>2 DEF NamesOwned, Owner
  <2> QED BY <2>1, <2>2, <2>3, <2>4 DEF Owner
<1>7. CASE NothingErased
  BY <1>7 DEF NothingErased, MembersHaveObjects
<1> QED BY <1>0, <1>2, <1>3, <1>4, <1>5, <1>6, <1>7 DEF ObjectChange

\* At first there is nothing.
LEMMA ObjectsInit ==
  Init => NotYet /\ ObjectsAreLocal /\ MembersHaveObjects
<1> SUFFICES ASSUME Init PROVE NotYet /\ ObjectsAreLocal /\ MembersHaveObjects
  OBVIOUS
<1>1. /\ \A f \in Federates, k \in Kinds : locals[f][k] = <<>>
      /\ objects = {} /\ \A f \in Federates : phase[f] = "idle"
  BY DEF Init
<1>2. DOMAIN <<>> = {}
  OBVIOUS
<1>3. \A f \in Federates : phase[f] # "evoke"
  BY <1>1
<1>4. NotYet
  BY <1>1, <1>2, <1>3, Zenon DEF NotYet
<1>5. ObjectsAreLocal
  BY <1>1, Zenon DEF ObjectsAreLocal
<1>6. MembersHaveObjects
  BY <1>1, <1>2, Zenon DEF MembersHaveObjects
<1> QED BY <1>4, <1>5, <1>6

\* The inductive invariants.
LEMMA NotYetHolds ==
  Spec => [](NotYet /\ MembersHaveObjects)
<1>1. TypeInv /\ HandlesKnown /\ PromiseInv /\ NotYet /\ MembersHaveObjects /\ [Next]_vars
        => NotYet' /\ MembersHaveObjects'
  BY NotYetStep, MembersHaveObjectsStep DEF PromiseInv, ValuesInv
<1> QED BY <1>1, ObjectsInit, PromiseInvHolds, TypesHold, PTL DEF Spec

\* Both are invariants under the conditions that their steps need.
LEMMA ObjectsAreLocalHolds ==
  ASSUME "WaitForMeasurementInit" \notin UnregisterIn
  PROVE  Spec => []ObjectsAreLocal
<1>1. TypeInv /\ HandlesKnown /\ PromiseInv /\ NotYet /\ MembersHaveObjects /\ ObjectsAreLocal
        /\ [Next]_vars => ObjectsAreLocal'
  BY ObjectsAreLocalStep DEF PromiseInv, ValuesInv
<1> QED BY <1>1, ObjectsInit, PromiseInvHolds, TypesHold, NotYetHolds, PTL DEF Spec

\* Registrations are kept for all that is buffered or local.
LEMMA BackedHolds ==
  ASSUME "InitFederate" \notin RegisterIn, ~EarlyUnregister
  PROVE  Spec => []AllBacked
<1>1. TypeInv /\ HandlesKnown /\ UniqueHandles /\ AllBacked /\ [Next]_vars => AllBacked'
  BY BackedStep
<1> QED BY <1>1, BackedInit, HandlesHold, TypesHold, PTL DEF Spec

\* An HLA object belongs to a registration that was not taken back ("Delete HLA Object",
\* UnregisterDOMemberSource), if applications register before or after a federate joins and
\* unregister only what has its object, and not while the federate waits for the measurement.
THEOREM ObjectsBelong ==
  ASSUME "InitFederate" \notin RegisterIn, ~EarlyUnregister,
         "WaitForMeasurementInit" \notin UnregisterIn
  PROVE  Spec => []ObjectsHaveRegistrations
<1>1. TypeInv /\ AllBacked /\ ObjectsAreLocal => ObjectsHaveRegistrations
  <2> SUFFICES ASSUME TypeInv, AllBacked, ObjectsAreLocal, NEW o \in objects
               PROVE  \E l \in Range(locals[Owner(o)][o.kind]) :
                        /\ l.name = o.name
                        /\ \E r \in Range(persistent[Owner(o)][o.kind]) : r.handle = l.handle
    BY DEF ObjectsHaveRegistrations
  <2>1. PICK g, k : g = Owner(o) /\ k = o.kind
    OBVIOUS
  <2>2. g \in Federates /\ k \in Kinds
    BY <2>1, ObjectParts DEF TypeInv, TypeOK
  <2>3. PICK i \in DOMAIN locals[g][k] : locals[g][k][i].name = o.name
    BY <2>1 DEF ObjectsAreLocal, HasMember
  <2>4. PICK p \in DOMAIN persistent[g][k] : persistent[g][k][p].handle = locals[g][k][i].handle
    BY <2>2, <2>3 DEF AllBacked, Backed
  <2>5. locals[g][k][i] \in Range(locals[g][k]) /\ persistent[g][k][p] \in Range(persistent[g][k])
    BY <2>3, <2>4 DEF Range
  <2> QED BY <2>1, <2>3, <2>4, <2>5
<1> QED BY <1>1, ObjectsAreLocalHolds, BackedHolds, TypesHold, PTL

-----------------------------------------------------------------------------
(* What a step sends.                                                           *)

\* m is among what is sent to g.
Sends(out, g, m) == \E i \in DOMAIN out[g] : out[g][i] = m

\* What a message to g may be about, in the step that sends it.
Proper(g, m) ==
  /\ m.type \in {"discover", "update"} => m.obj \in objects' /\ Owner(m.obj) # g
  /\ m.type = "update" => m.value = written'[m.obj.name]
  /\ m.type = "provide" => m.obj \in objects' /\ Owner(m.obj) = g
  /\ m.type = "remove" => m.obj \in objects /\ m.obj \notin objects' /\ Owner(m.obj) # g
  /\ m.type # "provide" => Joined(g)'

\* This for all that is sent.
AllProper(out) == \A g \in Federates : \A i \in DOMAIN out[g] : Proper(g, out[g][i])

\* Messages to one, to the others or to the subscribers reach them ...
LEMMA SendsMessage ==
  ASSUME NEW f \in Federates, NEW m
  PROVE  /\ Sends(To(f, m), f, m)
         /\ \A h \in Others(f) : Sends(ToOthers(f, m), h, m)
         /\ \A h \in Others(f) : m.obj \notin unsub[h] => Sends(ToSubscribers(f, m), h, m)
<1>1. To(f, m)[f] = <<m>>
  BY DEF To, Nothing
<1>2. \A h \in Others(f) : h \in Federates /\ ToOthers(f, m)[h] = <<m>>
        /\ (m.obj \notin unsub[h] => ToSubscribers(f, m)[h] = <<m>>)
  BY DEF Others, ToOthers, ToSubscribers
<1>3. 1 \in DOMAIN <<m>> /\ <<m>>[1] = m
  OBVIOUS
<1> QED BY <1>1, <1>2, <1>3 DEF Sends

\* ... and are proper when they are for each of them.
LEMMA ProperMessage ==
  ASSUME NEW f \in Federates, NEW m
  PROVE  /\ Proper(f, m) => AllProper(To(f, m))
         /\ (\A h \in Others(f) : Proper(h, m)) =>
              AllProper(ToOthers(f, m)) /\ AllProper(ToSubscribers(f, m))
         /\ AllProper(Nothing)
<1>1. \A g \in Federates : \A i \in DOMAIN To(f, m)[g] : g = f /\ To(f, m)[g][i] = m
  BY DEF To, Nothing
<1>2. \A g \in Federates : \A i \in DOMAIN ToOthers(f, m)[g] :
        g \in Others(f) /\ ToOthers(f, m)[g][i] = m
  BY DEF ToOthers
<1>3. \A g \in Federates : \A i \in DOMAIN ToSubscribers(f, m)[g] :
        g \in Others(f) /\ ToSubscribers(f, m)[g][i] = m
  BY DEF ToSubscribers
<1>4. \A g \in Federates : DOMAIN Nothing[g] = {}
  BY DEF Nothing
<1>5. Proper(f, m) => AllProper(To(f, m))
  BY <1>1 DEF AllProper
<1>6. ASSUME \A h \in Others(f) : Proper(h, m)
      PROVE  AllProper(ToOthers(f, m)) /\ AllProper(ToSubscribers(f, m))
  BY <1>2, <1>3, <1>6 DEF AllProper
<1> QED BY <1>4, <1>5, <1>6 DEF AllProper

\* The messages of a queue after a step: those that remain, then those that arrive.
LEMMA Arrivals ==
  ASSUME NEW s \in Seq(Message), NEW t \in Seq(Message)
  PROVE  /\ \A i \in DOMAIN (s \o t) :
              \/ i \in DOMAIN s /\ (s \o t)[i] = s[i]
              \/ i \notin DOMAIN s /\ i - Len(s) \in DOMAIN t /\ (s \o t)[i] = t[i - Len(s)]
         /\ \A i \in DOMAIN s : i \in DOMAIN (s \o t) /\ (s \o t)[i] = s[i]
         /\ \A i \in DOMAIN t : i + Len(s) \in DOMAIN (s \o t) /\ (s \o t)[i + Len(s)] = t[i]
         /\ \A i \in DOMAIN s, j \in DOMAIN t : i < j + Len(s)
         /\ \A i \in DOMAIN (s \o t) : i \in Nat
<1>1. \A i \in DOMAIN (s \o t) :
        \/ i \in DOMAIN s /\ (s \o t)[i] = s[i]
        \/ i \notin DOMAIN s /\ i - Len(s) \in DOMAIN t /\ (s \o t)[i] = t[i - Len(s)]
  BY ConcatEntries
<1>2. /\ \A i \in DOMAIN s : i \in DOMAIN (s \o t) /\ (s \o t)[i] = s[i]
      /\ \A i \in DOMAIN t : i + Len(s) \in DOMAIN (s \o t) /\ (s \o t)[i + Len(s)] = t[i]
  BY ConcatProperties, LenProperties
<1>3. DOMAIN s = 1..Len(s) /\ DOMAIN t = 1..Len(t) /\ Len(s) \in Nat /\ Len(t) \in Nat
      /\ s \o t \in Seq(Message)
  BY LenProperties, ConcatProperties
<1>4. \A i \in DOMAIN s, j \in DOMAIN t : i < j + Len(s)
  BY <1>3
<1>5. \A i \in DOMAIN (s \o t) : i \in Nat
  BY <1>3, LenProperties
<1> QED BY <1>1, <1>2, <1>4, <1>5

\* Two distributions after each other.
LEMMA SendsThen ==
  ASSUME NEW a \in Queues, NEW b \in Queues
  PROVE  /\ \A g \in Federates : \A m : Sends(a, g, m) \/ Sends(b, g, m) => Sends(Then(a, b), g, m)
         /\ AllProper(a) /\ AllProper(b) => AllProper(Then(a, b))
<1>1. ASSUME NEW g \in Federates
      PROVE  /\ \A i \in DOMAIN Then(a, b)[g] :
                  \/ i \in DOMAIN a[g] /\ Then(a, b)[g][i] = a[g][i]
                  \/ i - Len(a[g]) \in DOMAIN b[g] /\ Then(a, b)[g][i] = b[g][i - Len(a[g])]
             /\ \A i \in DOMAIN a[g] : i \in DOMAIN Then(a, b)[g] /\ Then(a, b)[g][i] = a[g][i]
             /\ \A i \in DOMAIN b[g] : /\ i + Len(a[g]) \in DOMAIN Then(a, b)[g]
                                       /\ Then(a, b)[g][i + Len(a[g])] = b[g][i]
  <2>1. PICK s, t, u : s = a[g] /\ t = b[g] /\ u = s \o t
    OBVIOUS
  <2>2. s \in Seq(Message) /\ t \in Seq(Message) /\ Then(a, b)[g] = u
    BY <2>1 DEF Queues, Then
  <2>3. /\ \A i \in DOMAIN u : \/ i \in DOMAIN s /\ u[i] = s[i]
                               \/ i - Len(s) \in DOMAIN t /\ u[i] = t[i - Len(s)]
        /\ \A i \in DOMAIN s : i \in DOMAIN u /\ u[i] = s[i]
        /\ \A i \in DOMAIN t : i + Len(s) \in DOMAIN u /\ u[i + Len(s)] = t[i]
    <3>1. /\ \A i \in DOMAIN (s \o t) :
               \/ i \in DOMAIN s /\ (s \o t)[i] = s[i]
               \/ i \notin DOMAIN s /\ i - Len(s) \in DOMAIN t /\ (s \o t)[i] = t[i - Len(s)]
          /\ \A i \in DOMAIN s : i \in DOMAIN (s \o t) /\ (s \o t)[i] = s[i]
          /\ \A i \in DOMAIN t : i + Len(s) \in DOMAIN (s \o t) /\ (s \o t)[i + Len(s)] = t[i]
      BY <2>2, Arrivals
    <3> QED BY <2>1, <3>1
  <2> QED BY <2>1, <2>2, <2>3
<1>2. \A g \in Federates : \A m : Sends(a, g, m) \/ Sends(b, g, m) => Sends(Then(a, b), g, m)
  BY <1>1 DEF Sends
<1>3. ASSUME AllProper(a), AllProper(b) PROVE AllProper(Then(a, b))
  <2> SUFFICES ASSUME NEW g \in Federates, NEW i \in DOMAIN Then(a, b)[g]
               PROVE  Proper(g, Then(a, b)[g][i])
    BY DEF AllProper
  <2>1. CASE i \in DOMAIN a[g] /\ Then(a, b)[g][i] = a[g][i]
    BY <1>3, <2>1 DEF AllProper
  <2>2. CASE i - Len(a[g]) \in DOMAIN b[g] /\ Then(a, b)[g][i] = b[g][i - Len(a[g])]
    BY <1>3, <2>2 DEF AllProper
  <2> QED BY <1>1, <2>1, <2>2
<1> QED BY <1>2, <1>3

-----------------------------------------------------------------------------
(* What a step does to the view that a federate has of the others.              *)

\* The view does not change.
SameView(g) == remote'[g] = remote[g] /\ unsub'[g] = unsub[g] /\ got'[g] = got[g]

\* No target comes.
NoNewTarget(g) == locals'[g]["target"] # <<>> => locals[g]["target"] # <<>>

\* It reads the update m: reflectAttributeValues.
Reads(g, m) ==
  \/ m.obj \in unsub[g] /\ SameView(g)
  \/ /\ m.obj \notin unsub[g] /\ m.obj.kind = "target"
     /\ remote'[g] = remote[g] \cup {m.obj} /\ unsub'[g] = unsub[g] /\ got'[g] = got[g]
  \/ /\ m.obj \notin unsub[g] /\ m.obj.kind = "source"
     /\ remote'[g] = IF m.named THEN remote[g] \cup {m.obj} ELSE remote[g]
     /\ unsub'[g] = IF m.named /\ m.obj \notin remote[g] /\ locals[g]["target"] = <<>>
                      THEN unsub[g] \cup {m.obj} ELSE unsub[g]
     /\ got'[g] = IF \/ /\ m.named /\ m.obj \notin remote[g]
                        /\ locals[g]["target"] # <<>> /\ m.value # 0
                     \/ ~m.named /\ m.obj \in remote[g] /\ callback[g] # 0
                    THEN [got[g] EXCEPT ![m.obj.name] = m.value] ELSE got[g]

\* It answers the request m: provideAttributeValueUpdate.
Answers(g, m, out) ==
  \A h \in Others(g) : m.obj \notin unsub[h] =>
    /\ m.named => Sends(out, h, Update(m.obj, TRUE, written[m.obj.name]))
    /\ ~m.named /\ m.obj.kind = "source" /\ written[m.obj.name] # 0 =>
         Sends(out, h, Update(m.obj, FALSE, written[m.obj.name]))

\* It handles the message m, whatever its type.
Handled(g, m, out) ==
  \/ m.type = "reserved" /\ SameView(g)
  \/ /\ m.type = "discover" /\ remote'[g] = remote[g] /\ got'[g] = got[g]
     /\ unsub'[g] \subseteq unsub[g]
     /\ m.obj \in objects => Sends(out, Owner(m.obj), Provide(m.obj, TRUE))
  \/ /\ m.type = "remove" /\ got'[g] = got[g]
     /\ remote'[g] = remote[g] \ {m.obj} /\ unsub'[g] = unsub[g] \ {m.obj}
  \/ m.type = "update" /\ Reads(g, m)
  \/ m.type = "provide" /\ SameView(g) /\ (HasMember(m.obj) => Answers(g, m, out))

\* It takes a message from its queue, ...
Takes(g, q, out) ==
  /\ inbox[g] # <<>> /\ q[g] = Tail(inbox[g]) /\ Handled(g, Head(inbox[g]), out)
  /\ callback'[g] = callback[g] /\ NoNewTarget(g) /\ Joined(g)' = Joined(g)

\* ... takes a target from its buffer and asks for the data of the sources it knows, ...
Asks(g, q, out) ==
  /\ q[g] = inbox[g] /\ remote'[g] = remote[g] /\ callback'[g] # 0 /\ Joined(g)' = Joined(g)
  /\ unsub'[g] = unsub[g] \ {o \in remote[g] : o.kind = "source"}
  /\ \A o \in remote[g] \cap objects :
       o.kind = "source" => Sends(out, Owner(o), Provide(o, FALSE))

\* ... leaves, ...
Leaves(g, q) ==
  /\ q[g] = <<>> /\ remote'[g] = {} /\ unsub'[g] = {} /\ locals'[g]["target"] = <<>>
  /\ ~Joined(g)'

\* ... or does nothing to it, and perhaps joins.
Rests(g, q, out) ==
  /\ q[g] = inbox[g] /\ SameView(g) /\ callback'[g] = callback[g] /\ NoNewTarget(g)
  /\ \/ Joined(g)' = Joined(g)
     \/ ~Joined(g) /\ Joined(g)' /\ \A o \in objects' : Sends(out, g, Discover(o))

\* Every step does one of these to the view of a federate.
Change(g, q, out) == Takes(g, q, out) \/ Asks(g, q, out) \/ Leaves(g, q) \/ Rests(g, q, out)

\* The objects that come are announced, and those that go are withdrawn.
ObjectsFlow(out) ==
  /\ \A o \in objects' : Joined(Owner(o))'
  /\ \A o \in objects' : o \notin objects =>
       ~Settled(o) /\ \A h \in Federates : h # Owner(o) /\ Joined(h)' => Sends(out, h, Discover(o))
  /\ \A o \in objects : o \notin objects' =>
       \A h \in Federates : h # Owner(o) /\ Joined(h)' => Sends(out, h, Removed(o))

\* What is written is sent.
WrittenFlow(out) ==
  \A o \in objects : HasMember(o) /\ written'[o.name] # written[o.name] =>
    \A h \in Others(Owner(o)) : o \notin unsub[h] =>
      Sends(out, h, Update(o, FALSE, written'[o.name]))

\* The step leaves q in the queues and sends out.
Flow(q, out) ==
  /\ q \in Queues /\ out \in Queues /\ \A g \in Federates : inbox'[g] = q[g] \o out[g]
  /\ AllProper(out) /\ ObjectsFlow(out) /\ WrittenFlow(out)
  /\ \A g \in Federates : Change(g, q, out)

\* The owners of objects have joined.
OwnersJoined == \A o \in objects : Joined(Owner(o))

\* What holds of the members and the objects before the step.
Grounds ==
  /\ TypeInv /\ HandlesKnown /\ PromiseInv /\ NotYet /\ MembersHaveObjects /\ OwnersJoined

\* The parts of it.
LEMMA GroundsGive ==
  ASSUME Grounds
  PROVE  /\ TypeInv /\ TypeOK /\ HandlesKnown /\ ValuesInv /\ ObjectsRegistered /\ QueuesOrdered
         /\ NotYet /\ MembersHaveObjects /\ OwnersJoined /\ NamesOwned /\ UniqueNames /\ LocalValues
         /\ IsFiniteSet(objects) /\ inbox \in Queues /\ Nothing \in Queues
         /\ objects \subseteq Objects
<1>1. <<>> \in Seq(Message)
  OBVIOUS
<1> QED BY <1>1 DEF Grounds, TypeInv, TypeOK, PromiseInv, ValuesInv, Queues, Nothing

\* Objects, what is written, and who has joined do not change.
LEMMA ObjectsSame ==
  ASSUME OwnersJoined, UNCHANGED objects, \A g \in Federates : Joined(g)' = Joined(g),
         objects \subseteq Objects, NEW out
  PROVE  ObjectsFlow(out)
<1>1. \A o \in objects : Owner(o) \in Federates
  BY ObjectParts
<1>2. \A o \in objects' : Joined(Owner(o))'
  BY <1>1 DEF OwnersJoined
<1> QED BY <1>2 DEF ObjectsFlow

\* Nothing is written.
LEMMA WrittenSame ==
  ASSUME UNCHANGED written, NEW out
  PROVE  WrittenFlow(out)
BY DEF WrittenFlow

\* Nobody joins or leaves.
LEMMA JoinedSame ==
  ASSUME UNCHANGED <<mState, phase>>
  PROVE  \A g \in Federates : Joined(g)' = Joined(g)
BY DEF Joined

\* The queues after Send.
LEMMA SendInbox ==
  ASSUME NEW q, NEW out, Send(q, out)
  PROVE  \A g \in Federates : inbox'[g] = q[g] \o out[g]
BY DEF Send

\* A step in which nothing is received or sent.
LEMMA QuietFlow ==
  ASSUME Grounds, UNCHANGED <<inbox, remote, unsub, got, callback, written, objects>>,
         \A g \in Federates : NoNewTarget(g) /\ Joined(g)' = Joined(g)
  PROVE  \E q, out : Flow(q, out)
<1>1. /\ inbox \in Queues /\ Nothing \in Queues /\ AllProper(Nothing)
      /\ ObjectsFlow(Nothing) /\ WrittenFlow(Nothing)
  <2>1. AllProper(Nothing)
    BY DEF AllProper, Nothing
  <2> QED BY <2>1, GroundsGive, ObjectsSame, WrittenSame
<1>2. \A g \in Federates : inbox[g] \o Nothing[g] = inbox[g]
  <2>1. \A g \in Federates : inbox[g] \in Seq(Message) /\ Nothing[g] = <<>>
    BY <1>1 DEF Queues, Nothing
  <2> QED BY <2>1, ConcatEmptySeq
<1>3. \A g \in Federates : Change(g, inbox, Nothing)
  BY DEF Change, Rests, SameView
<1>4. Flow(inbox, Nothing)
  BY <1>1, <1>2, <1>3 DEF Flow
<1> QED BY <1>4

-----------------------------------------------------------------------------
(* The callbacks.                                                               *)

\* The message at the head.
LEMMA HeadMessage ==
  ASSUME Grounds, NEW f \in Federates, inbox[f] # <<>>
  PROVE  /\ Head(inbox[f]) \in Message /\ Head(inbox[f]).obj \in Objects
         /\ 1 \in DOMAIN inbox[f] /\ Head(inbox[f]) = inbox[f][1]
         /\ inbox[f] \in Seq(Message) /\ Rest(f) \in Queues
         /\ \A g \in Federates : Rest(f)[g] = IF g = f THEN Tail(inbox[f]) ELSE inbox[g]
<1>1. inbox \in Queues /\ inbox[f] \in Seq(Message)
  BY GroundsGive DEF Queues
<1>2. Head(inbox[f]) \in Message /\ Rest(f) \in Queues
  BY <1>1, RestTypes
<1>3. 1 \in DOMAIN inbox[f] /\ Head(inbox[f]) = inbox[f][1]
  BY <1>1, HeadTailProperties, LenProperties, EmptySeq
<1>4. \A g \in Federates : Rest(f)[g] = IF g = f THEN Tail(inbox[f]) ELSE inbox[g]
  BY <1>1 DEF Rest, Queues
<1> QED BY <1>1, <1>2, <1>3, <1>4 DEF Message

\* A federate takes a message, the others rest.
LEMMA TakeFlow ==
  ASSUME Grounds, NEW f \in Federates, inbox[f] # <<>>, NEW out \in Queues, Send(Rest(f), out),
         AllProper(out), ObjectsFlow(out), WrittenFlow(out), Handled(f, Head(inbox[f]), out),
         UNCHANGED <<mState, phase, callback>>,
         \A g \in Federates : NoNewTarget(g) /\ (g # f => SameView(g))
  PROVE  \E q, o : Flow(q, o)
<1>1. Rest(f) \in Queues /\ \A g \in Federates : Rest(f)[g] = IF g = f THEN Tail(inbox[f]) ELSE inbox[g]
  BY HeadMessage
<1>2. Takes(f, Rest(f), out)
  BY <1>1, JoinedSame DEF Takes
<1>3. \A g \in Federates : g # f => Rests(g, Rest(f), out)
  BY <1>1, JoinedSame DEF Rests
<1>4. Flow(Rest(f), out)
  BY <1>1, <1>2, <1>3, SendInbox DEF Flow, Change
<1> QED BY <1>4

\* What does not touch the views of the others.
LEMMA ViewsOfOthers ==
  ASSUME TypeOK, NEW f \in Federates,
         UNCHANGED remote \/ \E S : remote' = [remote EXCEPT ![f] = S],
         UNCHANGED unsub \/ \E S : unsub' = [unsub EXCEPT ![f] = S],
         UNCHANGED got \/ \E v : got' = [got EXCEPT ![f] = v]
  PROVE  \A g \in Federates : g # f => SameView(g)
BY DEF TypeOK, SameView

\* The targets when the members do not change, or one is replaced.
LEMMA TargetsSame ==
  ASSUME TypeOK, UNCHANGED locals \/ \E f, k, i, l, r : Replaced(f, k, i, l, r)
  PROVE  \A g \in Federates : NoNewTarget(g)
<1>1. CASE UNCHANGED locals
  BY <1>1 DEF NoNewTarget
<1>2. ASSUME NEW f, NEW k, NEW i, NEW l, NEW r, Replaced(f, k, i, l, r), NEW g \in Federates
      PROVE  NoNewTarget(g)
  <2>0. /\ locals \in [Federates -> [Kinds -> Seq(Local)]] /\ f \in Federates /\ k \in Kinds
        /\ i \in DOMAIN locals[f][k] /\ r \in Local
        /\ locals' = [locals EXCEPT ![f][k] = [locals[f][k] EXCEPT ![i] = r]]
    BY <1>2 DEF TypeOK, Replaced
  <2>1. PICK u : u = [locals[f][k] EXCEPT ![i] = r]
    OBVIOUS
  <2>2. u \in Seq(Local) /\ Len(u) = Len(locals[f][k])
    <3>1. locals[f][k] \in Seq(Local) /\ i \in 1..Len(locals[f][k])
      BY <2>0, LenProperties
    <3> QED BY <2>0, <2>1, <3>1, ExceptSeq
  <2>3. locals'[g]["target"] = IF g = f /\ "target" = k THEN u ELSE locals[g]["target"]
    BY <2>0, <2>1, <2>2, ExceptTypes, CounterTypes
  <2>4. locals[f][k] \in Seq(Local)
    BY <2>0
  <2>5. locals[f][k] = <<>> => u = <<>>
    BY <2>2, <2>4, EmptySeq, LenProperties
  <2> QED BY <2>3, <2>5 DEF NoNewTarget
<1> QED BY <1>1, <1>2

\* Members that come are sources, or the federate has targets already.
LEMMA TargetsErased ==
  ASSUME TypeOK, NEW f, NEW k, NEW n, Erased(f, k, n)
  PROVE  \A g \in Federates : NoNewTarget(g)
<1> SUFFICES ASSUME NEW g \in Federates, locals[g]["target"] = <<>>
             PROVE  locals'[g]["target"] = <<>>
  BY DEF NoNewTarget
<1>1. f \in Federates /\ k \in Kinds /\ n \in DOMAIN locals[f][k]
  BY DEF Erased
<1>2. g # f \/ k # "target"
  BY <1>1
<1> QED BY <1>1, <1>2, ErasedEntries, CounterTypes

\* The update with the name of a member carries its last data.
LEMMA NameUpdate ==
  ASSUME LocalValues, NEW f \in Federates, NEW k \in Kinds, NEW i \in DOMAIN locals[f][k],
         NEW l, l = locals[f][k][i]
  PROVE  UpdateName(f, k, l) = ToSubscribers(f, Update([name |-> l.name, kind |-> k], TRUE, l.last))
<1>1. k = "target" => l.last = 0
  BY DEF LocalValues
<1>2. k = "source" \/ k = "target"
  BY DEF Kinds
<1>3. CASE k = "source"
  BY <1>3 DEF UpdateName, UpdateDOSourceObjectName
<1>4. CASE k = "target"
  BY <1>1, <1>4 DEF UpdateName, UpdateDOTargetObjectName
<1> QED BY <1>2, <1>3, <1>4

\* A message about an object of f, to another federate.
LEMMA ProperOfOwn ==
  ASSUME NEW f \in Federates, NEW o \in Objects, Owner(o) = f, o \in objects',
         \A g \in Federates : Joined(g)' = Joined(g), NEW v, v = written'[o.name],
         NEW named
  PROVE  \A h \in Others(f) : Proper(h, Discover(o)) /\ Proper(h, Update(o, named, v))
<1>1. \A h \in Others(f) : h \in Federates /\ h # f /\ Joined(h)'
  BY DEF Others
<1>2. /\ Discover(o).type = "discover" /\ Discover(o).obj = o
      /\ Update(o, named, v).type = "update" /\ Update(o, named, v).obj = o
      /\ Update(o, named, v).value = v
  BY DEF Discover, Update
<1> QED BY <1>1, <1>2 DEF Proper

\* What a reservation that completes sends.
LEMMA ReservationFlow ==
  ASSUME Grounds, NEW f \in Federates, inbox[f] # <<>>, NEW obj \in Objects, NEW i, NEW l,
         Reserves(f, obj, i, l), Head(inbox[f]).type = "reserved"
  PROVE  \E q, out : Flow(q, out)
<1>0. TypeOK /\ NamesOwned /\ UniqueNames /\ LocalValues /\ ObjectsRegistered /\ MembersHaveObjects
      /\ OwnersJoined /\ objects \subseteq Objects
  BY GroundsGive
<1>1. ReservationStep(f, obj, i, l) /\ UNCHANGED <<mState, phase>>
      /\ mState[f] \in {"WaitForMeasurementInit", "Online"}
  BY DEF Reserves
<1>2. /\ obj.kind \in Kinds /\ obj.name \in Names /\ i \in DOMAIN locals[f][obj.kind]
      /\ l = locals[f][obj.kind][i] /\ l \in Local /\ l.last \in 0..MaxValues /\ l.name = obj.name
      /\ objects' = objects \cup {obj} /\ written' = [written EXCEPT ![obj.name] = l.last]
      /\ Send(Rest(f), Then(ToOthers(f, Discover(obj)), UpdateName(f, obj.kind, l)))
      /\ UNCHANGED <<remote, callback, unsub, got>>
  BY <1>1 DEF ReservationStep
<1>3. Owner(obj) = f /\ obj = [name |-> l.name, kind |-> obj.kind]
  <2>1. Owner(l) = f
    BY <1>0, <1>2 DEF NamesOwned
  <2> QED BY <1>2, <2>1, ObjectParts DEF Owner
<1>4. UpdateName(f, obj.kind, l) = ToSubscribers(f, Update(obj, TRUE, l.last))
  BY <1>0, <1>2, <1>3, NameUpdate
<1>5. written'[obj.name] = l.last /\ \A n \in Names : n # obj.name => written'[n] = written[n]
  BY <1>0, <1>2 DEF TypeOK
<1>6. \A g \in Federates : Joined(g)' = Joined(g)
  BY <1>1, JoinedSame
<1>7. PICK a, b, out : /\ a = ToOthers(f, Discover(obj)) /\ b = UpdateName(f, obj.kind, l)
                       /\ out = Then(a, b)
  OBVIOUS
<1>8. a \in Queues /\ b \in Queues /\ out \in Queues
  <2>1. Discover(obj) \in Message
    BY <1>2, MessageTypes
  <2> QED BY <1>2, <1>7, <2>1, OutTypes, UpdateTypes, ThenTypes
<1>9. AllProper(out)
  <2>1. \A h \in Others(f) : Proper(h, Discover(obj)) /\ Proper(h, Update(obj, TRUE, l.last))
    BY <1>2, <1>3, <1>5, <1>6, ProperOfOwn
  <2>2. AllProper(a) /\ AllProper(b)
    BY <1>4, <1>7, <2>1, ProperMessage
  <2> QED BY <1>7, <1>8, <2>2, SendsThen
<1>10. Settled(obj) => obj \in objects /\ written[obj.name] = l.last
  <2> HAVE Settled(obj)
  <2>1. l.registered
    BY <1>2, <1>3 DEF Settled
  <2> QED BY <1>0, <1>2, <1>3, <2>1 DEF MembersHaveObjects, LocalValues
<1>11. ObjectsFlow(out)
  <2>1. \A o \in objects' : Joined(Owner(o))'
    <3>1. Joined(f)
      BY <1>1 DEF Joined
    <3>2. \A o \in objects : Joined(Owner(o))'
      BY <1>0, <1>6, ObjectParts DEF OwnersJoined
    <3> QED BY <1>2, <1>3, <1>6, <3>1, <3>2
  <2>2. \A h \in Federates : h # Owner(obj) /\ Joined(h)' => Sends(out, h, Discover(obj))
    <3> SUFFICES ASSUME NEW h \in Federates, h # f, Joined(h)' PROVE Sends(out, h, Discover(obj))
      BY <1>3
    <3>1. h \in Others(f)
      BY <1>6 DEF Others
    <3>2. Sends(a, h, Discover(obj))
      BY <1>7, <3>1, SendsMessage
    <3> QED BY <1>7, <1>8, <3>2, SendsThen
  <2> QED BY <1>2, <1>10, <2>1, <2>2 DEF ObjectsFlow
<1>12. WrittenFlow(out)
  <2> SUFFICES ASSUME NEW o \in objects, HasMember(o), written'[o.name] # written[o.name]
               PROVE  FALSE
    BY DEF WrittenFlow
  <2>1. o \in Objects /\ o.name = obj.name
    BY <1>0, <1>5, ObjectParts
  <2>2. Owner(o) = f
    BY <1>3, <2>1 DEF Owner
  <2>3. PICK j \in DOMAIN locals[f][o.kind] : locals[f][o.kind][j].name = o.name
    BY <2>2 DEF HasMember
  <2>4. o.kind = obj.kind
    BY <1>0, <1>2, <2>1, <2>3, ObjectParts DEF UniqueNames
  <2>5. o = obj
    BY <2>1, <2>4, ObjectParts
  <2>6. Settled(obj)
    BY <1>0, <2>5 DEF ObjectsRegistered
  <2> QED BY <1>5, <1>10, <2>1, <2>5, <2>6
<1>13. \A g \in Federates : NoNewTarget(g)
  BY <1>0, ReservesReplaces, TargetsSame
<1>14. \A g \in Federates : SameView(g)
  BY <1>2 DEF SameView
<1>15. Handled(f, Head(inbox[f]), out)
  BY <1>14 DEF Handled
<1> QED BY <1>1, <1>2, <1>7, <1>8, <1>9, <1>11, <1>12, <1>13, <1>14, <1>15, TakeFlow

\* A federate takes a message, and objects, members and what is written stay.
LEMMA AnswerFlow ==
  ASSUME Grounds, NEW f \in Federates, inbox[f] # <<>>, NEW out \in Queues, Send(Rest(f), out),
         AllProper(out), Handled(f, Head(inbox[f]), out),
         UNCHANGED <<mState, phase, callback, locals, objects, written>>,
         \A g \in Federates : g # f => SameView(g)
  PROVE  \E q, o : Flow(q, o)
<1>1. TypeOK /\ OwnersJoined /\ objects \subseteq Objects
  BY GroundsGive
<1>2. ObjectsFlow(out) /\ WrittenFlow(out)
  BY <1>1, JoinedSame, ObjectsSame, WrittenSame
<1>3. \A g \in Federates : NoNewTarget(g)
  BY <1>1, TargetsSame
<1> QED BY <1>2, <1>3, TakeFlow

\* What a discovery sends.
LEMMA DiscoverFlow ==
  ASSUME Grounds, NEW f \in Federates, inbox[f] # <<>>, NEW m, m = Head(inbox[f]),
         m.type = "discover", discoverObjectInstance(f, m.obj), UNCHANGED <<mState, phase>>
  PROVE  \E q, out : Flow(q, out)
<1>0. TypeOK /\ Nothing \in Queues
  BY GroundsGive
<1>1. m.obj \in Objects
  BY HeadMessage
<1>2. PICK out : out = Request(m.obj, TRUE)
  OBVIOUS
<1>3. /\ Send(Rest(f), out) /\ unsub' = [unsub EXCEPT ![f] = @ \ {m.obj}]
      /\ UNCHANGED <<locals, byHandle, remote, callback, objects, got, written>>
  BY <1>2 DEF discoverObjectInstance, localVars
<1>4. Owner(m.obj) \in Federates
  BY <1>1, ObjectParts
<1>5. m.obj \in objects => out = To(Owner(m.obj), Provide(m.obj, TRUE))
  BY <1>2 DEF Request
<1>6. m.obj \notin objects => out = Nothing
  BY <1>2 DEF Request
<1>7. out \in Queues
  <2>1. Provide(m.obj, TRUE) \in Message
    BY <1>1, Bounds, MessageTypes
  <2> QED BY <1>0, <1>4, <1>5, <1>6, <2>1, OutTypes
<1>8. AllProper(out)
  <2>1. m.obj \in objects => Proper(Owner(m.obj), Provide(m.obj, TRUE))
    BY <1>3 DEF Proper, Provide
  <2> QED BY <1>4, <1>5, <1>6, <2>1, ProperMessage
<1>9. m.obj \in objects => Sends(out, Owner(m.obj), Provide(m.obj, TRUE))
  BY <1>4, <1>5, SendsMessage
<1>10. unsub'[f] \subseteq unsub[f] /\ remote'[f] = remote[f] /\ got'[f] = got[f]
  BY <1>0, <1>3 DEF TypeOK
<1>11. Handled(f, m, out)
  BY <1>9, <1>10 DEF Handled
<1>12. \A g \in Federates : g # f => SameView(g)
  BY <1>0, <1>3, ViewsOfOthers
<1> QED BY <1>3, <1>7, <1>8, <1>11, <1>12, AnswerFlow

\* A removal sends nothing.
LEMMA RemoveFlow ==
  ASSUME Grounds, NEW f \in Federates, inbox[f] # <<>>, NEW m, m = Head(inbox[f]),
         m.type = "remove", removeObjectInstance(f, m.obj), UNCHANGED <<mState, phase>>
  PROVE  \E q, out : Flow(q, out)
<1>0. TypeOK /\ Nothing \in Queues /\ AllProper(Nothing)
  BY GroundsGive, ProperMessage
<1>3. /\ Send(Rest(f), Nothing) /\ unsub' = [unsub EXCEPT ![f] = @ \ {m.obj}]
      /\ remote' = [remote EXCEPT ![f] = @ \ {m.obj}]
      /\ UNCHANGED <<locals, byHandle, callback, objects, got, written>>
  BY DEF removeObjectInstance
<1>10. /\ unsub'[f] = unsub[f] \ {m.obj} /\ remote'[f] = remote[f] \ {m.obj}
       /\ got'[f] = got[f]
  BY <1>0, <1>3 DEF TypeOK
<1>11. Handled(f, m, Nothing)
  BY <1>10 DEF Handled
<1>12. \A g \in Federates : g # f => SameView(g)
  BY <1>0, <1>3, ViewsOfOthers
<1> QED BY <1>0, <1>3, <1>11, <1>12, AnswerFlow

\* Nor does an update.
LEMMA ReflectFlow ==
  ASSUME Grounds, NEW f \in Federates, inbox[f] # <<>>, NEW m, m = Head(inbox[f]),
         m.type = "update", reflectAttributeValues(f, m), UNCHANGED <<mState, phase>>
  PROVE  \E q, out : Flow(q, out)
<1>0. TypeOK /\ Nothing \in Queues /\ AllProper(Nothing)
  BY GroundsGive, ProperMessage
<1>1. m.obj.kind = "source" \/ m.obj.kind = "target"
  BY HeadMessage DEF Objects, Kinds
<1>2. Send(Rest(f), Nothing) /\ UNCHANGED <<locals, byHandle, callback, objects, written>>
  BY DEF reflectAttributeValues
<1>3. Reads(f, m) /\ \A g \in Federates : g # f => SameView(g)
  <2>1. CASE m.obj \in unsub[f]
    <3>1. UNCHANGED <<remote, unsub, got>>
      BY <2>1 DEF reflectAttributeValues
    <3> QED BY <2>1, <3>1 DEF Reads, SameView
  <2>2. CASE m.obj \notin unsub[f] /\ m.obj.kind = "source"
    <3>1. HandleDOSourceObjectUpdate(f, m)
      BY <2>2 DEF reflectAttributeValues
    <3>2. /\ remote' = [remote EXCEPT ![f] = IF m.named THEN @ \cup {m.obj} ELSE @]
          /\ unsub' = [unsub EXCEPT ![f] = IF m.named /\ m.obj \notin remote[f]
                                             /\ locals[f]["target"] = <<>>
                                             THEN @ \cup {m.obj} ELSE @]
          /\ got' = IF \/ /\ m.named /\ m.obj \notin remote[f]
                          /\ locals[f]["target"] # <<>> /\ m.value # 0
                       \/ ~m.named /\ m.obj \in remote[f] /\ callback[f] # 0
                      THEN [got EXCEPT ![f][m.obj.name] = m.value] ELSE got
      BY <3>1 DEF HandleDOSourceObjectUpdate
    <3>3. /\ remote'[f] = IF m.named THEN remote[f] \cup {m.obj} ELSE remote[f]
          /\ unsub'[f] = IF m.named /\ m.obj \notin remote[f] /\ locals[f]["target"] = <<>>
                           THEN unsub[f] \cup {m.obj} ELSE unsub[f]
          /\ got'[f] = IF \/ /\ m.named /\ m.obj \notin remote[f]
                             /\ locals[f]["target"] # <<>> /\ m.value # 0
                          \/ ~m.named /\ m.obj \in remote[f] /\ callback[f] # 0
                         THEN [got[f] EXCEPT ![m.obj.name] = m.value] ELSE got[f]
      BY <1>0, <3>2 DEF TypeOK
    <3>4. Reads(f, m)
      BY <2>2, <3>3 DEF Reads
    <3>5. \A g \in Federates : g # f => SameView(g)
      BY <1>0, <3>2 DEF TypeOK, SameView
    <3> QED BY <3>4, <3>5
  <2>3. CASE m.obj \notin unsub[f] /\ m.obj.kind = "target"
    <3>1. remote' = [remote EXCEPT ![f] = @ \cup {m.obj}] /\ UNCHANGED <<unsub, got>>
      BY <2>3 DEF reflectAttributeValues, HandleDOTargetObjectUpdate
    <3>2. remote'[f] = remote[f] \cup {m.obj}
      BY <1>0, <3>1 DEF TypeOK
    <3>3. Reads(f, m)
      BY <2>3, <3>1, <3>2 DEF Reads
    <3> QED BY <1>0, <3>1, <3>3, ViewsOfOthers
  <2> QED BY <1>1, <2>1, <2>2, <2>3
<1>4. Handled(f, m, Nothing)
  BY <1>3 DEF Handled
<1> QED BY <1>0, <1>2, <1>3, <1>4, AnswerFlow

\* What a request is answered with.
LEMMA ProvideFlow ==
  ASSUME Grounds, NEW f \in Federates, inbox[f] # <<>>, NEW m, m = Head(inbox[f]),
         m.type = "provide", provideAttributeValueUpdate(f, m), UNCHANGED <<mState, phase>>
  PROVE  \E q, out : Flow(q, out)
<1>0. TypeOK /\ LocalValues /\ MembersHaveObjects /\ Nothing \in Queues /\ AllProper(Nothing)
  BY GroundsGive, ProperMessage
<1>1. /\ m.obj \in Objects /\ m.obj.kind \in Kinds /\ Owner(m.obj) = f /\ Settled(m.obj)
  <2>1. Owner(m.obj) = f /\ Settled(m.obj)
    BY HeadMessage, GroundsGive DEF ObjectsRegistered
  <2> QED BY <2>1, HeadMessage, ObjectParts
<1>2. UNCHANGED <<locals, byHandle, remote, callback, objects, unsub, got, written>>
  BY DEF provideAttributeValueUpdate, localVars
<1>3. \A g \in Federates : SameView(g)
  BY <1>2 DEF SameView
<1>4. CASE Named(f, m.obj) = {}
  <2>1. Send(Rest(f), Nothing)
    BY <1>4 DEF provideAttributeValueUpdate
  <2>2. ~HasMember(m.obj)
    BY <1>1, <1>4 DEF HasMember, Named
  <2>3. Handled(f, m, Nothing)
    BY <1>3, <2>2 DEF Handled
  <2> QED BY <1>0, <1>2, <1>3, <2>1, <2>3, AnswerFlow
<1>5. CASE Named(f, m.obj) # {}
  <2>1. PICK i, l : i = First(Named(f, m.obj)) /\ l = locals[f][m.obj.kind][i]
    OBVIOUS
  <2>2. i \in DOMAIN locals[f][m.obj.kind] /\ l.name = m.obj.name
    BY <1>0, <1>1, <1>5, <2>1, NamedTypes
  <2>3. l \in Local /\ l.last \in 0..MaxValues /\ m.obj = [name |-> l.name, kind |-> m.obj.kind]
    BY <1>0, <1>1, <2>1, <2>2, LocalTypes, ObjectParts
  <2>4. l.registered
    <3>1. \A j \in DOMAIN locals[f][m.obj.kind] :
            locals[f][m.obj.kind][j].name = m.obj.name => locals[f][m.obj.kind][j].registered
      BY <1>1 DEF Settled
    <3> QED BY <2>1, <2>2, <3>1
  <2>5. m.obj \in objects /\ written[m.obj.name] = l.last
    <3>1. \A k \in Kinds : \A j \in DOMAIN locals[f][k] : locals[f][k][j].registered =>
            /\ [name |-> locals[f][k][j].name, kind |-> k] \in objects
            /\ written[locals[f][k][j].name] = locals[f][k][j].last
      BY <1>0 DEF MembersHaveObjects, LocalValues
    <3>2. PICK k : k = m.obj.kind
      OBVIOUS
    <3>3. l = locals[f][k][i] /\ i \in DOMAIN locals[f][k] /\ k \in Kinds
      BY <1>1, <2>1, <2>2, <3>2
    <3>4. [name |-> l.name, kind |-> k] \in objects /\ written[l.name] = l.last
      <4>1. locals[f][k][i].registered
        BY <2>4, <3>3
      <4>2. /\ [name |-> locals[f][k][i].name, kind |-> k] \in objects
            /\ written[locals[f][k][i].name] = locals[f][k][i].last
        BY <3>1, <3>3, <4>1
      <4> QED BY <3>3, <4>2
    <3> QED BY <2>2, <2>3, <3>2, <3>4
  <2>6. UpdateName(f, m.obj.kind, l) = ToSubscribers(f, Update(m.obj, TRUE, l.last))
    <3>1. UpdateName(f, m.obj.kind, l)
            = ToSubscribers(f, Update([name |-> l.name, kind |-> m.obj.kind], TRUE, l.last))
      BY <1>0, <1>1, <2>1, <2>2, NameUpdate
    <3> QED BY <2>3, <3>1
  <2>7. m.obj.kind = "source" =>
          UpdateDOSourceObjectData(f, l, l.last) = ToSubscribers(f, Update(m.obj, FALSE, l.last))
    BY <2>3 DEF UpdateDOSourceObjectData
  <2>8. PICK out : out = IF m.named \/ m.obj.kind = "target" THEN UpdateName(f, m.obj.kind, l)
                         ELSE IF l.last # 0 THEN UpdateDOSourceObjectData(f, l, l.last)
                         ELSE Nothing
    OBVIOUS
  <2>9. Send(Rest(f), out)
    BY <1>5, <2>1, <2>8 DEF provideAttributeValueUpdate
  <2>10. out \in Queues
    BY <1>0, <1>1, <2>3, <2>8, UpdateTypes
  <2>11. AllProper(out)
    <3>1. \A g \in Federates : Joined(g)' = Joined(g)
      BY JoinedSame
    <3>2. m.obj \in objects' /\ l.last = written'[m.obj.name]
      BY <1>2, <2>5
    <3>3. \A h \in Others(f) : /\ Proper(h, Update(m.obj, TRUE, l.last))
                               /\ Proper(h, Update(m.obj, FALSE, l.last))
      BY <1>1, <3>1, <3>2, ProperOfOwn
    <3>4. /\ AllProper(ToSubscribers(f, Update(m.obj, TRUE, l.last)))
          /\ AllProper(ToSubscribers(f, Update(m.obj, FALSE, l.last)))
      BY <3>3, ProperMessage
    <3>5. m.obj.kind = "source" \/ m.obj.kind = "target"
      BY <1>1 DEF Kinds
    <3> QED BY <1>0, <2>6, <2>7, <2>8, <3>4, <3>5
  <2>12. Answers(f, m, out)
    <3> SUFFICES ASSUME NEW h \in Others(f), m.obj \notin unsub[h]
                 PROVE  /\ m.named => Sends(out, h, Update(m.obj, TRUE, written[m.obj.name]))
                        /\ ~m.named /\ m.obj.kind = "source" /\ written[m.obj.name] # 0 =>
                             Sends(out, h, Update(m.obj, FALSE, written[m.obj.name]))
      BY DEF Answers
    <3>1. Update(m.obj, TRUE, l.last).obj = m.obj /\ Update(m.obj, FALSE, l.last).obj = m.obj
      BY DEF Update
    <3>2. /\ Sends(ToSubscribers(f, Update(m.obj, TRUE, l.last)), h, Update(m.obj, TRUE, l.last))
          /\ Sends(ToSubscribers(f, Update(m.obj, FALSE, l.last)), h, Update(m.obj, FALSE, l.last))
      BY <3>1, SendsMessage
    <3>3. m.obj.kind = "source" => m.obj.kind # "target"
      OBVIOUS
    <3>4. m.named => out = ToSubscribers(f, Update(m.obj, TRUE, l.last))
      BY <2>6, <2>8
    <3>5. ~m.named /\ m.obj.kind = "source" /\ l.last # 0 =>
            out = ToSubscribers(f, Update(m.obj, FALSE, l.last))
      BY <2>7, <2>8, <3>3
    <3> QED BY <2>5, <3>2, <3>4, <3>5
  <2>13. Handled(f, m, out)
    BY <1>3, <2>12 DEF Handled
  <2> QED BY <1>2, <1>3, <2>9, <2>10, <2>11, <2>13, AnswerFlow
<1> QED BY <1>4, <1>5

\* Every callback.
LEMMA EvokeFlow ==
  ASSUME Grounds, NEW f \in Federates, evokeCallback(f), UNCHANGED <<mState, phase>>,
         mState[f] \in {"WaitForMeasurementInit", "Online"}
  PROVE  \E q, out : Flow(q, out)
<1>1. TypeOK /\ inbox[f] # <<>> /\ UNCHANGED keptByCallbacks
  BY GroundsGive DEF evokeCallback
<1>2. PICK m : m = Head(inbox[f])
  OBVIOUS
<1>3. m.obj \in Objects
  BY <1>1, <1>2, HeadMessage
<1>4. CASE m.type = "reserved" /\ OnDOObjectReservationCompleted(f, m.obj)
  <2>1. CASE ReservationUnused(f)
    <3>1. /\ Send(Rest(f), Nothing)
          /\ UNCHANGED <<locals, objects, written, remote, callback, unsub, got>>
      BY <2>1 DEF ReservationUnused
    <3>2. \A g \in Federates : SameView(g)
      BY <3>1 DEF SameView
    <3>3. Handled(f, m, Nothing)
      BY <1>4, <3>2 DEF Handled
    <3>4. Nothing \in Queues /\ AllProper(Nothing)
      BY GroundsGive, ProperMessage
    <3> QED BY <1>1, <1>2, <3>1, <3>2, <3>3, <3>4, AnswerFlow
  <2>2. ASSUME NEW i, NEW l, ReservationStep(f, m.obj, i, l)
        PROVE  \E q, out : Flow(q, out)
    <3>1. Reserves(f, m.obj, i, l)
      BY <1>1, <1>3, <2>2 DEF Reserves, keptByCallbacks
    <3> QED BY <1>1, <1>2, <1>3, <1>4, <3>1, ReservationFlow
  <2> QED BY <1>1, <1>3, <1>4, <2>1, <2>2, ReservationSteps
<1>5. \/ m.type = "reserved" /\ OnDOObjectReservationCompleted(f, m.obj)
      \/ m.type = "discover" /\ discoverObjectInstance(f, m.obj)
      \/ m.type = "remove" /\ removeObjectInstance(f, m.obj)
      \/ m.type = "update" /\ reflectAttributeValues(f, m)
      \/ m.type = "provide" /\ provideAttributeValueUpdate(f, m)
  BY <1>2 DEF evokeCallback
<1> QED BY <1>1, <1>2, <1>4, <1>5, DiscoverFlow, RemoveFlow, ReflectFlow, ProvideFlow

-----------------------------------------------------------------------------
(* The other steps.                                                             *)

\* A step that sends and leaves the views of all federates alone.
LEMMA RestFlow ==
  ASSUME Grounds, NEW out \in Queues, Send(inbox, out), AllProper(out), ObjectsFlow(out),
         WrittenFlow(out), UNCHANGED <<remote, unsub, got, callback>>,
         \A g \in Federates : NoNewTarget(g) /\ Joined(g)' = Joined(g)
  PROVE  \E q, o : Flow(q, o)
<1>1. inbox \in Queues
  BY GroundsGive
<1>2. \A g \in Federates : Rests(g, inbox, out)
  BY DEF Rests, SameView
<1>3. Flow(inbox, out)
  BY <1>1, <1>2, SendInbox DEF Flow, Change
<1> QED BY <1>3

\* What a transmission sends.
LEMMA TransmitFlow ==
  ASSUME Grounds, NEW f \in Federates, BufferedTransmitDOMember(f)
  PROVE  \E q, out : Flow(q, out)
<1>0. /\ TypeOK /\ HandlesKnown /\ UniqueNames /\ MembersHaveObjects /\ OwnersJoined
      /\ objects \subseteq Objects /\ NamesOwned
  BY GroundsGive
<1>1. PICK n, t, i, l : TransmitStep(f, n, t, i, l)
  BY <1>0, TransmitSteps
<1>2. /\ i \in DOMAIN locals[f]["source"] /\ l \in Local /\ l = locals[f]["source"][i]
      /\ l.name = byHandle[f][t.handle] /\ l.name \in Names /\ t.handle \in Handles
      /\ t.value \in 0..MaxValues /\ written' = [written EXCEPT ![l.name] = t.value]
      /\ Send(inbox, UpdateDOSourceObjectData(f, l, t.value))
      /\ UNCHANGED <<mState, phase, remote, callback, objects, unsub, got>>
  BY <1>1 DEF TransmitStep
<1>3. \A g \in Federates : Joined(g)' = Joined(g)
  BY <1>2, JoinedSame
<1>4. PICK o : o = [name |-> l.name, kind |-> "source"]
  OBVIOUS
<1>5. o \in Objects /\ o \in objects /\ Owner(o) = f /\ o.name = l.name /\ o.kind = "source"
  <2>1. l.registered
    BY <1>0, <1>2, HandleOfName
  <2>2. locals[f]["source"][i].registered
    BY <1>2, <2>1
  <2>3. [name |-> locals[f]["source"][i].name, kind |-> "source"] \in objects
    BY <1>0, <1>2, <2>2, CounterTypes DEF MembersHaveObjects
  <2>4. Owner(l) = f
    BY <1>0, <1>2, CounterTypes DEF NamesOwned
  <2> QED BY <1>0, <1>2, <1>4, <2>3, <2>4 DEF Owner
<1>6. PICK out : out = ToSubscribers(f, Update(o, FALSE, t.value))
  OBVIOUS
<1>7. Send(inbox, out) /\ out \in Queues
  <2>1. UpdateDOSourceObjectData(f, l, t.value) = out
    BY <1>4, <1>6 DEF UpdateDOSourceObjectData
  <2> QED BY <1>2, <2>1, CounterTypes, UpdateTypes
<1>8. /\ written'[o.name] = t.value
      /\ \A p \in Names : p # o.name => written'[p] = written[p]
  BY <1>0, <1>2, <1>5 DEF TypeOK
<1>9. AllProper(out)
  <2>1. \A h \in Others(f) : Proper(h, Update(o, FALSE, t.value))
    BY <1>2, <1>3, <1>5, <1>8, ProperOfOwn
  <2> QED BY <1>6, <2>1, ProperMessage
<1>10. ObjectsFlow(out)
  BY <1>0, <1>2, <1>3, ObjectsSame
<1>11. WrittenFlow(out)
  <2> SUFFICES ASSUME NEW p \in objects, HasMember(p), written'[p.name] # written[p.name],
                      NEW h \in Others(Owner(p)), p \notin unsub[h]
               PROVE  Sends(out, h, Update(p, FALSE, written'[p.name]))
    BY DEF WrittenFlow
  <2>1. p \in Objects /\ p.name = o.name
    BY <1>0, <1>8, ObjectParts
  <2>2. Owner(p) = f
    BY <1>5, <2>1 DEF Owner
  <2>3. PICK j \in DOMAIN locals[f][p.kind] : locals[f][p.kind][j].name = p.name
    BY <2>2 DEF HasMember
  <2>4. p.kind = "source"
    BY <1>0, <1>2, <1>5, <2>1, <2>3, ObjectParts, CounterTypes DEF UniqueNames
  <2>5. p = o
    BY <1>5, <2>1, <2>4, ObjectParts
  <2>6. Update(o, FALSE, t.value).obj = o
    BY DEF Update
  <2>7. Sends(out, h, Update(o, FALSE, t.value))
    BY <1>6, <2>2, <2>5, <2>6, SendsMessage
  <2> QED BY <1>8, <2>5, <2>7
<1>12. \A g \in Federates : NoNewTarget(g)
  BY <1>0, <1>1, TransmitStepReplaces, TargetsSame
<1> QED BY <1>2, <1>3, <1>7, <1>9, <1>10, <1>11, <1>12, RestFlow

\* What is erased, while the federate is online, is withdrawn.
LEMMA EraseFlow ==
  ASSUME Grounds, NEW f, NEW k, NEW h, NEW n, NEW l, Erases(f, k, h, n, l),
         UNCHANGED <<remote, unsub, got, callback>>
  PROVE  \E q, out : Flow(q, out)
<1>0. /\ TypeOK /\ MembersHaveObjects /\ OwnersJoined /\ objects \subseteq Objects /\ NamesOwned
      /\ Nothing \in Queues
  BY GroundsGive
<1>1. /\ f \in Federates /\ k \in Kinds /\ n \in DOMAIN locals[f][k] /\ l = locals[f][k][n]
      /\ l \in Local /\ l.name \in Names /\ [name |-> l.name, kind |-> k] \in Objects
      /\ mState[f] = "Online" => l.registered
      /\ objects' = IF mState[f] = "Online" THEN objects \ {[name |-> l.name, kind |-> k]}
                                             ELSE objects
      /\ Send(inbox, IF mState[f] = "Online" THEN ToOthers(f, Removed([name |-> l.name, kind |-> k]))
                                              ELSE Nothing)
      /\ UNCHANGED <<mState, phase, written>>
  BY DEF Erases, EraseMember
<1>2. \A g \in Federates : Joined(g)' = Joined(g)
  BY <1>1, JoinedSame
<1>3. \A g \in Federates : NoNewTarget(g)
  BY <1>0, ErasesErased, TargetsErased
<1>4. \A out : WrittenFlow(out)
  BY <1>1, WrittenSame
<1>5. CASE mState[f] # "Online"
  <2>1. ObjectsFlow(Nothing)
    BY <1>0, <1>1, <1>2, <1>5, ObjectsSame
  <2> QED BY <1>0, <1>1, <1>2, <1>3, <1>4, <1>5, <2>1, ProperMessage, RestFlow
<1>6. CASE mState[f] = "Online"
  <2>1. PICK o : o = [name |-> l.name, kind |-> k]
    OBVIOUS
  <2>2. o \in Objects /\ o \in objects /\ Owner(o) = f /\ objects' = objects \ {o}
    <3>1. locals[f][k][n].registered
      BY <1>1, <1>6
    <3>2. [name |-> locals[f][k][n].name, kind |-> k] \in objects
      BY <1>0, <1>1, <3>1 DEF MembersHaveObjects
    <3>3. Owner(l) = f
      BY <1>0, <1>1 DEF NamesOwned
    <3> QED BY <1>1, <1>6, <2>1, <3>2, <3>3 DEF Owner
  <2>3. PICK out : out = ToOthers(f, Removed(o))
    OBVIOUS
  <2>4. Send(inbox, out) /\ out \in Queues
    BY <1>1, <1>6, <2>1, <2>2, <2>3, Bounds, MessageTypes, OutTypes
  <2>5. Removed(o).type = "remove" /\ Removed(o).obj = o
    BY DEF Removed
  <2>6. AllProper(out)
    <3>1. \A g \in Others(f) : g \in Federates /\ g # f /\ Joined(g)'
      BY <1>2 DEF Others
    <3>2. \A g \in Others(f) : Proper(g, Removed(o))
      BY <2>2, <2>5, <3>1 DEF Proper
    <3> QED BY <1>1, <2>3, <3>2, ProperMessage
  <2>7. ObjectsFlow(out)
    <3>1. \A p \in objects' : p \in objects /\ Joined(Owner(p))'
      BY <1>0, <1>2, <2>2, ObjectParts DEF OwnersJoined
    <3>2. \A g \in Federates : g # f /\ Joined(g)' => Sends(out, g, Removed(o))
      BY <1>1, <1>2, <2>3, SendsMessage DEF Others
    <3>3. \A p \in objects : p \notin objects' => p = o
      BY <2>2
    <3> QED BY <2>2, <3>1, <3>2, <3>3 DEF ObjectsFlow
  <2> QED BY <1>2, <1>3, <1>4, <2>4, <2>6, <2>7, RestFlow
<1> QED BY <1>5, <1>6

\* What a new member is reserved with.
LEMMA ReservedFlow ==
  ASSUME Grounds, NEW f \in Federates, NEW k \in Kinds, buffered[f][k] # <<>>, Joined(f)'
  PROVE  LET out == To(f, Reserved([name |-> Fresh(f), kind |-> k])) IN
         out \in Queues /\ AllProper(out)
<1>1. PICK obj, m : obj = [name |-> Fresh(f), kind |-> k] /\ m = Reserved(obj)
  OBVIOUS
<1>2. Fresh(f) \in Names
  BY GroundsGive, FreshIsName
<1>3. obj \in Objects
  BY <1>1, <1>2 DEF Objects
<1>4. m \in Message /\ m.type = "reserved"
  BY <1>1, <1>3, Bounds, MessageTypes DEF Reserved
<1>5. Proper(f, m)
  BY <1>4 DEF Proper
<1> QED BY <1>1, <1>4, <1>5, OutTypes, ProperMessage

\* The sources of g that a new target of f asks for the value of.
AskedOf(f, g) == {o \in {p \in remote[f] : p.kind = "source"} \cap objects : Owner(o) = g}

\* Each of them is asked for.
LEMMA AskedEntries ==
  ASSUME TypeOK, IsFiniteSet(objects), NEW f \in Federates, NEW g \in Federates
  PROVE  /\ DOMAIN Asked(f)[g] = 1..Cardinality(AskedOf(f, g))
         /\ \A i \in 1..Cardinality(AskedOf(f, g)) :
              /\ Asked(f)[g][i] = Provide(SetToSeq(AskedOf(f, g))[i], FALSE)
              /\ SetToSeq(AskedOf(f, g))[i] \in AskedOf(f, g)
         /\ \A o \in AskedOf(f, g) :
              \E i \in 1..Cardinality(AskedOf(f, g)) : SetToSeq(AskedOf(f, g))[i] = o
<1>1. AskedOf(f, g) \subseteq Objects /\ AskedOf(f, g) \subseteq objects
  BY DEF TypeOK, AskedOf
<1>2. IsFiniteSet(AskedOf(f, g))
  BY <1>1, FS_Subset
<1>3. Asked(f)[g] = [j \in 1..Cardinality(AskedOf(f, g)) |->
                       Provide(SetToSeq(AskedOf(f, g))[j], FALSE)]
  BY DEF Asked, AskedOf
<1>4. \A j \in 1..Cardinality(AskedOf(f, g)) : SetToSeq(AskedOf(f, g))[j] \in AskedOf(f, g)
  BY <1>1, <1>2, AskedTypes
<1>5. \A o \in AskedOf(f, g) :
        \E j \in 1..Cardinality(AskedOf(f, g)) : SetToSeq(AskedOf(f, g))[j] = o
  BY <1>2, SetToSeqFacts
<1> QED BY <1>3, <1>4, <1>5

\* A new target asks for the value of every source it knows.
LEMMA AskedFlow ==
  ASSUME Grounds, NEW f \in Federates, UNCHANGED objects
  PROVE  /\ Asked(f) \in Queues /\ AllProper(Asked(f))
         /\ \A o \in remote[f] \cap objects :
              o.kind = "source" => Sends(Asked(f), Owner(o), Provide(o, FALSE))
<1>0. TypeOK /\ IsFiniteSet(objects) /\ objects \subseteq Objects
  BY GroundsGive
<1>1. ASSUME NEW o
      PROVE  /\ Provide(o, FALSE).type = "provide" /\ Provide(o, FALSE).obj = o
  BY DEF Provide
<1>2. ASSUME NEW g \in Federates, NEW i \in DOMAIN Asked(f)[g]
      PROVE  Proper(g, Asked(f)[g][i])
  <2>1. PICK o : o = SetToSeq(AskedOf(f, g))[i]
    OBVIOUS
  <2>2. o \in AskedOf(f, g) /\ Asked(f)[g][i] = Provide(o, FALSE)
    BY <1>0, <1>2, <2>1, AskedEntries
  <2>3. o \in objects' /\ Owner(o) = g
    BY <2>2 DEF AskedOf
  <2> QED BY <1>1, <2>2, <2>3 DEF Proper
<1>3. ASSUME NEW o \in remote[f] \cap objects, o.kind = "source"
      PROVE  Sends(Asked(f), Owner(o), Provide(o, FALSE))
  <2>1. PICK g : g = Owner(o)
    OBVIOUS
  <2>2. g \in Federates /\ o \in AskedOf(f, g)
    BY <1>0, <1>3, <2>1, ObjectParts DEF AskedOf
  <2>3. PICK n, s : n = Cardinality(AskedOf(f, g)) /\ s = SetToSeq(AskedOf(f, g))
    OBVIOUS
  <2>4. /\ DOMAIN Asked(f)[g] = 1..n
        /\ \A i \in 1..n : Asked(f)[g][i] = Provide(s[i], FALSE)
        /\ \A p \in AskedOf(f, g) : \E i \in 1..n : s[i] = p
    BY <1>0, <2>2, <2>3, AskedEntries, Zenon
  <2>5. PICK i \in 1..n : s[i] = o
    BY <2>2, <2>4
  <2> QED BY <2>1, <2>4, <2>5 DEF Sends
<1> QED BY <1>0, <1>2, <1>3, AskedQueues DEF AllProper

\* What ProcessBuffers sends for a new member.
LEMMA ProcessFlow ==
  ASSUME Grounds, NEW f \in Federates, ProcessTargets(f) \/ ProcessSources(f),
         \A g \in Federates : Joined(g)' = Joined(g)
  PROVE  \E q, out : Flow(q, out)
<1>0. /\ TypeOK /\ inbox \in Queues /\ OwnersJoined /\ objects \subseteq Objects
      /\ locals \in [Federates -> [Kinds -> Seq(Local)]]
      /\ "source" \in Kinds /\ "target" \in Kinds
  BY GroundsGive, CounterTypes DEF TypeOK
<1>1. CASE phase[f] = "targets" /\ buffered[f]["target"] # <<>>
  <2>1. PICK r, l, obj, a, out :
          /\ r = Head(buffered[f]["target"]) /\ obj = [name |-> Fresh(f), kind |-> "target"]
          /\ l = [handle |-> r.handle, name |-> obj.name, registered |-> FALSE, last |-> 0]
          /\ a = To(f, Reserved(obj)) /\ out = Then(a, Asked(f))
    OBVIOUS
  <2>2. /\ Send(inbox, out) /\ locals' = [locals EXCEPT ![f]["target"] = Append(@, l)]
        /\ callback' = [callback EXCEPT ![f] = r.handle]
        /\ got' = [got EXCEPT ![f] = NoValues]
        /\ unsub' = [unsub EXCEPT ![f] = @ \ {o \in remote[f] : o.kind = "source"}]
        /\ UNCHANGED <<objects, written, remote>>
    BY <1>1, <2>1 DEF ProcessTargets, ProcessSources, RegisterBufferedDOTarget, Asked
  <2>3. Joined(f)'
    BY <1>1 DEF Joined
  <2>4. a \in Queues /\ AllProper(a)
    BY <1>0, <1>1, <2>1, <2>3, ReservedFlow
  <2>5. /\ Asked(f) \in Queues /\ AllProper(Asked(f))
        /\ \A o \in remote[f] \cap objects :
             o.kind = "source" => Sends(Asked(f), Owner(o), Provide(o, FALSE))
    BY <2>2, AskedFlow
  <2>6. /\ out \in Queues /\ AllProper(out)
        /\ \A o \in remote[f] \cap objects :
             o.kind = "source" => Sends(out, Owner(o), Provide(o, FALSE))
    <3>1. ASSUME NEW o \in remote[f] \cap objects, o.kind = "source"
          PROVE  Sends(out, Owner(o), Provide(o, FALSE))
      BY <1>0, <2>1, <2>4, <2>5, <3>1, ObjectParts, SendsThen
    <3> QED BY <2>1, <2>4, <2>5, <3>1, ThenTypes, SendsThen
  <2>7. ObjectsFlow(out) /\ WrittenFlow(out)
    BY <1>0, <2>2, ObjectsSame, WrittenSame
  <2>8. Asks(f, inbox, out)
    <3>1. r.handle \in Handles
      BY <1>0, <1>1, <2>1, HeadTypes
    <3>2. callback'[f] # 0
      BY <1>0, <2>2, <3>1 DEF TypeOK, Handles
    <3>3. /\ unsub'[f] = unsub[f] \ {o \in remote[f] : o.kind = "source"}
          /\ remote'[f] = remote[f]
      BY <1>0, <2>2 DEF TypeOK
    <3> QED BY <2>6, <3>2, <3>3 DEF Asks
  <2>9. ASSUME NEW g \in Federates, g # f PROVE Rests(g, inbox, out)
    <3>1. locals'[g] = locals[g]
      BY <1>0, <2>2, <2>9
    <3>2. SameView(g) /\ callback'[g] = callback[g]
      BY <1>0, <2>2, <2>9 DEF TypeOK, SameView
    <3> QED BY <3>1, <3>2 DEF Rests, NoNewTarget
  <2>10. Flow(inbox, out)
    BY <1>0, <2>2, <2>6, <2>7, <2>8, <2>9, SendInbox DEF Flow, Change
  <2> QED BY <2>10
<1>2. CASE phase[f] = "sources" /\ buffered[f]["source"] # <<>>
  <2>1. PICK l, out : /\ out = To(f, Reserved([name |-> Fresh(f), kind |-> "source"]))
                      /\ l = [handle |-> Head(buffered[f]["source"]).handle, name |-> Fresh(f),
                              registered |-> FALSE, last |-> Head(buffered[f]["source"]).last]
    OBVIOUS
  <2>2. /\ Send(inbox, out) /\ locals' = [locals EXCEPT ![f]["source"] = Append(@, l)]
        /\ UNCHANGED <<objects, written, remote, callback, unsub, got>>
    BY <1>2, <2>1 DEF ProcessTargets, ProcessSources, RegisterBufferedDOSource
  <2>3. Joined(f)'
    BY <1>2 DEF Joined
  <2>4. out \in Queues /\ AllProper(out)
    BY <1>0, <1>2, <2>1, <2>3, ReservedFlow
  <2>5. ObjectsFlow(out) /\ WrittenFlow(out)
    BY <1>0, <2>2, ObjectsSame, WrittenSame
  <2>6. \A g \in Federates : NoNewTarget(g)
    BY <1>0, <2>2 DEF NoNewTarget
  <2> QED BY <2>2, <2>4, <2>5, <2>6, RestFlow
<1>3. CASE UNCHANGED <<inbox, remote, unsub, got, callback, written, objects, locals>>
  <2>1. \A g \in Federates : NoNewTarget(g)
    BY <1>3 DEF NoNewTarget
  <2> QED BY <1>3, <2>1, QuietFlow
<1> QED BY <1>1, <1>2, <1>3 DEF ProcessTargets, ProcessSources, localVars

\* The federate that joins is told of all objects.
LEMMA JoinFlow ==
  ASSUME Grounds, NEW f \in Federates, OnJoined(f)
  PROVE  \E q, out : Flow(q, out)
<1>0. /\ TypeInv /\ TypeOK /\ inbox \in Queues /\ OwnersJoined /\ objects \subseteq Objects
      /\ IsFiniteSet(objects)
  BY GroundsGive
<1>1. PICK out : JoinStep(f, out)
  BY <1>0, JoinSteps
<1>2. /\ Announced(f, out) /\ Send(inbox, out)
      /\ UNCHANGED <<locals, remote, callback, objects, unsub, got, written>>
  BY <1>1 DEF JoinStep, localVars, history
<1>3. ~Joined(f) /\ Joined(f)' /\ \A g \in Federates : g # f => Joined(g)' = Joined(g)
  BY <1>0, OnJoinedJoins
<1>4. /\ out \in Queues /\ \A g \in Federates : g # f => DOMAIN out[g] = {}
      /\ \A i \in DOMAIN out[f] : \E o \in objects : out[f][i] = Discover(o)
      /\ \A o \in objects : Sends(out, f, Discover(o))
  <2>1. \A g \in Federates : g # f => DOMAIN out[g] = {}
    BY <1>2 DEF Announced
  <2> QED BY <1>2, <2>1 DEF Announced, Sends
<1>5. AllProper(out)
  <2> SUFFICES ASSUME NEW i \in DOMAIN out[f] PROVE Proper(f, out[f][i])
    BY <1>4 DEF AllProper
  <2>1. PICK o \in objects : out[f][i] = Discover(o)
    BY <1>4
  <2>2. Owner(o) # f
    BY <1>0, <1>3 DEF OwnersJoined
  <2>3. Discover(o).type = "discover" /\ Discover(o).obj = o
    BY DEF Discover
  <2> QED BY <1>2, <1>3, <2>1, <2>2, <2>3 DEF Proper
<1>6. ObjectsFlow(out)
  <2>1. \A o \in objects' : Joined(Owner(o))'
    BY <1>0, <1>2, <1>3, ObjectParts DEF OwnersJoined
  <2> QED BY <1>2, <2>1 DEF ObjectsFlow
<1>7. \A g \in Federates : Rests(g, inbox, out)
  <2>1. \A g \in Federates : SameView(g) /\ callback'[g] = callback[g] /\ NoNewTarget(g)
    BY <1>2 DEF SameView, NoNewTarget
  <2>2. \A o \in objects' : Sends(out, f, Discover(o))
    BY <1>2, <1>4
  <2> QED BY <1>3, <2>1, <2>2 DEF Rests
<1>8. WrittenFlow(out)
  BY <1>2, WrittenSame
<1>9. Flow(inbox, out)
  BY <1>0, <1>2, <1>4, <1>5, <1>6, <1>7, <1>8, SendInbox DEF Flow, Change
<1> QED BY <1>9

\* The objects of the federate that leaves are withdrawn.
LEMMA LeaveFlow ==
  ASSUME Grounds, NEW f \in Federates, Reset(f)
  PROVE  \E q, out : Flow(q, out)
<1>0. /\ TypeInv /\ TypeOK /\ inbox \in Queues /\ OwnersJoined /\ objects \subseteq Objects
      /\ IsFiniteSet(objects)
  BY GroundsGive
<1>1. PICK out : ResetStep(f, out)
  BY <1>0, ResetSteps
<1>2. PICK q : q = [inbox EXCEPT ![f] = <<>>]
  OBVIOUS
<1>3. /\ Withdrawn(f, out) /\ Send(q, out) /\ objects' = {o \in objects : Owner(o) # f}
      /\ locals' = [locals EXCEPT ![f] = [k \in Kinds |-> <<>>]]
      /\ remote' = [remote EXCEPT ![f] = {}] /\ unsub' = [unsub EXCEPT ![f] = {}]
      /\ callback' = [callback EXCEPT ![f] = 0] /\ got' = [got EXCEPT ![f] = NoValues]
      /\ UNCHANGED written
  BY <1>1, <1>2 DEF ResetStep
<1>4. ~Joined(f)' /\ \A g \in Federates : g # f => Joined(g)' = Joined(g)
  BY <1>0, ResetLeaves
<1>5. \A g \in Federates : q[g] = IF g = f THEN <<>> ELSE inbox[g]
  BY <1>0, <1>2 DEF Queues
<1>6. q \in Queues /\ out \in Queues
  <2>1. <<>> \in Seq(Message)
    OBVIOUS
  <2> QED BY <1>0, <1>2, <1>3, <2>1 DEF Withdrawn, Queues
<1>7. AllProper(out)
  <2> SUFFICES ASSUME NEW g \in Federates, NEW i \in DOMAIN out[g] PROVE Proper(g, out[g][i])
    BY DEF AllProper
  <2>1. g \in Others(f)
    <3>1. out[g] # <<>>
      OBVIOUS
    <3> QED BY <1>3, <3>1 DEF Withdrawn
  <2>2. PICK o \in objects : Owner(o) = f /\ out[g][i] = Removed(o)
    BY <1>3 DEF Withdrawn
  <2>3. o \notin objects' /\ f # g /\ Joined(g)'
    BY <1>3, <1>4, <2>1, <2>2 DEF Others
  <2>4. Removed(o).type = "remove" /\ Removed(o).obj = o
    BY DEF Removed
  <2> QED BY <2>2, <2>3, <2>4 DEF Proper
<1>8. ObjectsFlow(out)
  <2>1. \A o \in objects' : o \in objects /\ Joined(Owner(o))'
    BY <1>0, <1>3, <1>4, ObjectParts DEF OwnersJoined
  <2>2. ASSUME NEW o \in objects, o \notin objects', NEW h \in Federates, h # Owner(o), Joined(h)'
        PROVE  Sends(out, h, Removed(o))
    <3>1. Owner(o) = f
      BY <1>3, <2>2
    <3>2. h \in Others(f)
      BY <1>4, <2>2, <3>1 DEF Others
    <3> QED BY <1>3, <3>1, <3>2 DEF Withdrawn, Sends
  <2> QED BY <2>1, <2>2 DEF ObjectsFlow
<1>9. Leaves(f, q)
  <2>1. locals'[f]["target"] = <<>>
    BY <1>0, <1>3, CounterTypes DEF TypeOK
  <2>2. remote'[f] = {} /\ unsub'[f] = {}
    BY <1>0, <1>3 DEF TypeOK
  <2> QED BY <1>4, <1>5, <2>1, <2>2 DEF Leaves
<1>10. ASSUME NEW g \in Federates, g # f PROVE Rests(g, q, out)
  <2>1. locals'[g] = locals[g] /\ callback'[g] = callback[g] /\ SameView(g)
    BY <1>0, <1>3, <1>10 DEF TypeOK, SameView
  <2> QED BY <1>4, <1>5, <1>10, <2>1 DEF Rests, NoNewTarget
<1>11. WrittenFlow(out)
  BY <1>3, WrittenSame
<1>12. Flow(q, out)
  BY <1>3, <1>6, <1>7, <1>8, <1>9, <1>10, <1>11, SendInbox DEF Flow, Change
<1> QED BY <1>12

\* Every step.
LEMMA FlowSteps ==
  ASSUME Grounds, [Next]_vars
  PROVE  \E q, out : Flow(q, out)
<1>0. TypeInv /\ TypeOK /\ NotYet /\ "source" \in Kinds /\ "target" \in Kinds
  BY GroundsGive, CounterTypes
<1>1. CASE \E f \in Federates : OnJoined(f)
  BY <1>1, JoinFlow
<1>2. CASE \E f \in Federates : Reset(f)
  BY <1>2, LeaveFlow
<1>3. CASE \A f \in Federates : ~OnJoined(f) /\ ~Reset(f)
  <2>1. \A g \in Federates : Joined(g)' = Joined(g)
    BY <1>0, <1>3, JoinedStays
  <2>2. ASSUME UNCHANGED <<inbox, remote, unsub, got, callback, written, objects, locals>>
        PROVE  \E q, out : Flow(q, out)
    <3>1. \A g \in Federates : NoNewTarget(g)
      BY <2>2 DEF NoNewTarget
    <3> QED BY <2>1, <2>2, <3>1, QuietFlow
  <2>3. ASSUME NEW f \in Federates, EvokeCallbacks(f) \/ EvokeWhileWaiting(f)
        PROVE  \E q, out : Flow(q, out)
    <3>1. mState[f] \in {"WaitForMeasurementInit", "Online"}
      BY <1>0, <2>3 DEF EvokeCallbacks, EvokeWhileWaiting, NotYet
    <3>2. CASE evokeCallback(f) /\ UNCHANGED phase
      BY <3>1, <3>2, EvokeFlow DEF evokeCallback, keptByCallbacks
    <3>3. CASE UNCHANGED <<localVars, rtiVars, history>>
      BY <2>2, <3>3 DEF localVars, rtiVars, history
    <3> QED BY <2>3, <3>2, <3>3 DEF EvokeCallbacks, EvokeWhileWaiting
  <2>4. ASSUME NEW f \in Federates, NEW k \in Kinds, NEW h \in Handles, Unregister(f, k, h)
        PROVE  \E q, out : Flow(q, out)
    <3>1. PICK p : UnregisterStep(f, k, h, p)
      BY <1>0, <2>4, UnregisterSteps
    <3>2. /\ UNCHANGED <<mState, phase, remote, callback, unsub, got, written, lastSent, issued>>
          /\ mState[f] \in UnregisterIn
      BY <3>1 DEF UnregisterStep, history
    <3>3. ASSUME NEW n, NEW l, EraseMember(f, k, h, n, l) PROVE \E q, out : Flow(q, out)
      <4>1. Erases(f, k, h, n, l)
        BY <3>2, <3>3 DEF Erases
      <4> QED BY <3>2, <4>1, EraseFlow
    <3>4. CASE UNCHANGED <<locals, objects, inbox>>
      BY <2>2, <3>2, <3>4
    <3> QED BY <3>1, <3>3, <3>4 DEF UnregisterStep, EraseEntry, EraseNothing
  <2>5. ASSUME NEW f \in Federates,
               \/ EnterInitFederate(f) \/ MeasurementStarts(f) \/ WaitForSingleEvent(f)
               \/ EndProcessBuffers(f)
               \/ \E k \in Kinds : Register(f, k)
               \/ \E h \in Handles : TransmitDOMember(f, h)
        PROVE  \E q, out : Flow(q, out)
    <3>1. UNCHANGED <<localVars, rtiVars, history>>
      BY <2>5 DEF EnterInitFederate, MeasurementStarts, WaitForSingleEvent, EndProcessBuffers,
                  Register, TransmitDOMember
    <3> QED BY <2>2, <3>1 DEF localVars, rtiVars, history
  <2>6. CASE UNCHANGED vars
    BY <2>2, <2>6 DEF vars, localVars, rtiVars, history
  <2> QED BY <1>0, <1>3, <2>1, <2>3, <2>4, <2>5, <2>6, TransmitFlow, ProcessFlow
          DEF Next, Thread, Application, ProcessBuffers
<1> QED BY <1>1, <1>2, <1>3

-----------------------------------------------------------------------------
(* The queues from one state to the next.                                       *)

\* A message is in the queue of g.
Has(g, m) == \E i \in DOMAIN inbox[g] : inbox[g][i] = m

\* A message m behind the i-th of the queue.
Behind(g, i, m) == \E j \in DOMAIN inbox[g] : i < j /\ inbox[g][j] = m

\* The queue of g loses its first c messages and gets what is sent to it.
Moved(g, out, c) ==
  /\ \A i \in DOMAIN inbox'[g] : /\ i \in Nat
                                 /\ \/ i + c \in DOMAIN inbox[g] /\ inbox'[g][i] = inbox[g][i + c]
                                    \/ \E b \in DOMAIN out[g] : inbox'[g][i] = out[g][b]
  /\ \A a \in DOMAIN inbox[g] : /\ a \in Nat /\ a >= 1
                                /\ c < a => /\ a - c \in DOMAIN inbox'[g]
                                            /\ inbox'[g][a - c] = inbox[g][a]
  /\ \A m : Sends(out, g, m) =>
       \E j \in DOMAIN inbox'[g] : /\ inbox'[g][j] = m
                                   /\ \A a \in DOMAIN inbox[g] : a < j + c

\* A step with what is known of it.
Advance(q, out) ==
  /\ Grounds /\ Flow(q, out) /\ LocalChange
  /\ TypeOK' /\ ObjectsRegistered' /\ QueuesOrdered'

\* Some message is dropped from the head, or none.
LEMMA Moves ==
  ASSUME NEW g \in Federates, NEW out, NEW c \in {0, 1}, inbox[g] \in Seq(Message),
         c = 1 => inbox[g] # <<>>, out[g] \in Seq(Message),
         inbox'[g] = (IF c = 0 THEN inbox[g] ELSE Tail(inbox[g])) \o out[g]
  PROVE  Moved(g, out, c)
<1>1. PICK s, t, u, v : /\ s = inbox[g] /\ t = out[g] /\ v = inbox'[g]
                        /\ u = IF c = 0 THEN s ELSE Tail(s)
  OBVIOUS
<1>2. s \in Seq(Message) /\ t \in Seq(Message) /\ u \in Seq(Message) /\ v = u \o t
      /\ DOMAIN s = 1..Len(s) /\ DOMAIN u = 1..Len(u) /\ Len(s) \in Nat /\ Len(u) \in Nat
      /\ Len(u) = Len(s) - c /\ \A i \in DOMAIN u : u[i] = s[i + c]
  <2>1. CASE c = 0
    <3>1. u = s
      BY <1>1, <2>1
    <3>2. s \in Seq(Message) /\ v = u \o t /\ t \in Seq(Message)
      BY <1>1, <2>1
    <3>3. DOMAIN s = 1..Len(s) /\ Len(s) \in Nat
      BY <3>2, LenProperties
    <3> QED BY <2>1, <3>1, <3>2, <3>3
  <2>2. CASE c = 1
    <3>1. s \in Seq(Message) /\ s # <<>> /\ u = Tail(s) /\ v = u \o t /\ t \in Seq(Message)
      BY <1>1, <2>2
    <3>2. u \in Seq(Message) /\ Len(u) = Len(s) - 1 /\ \A i \in DOMAIN u : u[i] = s[i + 1]
      BY <3>1, TailEntries, HeadTailProperties
    <3>3. DOMAIN s = 1..Len(s) /\ Len(s) \in Nat /\ DOMAIN u = 1..Len(u) /\ Len(u) \in Nat
      BY <3>1, <3>2, LenProperties
    <3> QED BY <2>2, <3>1, <3>2, <3>3
  <2> QED BY <2>1, <2>2
<1>3. /\ \A i \in DOMAIN v : \/ i \in DOMAIN u /\ v[i] = u[i]
                             \/ i \notin DOMAIN u /\ i - Len(u) \in DOMAIN t /\ v[i] = t[i - Len(u)]
      /\ \A i \in DOMAIN u : i \in DOMAIN v /\ v[i] = u[i]
      /\ \A i \in DOMAIN t : i + Len(u) \in DOMAIN v /\ v[i + Len(u)] = t[i]
      /\ \A i \in DOMAIN u, j \in DOMAIN t : i < j + Len(u)
      /\ \A i \in DOMAIN v : i \in Nat
  <2>1. /\ \A i \in DOMAIN (u \o t) :
             \/ i \in DOMAIN u /\ (u \o t)[i] = u[i]
             \/ i \notin DOMAIN u /\ i - Len(u) \in DOMAIN t /\ (u \o t)[i] = t[i - Len(u)]
        /\ \A i \in DOMAIN u : i \in DOMAIN (u \o t) /\ (u \o t)[i] = u[i]
        /\ \A i \in DOMAIN t : i + Len(u) \in DOMAIN (u \o t) /\ (u \o t)[i + Len(u)] = t[i]
        /\ \A i \in DOMAIN u, j \in DOMAIN t : i < j + Len(u)
        /\ \A i \in DOMAIN (u \o t) : i \in Nat
    BY <1>2, Arrivals
  <2> QED BY <1>2, <2>1
<1>4. \A i \in DOMAIN v : /\ i \in Nat
                          /\ \/ i + c \in DOMAIN s /\ v[i] = s[i + c]
                             \/ \E b \in DOMAIN t : v[i] = t[b]
  <2> SUFFICES ASSUME NEW i \in DOMAIN v
               PROVE  /\ i \in Nat
                      /\ \/ i + c \in DOMAIN s /\ v[i] = s[i + c]
                         \/ \E b \in DOMAIN t : v[i] = t[b]
    OBVIOUS
  <2>1. i \in DOMAIN u => i + c \in DOMAIN s
    BY <1>2
  <2> QED BY <1>2, <1>3, <2>1
<1>5. \A a \in DOMAIN s : a \in Nat /\ a >= 1 /\ (c < a => a - c \in DOMAIN v /\ v[a - c] = s[a])
  <2> SUFFICES ASSUME NEW a \in DOMAIN s
               PROVE  a \in Nat /\ a >= 1 /\ (c < a => a - c \in DOMAIN v /\ v[a - c] = s[a])
    OBVIOUS
  <2>1. a \in Nat /\ a >= 1 /\ (c < a => a - c \in DOMAIN u /\ (a - c) + c = a)
    BY <1>2
  <2>2. c < a => v[a - c] = u[a - c] /\ u[a - c] = s[(a - c) + c]
    BY <1>2, <1>3, <2>1
  <2> QED BY <1>3, <2>1, <2>2
<1>6. ASSUME NEW m, NEW b \in DOMAIN t, t[b] = m
      PROVE  \E j \in DOMAIN v : v[j] = m /\ \A a \in DOMAIN s : a < j + c
  <2>1. b + Len(u) \in DOMAIN v /\ v[b + Len(u)] = m
    BY <1>3, <1>6
  <2>2. b \in Nat /\ b >= 1
    BY <1>2, LenProperties
  <2>3. \A a \in DOMAIN s : a < (b + Len(u)) + c
    BY <1>2, <2>2
  <2> QED BY <2>1, <2>3
<1> QED BY <1>1, <1>4, <1>5, <1>6 DEF Moved, Sends

\* What follows from it at once.
LEMMA AdvanceGives ==
  ASSUME NEW q, NEW out, Advance(q, out)
  PROVE  /\ \A o \in objects' : o \in Objects /\ Settled(o)' /\ Joined(Owner(o))'
                                /\ (o \in objects \/ ~Settled(o))
         /\ \A o \in objects : o \in Objects /\ Settled(o)
         /\ \A o \in Objects : Settled(o) => Settled(o)'
         /\ \A o \in objects : HasMember(o)' => HasMember(o)
         /\ AllProper(out)
<1>1. /\ TypeOK /\ LocalChange /\ ObjectsRegistered /\ ObjectsRegistered' /\ NamesOwned
      /\ objects \subseteq Objects /\ objects' \subseteq Objects
      /\ ObjectsFlow(out) /\ AllProper(out)
  BY GroundsGive DEF Advance, Flow, TypeOK
<1>2. \A o \in objects' : /\ o \in Objects /\ Settled(o)' /\ Joined(Owner(o))'
                          /\ o \in objects \/ ~Settled(o)
  BY <1>1 DEF ObjectsFlow, ObjectsRegistered
<1>3. \A o \in objects : o \in Objects /\ Settled(o)
  BY <1>1 DEF ObjectsRegistered
<1>4. \A o \in Objects : Settled(o) => Settled(o)'
  BY <1>1, StaysSettled
<1>5. ASSUME NEW o \in objects, HasMember(o)' PROVE HasMember(o)
  <2>1. Owner(o) \in Federates /\ o.kind \in Kinds /\ o.name \in Names /\ Owner(o) = o.name[1]
        /\ o.name[2] <= issued[Owner(o)]["names"] /\ issued[Owner(o)]["names"] \in Nat
    BY <1>1, <1>3, ObjectParts, CounterTypes DEF Settled, TypeOK
  <2>2. PICK m \in DOMAIN locals'[Owner(o)][o.kind] : locals'[Owner(o)][o.kind][m].name = o.name
    BY <1>5 DEF HasMember, Owner
  <2>3. o.name # Fresh(Owner(o))
    <3>1. Fresh(Owner(o))[2] = issued[Owner(o)]["names"] + 1
      BY <1>1, <2>1, FreshNames
    <3> QED BY <2>1, <3>1
  <2>4. \E a \in DOMAIN locals[Owner(o)][o.kind] : locals[Owner(o)][o.kind][a].name = o.name
    BY <1>1, <2>1, <2>2, <2>3, LocalsFrom
  <2> QED BY <2>4 DEF HasMember
<1> QED BY <1>1, <1>2, <1>3, <1>4, <1>5

\* The queue of a federate in a step.
LEMMA Movement ==
  ASSUME NEW q, NEW out, Advance(q, out), NEW g \in Federates
  PROVE  \/ /\ Takes(g, q, out) /\ Moved(g, out, 1) /\ 1 \in DOMAIN inbox[g]
            /\ Head(inbox[g]) = inbox[g][1] /\ inbox[g][1] \in Message
            /\ inbox[g][1].obj \in Objects
         \/ (Asks(g, q, out) \/ Rests(g, q, out)) /\ Moved(g, out, 0)
         \/ Leaves(g, q) /\ inbox'[g] = <<>>
<1>1. /\ Grounds /\ inbox[g] \in Seq(Message) /\ out[g] \in Seq(Message)
      /\ inbox'[g] = q[g] \o out[g] /\ AllProper(out)
      /\ Takes(g, q, out) \/ Asks(g, q, out) \/ Leaves(g, q) \/ Rests(g, q, out)
  BY GroundsGive DEF Advance, Flow, Change, Queues
<1>2. CASE Takes(g, q, out)
  <2>1. inbox[g] # <<>> /\ q[g] = Tail(inbox[g])
    BY <1>2 DEF Takes
  <2>2. Moved(g, out, 1)
    <3>1. PICK c : c = 1
      OBVIOUS
    <3>2. c \in {0, 1} /\ inbox'[g] = (IF c = 0 THEN inbox[g] ELSE Tail(inbox[g])) \o out[g]
      BY <1>1, <2>1, <3>1
    <3>3. Moved(g, out, c)
      BY <1>1, <2>1, <3>2, Moves
    <3> QED BY <3>1, <3>3
  <2> QED BY <1>1, <1>2, <2>1, <2>2, HeadMessage
<1>3. CASE Asks(g, q, out) \/ Rests(g, q, out)
  <2>1. q[g] = inbox[g]
    BY <1>3 DEF Asks, Rests
  <2>2. Moved(g, out, 0)
    <3>1. PICK c : c = 0
      OBVIOUS
    <3>2. c \in {0, 1} /\ inbox'[g] = (IF c = 0 THEN inbox[g] ELSE Tail(inbox[g])) \o out[g]
      BY <1>1, <2>1, <3>1
    <3>3. c = 1 => inbox[g] # <<>>
      BY <3>1
    <3>4. Moved(g, out, c)
      BY <1>1, <3>2, <3>3, Moves
    <3> QED BY <3>1, <3>4
  <2> QED BY <1>3, <2>2
<1>4. CASE Leaves(g, q)
  <2>1. q[g] = <<>> /\ ~Joined(g)'
    BY <1>4 DEF Leaves
  <2>2. ASSUME NEW i \in DOMAIN out[g] PROVE FALSE
    <3>1. Proper(g, out[g][i])
      BY <1>1, <2>2 DEF AllProper
    <3>2. out[g][i].obj \in objects' /\ Owner(out[g][i].obj) = g
      BY <2>1, <3>1 DEF Proper
    <3> QED BY <2>1, <3>2, AdvanceGives
  <2>3. out[g] = <<>>
    BY <1>1, <2>2, EmptySeq, LenProperties
  <2> QED BY <1>1, <1>4, <2>1, <2>3, ConcatEmptySeq
<1> QED BY <1>1, <1>2, <1>3, <1>4

-----------------------------------------------------------------------------
(* What is on its way to a federate, and what it has to do with its view.       *)

\* Before it joins a federate knows nothing, and nothing is on its way to it.
AbsentClean ==
  \A g \in Federates : ~Joined(g) => inbox[g] = <<>> /\ remote[g] = {}

\* What is known of an object, or on its way, comes after its reservation.
SettledNews ==
  \A g \in Federates :
    /\ \A o \in remote[g] : o \in Objects /\ Settled(o)
    /\ \A i \in DOMAIN inbox[g] : inbox[g][i].type # "reserved" => Settled(inbox[g][i].obj)

\* No federate hears of its own objects.
OwnerApart ==
  \A g \in Federates :
    /\ \A o \in remote[g] : Owner(o) # g
    /\ \A i \in DOMAIN inbox[g] :
         inbox[g][i].type \in {"discover", "update", "remove"} => Owner(inbox[g][i].obj) # g

\* An object of which a removal is on its way is gone.
RemovedIsGone ==
  \A g \in Federates : \A i \in DOMAIN inbox[g] :
    inbox[g][i].type = "remove" => inbox[g][i].obj \notin objects

\* A federate has unsubscribed only from what it knows, and with a target from no source.
Subscribed ==
  \A g \in Federates :
    /\ unsub[g] \subseteq remote[g]
    /\ locals[g]["target"] # <<>> => callback[g] # 0 /\ \A o \in unsub[g] : o.kind # "source"

\* The removal of an object that is gone follows whatever makes it known.
GoneIsNoticed ==
  \A g \in Federates :
    /\ \A o \in remote[g] : o \in objects \/ Has(g, Removed(o))
    /\ \A i \in DOMAIN inbox[g] : inbox[g][i].type = "update" =>
         inbox[g][i].obj \in objects \/ Behind(g, i, Removed(inbox[g][i].obj))

\* The object o of another federate, as long as that has its member.
Elsewhere(g, o) == Joined(g) /\ Owner(o) # g /\ HasMember(o)

\* An update that tells the name of o.
NameOf(m, o) == m.type = "update" /\ m.named /\ m.obj = o

\* An object that a federate does not know has been announced, its name has been asked
\* for, or the name is on its way.
WillBeKnown ==
  \A g \in Federates, o \in objects : Elsewhere(g, o) /\ o \notin remote[g] =>
    \/ \E i \in DOMAIN inbox[g] : NameOf(inbox[g][i], o)
    \/ Has(g, Discover(o))
    \/ Has(Owner(o), Provide(o, TRUE))

\* The name of a source that is on its way carries the last data, or is followed by it.
FirstNews ==
  \A g \in Federates, o \in objects :
    Elsewhere(g, o) /\ o \notin remote[g] /\ o.kind = "source" =>
      \A i \in DOMAIN inbox[g] : NameOf(inbox[g][i], o) =>
        \/ inbox[g][i].value = written[o.name]
        \/ Behind(g, i, Update(o, FALSE, written[o.name]))

\* The callback of a target has been called with the last data of a source, or the data
\* is on its way, or has been asked for.
LatestNews ==
  \A g \in Federates, o \in objects :
    HasMember(o) /\ o \in remote[g] /\ o.kind = "source" /\ locals[g]["target"] # <<>> =>
      \/ got[g][o.name] = written[o.name]
      \/ Has(g, Update(o, FALSE, written[o.name]))
      \/ Has(Owner(o), Provide(o, FALSE))

\* What holds of the views, and what of the data.
Views == AbsentClean /\ SettledNews /\ OwnerApart /\ RemovedIsGone /\ Subscribed /\ GoneIsNoticed
News == WillBeKnown /\ FirstNews /\ LatestNews

-----------------------------------------------------------------------------
(* The steps keep it.                                                           *)

\* An arriving message, and one that stays.
LEMMA QueueMessages ==
  ASSUME NEW q, NEW out, Advance(q, out), NEW g \in Federates, NEW i \in DOMAIN inbox'[g]
  PROVE  \/ \E a \in DOMAIN inbox[g] : inbox'[g][i] = inbox[g][a]
         \/ Proper(g, inbox'[g][i])
<1>1. \A b \in DOMAIN out[g] : Proper(g, out[g][b])
  BY AdvanceGives DEF AllProper
<1>2. Moved(g, out, 1) \/ Moved(g, out, 0)
  <2>1. inbox'[g] # <<>>
    OBVIOUS
  <2> QED BY <2>1, Movement
<1>3. \/ \E a \in DOMAIN inbox[g] : inbox'[g][i] = inbox[g][a]
      \/ \E b \in DOMAIN out[g] : inbox'[g][i] = out[g][b]
  BY <1>2 DEF Moved
<1> QED BY <1>1, <1>3

\* Who leaves loses all, and who joins gets messages from then on.
LEMMA AbsentCleanStep ==
  ASSUME NEW q, NEW out, Advance(q, out), AbsentClean
  PROVE  AbsentClean'
<1> SUFFICES ASSUME NEW g \in Federates, ~Joined(g)' PROVE inbox'[g] = <<>> /\ remote'[g] = {}
  BY DEF AbsentClean
<1>1. CASE Leaves(g, q) /\ inbox'[g] = <<>>
  BY <1>1 DEF Leaves
<1>2. ASSUME ~Joined(g) PROVE inbox'[g] = <<>> /\ remote'[g] = {}
  <2>1. inbox[g] = <<>> /\ remote[g] = {}
    BY <1>2 DEF AbsentClean
  <2>2. ASSUME NEW i \in DOMAIN inbox'[g] PROVE FALSE
    <3>1. DOMAIN inbox[g] = {}
      BY <2>1
    <3>2. PICK m : m = inbox'[g][i]
      OBVIOUS
    <3>3. (\E a \in DOMAIN inbox[g] : m = inbox[g][a]) \/ Proper(g, m)
      BY <3>2, QueueMessages
    <3>4. m.obj \in objects' /\ Owner(m.obj) = g
      BY <3>1, <3>3 DEF Proper
    <3> QED BY <3>4, AdvanceGives
  <2>3. inbox'[g] = <<>>
    <3>1. PICK s : s = inbox'[g]
      OBVIOUS
    <3>2. s \in Seq(Message) /\ DOMAIN s = {}
      BY <2>2, <3>1 DEF Advance, TypeOK
    <3>3. Len(s) \in Nat /\ DOMAIN s = 1..Len(s)
      BY <3>2, LenProperties
    <3>4. Len(s) = 0
      BY <3>2, <3>3
    <3> QED BY <3>1, <3>2, <3>4, EmptySeq
  <2>4. remote'[g] = {}
    <3>1. \/ Leaves(g, q) \/ Asks(g, q, out) \/ Rests(g, q, out)
      BY <2>1, Movement DEF Takes
    <3> QED BY <2>1, <3>1 DEF Leaves, Asks, Rests, SameView
  <2> QED BY <2>3, <2>4
<1>3. Joined(g) => Leaves(g, q) /\ inbox'[g] = <<>>
  BY Movement DEF Takes, Asks, Rests
<1> QED BY <1>1, <1>2, <1>3

\* What becomes known was on its way, as an update.
LEMMA NewlyKnown ==
  ASSUME NEW q, NEW out, Advance(q, out), NEW g \in Federates, NEW o \in remote'[g], o \notin remote[g]
  PROVE  /\ Takes(g, q, out) /\ Moved(g, out, 1) /\ 1 \in DOMAIN inbox[g]
         /\ inbox[g][1].type = "update" /\ inbox[g][1].obj = o /\ o \notin unsub[g]
         /\ inbox[g][1] \in Message /\ Reads(g, inbox[g][1])
         /\ o.kind = "source" => inbox[g][1].named
<1>1. ~Leaves(g, q) /\ ~Asks(g, q, out) /\ ~Rests(g, q, out)
  BY DEF Leaves, Asks, Rests, SameView
<1>2. /\ Takes(g, q, out) /\ Moved(g, out, 1) /\ 1 \in DOMAIN inbox[g]
      /\ Head(inbox[g]) = inbox[g][1] /\ inbox[g][1] \in Message
  BY <1>1, Movement
<1>3. PICK m : m = inbox[g][1]
  OBVIOUS
<1>4. Handled(g, m, out)
  BY <1>2, <1>3 DEF Takes
<1>5. m.type = "update" /\ Reads(g, m)
  BY <1>4 DEF Handled, SameView
<1>6. m.obj = o /\ o \notin unsub[g] /\ (o.kind = "source" => m.named)
  BY <1>5 DEF Reads, SameView
<1> QED BY <1>2, <1>3, <1>5, <1>6

\* New messages are about objects there are.
LEMMA SettledNewsStep ==
  ASSUME NEW q, NEW out, Advance(q, out), SettledNews
  PROVE  SettledNews'
<1>0. \A g \in Federates : \A i \in DOMAIN inbox[g] : inbox[g][i].obj \in Objects
  <2>1. \A g \in Federates : \A i \in DOMAIN inbox[g] : inbox[g][i] \in Message
    BY GroundsGive DEF Advance, Queues
  <2> QED BY <2>1 DEF Message
<1>1. ASSUME NEW g \in Federates, NEW o \in remote'[g] PROVE o \in Objects /\ Settled(o)'
  <2>1. CASE o \in remote[g]
    BY <2>1, AdvanceGives DEF SettledNews
  <2>2. CASE o \notin remote[g]
    <3>1. 1 \in DOMAIN inbox[g] /\ inbox[g][1].type = "update" /\ inbox[g][1].obj = o
      BY <2>2, NewlyKnown
    <3>2. Settled(o)
      BY <3>1 DEF SettledNews
    <3> QED BY <1>0, <3>1, <3>2, AdvanceGives
  <2> QED BY <2>1, <2>2
<1>2. ASSUME NEW g \in Federates, NEW i \in DOMAIN inbox'[g], inbox'[g][i].type # "reserved"
      PROVE  Settled(inbox[g][i].obj)'
  <2>1. PICK m, o : m = inbox'[g][i] /\ o = m.obj
    OBVIOUS
  <2>2. ASSUME NEW a \in DOMAIN inbox[g], m = inbox[g][a] PROVE Settled(o) /\ o \in Objects
    BY <1>0, <1>2, <2>1, <2>2 DEF SettledNews
  <2>3. ASSUME Proper(g, m) PROVE o \in objects' \/ o \in objects
    <3>1. m \in Message
      BY <2>1 DEF Advance, TypeOK
    <3>2. m.type \in {"discover", "update", "provide", "remove"}
      BY <1>2, <2>1, <3>1 DEF Message
    <3> QED BY <2>1, <2>3, <3>2 DEF Proper
  <2>4. (\E a \in DOMAIN inbox[g] : m = inbox[g][a]) \/ Proper(g, m)
    BY <2>1, QueueMessages
  <2>5. (Settled(o) /\ o \in Objects) \/ o \in objects' \/ o \in objects
    BY <2>2, <2>3, <2>4
  <2>6. Settled(o)'
    BY <2>5, AdvanceGives
  <2> QED BY <2>1, <2>6 DEF Settled, Owner
<1> QED BY <1>1, <1>2 DEF SettledNews

\* New messages are sent to others.
LEMMA OwnerApartStep ==
  ASSUME NEW q, NEW out, Advance(q, out), OwnerApart
  PROVE  OwnerApart'
<1>1. ASSUME NEW g \in Federates, NEW o \in remote'[g] PROVE Owner(o) # g
  <2>1. CASE o \in remote[g]
    BY <2>1 DEF OwnerApart
  <2>2. CASE o \notin remote[g]
    BY <2>2, NewlyKnown DEF OwnerApart
  <2> QED BY <2>1, <2>2
<1>2. ASSUME NEW g \in Federates, NEW i \in DOMAIN inbox'[g],
             inbox'[g][i].type \in {"discover", "update", "remove"}
      PROVE  Owner(inbox'[g][i].obj) # g
  <2>1. PICK m : m = inbox'[g][i]
    OBVIOUS
  <2>2. ASSUME NEW a \in DOMAIN inbox[g], m = inbox[g][a] PROVE Owner(m.obj) # g
    BY <1>2, <2>1, <2>2 DEF OwnerApart
  <2>3. ASSUME Proper(g, m) PROVE Owner(m.obj) # g
    BY <1>2, <2>1, <2>3 DEF Proper
  <2>4. (\E a \in DOMAIN inbox[g] : m = inbox[g][a]) \/ Proper(g, m)
    BY <2>1, QueueMessages
  <2> QED BY <2>1, <2>2, <2>3, <2>4
<1> QED BY <1>1, <1>2 DEF OwnerApart, Owner

\* A name is not used again.
LEMMA RemovedIsGoneStep ==
  ASSUME NEW q, NEW out, Advance(q, out), SettledNews, RemovedIsGone
  PROVE  RemovedIsGone'
<1> SUFFICES ASSUME NEW g \in Federates, NEW i \in DOMAIN inbox'[g], inbox'[g][i].type = "remove"
             PROVE  inbox'[g][i].obj \notin objects'
  BY DEF RemovedIsGone
<1>1. PICK m : m = inbox'[g][i]
  OBVIOUS
<1>2. ASSUME NEW a \in DOMAIN inbox[g], m = inbox[g][a] PROVE m.obj \notin objects'
  <2>1. Settled(m.obj) /\ m.obj \notin objects
    BY <1>1, <1>2 DEF SettledNews, RemovedIsGone
  <2> QED BY <2>1, AdvanceGives
<1>3. ASSUME Proper(g, m) PROVE m.obj \notin objects'
  BY <1>1, <1>3 DEF Proper
<1>4. (\E a \in DOMAIN inbox[g] : m = inbox[g][a]) \/ Proper(g, m)
  BY <1>1, QueueMessages
<1> QED BY <1>1, <1>2, <1>3, <1>4

\* A target subscribes to all sources, and without one it unsubscribes.
LEMMA SubscribedStep ==
  ASSUME NEW q, NEW out, Advance(q, out), Subscribed
  PROVE  Subscribed'
<1> SUFFICES ASSUME NEW g \in Federates
             PROVE  /\ unsub'[g] \subseteq remote'[g]
                    /\ locals'[g]["target"] # <<>> =>
                         callback'[g] # 0 /\ \A o \in unsub'[g] : o.kind # "source"
  BY DEF Subscribed
<1>0. /\ unsub[g] \subseteq remote[g]
      /\ locals[g]["target"] # <<>> => callback[g] # 0 /\ \A o \in unsub[g] : o.kind # "source"
  BY DEF Subscribed
<1>1. CASE Takes(g, q, out)
  <2>1. PICK m : m = Head(inbox[g])
    OBVIOUS
  <2>2. Handled(g, m, out) /\ callback'[g] = callback[g] /\ NoNewTarget(g)
    BY <1>1, <2>1 DEF Takes
  <2>3. CASE unsub'[g] \subseteq unsub[g] /\ unsub'[g] \subseteq remote'[g]
    BY <1>0, <2>2, <2>3 DEF NoNewTarget
  <2>4. CASE m.type = "update" /\ Reads(g, m)
    <3>1. CASE unsub'[g] = unsub[g]
      <4>1. remote[g] \subseteq remote'[g]
        BY <2>4 DEF Reads, SameView
      <4> QED BY <1>0, <2>3, <3>1, <4>1
    <3>2. CASE unsub'[g] # unsub[g]
      <4>1. /\ unsub'[g] = unsub[g] \cup {m.obj} /\ remote'[g] = remote[g] \cup {m.obj}
            /\ locals[g]["target"] = <<>>
        BY <2>4, <3>2 DEF Reads, SameView
      <4>2. locals'[g]["target"] = <<>>
        BY <2>2, <4>1 DEF NoNewTarget
      <4> QED BY <1>0, <4>1, <4>2
    <3> QED BY <3>1, <3>2
  <2> QED BY <1>0, <2>2, <2>3, <2>4 DEF Handled, SameView
<1>2. CASE Asks(g, q, out)
  BY <1>0, <1>2 DEF Asks
<1>3. CASE Leaves(g, q)
  BY <1>3 DEF Leaves
<1>4. CASE Rests(g, q, out)
  BY <1>0, <1>4 DEF Rests, SameView, NoNewTarget
<1> QED BY <1>1, <1>2, <1>3, <1>4, Movement

\* A message that is not taken stays, and one that is sent arrives, ...
LEMMA Stays ==
  ASSUME NEW g \in Federates, NEW out, NEW c \in {0, 1}, Moved(g, out, c), NEW m
  PROVE  /\ \A a \in DOMAIN inbox[g] : inbox[g][a] = m /\ c < a => Has(g, m)'
         /\ c = 0 /\ Has(g, m) => Has(g, m)'
         /\ Has(g, m) /\ inbox[g][1] # m => Has(g, m)'
         /\ Sends(out, g, m) => Has(g, m)'
<1>1. \A a \in DOMAIN inbox[g] : inbox[g][a] = m /\ c < a => Has(g, m)'
  BY DEF Moved, Has
<1>2. Sends(out, g, m) => Has(g, m)'
  BY DEF Moved, Has
<1>3. \A a \in DOMAIN inbox[g] : a \in Nat /\ a >= 1
  BY DEF Moved
<1>4. ASSUME Has(g, m), c = 0 \/ inbox[g][1] # m PROVE Has(g, m)'
  <2>1. PICK a \in DOMAIN inbox[g] : inbox[g][a] = m
    BY <1>4 DEF Has
  <2>2. c < a
    BY <1>3, <1>4, <2>1
  <2> QED BY <1>1, <2>1, <2>2
<1> QED BY <1>1, <1>2, <1>4

\* ... behind the messages that are there already.
LEMMA StaysBehind ==
  ASSUME NEW g \in Federates, NEW out, NEW c \in {0, 1}, Moved(g, out, c), NEW m,
         NEW i \in DOMAIN inbox'[g], i + c \in DOMAIN inbox[g]
  PROVE  /\ Behind(g, i + c, m) => Behind(g, i, m)'
         /\ Sends(out, g, m) => Behind(g, i, m)'
<1>1. i \in Nat
  BY DEF Moved
<1>2. ASSUME Behind(g, i + c, m) PROVE Behind(g, i, m)'
  <2>1. PICK a \in DOMAIN inbox[g] : i + c < a /\ inbox[g][a] = m
    BY <1>2 DEF Behind
  <2>2. a \in Nat /\ c < a /\ i < a - c
    BY <1>1, <2>1 DEF Moved
  <2>3. a - c \in DOMAIN inbox'[g] /\ inbox'[g][a - c] = m
    BY <2>1, <2>2 DEF Moved
  <2> QED BY <2>2, <2>3 DEF Behind
<1>3. ASSUME Sends(out, g, m) PROVE Behind(g, i, m)'
  <2>1. PICK j \in DOMAIN inbox'[g] : inbox'[g][j] = m /\ i + c < j + c
    BY <1>3 DEF Moved
  <2>2. j \in Nat
    BY DEF Moved
  <2>3. i < j
    BY <1>1, <2>1, <2>2
  <2> QED BY <2>1, <2>3 DEF Behind
<1> QED BY <1>2, <1>3

\* What moves in the queue of a federate that has joined.
LEMMA JoinedMoves ==
  ASSUME NEW q, NEW out, Advance(q, out), NEW g \in Federates, Joined(g)'
  PROVE  /\ Moved(g, out, 0) \/ Moved(g, out, 1)
         /\ \/ Takes(g, q, out) /\ Moved(g, out, 1) /\ Handled(g, inbox[g][1], out)
               /\ 1 \in DOMAIN inbox[g] /\ inbox[g][1] \in Message
            \/ (Asks(g, q, out) \/ Rests(g, q, out)) /\ Moved(g, out, 0)
         /\ \A m : Sends(out, g, m) => Has(g, m)'
<1>1. ~Leaves(g, q)
  BY DEF Leaves
<1>2. \/ /\ Takes(g, q, out) /\ Moved(g, out, 1) /\ 1 \in DOMAIN inbox[g]
         /\ Head(inbox[g]) = inbox[g][1] /\ inbox[g][1] \in Message
      \/ (Asks(g, q, out) \/ Rests(g, q, out)) /\ Moved(g, out, 0)
  BY <1>1, Movement
<1>3. Takes(g, q, out) => Handled(g, Head(inbox[g]), out)
  BY DEF Takes
<1>4. Moved(g, out, 0) \/ Moved(g, out, 1)
  BY <1>2
<1>5. \A m : Sends(out, g, m) => Has(g, m)'
  BY <1>4 DEF Moved, Has
<1> QED BY <1>2, <1>3, <1>4, <1>5

\* What is known stays known as long as it exists.
LEMMA KnownStays ==
  ASSUME NEW q, NEW out, Advance(q, out), RemovedIsGone, NEW g \in Federates, Joined(g)',
         NEW o \in remote[g], o \notin remote'[g]
  PROVE  /\ Takes(g, q, out) /\ Moved(g, out, 1) /\ 1 \in DOMAIN inbox[g]
         /\ inbox[g][1].type = "remove" /\ inbox[g][1].obj = o /\ o \notin objects
<1>1. ~Asks(g, q, out) /\ ~Rests(g, q, out)
  BY DEF Asks, Rests, SameView
<1>2. /\ Takes(g, q, out) /\ Moved(g, out, 1) /\ 1 \in DOMAIN inbox[g]
      /\ Handled(g, inbox[g][1], out)
  BY <1>1, JoinedMoves
<1>3. PICK m : m = inbox[g][1]
  OBVIOUS
<1>4. Handled(g, m, out)
  BY <1>2, <1>3
<1>5. m.type = "remove" /\ m.obj = o
  BY <1>4 DEF Handled, Reads, SameView
<1> QED BY <1>2, <1>3, <1>5 DEF RemovedIsGone

\* The object goes in the step that sends the removal, and later messages are about others.
LEMMA GoneIsNoticedStep ==
  ASSUME NEW q, NEW out, Advance(q, out), Views
  PROVE  GoneIsNoticed'
<1>0. /\ AbsentClean /\ SettledNews /\ OwnerApart /\ RemovedIsGone /\ Subscribed /\ GoneIsNoticed
      /\ AbsentClean' /\ OwnerApart'
  BY AbsentCleanStep, OwnerApartStep DEF Views
<1>1. ASSUME NEW g \in Federates, NEW o \in objects, o \notin objects', Owner(o) # g, Joined(g)'
      PROVE  Sends(out, g, Removed(o))
  BY <1>1 DEF Advance, Flow, ObjectsFlow
<1>2. ASSUME NEW g \in Federates, NEW o \in remote'[g] PROVE o \in objects' \/ Has(g, Removed(o))'
  <2> SUFFICES ASSUME o \notin objects' PROVE Has(g, Removed(o))'
    OBVIOUS
  <2>1. Joined(g)' /\ Owner(o) # g
    BY <1>0 DEF AbsentClean, OwnerApart, Owner
  <2>2. o \in objects => Has(g, Removed(o))'
    BY <1>1, <2>1, JoinedMoves
  <2>3. CASE o \notin objects /\ o \in remote[g]
    <3>1. Has(g, Removed(o))
      BY <1>0, <2>3 DEF GoneIsNoticed
    <3>2. CASE Moved(g, out, 0)
      BY <3>1, <3>2, Stays
    <3>3. CASE Takes(g, q, out) /\ Moved(g, out, 1) /\ Handled(g, inbox[g][1], out)
      <4>1. inbox[g][1] # Removed(o)
        <5>1. Removed(o).type = "remove" /\ Removed(o).obj = o
          BY DEF Removed
        <5>2. PICK m : m = inbox[g][1]
          OBVIOUS
        <5>3. Handled(g, m, out)
          BY <3>3, <5>2
        <5>4. m.type = "remove" /\ m.obj = o => o \notin remote'[g]
          BY <5>3 DEF Handled
        <5> QED BY <5>1, <5>2, <5>4
      <4> QED BY <3>1, <3>3, <4>1, Stays
    <3> QED BY <2>1, <3>2, <3>3, JoinedMoves
  <2>4. CASE o \notin objects /\ o \notin remote[g]
    <3>1. Moved(g, out, 1) /\ 1 \in DOMAIN inbox[g] /\ inbox[g][1].type = "update" /\ inbox[g][1].obj = o
      BY <2>4, NewlyKnown
    <3>2. Behind(g, 1, Removed(o))
      BY <1>0, <2>4, <3>1 DEF GoneIsNoticed
    <3>3. PICK a \in DOMAIN inbox[g] : 1 < a /\ inbox[g][a] = Removed(o)
      BY <3>2 DEF Behind
    <3> QED BY <3>1, <3>3, Stays
  <2> QED BY <2>2, <2>3, <2>4
<1>3. ASSUME NEW g \in Federates, NEW i \in DOMAIN inbox'[g], inbox'[g][i].type = "update"
      PROVE  inbox'[g][i].obj \in objects' \/ Behind(g, i, Removed(inbox[g][i].obj))'
  <2>1. PICK m, o : m = inbox'[g][i] /\ o = m.obj
    OBVIOUS
  <2>2. Joined(g)' /\ Owner(o) # g
    <3>1. Joined(g)'
      BY <1>0, <1>3 DEF AbsentClean
    <3>2. Owner(o) # g
      BY <1>0, <1>3, <2>1 DEF OwnerApart, Owner
    <3> QED BY <3>1, <3>2
  <2>3. PICK c \in {0, 1} : Moved(g, out, c)
    BY <2>2, JoinedMoves
  <2>4. CASE \E b \in DOMAIN out[g] : m = out[g][b]
    <3>1. Proper(g, m)
      BY <2>4, AdvanceGives DEF AllProper
    <3> QED BY <1>3, <2>1, <3>1 DEF Proper
  <2>5. CASE i + c \in DOMAIN inbox[g] /\ m = inbox[g][i + c]
    <3>1. o \in objects \/ Behind(g, i + c, Removed(o))
      BY <1>0, <1>3, <2>1, <2>5 DEF GoneIsNoticed
    <3>2. o \in objects' \/ Behind(g, i, Removed(o))'
      BY <1>1, <2>2, <2>3, <2>5, <3>1, StaysBehind
    <3> QED BY <2>1, <3>2 DEF Behind, Removed
  <2> QED BY <2>1, <2>3, <2>4, <2>5 DEF Moved
<1> QED BY <1>2, <1>3 DEF GoneIsNoticed

\* A message to a federate that has joined stays in its queue until it is handled.
LEMMA TakenOrKept ==
  ASSUME NEW q, NEW out, Advance(q, out), NEW g \in Federates, Joined(g)', NEW m, Has(g, m)
  PROVE  Has(g, m)' \/ (Takes(g, q, out) /\ inbox[g][1] = m /\ Handled(g, m, out))
<1>1. CASE Moved(g, out, 0)
  BY <1>1, Stays
<1>2. CASE Takes(g, q, out) /\ Moved(g, out, 1) /\ Handled(g, inbox[g][1], out)
  <2>1. inbox[g][1] # m => Has(g, m)'
    BY <1>2, Stays
  <2> QED BY <1>2, <2>1
<1> QED BY <1>1, <1>2, JoinedMoves

\* The messages about one object differ.
LEMMA MessageFields ==
  ASSUME NEW o, NEW named, NEW v
  PROVE  /\ Discover(o).type = "discover" /\ Discover(o).obj = o
         /\ Provide(o, named).type = "provide" /\ Provide(o, named).obj = o
         /\ Provide(o, named).named = named
         /\ Update(o, named, v).type = "update" /\ Update(o, named, v).obj = o
         /\ Update(o, named, v).named = named /\ Update(o, named, v).value = v
BY DEF Discover, Provide, Update

\* The owner answers a request to those that have not unsubscribed.
LEMMA OwnerAnswers ==
  ASSUME NEW q, NEW out, Advance(q, out), NEW o \in objects, HasMember(o), NEW n,
         Handled(Owner(o), n, out), NEW g \in Federates, Joined(g), Owner(o) # g,
         o \notin unsub[g]
  PROVE  /\ n = Provide(o, TRUE) => Sends(out, g, Update(o, TRUE, written[o.name]))
         /\ n = Provide(o, FALSE) /\ o.kind = "source" /\ written[o.name] # 0 =>
              Sends(out, g, Update(o, FALSE, written[o.name]))
<1>1. PICK f : f = Owner(o)
  OBVIOUS
<1>2. g \in Others(f)
  BY <1>1 DEF Others
<1>3. ASSUME n.type = "provide", n.obj = o PROVE Answers(f, n, out)
  BY <1>1, <1>3 DEF Handled
<1>4. ASSUME n = Provide(o, TRUE) PROVE Sends(out, g, Update(o, TRUE, written[o.name]))
  <2>1. n.type = "provide" /\ n.obj = o /\ n.named
    BY <1>4 DEF Provide
  <2> QED BY <1>2, <1>3, <2>1 DEF Answers
<1>5. ASSUME n = Provide(o, FALSE), o.kind = "source", written[o.name] # 0
      PROVE  Sends(out, g, Update(o, FALSE, written[o.name]))
  <2>1. n.type = "provide" /\ n.obj = o /\ ~n.named
    BY <1>5 DEF Provide
  <2> QED BY <1>2, <1>3, <1>5, <2>1 DEF Answers
<1> QED BY <1>4, <1>5

\* Each message that is taken sends the next one of the three.
LEMMA WillBeKnownStep ==
  ASSUME NEW q, NEW out, Advance(q, out), Views, WillBeKnown
  PROVE  WillBeKnown'
<1> SUFFICES ASSUME NEW g \in Federates, NEW o \in objects', Joined(g)', Owner(o) # g,
                    HasMember(o)', o \notin remote'[g]
             PROVE  \/ \E i \in DOMAIN inbox'[g] : NameOf(inbox'[g][i], o)
                    \/ Has(g, Discover(o))'
                    \/ Has(Owner(o), Provide(o, TRUE))'
  <2>1. ASSUME NEW g \in Federates, NEW o \in objects'
        PROVE  /\ Elsewhere(g, o)' => Joined(g)' /\ Owner(o) # g /\ HasMember(o)'
               /\ Has(Owner(o), Provide(o, TRUE))' <=>
                    \E i \in DOMAIN inbox'[Owner(o)] : inbox'[Owner(o)][i] = Provide(o, TRUE)
               /\ Has(g, Discover(o))' <=>
                    \E i \in DOMAIN inbox'[g] : inbox'[g][i] = Discover(o)
    BY DEF Elsewhere, HasMember, Has, Owner, Provide, Discover
  <2> QED BY <2>1 DEF WillBeKnown, NameOf
<1>1. /\ o \in Objects /\ Joined(Owner(o))' /\ Owner(o) \in Federates
      /\ o \in objects => HasMember(o)
  BY AdvanceGives, ObjectParts
<1>2. CASE o \notin objects
  <2>1. Sends(out, g, Discover(o))
    BY <1>2 DEF Advance, Flow, ObjectsFlow
  <2> QED BY <2>1, JoinedMoves
<1>3. CASE ~Joined(g)
  <2>1. Sends(out, g, Discover(o))
    BY <1>3, JoinedMoves DEF Takes, Asks, Rests
  <2> QED BY <2>1, JoinedMoves
<1>4. CASE o \in objects /\ Joined(g)
  <2>1. o \notin remote[g] /\ o \notin unsub[g]
    <3>1. o \notin remote[g]
      BY <1>4, KnownStays DEF Views
    <3> QED BY <3>1 DEF Views, Subscribed
  <2>2. \/ \E i \in DOMAIN inbox[g] : NameOf(inbox[g][i], o)
        \/ Has(g, Discover(o)) \/ Has(Owner(o), Provide(o, TRUE))
    BY <1>1, <1>4, <2>1 DEF WillBeKnown, Elsewhere
  <2>3. CASE \E i \in DOMAIN inbox[g] : NameOf(inbox[g][i], o)
    <3>1. PICK m : Has(g, m) /\ NameOf(m, o)
      BY <2>3 DEF Has
    <3>2. ~Handled(g, m, out)
      BY <2>1, <3>1 DEF Handled, Reads, NameOf
    <3>3. Has(g, m)'
      BY <3>1, <3>2, TakenOrKept
    <3> QED BY <3>1, <3>3 DEF Has
  <2>4. CASE Has(g, Discover(o))
    <3>1. ASSUME Handled(g, Discover(o), out) PROVE Has(Owner(o), Provide(o, TRUE))'
      <4>1. PICK m : m = Discover(o)
        OBVIOUS
      <4>2. m.type = "discover" /\ m.obj = o /\ Handled(g, m, out)
        BY <3>1, <4>1, MessageFields
      <4>3. Sends(out, Owner(o), Provide(o, TRUE))
        BY <1>4, <4>2 DEF Handled
      <4>4. PICK f, n : f = Owner(o) /\ n = Provide(o, TRUE)
        OBVIOUS
      <4>5. Has(f, n)'
        BY <1>1, <4>3, <4>4, JoinedMoves
      <4> QED BY <4>4, <4>5 DEF Has, Owner, Provide
    <3>2. PICK m : m = Discover(o)
      OBVIOUS
    <3>3. Has(g, m)' \/ Handled(g, m, out)
      BY <2>4, <3>2, TakenOrKept
    <3> QED BY <3>1, <3>2, <3>3 DEF Has, Discover
  <2>5. CASE Has(Owner(o), Provide(o, TRUE))
    <3>1. PICK f, n : f = Owner(o) /\ n = Provide(o, TRUE)
      OBVIOUS
    <3>2. Joined(f)' /\ f \in Federates /\ Has(f, n)
      BY <1>1, <2>5, <3>1
    <3>3. Has(f, n)' \/ Handled(f, n, out)
      BY <3>2, TakenOrKept
    <3>4. ASSUME Handled(f, n, out) PROVE \E i \in DOMAIN inbox'[g] : NameOf(inbox'[g][i], o)
      <4>1. PICK m : m = Update(o, TRUE, written[o.name])
        OBVIOUS
      <4>2. Sends(out, g, m)
        <5>1. Handled(Owner(o), n, out)
          BY <3>1, <3>4
        <5>2. Sends(out, g, Update(o, TRUE, written[o.name]))
          BY <1>1, <1>4, <2>1, <3>1, <5>1, OwnerAnswers
        <5> QED BY <4>1, <5>2
      <4>3. NameOf(m, o)
        BY <4>1 DEF NameOf, Update
      <4>4. Has(g, m)'
        BY <4>2, JoinedMoves
      <4> QED BY <4>3, <4>4 DEF Has
    <3> QED BY <3>1, <3>3, <3>4 DEF Has, Owner, Provide
  <2> QED BY <2>2, <2>3, <2>4, <2>5
<1> QED BY <1>2, <1>3, <1>4

\* New data of a source goes to everybody that has not unsubscribed.
LEMMA NewDataSent ==
  ASSUME NEW q, NEW out, Advance(q, out), NEW o \in objects, HasMember(o),
         written'[o.name] # written[o.name], NEW g \in Federates, Joined(g), Owner(o) # g,
         o \notin unsub[g]
  PROVE  Sends(out, g, Update(o, FALSE, written'[o.name]))
<1>1. PICK f, m : f = Owner(o) /\ m = Update(o, FALSE, written'[o.name])
  OBVIOUS
<1>2. g \in Others(f)
  BY <1>1 DEF Others
<1>3. \A h \in Others(f) : o \notin unsub[h] => Sends(out, h, m)
  BY <1>1 DEF Advance, Flow, WrittenFlow
<1> QED BY <1>1, <1>2, <1>3

\* Data is written in the step that sends it.
LEMMA FirstNewsStep ==
  ASSUME NEW q, NEW out, Advance(q, out), Views, FirstNews
  PROVE  FirstNews'
<1> SUFFICES ASSUME NEW g \in Federates, NEW o \in objects', Joined(g)', Owner(o) # g,
                    HasMember(o)', o \notin remote'[g], o.kind = "source",
                    NEW i \in DOMAIN inbox'[g], NameOf(inbox'[g][i], o)
             PROVE  \/ inbox'[g][i].value = written'[o.name]
                    \/ \E j \in DOMAIN inbox'[g] :
                         i < j /\ inbox'[g][j] = Update(o, FALSE, written'[o.name])
  BY DEF FirstNews, Elsewhere, HasMember, Owner, Behind, NameOf, Update
<1>1. PICK m, w : m = inbox'[g][i] /\ w = Update(o, FALSE, written'[o.name])
  OBVIOUS
<1>2. m.type = "update" /\ m.named /\ m.obj = o /\ NameOf(m, o)
  BY <1>1 DEF NameOf
<1>3. PICK c \in {0, 1} : Moved(g, out, c)
  BY JoinedMoves
<1>4. CASE \E b \in DOMAIN out[g] : m = out[g][b]
  <2>1. Proper(g, m)
    BY <1>4, AdvanceGives DEF AllProper
  <2> QED BY <1>1, <1>2, <2>1 DEF Proper
<1>5. CASE i + c \in DOMAIN inbox[g] /\ m = inbox[g][i + c]
  <2>1. o \in objects /\ HasMember(o)
    <3>1. Settled(o)
      BY <1>2, <1>5 DEF Views, SettledNews
    <3> QED BY <3>1, AdvanceGives
  <2>2. Joined(g)
    BY <1>5 DEF Views, AbsentClean
  <2>3. o \notin remote[g]
    BY <2>1, KnownStays DEF Views
  <2>4. o \notin unsub[g]
    BY <2>3 DEF Views, Subscribed
  <2>5. m.value = written[o.name] \/ Behind(g, i + c, Update(o, FALSE, written[o.name]))
    BY <1>2, <1>5, <2>1, <2>2, <2>3 DEF FirstNews, Elsewhere
  <2>6. CASE written'[o.name] = written[o.name]
    <3>1. m.value = written'[o.name] \/ Behind(g, i + c, w)
      BY <1>1, <2>5, <2>6
    <3>2. Behind(g, i + c, w) => Behind(g, i, w)'
      BY <1>3, <1>5, StaysBehind
    <3> QED BY <1>1, <3>1, <3>2 DEF Behind
  <2>7. CASE written'[o.name] # written[o.name]
    <3>1. Sends(out, g, w)
      BY <1>1, <2>1, <2>2, <2>4, <2>7, NewDataSent
    <3>2. Behind(g, i, w)'
      BY <1>3, <1>5, <3>1, StaysBehind
    <3> QED BY <1>1, <3>2 DEF Behind
  <2> QED BY <2>6, <2>7
<1> QED BY <1>1, <1>3, <1>4, <1>5 DEF Moved

\* As long as a callback is not installed anew its data only gets newer, and never newer
\* than what was published.
LEMMA GotGrows ==
  ASSUME NEW q, NEW out, Advance(q, out), NEW g \in Federates, Takes(g, q, out) \/ Rests(g, q, out),
         NEW n \in Names
  PROVE  /\ got[g][n] \in Nat /\ got'[g][n] \in Nat /\ written'[n] \in Nat /\ written[n] \in Nat
         /\ got[g][n] <= got'[g][n] /\ got'[g][n] <= written'[n]
<1>1. TypeOK /\ TypeOK' /\ QueuesOrdered /\ QueuesOrdered'
  BY GroundsGive DEF Advance
<1>2. /\ got[g] \in [Names -> 0..MaxValues] /\ got[g][n] \in 0..MaxValues
      /\ got'[g][n] \in 0..MaxValues /\ written'[n] \in 0..MaxValues /\ written[n] \in 0..MaxValues
  BY <1>1 DEF TypeOK
<1>3. got[g][n] \in Nat /\ got'[g][n] \in Nat /\ written'[n] \in Nat /\ written[n] \in Nat
  BY <1>2, Bounds
<1>4. got'[g][n] <= written'[n]
  BY <1>1 DEF QueuesOrdered
<1>5. got[g][n] <= got'[g][n]
  <2>1. CASE got'[g] = got[g]
    BY <1>3, <2>1
  <2>2. CASE got'[g] # got[g]
    <3>1. /\ Takes(g, q, out) /\ 1 \in DOMAIN inbox[g]
          /\ Head(inbox[g]) = inbox[g][1] /\ inbox[g][1] \in Message
      <4>1. Takes(g, q, out)
        BY <2>2 DEF Rests, SameView
      <4>2. inbox[g] # <<>>
        BY <4>1 DEF Takes
      <4> QED BY <4>1, <4>2, HeadMessage DEF Advance
    <3>2. PICK m : m = inbox[g][1]
      OBVIOUS
    <3>3. Handled(g, m, out)
      BY <3>1, <3>2 DEF Takes
    <3>4. m.type = "update" /\ got'[g] = [got[g] EXCEPT ![m.obj.name] = m.value]
      BY <2>2, <3>3 DEF Handled, Reads, SameView
    <3>5. m.value \in 0..MaxValues /\ got[g][m.obj.name] <= m.value
      <4>1. Ordered(inbox[g], got[g], written)
        BY <1>1 DEF QueuesOrdered
      <4> QED BY <3>1, <3>2, <3>4, <4>1 DEF Ordered, Message
    <3>6. got'[g][n] = IF n = m.obj.name THEN m.value ELSE got[g][n]
      BY <1>2, <3>4
    <3> QED BY <1>3, <3>5, <3>6
  <2> QED BY <2>1, <2>2
<1> QED BY <1>3, <1>4, <1>5

\* The data of a known source is delivered, or still on its way.
LEMMA KnownNews ==
  ASSUME NEW q, NEW out, Advance(q, out), Views, LatestNews, NEW g \in Federates,
         NEW o \in objects, o \in Objects, HasMember(o), Joined(Owner(o))', Joined(g)', Joined(g),
         Owner(o) # g, o.kind = "source", o \in remote[g], o \notin unsub[g],
         locals[g]["target"] # <<>>, callback[g] # 0, Takes(g, q, out) \/ Rests(g, q, out),
         written'[o.name] = written[o.name],
         NEW m, m = Update(o, FALSE, written[o.name]),
         NEW f, f = Owner(o), NEW n, n = Provide(o, FALSE)
  PROVE  got'[g][o.name] = written'[o.name] \/ Has(g, m)' \/ Has(f, n)'
<1>1. f \in Federates /\ o.name \in Names
  BY ObjectParts
<1>2. /\ got[g][o.name] \in Nat /\ got'[g][o.name] \in Nat
      /\ written'[o.name] \in Nat /\ written[o.name] \in Nat
      /\ got[g][o.name] <= got'[g][o.name] /\ got'[g][o.name] <= written'[o.name]
  BY <1>1, GotGrows
<1>3. got[g][o.name] = written[o.name] \/ Has(g, m) \/ Has(f, n)
  BY DEF LatestNews
<1>4. CASE got[g][o.name] = written[o.name]
  <2>1. \A a, b, c \in Nat : a <= b /\ b <= c /\ a = c => b = c
    OBVIOUS
  <2>2. got[g][o.name] = written'[o.name]
    BY <1>4
  <2> QED BY <1>2, <2>1, <2>2
<1>5. CASE Has(g, m)
  <2>1. Has(g, m)' \/ Handled(g, m, out)
    BY <1>5, TakenOrKept
  <2>2. ASSUME Handled(g, m, out) PROVE got'[g][o.name] = written'[o.name]
    <3>1. m.type = "update" /\ ~m.named /\ m.obj = o /\ m.value = written[o.name]
      BY DEF Update
    <3>2. Reads(g, m)
      BY <2>2, <3>1 DEF Handled
    <3>3. got'[g] = [got[g] EXCEPT ![o.name] = written[o.name]]
      BY <3>1, <3>2 DEF Reads
    <3>4. got[g] \in [Names -> 0..MaxValues]
      BY GroundsGive DEF Advance, TypeOK
    <3> QED BY <1>1, <3>3, <3>4
  <2> QED BY <2>1, <2>2
<1>6. CASE Has(f, n)
  <2>1. Has(f, n)' \/ Handled(f, n, out)
    BY <1>1, <1>6, TakenOrKept
  <2>2. ASSUME Handled(f, n, out), written[o.name] # 0 PROVE Has(g, m)'
    <3>1. Handled(Owner(o), n, out)
      BY <2>2
    <3>2. Sends(out, g, m)
      BY <2>2, <3>1, OwnerAnswers
    <3> QED BY <3>2, JoinedMoves
  <2>3. written[o.name] = 0 => got'[g][o.name] = written'[o.name]
    BY <1>2
  <2> QED BY <2>1, <2>2, <2>3
<1> QED BY <1>3, <1>4, <1>5, <1>6

\* So is the data of one that becomes known.
LEMMA NewlyKnownNews ==
  ASSUME NEW q, NEW out, Advance(q, out), Views, FirstNews, NEW g \in Federates,
         NEW o \in objects, o \in Objects, HasMember(o), Joined(g),
         Owner(o) # g, o.kind = "source", o \notin remote[g], o \in remote'[g],
         locals[g]["target"] # <<>>, written'[o.name] = written[o.name],
         NEW m, m = Update(o, FALSE, written[o.name])
  PROVE  got'[g][o.name] = written'[o.name] \/ Has(g, m)'
<1>1. /\ Takes(g, q, out) /\ Moved(g, out, 1) /\ 1 \in DOMAIN inbox[g]
      /\ inbox[g][1].type = "update" /\ inbox[g][1].obj = o /\ o \notin unsub[g]
      /\ inbox[g][1].named /\ Reads(g, inbox[g][1])
  BY NewlyKnown
<1>2. PICK h : h = inbox[g][1]
  OBVIOUS
<1>3. h.type = "update" /\ h.named /\ h.obj = o /\ NameOf(h, o) /\ Reads(g, h)
  BY <1>1, <1>2 DEF NameOf
<1>4. h.value = written[o.name] \/ Behind(g, 1, m)
  BY <1>1, <1>2, <1>3 DEF FirstNews, Elsewhere
<1>5. CASE Behind(g, 1, m)
  <2>1. PICK a \in DOMAIN inbox[g] : 1 < a /\ inbox[g][a] = m
    BY <1>5 DEF Behind
  <2> QED BY <1>1, <2>1, Stays
<1>6. CASE h.value = written[o.name]
  <2>1. o.name \in Names
    BY ObjectParts
  <2>2. /\ got'[g][o.name] \in Nat /\ got'[g][o.name] <= written'[o.name]
        /\ written'[o.name] \in Nat
    BY <1>1, <2>1, GotGrows
  <2>3. written'[o.name] = 0 => got'[g][o.name] = written'[o.name]
    BY <2>2
  <2>4. ASSUME h.value # 0 PROVE got'[g][o.name] = written'[o.name]
    <3>1. got'[g] = [got[g] EXCEPT ![o.name] = h.value]
      BY <1>1, <1>3, <2>4 DEF Reads
    <3>2. got[g] \in [Names -> 0..MaxValues]
      BY GroundsGive DEF Advance, TypeOK
    <3> QED BY <1>6, <2>1, <3>1, <3>2
  <2> QED BY <1>6, <2>3, <2>4
<1> QED BY <1>4, <1>5, <1>6

\* A target that comes asks; an update that is taken is read, or a later one is behind it.
LEMMA LatestNewsStep ==
  ASSUME NEW q, NEW out, Advance(q, out), Views, FirstNews, LatestNews
  PROVE  LatestNews'
<1> SUFFICES ASSUME NEW g \in Federates, NEW o \in objects', HasMember(o)', o \in remote'[g],
                    o.kind = "source", locals'[g]["target"] # <<>>
             PROVE  \/ got'[g][o.name] = written'[o.name]
                    \/ \E i \in DOMAIN inbox'[g] : inbox'[g][i] = Update(o, FALSE, written'[o.name])
                    \/ \E i \in DOMAIN inbox'[Owner(o)] : inbox'[Owner(o)][i] = Provide(o, FALSE)
  BY DEF LatestNews, HasMember, Owner, Has, Update, Provide
<1>1. PICK m, f, n : m = Update(o, FALSE, written'[o.name]) /\ f = Owner(o) /\ n = Provide(o, FALSE)
  OBVIOUS
<1> SUFFICES got'[g][o.name] = written'[o.name] \/ Has(g, m)' \/ Has(f, n)'
  BY <1>1 DEF Has
<1>2. o \in Objects /\ Joined(f)' /\ f \in Federates /\ f # g /\ Joined(g)'
  <2>1. AbsentClean' /\ OwnerApart'
    BY AbsentCleanStep, OwnerApartStep DEF Views
  <2>2. Joined(g)' /\ Owner(o) # g
    BY <2>1 DEF AbsentClean, OwnerApart, Owner
  <2> QED BY <1>1, <2>2, AdvanceGives, ObjectParts
<1>3. o \in objects /\ HasMember(o) /\ Joined(g)
  <2>1. CASE o \in remote[g]
    BY <2>1, AdvanceGives DEF Views, SettledNews, AbsentClean
  <2>2. CASE o \notin remote[g]
    <3>1. 1 \in DOMAIN inbox[g] /\ inbox[g][1].type = "update" /\ inbox[g][1].obj = o
      BY <2>2, NewlyKnown
    <3>2. Settled(o)
      BY <3>1 DEF Views, SettledNews
    <3>3. Joined(g)
      BY <3>1 DEF Views, AbsentClean
    <3> QED BY <3>2, <3>3, AdvanceGives
  <2> QED BY <2>1, <2>2
<1>4. CASE Asks(g, q, out)
  <2>1. Sends(out, f, n)
    BY <1>1, <1>3, <1>4 DEF Asks
  <2> QED BY <1>2, <2>1, JoinedMoves
<1>5. CASE Takes(g, q, out) \/ Rests(g, q, out)
  <2>1. locals[g]["target"] # <<>>
    BY <1>5 DEF Takes, Rests, NoNewTarget
  <2>2. callback[g] # 0 /\ o \notin unsub[g]
    BY <2>1 DEF Views, Subscribed
  <2>3. CASE written'[o.name] # written[o.name]
    <3>1. Sends(out, g, m)
      BY <1>1, <1>2, <1>3, <2>2, <2>3, NewDataSent
    <3> QED BY <1>2, <3>1, JoinedMoves
  <2>4. CASE written'[o.name] = written[o.name] /\ o \in remote[g]
    <3>1. m = Update(o, FALSE, written[o.name])
      BY <1>1, <2>4
    <3> QED BY <1>1, <1>2, <1>3, <1>5, <2>1, <2>2, <2>4, <3>1, KnownNews
  <2>5. CASE written'[o.name] = written[o.name] /\ o \notin remote[g]
    <3>1. m = Update(o, FALSE, written[o.name])
      BY <1>1, <2>5
    <3> QED BY <1>1, <1>2, <1>3, <2>1, <2>5, <3>1, NewlyKnownNews
  <2> QED BY <2>3, <2>4, <2>5
<1> QED BY <1>2, <1>4, <1>5, JoinedMoves

-----------------------------------------------------------------------------
(* Every state has them.                                                        *)

\* At first there is no object, nothing is known and nothing is on its way.
LEMMA NewsInit ==
  Init => OwnersJoined /\ Views /\ News
<1> SUFFICES ASSUME Init PROVE OwnersJoined /\ Views /\ News
  OBVIOUS
<1>1. objects = {}
  BY DEF Init
<1>2. ASSUME NEW g \in Federates
      PROVE  inbox[g] = <<>> /\ remote[g] = {} /\ unsub[g] = {} /\ locals[g]["target"] = <<>>
  BY DEF Init, Nothing, Kinds
<1>3. \A g \in Federates : DOMAIN inbox[g] = {}
  BY <1>2
<1>4. AbsentClean
  BY <1>2 DEF AbsentClean
<1>5. SettledNews
  BY <1>2, <1>3 DEF SettledNews
<1>6. OwnerApart
  BY <1>2, <1>3 DEF OwnerApart
<1>7. RemovedIsGone
  BY <1>3 DEF RemovedIsGone
<1>8. Subscribed
  BY <1>2 DEF Subscribed
<1>9. GoneIsNoticed
  BY <1>2, <1>3 DEF GoneIsNoticed
<1>10. OwnersJoined /\ WillBeKnown /\ FirstNews /\ LatestNews
  BY <1>1 DEF OwnersJoined, WillBeKnown, FirstNews, LatestNews
<1> QED BY <1>4, <1>5, <1>6, <1>7, <1>8, <1>9, <1>10 DEF Views, News

\* A step keeps them.
LEMMA NewsStep ==
  ASSUME Grounds, Views, News, [Next]_vars
  PROVE  OwnersJoined' /\ Views' /\ News'
<1>1. PICK q, out : Flow(q, out)
  BY FlowSteps
<1>2. TypeInv /\ HandlesKnown /\ PromiseInv /\ ValuesInv /\ ObjectsRegistered
  BY DEF Grounds, PromiseInv
<1>3. TypeOK' /\ LocalChange /\ ObjectsRegistered'
  BY <1>2, TypesStep, LocalSteps, ObjectsRegisteredStep DEF TypeInv
<1>4. QueuesOrdered'
  BY <1>2, <1>3, QueuesOrderedStep
<1>5. Advance(q, out)
  BY <1>1, <1>3, <1>4 DEF Advance
<1>6. OwnersJoined'
  <2>1. \A o \in objects' : Joined(Owner(o))'
    BY <1>5, AdvanceGives
  <2> QED BY <2>1 DEF OwnersJoined, Owner
<1>7. Views'
  <2>1. /\ AbsentClean /\ SettledNews /\ OwnerApart /\ RemovedIsGone /\ Subscribed
    BY DEF Views
  <2>2. AbsentClean' /\ SettledNews' /\ OwnerApart'
    BY <1>5, <2>1, AbsentCleanStep, SettledNewsStep, OwnerApartStep
  <2>3. RemovedIsGone' /\ Subscribed' /\ GoneIsNoticed'
    BY <1>5, <2>1, RemovedIsGoneStep, SubscribedStep, GoneIsNoticedStep
  <2> QED BY <2>2, <2>3 DEF Views
<1>8. News'
  <2>1. WillBeKnown /\ FirstNews /\ LatestNews
    BY DEF News
  <2>2. WillBeKnown' /\ FirstNews' /\ LatestNews'
    BY <1>5, <2>1, WillBeKnownStep, FirstNewsStep, LatestNewsStep
  <2> QED BY <2>2 DEF News
<1> QED BY <1>6, <1>7, <1>8

\* Hence they hold in every state.
LEMMA NewsHolds ==
  Spec => [](OwnersJoined /\ Views /\ News)
<1>1. /\ TypeInv /\ HandlesKnown /\ PromiseInv /\ NotYet /\ MembersHaveObjects
      /\ OwnersJoined /\ Views /\ News /\ [Next]_vars
      => OwnersJoined' /\ Views' /\ News'
  BY NewsStep DEF Grounds
<1> QED BY <1>1, NewsInit, TypesHold, PromiseInvHolds, NotYetHolds, PTL DEF Spec

\* When nothing is on its way, a federate knows exactly the objects elsewhere
\* (discoverObjectInstance, removeObjectInstance): what GoneIsNoticed and WillBeKnown
\* say of empty queues.  Unregistering while the federate waits for the measurement
\* leaves the HLA object without a member that could answer for it.
THEOREM RemoteViewExact ==
  ASSUME "WaitForMeasurementInit" \notin UnregisterIn
  PROVE  Spec => []RemoteViewIsExact
<1>1. TypeInv /\ Views /\ News /\ ObjectsAreLocal => RemoteViewIsExact
  <2> SUFFICES ASSUME TypeInv, Views, News, ObjectsAreLocal, Quiet, NEW f \in Federates, Joined(f)
               PROVE  remote[f] = {o \in objects : Owner(o) # f}
    BY DEF RemoteViewIsExact
  <2>1. \A g \in Federates : \A m : ~Has(g, m) /\ DOMAIN inbox[g] = {}
    BY DEF Quiet, Has
  <2>2. ASSUME NEW o \in remote[f] PROVE o \in objects /\ Owner(o) # f
    BY <2>1 DEF Views, GoneIsNoticed, OwnerApart
  <2>3. ASSUME NEW o \in objects, Owner(o) # f PROVE o \in remote[f]
    <3>1. HasMember(o)
      BY DEF ObjectsAreLocal
    <3>2. Owner(o) \in Federates
      BY ObjectParts DEF TypeInv, TypeOK
    <3> QED BY <2>1, <2>3, <3>1, <3>2 DEF News, WillBeKnown, Elsewhere
  <2> QED BY <2>2, <2>3
<1> QED BY <1>1, NewsHolds, TypesHold, ObjectsAreLocalHolds, PTL

\* When nothing is on its way, the callback of a target has last been called with the last
\* data of every source elsewhere (HandleDOSourceObjectUpdate, RegisterBufferedDOTarget,
\* BufferedTransmitDOMember): what WillBeKnown and LatestNews say of empty queues.
THEOREM TargetsAgree == Spec => []TargetsConverge
<1>1. TypeInv /\ PromiseInv /\ MembersHaveObjects /\ Views /\ News => TargetsConverge
  <2> SUFFICES ASSUME TypeInv, PromiseInv, MembersHaveObjects, Views, News, Quiet,
                      NEW f \in Federates, NEW g \in Federates, f # g, Joined(f),
                      locals[f]["target"] # <<>>,
                      NEW l \in Range(locals[g]["source"]), l.registered
               PROVE  got[f][l.name] = l.last
    BY DEF TargetsConverge
  <2>1. \A h \in Federates : \A m : ~Has(h, m) /\ DOMAIN inbox[h] = {}
    BY DEF Quiet, Has
  <2>2. PICK i \in DOMAIN locals[g]["source"] : l = locals[g]["source"][i]
    BY DEF Range
  <2>3. PICK o : o = [name |-> l.name, kind |-> "source"]
    OBVIOUS
  <2>4. o \in objects
    BY <2>2, <2>3 DEF MembersHaveObjects, Kinds
  <2>5. Owner(o) = g /\ o.name = l.name /\ o.kind = "source" /\ written[o.name] = l.last
    <3>1. NamesOwned /\ LocalValues
      BY DEF PromiseInv, ValuesInv
    <3> QED BY <2>2, <2>3, <3>1 DEF NamesOwned, LocalValues, Owner, Kinds
  <2>6. HasMember(o)
    BY <2>2, <2>5 DEF HasMember
  <2>7. o \in remote[f]
    BY <2>1, <2>4, <2>5, <2>6 DEF News, WillBeKnown, Elsewhere
  <2> QED BY <2>1, <2>4, <2>5, <2>6, <2>7 DEF News, LatestNews
<1> QED BY <1>1, NewsHolds, TypesHold, PromiseInvHolds, NotYetHolds, PTL

=============================================================================
