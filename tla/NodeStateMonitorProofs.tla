------------------------ MODULE NodeStateMonitorProofs ------------------------
(***************************************************************************)
(* Proofs about the Matter node state monitor, for any nodes, endpoints    *)
(* and endpoint counts.                                                    *)
(***************************************************************************)
EXTENDS NodeStateMonitor, TLAPS

(***************************************************************************)
(* Operators.                                                              *)
(***************************************************************************)

\* The table index of a Matter endpoint id: ids and indices are the same
\* numbers, shifted by the fixed endpoints.
LEMMA IndexOfFacts ==
  ASSUME NEW id \in MatterId
  PROVE  /\ IndexOf(id) \in Index
         /\ id \in DynamicId => IndexOf(id) < MaxEndpointCount - FixedEndpointCount
         /\ \A other \in MatterId : IndexOf(other) = IndexOf(id) => other = id
  BY EndpointCountAssumption
     DEF MatterId, DynamicId, Index, IndexOf, kInvalidEndpointId

\* The handler's fields, by what it is doing.
LEMMA HandlerFacts ==
  ASSUME TypeOK
  PROVE  /\ handler.op = "adding" => handler \in AddHandler
         /\ handler.op = "replacing" => handler \in ReplaceHandler
         /\ handler.op = "removing" => handler \in RemoveHandler
         /\ handler = Idle => handler.op = "idle"
         /\ handler.op \in {"idle", "adding", "replacing", "removing"}
  BY DEF TypeOK, Idle, AddHandler, ReplaceHandler, RemoveHandler

\* What getNextDynamicAvailableEndpointIndex returns: an id nobody holds, or
\* the invalid id, and then only when no id is left.
LEMMA NextAvailableFacts ==
  ASSUME NEW id, NextAvailable(id)
  PROVE  /\ id \in MatterId
         /\ id \in DynamicId => IsFree(id)
         /\ id = kInvalidEndpointId => FreeIds = {}
  BY EndpointCountAssumption
     DEF NextAvailable, IsLeast, FreeAfterLast, FreeIds, MatterId, DynamicId,
         kInvalidEndpointId

\* The table after register_dynamic_endpoint: the entry's own slot if its id is
\* real, and of the other slots exactly those with another id.
LEMMA RegisteredFacts ==
  ASSUME TypeOK, EmberIndexed,
         NEW e \in Entry, e.index = IndexOf(e.mep)
  PROVE  LET slot == [index |-> e.index, id |-> e.mep, unid |-> e.unid,
                      uep |-> e.uep, held |-> TRUE]
         IN Registered(e) = {r \in ember : r.id # e.mep}
                              \cup (IF e.mep = kInvalidEndpointId THEN {} ELSE {slot})
<1> DEFINE slot == [index |-> e.index, id |-> e.mep, unid |-> e.unid, uep |-> e.uep,
                    held |-> TRUE]
           rest == {r \in ember : r.id # e.mep}
           before == IF IsFree(e.mep) THEN ember
                     ELSE LET r == CHOOSE r \in ember : r.id = e.mep
                          IN Cleared(ember, r.index)
<1>1. e.mep \in MatterId BY DEF Entry
<1>2. \A r \in ember : r.id \in DynamicId /\ r.id \in MatterId /\ r.index = IndexOf(r.id)
  BY DEF TypeOK, Registration, MatterId, EmberIndexed
<1>3. \A r \in ember : r.index = e.index <=> r.id = e.mep
  BY <1>1, <1>2, IndexOfFacts
<1>4. before = rest
  <2>1. CASE IsFree(e.mep)
    BY <2>1 DEF IsFree
  <2>2. CASE ~IsFree(e.mep)
    <3> DEFINE old == CHOOSE r \in ember : r.id = e.mep
    <3>1. old \in ember /\ old.id = e.mep BY <2>2 DEF IsFree
    <3>2. old.index = e.index BY <3>1, <1>3
    <3>3. before = Cleared(ember, e.index) BY <2>2, <3>2
    <3> QED BY <3>3, <1>3 DEF Cleared
  <2> QED BY <2>1, <2>2
<1>5. Registered(e) = WithEndpoint(before, e) BY DEF Registered
<1>6. ~ \E r \in rest : r.id = e.mep OBVIOUS
<1>7. Cleared(rest, e.index) = rest BY <1>3 DEF Cleared
<1>8. CASE e.mep = kInvalidEndpointId
  BY <1>8, <1>4, <1>5 DEF WithEndpoint
<1>9. CASE e.mep # kInvalidEndpointId
  <2>1. e.mep \in DynamicId BY <1>1, <1>9 DEF MatterId
  <2>2. ~(e.index >= MaxEndpointCount - FixedEndpointCount)
    BY <2>1, <1>1, IndexOfFacts, EndpointCountAssumption DEF Index
  <2> QED BY <1>9, <2>2, <1>4, <1>5, <1>6, <1>7 DEF WithEndpoint
<1> QED BY <1>8, <1>9

\* Two states of one slot.
SameSlot(r, s) ==
  r.index = s.index /\ r.id = s.id /\ r.unid = s.unid /\ r.uep = s.uep

Owned(gone, r) == \E e \in gone : e.unid = r.unid /\ e.mep = r.id

\* The table when entries leave the registry: the same slots, but those filled
\* from one of the entries are no longer held.
LEMMA ReleasedFacts ==
  ASSUME TypeOK, NEW gone
  PROVE  /\ Released(gone) \subseteq Registration
         /\ \A s \in Released(gone) : \E r \in ember :
              SameSlot(r, s) /\ (s.held <=> r.held /\ ~Owned(gone, r))
         /\ \A r \in ember : \E s \in Released(gone) :
              SameSlot(r, s) /\ (s.held <=> r.held /\ ~Owned(gone, r))
<1> DEFINE after(r) == [r EXCEPT !.held = @ /\ ~Owned(gone, r)]
<1>1. Released(gone) = {after(r) : r \in ember} BY DEF Released, Owned
<1>2. ASSUME NEW r \in ember
      PROVE  /\ after(r) \in Registration /\ SameSlot(r, after(r))
             /\ after(r).held <=> r.held /\ ~Owned(gone, r)
  <2>1. r \in Registration BY DEF TypeOK
  <2> DEFINE b == r.held /\ ~Owned(gone, r)
  <2>2. after(r) = [r EXCEPT !.held = b] OBVIOUS
  <2>3. b \in BOOLEAN OBVIOUS
  <2> HIDE DEF after, b
  <2>4. after(r) \in Registration /\ after(r).held = b /\ SameSlot(r, after(r))
    BY <2>1, <2>2, <2>3 DEF Registration, SameSlot
  <2> QED BY <2>4 DEF b
<1> HIDE DEF after
<1> QED BY <1>1, <1>2

(***************************************************************************)
(* Type correctness.                                                       *)
(***************************************************************************)

\* An iteration of the add loop keeps the handler well formed.
LEMMA NextEndpointType ==
  ASSUME TypeOK, handler.op \in {"adding", "replacing"}, NEW ep \in UnifyEp,
         NextEndpoint(ep)
  PROVE  handler' \in {Idle} \cup AddHandler
<1>1. handler \in AddHandler \cup ReplaceHandler BY HandlerFacts
<1>2. /\ handler.unid \in Unid /\ handler.eps \ {ep} \in SUBSET UnifyEp
      /\ handler.typed \in SUBSET UnifyEp /\ handler.online \in BOOLEAN
  BY <1>1 DEF AddHandler, ReplaceHandler
<1> QED BY <1>2 DEF NextEndpoint, AddHandler

\* The entry that RegisterEndpoint inserts.
LEMMA NewEntryType ==
  ASSUME TypeOK, handler.op = "replacing"
  PROVE  /\ NewEntry \in Entry /\ KeyOf(NewEntry) \in Key
         /\ KeyOf(NewEntry) = <<handler.unid, handler.ep>>
         /\ NewEntry.unid = handler.unid /\ NewEntry.uep = handler.ep
         /\ NewEntry.mep = handler.mep /\ NewEntry.index = IndexOf(handler.mep)
         /\ NewEntry.reachable = handler.online
         /\ handler.mep \in MatterId /\ handler.ep \in UnifyEp
         /\ handler.unid \in Unid /\ handler.online \in BOOLEAN
<1>1. handler \in ReplaceHandler BY HandlerFacts
<1>2. /\ handler.unid \in Unid /\ handler.online \in BOOLEAN
      /\ handler.ep \in UnifyEp /\ handler.mep \in MatterId
  BY <1>1 DEF ReplaceHandler
<1> QED BY <1>2, IndexOfFacts DEF NewEntry, Entry, Key, KeyOf

LEMMA InitType == Init => TypeOK
<1> SUFFICES ASSUME Init PROVE TypeOK OBVIOUS
<1>1. FixedEndpointCount - 1 \in (FixedEndpointCount - 1) .. (MaxEndpointCount - 1)
  BY EndpointCountAssumption
<1> QED BY <1>1 DEF Init, VolatileInit, TypeOK

\* Each handler step, and a restart, leaves the state well typed.
LEMMA NextType == TypeOK /\ [Next]_vars => TypeOK'
<1> SUFFICES ASSUME TypeOK, [Next]_vars PROVE TypeOK' OBVIOUS
<1> USE DEF TypeOK
<1>1. ASSUME NEW n \in Unid, NEW eps \in SUBSET UnifyEp, NEW online \in NodeStates,
             NEW typed \in SUBSET eps, NodeAdded(n, eps, typed, online)
      PROVE  TypeOK'
  BY <1>1, InputAssumption DEF NodeAdded, AddHandler
<1>2. ASSUME NEW ep \in UnifyEp, SkipEndpoint(ep) PROVE TypeOK'
  BY <1>2, NextEndpointType DEF SkipEndpoint
<1>3. ASSUME NEW ep \in UnifyEp, EraseEntry(ep) PROVE TypeOK'
  <2> DEFINE n == handler.unid
             key == <<n, ep>>
             new == kvs[key] = NoMapping
  <2>1. PICK mep \in MatterId, stored \in PutOutcomes :
          /\ Assigned(key, mep)
          /\ kvs' = IF new /\ stored THEN [kvs EXCEPT ![key] = mep] ELSE kvs
          /\ lastReturned' = IF new THEN LastReturnedAfter(mep) ELSE lastReturned
          /\ bridged' = WithoutMapping(n, mep)
          /\ ember' = Released(bridged \ WithoutMapping(n, mep))
          /\ handler' = [op |-> "replacing", unid |-> n, eps |-> handler.eps,
                         typed |-> handler.typed, online |-> handler.online,
                         ep |-> ep, mep |-> mep]
    BY <1>3 DEF EraseEntry
  <2>2. handler \in AddHandler BY <1>3, HandlerFacts DEF EraseEntry
  <2>3. handler' \in ReplaceHandler BY <2>1, <2>2 DEF AddHandler, ReplaceHandler
  <2>4. bridged' \subseteq Entry BY <2>1 DEF WithoutMapping
  <2>5. lastReturned' \in (FixedEndpointCount - 1) .. (MaxEndpointCount - 1)
    <3>1. CASE ~new BY <3>1, <2>1
    <3>2. CASE new /\ FreeAfterLast = {} BY <3>2, <2>1 DEF LastReturnedAfter
    <3>3. CASE new /\ FreeAfterLast # {}
      <4>1. lastReturned' = mep BY <3>3, <2>1 DEF LastReturnedAfter
      <4>2. NextAvailable(mep) BY <3>3, <2>1 DEF Assigned
      <4>3. mep \in DynamicId
        <5>1. PICK id \in FreeAfterLast : TRUE BY <3>3
        <5>2. id \in FreeIds BY <5>1 DEF FreeAfterLast, FreeIds
        <5> QED BY <4>2, <5>2, NextAvailableFacts DEF MatterId
      <4> QED BY <4>1, <4>3, EndpointCountAssumption DEF DynamicId
    <3> QED BY <3>1, <3>2, <3>3
  <2>6. ember' \subseteq Registration BY <2>1, ReleasedFacts
  <2>7. kvs' \in [Key -> MatterId \cup {NoMapping}] BY <2>1
  <2> QED BY <1>3, <2>3, <2>4, <2>5, <2>6, <2>7 DEF EraseEntry
<1>10. CASE RegisterEndpoint
  <2>1. handler.op = "replacing" BY <1>10 DEF RegisterEndpoint
  <2> DEFINE e == NewEntry
  <2>2. e \in Entry /\ KeyOf(e) \in Key /\ handler.ep \in UnifyEp /\ e.mep = handler.mep
    BY <2>1, NewEntryType
  <2> HIDE DEF e
  <2>3. handler' \in {Idle} \cup AddHandler
    BY <1>10, <2>1, <2>2, NextEndpointType DEF RegisterEndpoint
  <2>4. ember' = Registered(e) BY <1>10 DEF RegisterEndpoint, e
  <2>5. ember' \subseteq Registration
    <3>1. PICK tbl \in SUBSET ember : ember' = WithEndpoint(tbl, e)
      BY <2>4 DEF Registered, Cleared
    <3> DEFINE slot == [index |-> e.index, id |-> e.mep, unid |-> e.unid, uep |-> e.uep,
                        held |-> TRUE]
    <3>2. e.mep # kInvalidEndpointId => slot \in Registration
      BY <2>2 DEF Registration, Entry, MatterId
    <3>3. ember' = tbl \/ (e.mep # kInvalidEndpointId /\ ember' \subseteq tbl \cup {slot})
      BY <3>1 DEF WithEndpoint, Cleared
    <3> HIDE DEF slot
    <3>4. tbl \subseteq Registration OBVIOUS
    <3> QED BY <3>2, <3>3, <3>4
  <2>6. bridged' \subseteq Entry /\ subscribed' \subseteq Key
    BY <1>10, <2>2 DEF RegisterEndpoint, e
  <2>7. reachableAttr' \in [MatterId -> {"unset", "yes", "no"}]
    BY <1>10 DEF RegisterEndpoint, Announced, AttrOf
  <2> QED BY <1>10, <2>3, <2>5, <2>6, <2>7 DEF RegisterEndpoint
<1>4. ASSUME NEW n \in Unid, NodeRemoved(n) PROVE TypeOK'
  BY <1>4 DEF NodeRemoved, RemoveHandler, EntriesOf, Entry
<1>5. ASSUME NEW e \in bridged, RemoveEndpoint(e) PROVE TypeOK'
  <2>1. handler \in RemoveHandler BY <1>5, HandlerFacts DEF RemoveEndpoint
  <2>2. handler' \in RemoveHandler BY <1>5, <2>1 DEF RemoveEndpoint, RemoveHandler
  <2>3. ember' \subseteq Registration
    BY <1>5 DEF RemoveEndpoint, Unregistered, Cleared
  <2>4. kvs' \in [Key -> MatterId \cup {NoMapping}]
    BY <1>5 DEF RemoveEndpoint, Forgotten
  <2>5. subscribed' \subseteq Key BY <1>5 DEF RemoveEndpoint
  <2> QED BY <1>5, <2>2, <2>3, <2>4, <2>5 DEF RemoveEndpoint
<1>6. CASE EraseNode BY <1>6, ReleasedFacts DEF EraseNode
<1>7. ASSUME NEW n \in Unid, NEW online \in NodeStates, NodeStateChanged(n, online)
      PROVE  TypeOK'
  <2>1. bridged' \subseteq Entry
    BY <1>7, InputAssumption DEF NodeStateChanged, Entry
  <2>2. reachableAttr' \in [MatterId -> {"unset", "yes", "no"}]
    BY <1>7 DEF NodeStateChanged, AttrOf
  <2> QED BY <1>7, <2>1, <2>2 DEF NodeStateChanged
<1>8. CASE Restart
  <2>1. FixedEndpointCount - 1 \in (FixedEndpointCount - 1) .. (MaxEndpointCount - 1)
    BY EndpointCountAssumption
  <2> QED BY <1>8, <2>1 DEF Restart
<1>9. CASE UNCHANGED vars BY <1>9 DEF vars, volatile
<1> QED BY <1>1, <1>2, <1>3, <1>4, <1>5, <1>6, <1>7, <1>8, <1>9, <1>10 DEF Next, Run

\* The state stays well typed through every handler and every restart.
THEOREM TypeCorrect == Spec => []TypeOK
  BY InitType, NextType, PTL DEF Spec

(***************************************************************************)
(* No slot of the Matter stack outlives its entry.                         *)
(***************************************************************************)

\* What the first half of an iteration of the add loop does, in the terms the
\* proofs need: the slots stay, and the one of the erased entry is not held.
LEMMA EraseEntryFacts ==
  ASSUME TypeOK, NEW ep \in UnifyEp, EraseEntry(ep)
  PROVE  \E mep \in MatterId, stored \in PutOutcomes :
           LET n    == handler.unid
               key  == <<n, ep>>
               new  == kvs[key] = NoMapping
               gone == bridged \ WithoutMapping(n, mep)
           IN /\ handler.op = "adding" /\ key \in Key
              /\ Assigned(key, mep)
              /\ kvs' = IF new /\ stored THEN [kvs EXCEPT ![key] = mep] ELSE kvs
              /\ bridged' = WithoutMapping(n, mep)
              /\ \A s \in ember' : \E r \in ember :
                   SameSlot(r, s) /\ (s.held <=> r.held /\ ~Owned(gone, r))
              /\ \A r \in ember : \E s \in ember' :
                   SameSlot(r, s) /\ (s.held <=> r.held /\ ~Owned(gone, r))
              /\ handler'.op = "replacing" /\ handler'.unid = n
              /\ handler'.ep = ep /\ handler'.mep = mep
              /\ UNCHANGED <<subscribed, reachableAttr>>
<1>1. PICK mep \in MatterId, stored \in PutOutcomes :
        LET n   == handler.unid
            key == <<n, ep>>
            new == kvs[key] = NoMapping
        IN /\ Assigned(key, mep)
           /\ kvs' = IF new /\ stored THEN [kvs EXCEPT ![key] = mep] ELSE kvs
           /\ bridged' = WithoutMapping(n, mep)
           /\ ember' = Released(bridged \ WithoutMapping(n, mep))
           /\ handler' = [op |-> "replacing", unid |-> n, eps |-> handler.eps,
                          typed |-> handler.typed, online |-> handler.online,
                          ep |-> ep, mep |-> mep]
  BY DEF EraseEntry
<1>2. handler.op = "adding" /\ UNCHANGED <<subscribed, reachableAttr>> BY DEF EraseEntry
<1>3. <<handler.unid, ep>> \in Key
  BY <1>2, HandlerFacts DEF AddHandler, Key
<1> DEFINE gone == bridged \ WithoutMapping(handler.unid, mep)
<1>4. ember' = Released(gone) BY <1>1
<1> HIDE DEF gone
<1>5. /\ \A s \in ember' : \E r \in ember :
           SameSlot(r, s) /\ (s.held <=> r.held /\ ~Owned(gone, r))
      /\ \A r \in ember : \E s \in ember' :
           SameSlot(r, s) /\ (s.held <=> r.held /\ ~Owned(gone, r))
  BY <1>4, ReleasedFacts
<1> QED BY <1>1, <1>2, <1>3, <1>5 DEF gone

\* The slots the erased entry filled are those with its node and id.
LEMMA GoneFacts ==
  ASSUME NEW n, NEW mep, NEW r
  PROVE  Owned(bridged \ WithoutMapping(n, mep), r) => r.unid = n /\ r.id = mep
BY DEF Owned, WithoutMapping

\* The slot of the new entry.
NewSlot == [index |-> IndexOf(handler.mep), id |-> handler.mep, unid |-> handler.unid,
            uep |-> handler.ep, held |-> TRUE]

\* What the second half does: one entry more, and its slot in the place of the
\* one that had its id.
LEMMA RegisterFacts ==
  ASSUME TypeOK, EmberIndexed, RegisterEndpoint
  PROVE  /\ handler.op = "replacing" /\ handler'.op \notin {"replacing", "removing"}
         /\ bridged' = bridged \cup {NewEntry} /\ kvs' = kvs
         /\ subscribed' = subscribed \cup {<<handler.unid, handler.ep>>}
         /\ ember' = {r \in ember : r.id # handler.mep}
                       \cup (IF handler.mep = kInvalidEndpointId THEN {} ELSE {NewSlot})
<1>1. handler.op = "replacing" BY DEF RegisterEndpoint
<1>2. handler' \in {Idle} \cup AddHandler
  BY <1>1, NewEntryType, NextEndpointType DEF RegisterEndpoint
<1>3. handler'.op \notin {"replacing", "removing"} BY <1>2 DEF Idle, AddHandler
<1> DEFINE e == NewEntry
<1>4. /\ e \in Entry /\ e.index = IndexOf(e.mep) /\ KeyOf(e) = <<handler.unid, handler.ep>>
      /\ e.mep = handler.mep /\ e.unid = handler.unid /\ e.uep = handler.ep
  BY <1>1, NewEntryType
<1>5. ember' = Registered(e) /\ subscribed' = subscribed \cup {KeyOf(e)}
  BY DEF RegisterEndpoint
<1> HIDE DEF e
<1>6. ember' = {r \in ember : r.id # e.mep}
                \cup (IF e.mep = kInvalidEndpointId THEN {}
                      ELSE {[index |-> e.index, id |-> e.mep, unid |-> e.unid,
                             uep |-> e.uep, held |-> TRUE]})
  BY <1>4, <1>5, RegisteredFacts
<1> QED BY <1>1, <1>3, <1>4, <1>5, <1>6 DEF RegisterEndpoint, NewSlot

\* The other steps: registry and table stay, nothing is removed or replaced
\* before or after.
Quiet ==
  /\ UNCHANGED <<bridged, ember, kvs, subscribed, reachableAttr>>
  /\ \A e \in bridged : Live(e) /\ Live(e)'
  /\ handler.op # "replacing" /\ handler'.op # "replacing"

\* The steps of a run.
LEMMA RunSteps ==
  ASSUME TypeOK, Run
  PROVE  \/ \E ep \in UnifyEp : EraseEntry(ep)
         \/ RegisterEndpoint
         \/ \E e \in bridged : RemoveEndpoint(e)
         \/ EraseNode
         \/ \E n \in Unid, online \in NodeStates : NodeStateChanged(n, online)
         \/ Quiet
<1>1. ASSUME NEW n \in Unid, NEW eps \in SUBSET UnifyEp, NEW online \in NodeStates,
             NEW typed \in SUBSET eps, NodeAdded(n, eps, typed, online)
      PROVE  Quiet
  BY <1>1 DEF NodeAdded, Live, Idle, Quiet
<1>2. ASSUME NEW ep \in UnifyEp, SkipEndpoint(ep) PROVE Quiet
  <2>1. handler.op = "adding" /\ NextEndpoint(ep) BY <1>2 DEF SkipEndpoint
  <2>2. handler' \in {Idle} \cup AddHandler BY <2>1, NextEndpointType
  <2>3. handler'.op \notin {"removing", "replacing"} BY <2>2 DEF Idle, AddHandler
  <2> QED BY <1>2, <2>1, <2>3 DEF SkipEndpoint, Live, Quiet
<1>3. ASSUME NEW n \in Unid, NodeRemoved(n) PROVE Quiet
  BY <1>3 DEF NodeRemoved, Live, Idle, EntriesOf, Quiet
<1> QED BY <1>1, <1>2, <1>3 DEF Run

LEMMA QuietSteps ==
  ASSUME TypeOK, Next
  PROVE  \/ \E ep \in UnifyEp : EraseEntry(ep)
         \/ RegisterEndpoint
         \/ \E e \in bridged : RemoveEndpoint(e)
         \/ EraseNode
         \/ \E n \in Unid, online \in NodeStates : NodeStateChanged(n, online)
         \/ Restart
         \/ Quiet
  BY RunSteps DEF Next

LEMMA InitEmber == Init => EmberInv
  BY InitType DEF Init, VolatileInit, EmberInv, EntriesIndexed, EmberIndexed,
                  PassedAreCleared, ReplacedIsErased, EmberOwnersAlive, Idle

EmberParts ==
  EntriesIndexed /\ EmberIndexed /\ PassedAreCleared /\ ReplacedIsErased /\ EmberOwnersAlive

\* The entry that a slot which is held was filled from.
Source(r) == {e \in bridged : KeyOf(e) = OwnerOf(r) /\ e.mep = r.id /\ e.index = r.index}

\* Outside a replacement every slot is held.
LEMMA AllHeld ==
  ASSUME EmberOwnersAlive, NEW r \in ember,
         handler.op # "replacing" \/ handler.mep # r.id
  PROVE  r.held /\ Source(r) # {}
BY DEF EmberOwnersAlive, Source

\* The strengthened invariant holds across every step: the interesting ones are
\* EraseEntry, which leaves the slot of the entry without a source,
\* RegisterEndpoint, which clears that slot, RemoveEndpoint, which clears the
\* slot before its source goes, and EraseNode, which needs all of them cleared.
LEMMA NextEmber == EmberInv /\ [Next]_vars => EmberInv'
<1> SUFFICES ASSUME EmberInv, [Next]_vars
             PROVE  EmberParts'
  BY NextType DEF EmberInv, EmberParts
<1> USE DEF EmberInv
<1>0. \A e \in bridged : e.mep \in MatterId
  BY DEF TypeOK, Entry
<1>1. ASSUME NEW ep \in UnifyEp, EraseEntry(ep) PROVE EmberParts'
  <2> DEFINE n == handler.unid
             gone(mep) == bridged \ WithoutMapping(n, mep)
  <2>1. PICK mep \in MatterId :
          /\ handler.op = "adding" /\ bridged' = WithoutMapping(n, mep)
          /\ \A s \in ember' : \E r \in ember :
               SameSlot(r, s) /\ (s.held <=> r.held /\ ~Owned(gone(mep), r))
          /\ handler'.op = "replacing" /\ handler'.unid = n /\ handler'.mep = mep
    BY <1>1, EraseEntryFacts
  <2>2. EntriesIndexed' /\ ReplacedIsErased'
    BY <2>1 DEF EntriesIndexed, ReplacedIsErased, WithoutMapping, IndexOf
  <2>3. EmberIndexed' BY <2>1 DEF EmberIndexed, SameSlot, IndexOf
  <2>4. PassedAreCleared' BY <2>1 DEF PassedAreCleared, Live
  <2>5. EmberOwnersAlive'
    <3> SUFFICES ASSUME NEW s \in ember'
                 PROVE  IF s.held
                          THEN \E e \in bridged' : KeyOf(e) = OwnerOf(s) /\ e.mep = s.id
                                                     /\ e.index = s.index
                          ELSE n = s.unid /\ mep = s.id
      BY <2>1 DEF EmberOwnersAlive, KeyOf, OwnerOf
    <3>1. PICK r \in ember : SameSlot(r, s) /\ (s.held <=> r.held /\ ~Owned(gone(mep), r))
      BY <2>1
    <3>2. r.held /\ Source(r) # {} BY <2>1, AllHeld
    <3>3. PICK e \in bridged : KeyOf(e) = OwnerOf(r) /\ e.mep = r.id /\ e.index = r.index
      BY <3>2 DEF Source
    <3>4. CASE ~Owned(gone(mep), r)
      <4>1. e \in bridged'
        <5>1. e.unid = r.unid BY <3>3 DEF KeyOf, OwnerOf
        <5> QED BY <5>1, <3>3, <3>4, <2>1 DEF Owned
      <4> QED BY <4>1, <3>1, <3>2, <3>3, <3>4 DEF SameSlot, OwnerOf
    <3>5. CASE Owned(gone(mep), r)
      BY <3>5, <3>1, GoneFacts DEF SameSlot
    <3> QED BY <3>4, <3>5
  <2> QED BY <2>2, <2>3, <2>4, <2>5 DEF EmberParts
<1>8. CASE RegisterEndpoint
  <2>1. /\ handler.op = "replacing" /\ handler'.op \notin {"replacing", "removing"}
        /\ bridged' = bridged \cup {NewEntry}
        /\ ember' = {r \in ember : r.id # handler.mep}
                      \cup (IF handler.mep = kInvalidEndpointId THEN {} ELSE {NewSlot})
    BY <1>8, RegisterFacts
  <2>2. /\ NewEntry.index = IndexOf(NewEntry.mep) /\ NewEntry.mep = handler.mep
        /\ KeyOf(NewEntry) = <<handler.unid, handler.ep>>
    BY <2>1, NewEntryType
  <2>3. /\ NewSlot.id = handler.mep /\ NewSlot.index = IndexOf(handler.mep) /\ NewSlot.held
        /\ OwnerOf(NewSlot) = <<handler.unid, handler.ep>>
    BY DEF NewSlot, OwnerOf
  <2>4. EntriesIndexed'
    <3> SUFFICES ASSUME NEW e \in bridged' PROVE e.index = IndexOf(e.mep)
      BY DEF EntriesIndexed, IndexOf
    <3> QED BY <2>1, <2>2 DEF EntriesIndexed
  <2>5. EmberIndexed'
    <3> SUFFICES ASSUME NEW r \in ember' PROVE r.index = IndexOf(r.id)
      BY DEF EmberIndexed, IndexOf
    <3> QED BY <2>1, <2>3 DEF EmberIndexed
  <2>6. PassedAreCleared' /\ ReplacedIsErased'
    BY <2>1 DEF PassedAreCleared, ReplacedIsErased, Live
  <2>7. EmberOwnersAlive'
    <3> SUFFICES ASSUME NEW r \in ember'
                 PROVE  r.held /\ \E e \in bridged' : KeyOf(e) = OwnerOf(r) /\ e.mep = r.id
                                                        /\ e.index = r.index
      BY DEF EmberOwnersAlive, KeyOf, OwnerOf
    <3>1. CASE r \in ember /\ r.id # handler.mep
      BY <3>1, <2>1, AllHeld DEF Source
    <3>2. CASE r = NewSlot
      BY <3>2, <2>1, <2>2, <2>3
    <3> QED BY <3>1, <3>2, <2>1
  <2> QED BY <2>4, <2>5, <2>6, <2>7 DEF EmberParts
<1>2. ASSUME NEW e \in bridged, RemoveEndpoint(e)
      PROVE  EmberParts'
  <2>1. /\ bridged' = bridged
        /\ ember' = {r \in ember : r.index # e.index}
        /\ handler.op = "removing" /\ e.unid = handler.unid
        /\ handler' = [handler EXCEPT !.meps = @ \ {e.mep}]
    BY <1>2 DEF RemoveEndpoint, Unregistered, Cleared, EntriesOf
  <2>2. handler \in RemoveHandler BY <2>1, HandlerFacts
  <2>3. /\ handler'.op = "removing" /\ handler'.unid = handler.unid
        /\ handler'.meps = handler.meps \ {e.mep}
    BY <2>1, <2>2 DEF RemoveHandler
  <2>4. EntriesIndexed' /\ EmberIndexed'
    BY <2>1 DEF EntriesIndexed, EmberIndexed, IndexOf
  <2>5. PassedAreCleared'
    <3> SUFFICES ASSUME NEW f \in bridged, ~Live(f)'
                 PROVE  \A r \in ember' : r.id # f.mep
      BY <2>1 DEF PassedAreCleared, IsFree
    <3>1. CASE f.mep = e.mep
      <4>1. \A r \in ember : r.id = e.mep => r.index = e.index
        BY DEF EmberIndexed, EntriesIndexed
      <4> QED BY <4>1, <3>1, <2>1
    <3>2. CASE f.mep # e.mep
      <4>1. ~Live(f) BY <3>2, <2>1, <2>3 DEF Live
      <4> QED BY <4>1, <2>1 DEF PassedAreCleared, IsFree
    <3> QED BY <3>1, <3>2
  <2>6. EmberOwnersAlive'
    BY <2>1, <2>3 DEF EmberOwnersAlive, KeyOf, OwnerOf
  <2>7. ReplacedIsErased' BY <2>3 DEF ReplacedIsErased
  <2> QED BY <2>4, <2>5, <2>6, <2>7 DEF EmberParts
<1>3. CASE EraseNode
  <2> DEFINE gone == EntriesOf(handler.unid)
  <2>1. /\ handler.op = "removing" /\ handler.meps = {} /\ handler' = Idle
        /\ bridged' = bridged \ gone /\ ember' = Released(gone)
    BY <1>3 DEF EraseNode
  <2>2. \A e \in gone : IsFree(e.mep)
    BY <2>1 DEF EntriesOf, PassedAreCleared, Live
  <2>3. \A s \in ember' : \E r \in ember : SameSlot(r, s) /\ (s.held <=> r.held)
    BY <2>1, <2>2, ReleasedFacts DEF Owned, IsFree
  <2>4. EmberOwnersAlive'
    <3> SUFFICES ASSUME NEW s \in ember'
                 PROVE  s.held /\ \E e \in bridged' : KeyOf(e) = OwnerOf(s) /\ e.mep = s.id
                                                        /\ e.index = s.index
      BY DEF EmberOwnersAlive, KeyOf, OwnerOf
    <3>1. PICK r \in ember : SameSlot(r, s) /\ (s.held <=> r.held) BY <2>3
    <3>2. r.held /\ Source(r) # {} BY <2>1, AllHeld
    <3>3. PICK e \in bridged : KeyOf(e) = OwnerOf(r) /\ e.mep = r.id /\ e.index = r.index
      BY <3>2 DEF Source
    <3>4. e \in bridged' BY <2>1, <2>2, <3>3 DEF IsFree
    <3> QED BY <3>1, <3>2, <3>3, <3>4 DEF SameSlot, OwnerOf
  <2>5. EntriesIndexed' /\ EmberIndexed'
    BY <2>1, <2>3 DEF EntriesIndexed, EmberIndexed, IndexOf, SameSlot
  <2>6. PassedAreCleared' /\ ReplacedIsErased'
    BY <2>1 DEF PassedAreCleared, ReplacedIsErased, Live, Idle
  <2> QED BY <2>4, <2>5, <2>6 DEF EmberParts
<1>4. ASSUME NEW n \in Unid, NEW online \in NodeStates, NodeStateChanged(n, online)
      PROVE  EmberParts'
  <2> DEFINE changed(e) == IF e.unid = n THEN [e EXCEPT !.reachable = online] ELSE e
  <2>1. /\ bridged' = {changed(e) : e \in bridged}
        /\ ember' = ember /\ handler = Idle /\ handler' = Idle
    BY <1>4 DEF NodeStateChanged
  <2>2. \A e \in bridged : /\ KeyOf(changed(e)) = KeyOf(e)
                           /\ changed(e).mep = e.mep
                           /\ changed(e).index = e.index
    BY DEF TypeOK, Entry, KeyOf
  <2> HIDE DEF changed
  <2>3. EntriesIndexed' BY <2>1, <2>2 DEF EntriesIndexed, IndexOf
  <2>4. EmberIndexed' BY <2>1 DEF EmberIndexed, IndexOf
  <2>5. PassedAreCleared' /\ ReplacedIsErased'
    BY <2>1 DEF PassedAreCleared, ReplacedIsErased, Live, Idle
  <2>6. EmberOwnersAlive'
    <3> SUFFICES ASSUME NEW r \in ember
                 PROVE  r.held /\ \E e \in bridged' : KeyOf(e) = OwnerOf(r) /\ e.mep = r.id
                                                        /\ e.index = r.index
      BY <2>1 DEF EmberOwnersAlive, KeyOf, OwnerOf
    <3>1. r.held /\ Source(r) # {} BY <2>1, AllHeld DEF Idle
    <3>2. PICK e \in bridged : KeyOf(e) = OwnerOf(r) /\ e.mep = r.id
                                 /\ e.index = r.index
      BY <3>1 DEF Source
    <3>3. changed(e) \in bridged' BY <2>1
    <3> QED BY <3>1, <3>2, <3>3, <2>2
  <2> QED BY <2>3, <2>4, <2>5, <2>6 DEF EmberParts
<1>5. CASE Restart
  BY <1>5 DEF Restart, EmberParts, EntriesIndexed, EmberIndexed, PassedAreCleared,
              ReplacedIsErased, EmberOwnersAlive, Idle
<1>6. CASE Quiet
  BY <1>6 DEF Quiet, EmberParts, EntriesIndexed, EmberIndexed, PassedAreCleared,
              ReplacedIsErased, EmberOwnersAlive, IndexOf, KeyOf, OwnerOf
<1>7. CASE UNCHANGED vars
  BY <1>7 DEF vars, volatile, EmberParts, EntriesIndexed, EmberIndexed, PassedAreCleared,
              ReplacedIsErased, EmberOwnersAlive, IndexOf, KeyOf, OwnerOf, Live, IsFree
<1> QED BY <1>1, <1>2, <1>3, <1>4, <1>5, <1>6, <1>7, <1>8, QuietSteps

LEMMA EmberInvariant == Spec => []EmberInv
  BY InitEmber, NextEmber, PTL DEF Spec

\* Through any handlers, restarts and failed writes to the KVS, a slot of the
\* Matter stack points into an entry that the registry still holds; only the
\* slot of the endpoint an announcement is replacing may point to one that is
\* erased, and no longer than until that endpoint is registered again.
THEOREM OwnersAlive == Spec => []EmberOwnersAlive
<1>1. EmberInv => EmberOwnersAlive BY DEF EmberInv
<1> QED BY <1>1, EmberInvariant, PTL

(***************************************************************************)
(* Mappings on disk.                                                       *)
(***************************************************************************)

\* Only an id that is not yet mapped is written, and only a node's removal
\* takes its own mappings away: true of every step, so through restarts too.
THEOREM MappingsAreStable == Spec => StableMapping
<1> DEFINE Step == \A key \in Key : kvs[key] # NoMapping /\ kvs'[key] # kvs[key] =>
                     /\ kvs'[key] = NoMapping
                     /\ handler.op = "removing" /\ handler.unid = key[1]
<1>1. EmberInv /\ [Next]_vars => [Step]_vars
  <2> SUFFICES ASSUME EmberInv, Next, NEW key \in Key, kvs[key] # NoMapping,
                      kvs'[key] # kvs[key]
               PROVE  kvs'[key] = NoMapping /\ handler.op = "removing"
                        /\ handler.unid = key[1]
    BY DEF vars
  <2> USE DEF EmberInv
  <2>1. ASSUME NEW ep \in UnifyEp, EraseEntry(ep) PROVE FALSE
    <3>1. PICK mep \in MatterId, stored \in PutOutcomes :
            kvs' = IF kvs[<<handler.unid, ep>>] = NoMapping /\ stored
                   THEN [kvs EXCEPT ![<<handler.unid, ep>>] = mep] ELSE kvs
      BY <2>1 DEF EraseEntry
    <3> QED BY <3>1 DEF TypeOK
  <2>6. CASE RegisterEndpoint BY <2>6 DEF RegisterEndpoint
  <2>2. ASSUME NEW e \in bridged, RemoveEndpoint(e)
        PROVE  kvs'[key] = NoMapping /\ handler.op = "removing"
                 /\ handler.unid = key[1]
    <3>1. /\ kvs' = [kvs EXCEPT ![KeyOf(e)] = NoMapping]
          /\ handler.op = "removing" /\ e.unid = handler.unid
      BY <2>2 DEF RemoveEndpoint, Forgotten, EntriesOf
    <3>2. key = KeyOf(e) BY <3>1 DEF TypeOK
    <3> QED BY <3>1, <3>2 DEF TypeOK, KeyOf
  <2>3. CASE EraseNode BY <2>3 DEF EraseNode
  <2>4. ASSUME NEW n \in Unid, NEW online \in NodeStates, NodeStateChanged(n, online)
        PROVE  FALSE
    BY <2>4 DEF NodeStateChanged
  <2>5. CASE Restart BY <2>5 DEF Restart
  <2> QED BY <2>1, <2>2, <2>3, <2>4, <2>5, <2>6, QuietSteps DEF Quiet
<1>2. QED BY <1>1, EmberInvariant, PTL DEF Spec, StableMapping

\* An id is never 0, which stands for "no mapping".
LEMMA IdIsMapping == \A mep \in MatterId : mep # NoMapping
  BY EndpointCountAssumption DEF MatterId, DynamicId, NoMapping, kInvalidEndpointId

\* What is bridged is on disk under the same id, and so is the endpoint that is
\* being replaced, as long as Put succeeds.
DurableInv == MappingIsDurable /\ ReplacedIsMapped

LEMMA NextDurable ==
  ASSUME PutOutcomes = {TRUE}
  PROVE  EmberInv /\ DurableInv /\ [Next]_vars => DurableInv'
<1> SUFFICES ASSUME EmberInv, DurableInv, [Next]_vars
             PROVE  MappingIsDurable' /\ ReplacedIsMapped'
  BY DEF DurableInv
<1> USE DEF EmberInv, DurableInv
<1>0. \A e \in bridged : e.mep \in MatterId /\ KeyOf(e) \in Key
  BY DEF TypeOK, Entry, KeyOf, Key
<1>1. ASSUME NEW ep \in UnifyEp, EraseEntry(ep)
      PROVE  MappingIsDurable' /\ ReplacedIsMapped'
  <2> DEFINE n == handler.unid
             key == <<n, ep>>
  <2>1. PICK mep \in MatterId :
          /\ handler.op = "adding" /\ key \in Key
          /\ Assigned(key, mep)
          /\ kvs' = IF kvs[key] = NoMapping THEN [kvs EXCEPT ![key] = mep] ELSE kvs
          /\ bridged' = WithoutMapping(n, mep)
          /\ handler'.unid = n /\ handler'.ep = ep /\ handler'.mep = mep
    BY <1>1, EraseEntryFacts
  <2>2. kvs'[key] = mep BY <2>1 DEF Assigned, TypeOK
  <2>3. ASSUME NEW e \in bridged PROVE kvs'[KeyOf(e)] = e.mep
    <3>1. kvs[KeyOf(e)] = e.mep BY <2>1 DEF MappingIsDurable, Live
    <3>2. kvs[KeyOf(e)] # NoMapping BY <3>1, <1>0, IdIsMapping
    <3> QED BY <3>1, <3>2, <2>1, <1>0 DEF TypeOK
  <2>4. MappingIsDurable' BY <2>1, <2>3 DEF MappingIsDurable, WithoutMapping, KeyOf
  <2>5. ReplacedIsMapped' BY <2>1, <2>2 DEF ReplacedIsMapped
  <2> QED BY <2>4, <2>5
<1>8. CASE RegisterEndpoint
  <2>1. /\ handler.op = "replacing" /\ handler'.op # "replacing"
        /\ bridged' = bridged \cup {NewEntry} /\ kvs' = kvs
    BY <1>8, RegisterFacts
  <2>2. KeyOf(NewEntry) = <<handler.unid, handler.ep>> /\ NewEntry.mep = handler.mep
    BY <2>1, NewEntryType
  <2>3. ASSUME NEW e \in bridged' PROVE kvs[KeyOf(e)] = e.mep
    <3>1. CASE e \in bridged BY <3>1, <2>1 DEF MappingIsDurable, Live
    <3>2. CASE e = NewEntry BY <3>2, <2>1, <2>2 DEF ReplacedIsMapped
    <3> QED BY <3>1, <3>2, <2>1
  <2> QED BY <2>1, <2>3 DEF MappingIsDurable, ReplacedIsMapped, KeyOf
<1>2. ASSUME NEW e \in bridged, RemoveEndpoint(e)
      PROVE  MappingIsDurable' /\ ReplacedIsMapped'
  <2>1. /\ bridged' = bridged
        /\ kvs' = [kvs EXCEPT ![KeyOf(e)] = NoMapping]
        /\ handler.op = "removing" /\ e.unid = handler.unid
        /\ e.mep \in handler.meps
        /\ handler' = [handler EXCEPT !.meps = @ \ {e.mep}]
    BY <1>2 DEF RemoveEndpoint, Forgotten, EntriesOf
  <2>2. handler \in RemoveHandler BY <2>1, HandlerFacts
  <2>3. /\ handler'.op = "removing" /\ handler'.unid = handler.unid
        /\ handler'.meps = handler.meps \ {e.mep}
    BY <2>1, <2>2 DEF RemoveHandler
  <2>4. ASSUME NEW f \in bridged, Live(f)' PROVE kvs'[KeyOf(f)] = f.mep
    <3>1. Live(f) BY <2>1, <2>3, <2>4 DEF Live
    <3>2. kvs[KeyOf(f)] = f.mep BY <3>1 DEF MappingIsDurable
    <3>3. kvs[KeyOf(e)] = e.mep BY <2>1 DEF MappingIsDurable, Live
    <3>4. KeyOf(f) # KeyOf(e)
      <4> SUFFICES ASSUME KeyOf(f) = KeyOf(e) PROVE FALSE OBVIOUS
      <4>1. f.mep = e.mep /\ f.unid = e.unid BY <3>2, <3>3 DEF KeyOf
      <4> QED BY <4>1, <2>4, <2>3, <2>1 DEF Live
    <3> QED BY <3>2, <3>4, <2>1, <1>0 DEF TypeOK
  <2> QED BY <2>1, <2>3, <2>4 DEF MappingIsDurable, ReplacedIsMapped, KeyOf
<1>3. CASE EraseNode
  <2>1. \A e \in bridged' : e \in bridged /\ Live(e) /\ kvs' = kvs
    BY <1>3 DEF EraseNode, EntriesOf, Live
  <2>2. handler'.op # "replacing" BY <1>3 DEF EraseNode, Idle
  <2> QED BY <2>1, <2>2 DEF MappingIsDurable, ReplacedIsMapped, KeyOf
<1>4. ASSUME NEW n \in Unid, NEW online \in NodeStates, NodeStateChanged(n, online)
      PROVE  MappingIsDurable' /\ ReplacedIsMapped'
  <2> DEFINE changed(e) == IF e.unid = n THEN [e EXCEPT !.reachable = online] ELSE e
  <2>1. /\ bridged' = {changed(e) : e \in bridged}
        /\ kvs' = kvs /\ handler = Idle /\ handler' = Idle
    BY <1>4 DEF NodeStateChanged
  <2>2. \A e \in bridged : KeyOf(changed(e)) = KeyOf(e) /\ changed(e).mep = e.mep
    BY DEF TypeOK, Entry, KeyOf
  <2>3. \A e \in bridged : kvs[KeyOf(e)] = e.mep
    BY <2>1 DEF MappingIsDurable, Live, Idle
  <2> HIDE DEF changed
  <2> QED BY <2>1, <2>2, <2>3 DEF MappingIsDurable, ReplacedIsMapped, KeyOf, Idle
<1>5. CASE Restart BY <1>5 DEF Restart, MappingIsDurable, ReplacedIsMapped, Idle
<1>6. CASE Quiet BY <1>6 DEF Quiet, MappingIsDurable, ReplacedIsMapped, KeyOf
<1>7. CASE UNCHANGED vars
  BY <1>7 DEF vars, volatile, MappingIsDurable, ReplacedIsMapped, KeyOf, Live
<1> QED BY <1>1, <1>2, <1>3, <1>4, <1>5, <1>6, <1>7, <1>8, QuietSteps

\* The endpoint ids that controllers know survive restarts: whatever is bridged
\* is on disk under the id it has.
THEOREM MappingsAreDurable ==
  ASSUME PutOutcomes = {TRUE}
  PROVE  Spec => []MappingIsDurable
<1>1. Init => DurableInv
  BY DEF Init, VolatileInit, DurableInv, MappingIsDurable, ReplacedIsMapped, Idle
<1>2. DurableInv => MappingIsDurable BY DEF DurableInv
<1> QED BY <1>1, <1>2, NextDurable, EmberInvariant, PTL DEF Spec

(***************************************************************************)
(* One run: ids are unique, and the fabric sees an endpoint directory.     *)
(***************************************************************************)

LEMMA RunIsNext == Run => Next
  BY DEF Next

\* A Unify endpoint never gets an id that another entry has.
LEMMA AssignedIsOwn ==
  ASSUME OneRunInv, handler.op = "adding", NEW key \in Key, NEW mep \in DynamicId,
         Assigned(key, mep),
         NEW e \in bridged, e.mep = mep
  PROVE  KeyOf(e) = key
<1>1. Live(e) BY DEF Live
<1>2. e.mep # kInvalidEndpointId
  BY EndpointCountAssumption DEF DynamicId, kInvalidEndpointId
<1>3. PICK r \in ember : r.id = mep /\ OwnerOf(r) = KeyOf(e)
  BY <1>1, <1>2 DEF OneRunInv, BridgedIsRegistered
<1>4. kvs[key] # NoMapping
  BY <1>3, NextAvailableFacts DEF Assigned, IsFree
<1>5. kvs[key] = mep BY <1>4 DEF Assigned
<1>6. PICK f \in bridged : Live(f) /\ KeyOf(f) = key
  BY <1>5 DEF OneRunInv, MappedIsBridged, BeingReplaced
<1>7. f.mep = mep BY <1>5, <1>6 DEF OneRunInv, MappingIsDurable
<1>8. e = f BY <1>2, <1>7 DEF OneRunInv, UniqueMatterEndpoint
<1> QED BY <1>6, <1>8

LEMMA InitOneRun == Init => OneRunInv
<1>1. NoMapping \notin DynamicId
  BY EndpointCountAssumption DEF NoMapping, DynamicId
<1> QED BY <1>1, InitEmber
        DEF Init, VolatileInit, OneRunInv, MappingIsDurable, MappedIsBridged,
            ReplacedIsMapped, ReplacedIsOwn, BridgedIsRegistered,
            UniqueMatterEndpoint, Idle

\* What the durable mappings and ember's table do not say of one run.
OwnInv == MappedIsBridged /\ ReplacedIsOwn /\ BridgedIsRegistered /\ UniqueMatterEndpoint

\* The strengthened invariant of one run, action by action.
LEMMA NextOneRun ==
  ASSUME PutOutcomes = {TRUE}
  PROVE  OneRunInv /\ [Run]_vars => OneRunInv'
<1> SUFFICES ASSUME OneRunInv, [Run]_vars PROVE OwnInv'
  BY NextEmber, NextDurable, RunIsNext DEF OneRunInv, OwnInv, DurableInv
<1>0. /\ TypeOK /\ EntriesIndexed /\ EmberIndexed /\ EmberOwnersAlive
      /\ PassedAreCleared /\ ReplacedIsErased
      /\ MappingIsDurable /\ MappedIsBridged /\ ReplacedIsOwn
      /\ BridgedIsRegistered /\ UniqueMatterEndpoint
  BY DEF OneRunInv, EmberInv
<1>a. \A e \in bridged : e.mep \in MatterId /\ KeyOf(e) \in Key /\ e.unid \in Unid
  BY <1>0 DEF TypeOK, Entry, KeyOf, Key
<1>b. kInvalidEndpointId \notin DynamicId /\ NoMapping \notin DynamicId
  BY EndpointCountAssumption DEF DynamicId, kInvalidEndpointId, NoMapping
<1>1. ASSUME NEW ep \in UnifyEp, EraseEntry(ep) PROVE OwnInv'
  <2> DEFINE n == handler.unid
             key == <<n, ep>>
             gone(mep) == bridged \ WithoutMapping(n, mep)
  <2>1. PICK mep \in MatterId :
          /\ handler.op = "adding" /\ key \in Key
          /\ Assigned(key, mep)
          /\ kvs' = IF kvs[key] = NoMapping THEN [kvs EXCEPT ![key] = mep] ELSE kvs
          /\ bridged' = WithoutMapping(n, mep)
          /\ \A s \in ember' : \E r \in ember :
               SameSlot(r, s) /\ (s.held <=> r.held /\ ~Owned(gone(mep), r))
          /\ \A r \in ember : \E s \in ember' :
               SameSlot(r, s) /\ (s.held <=> r.held /\ ~Owned(gone(mep), r))
          /\ handler'.op = "replacing" /\ handler'.unid = n
          /\ handler'.ep = ep /\ handler'.mep = mep
    BY <1>1, <1>0, EraseEntryFacts
  <2>2. \A e \in bridged : Live(e) BY <2>1 DEF Live
  <2>3. \A e \in bridged' : Live(e)' BY <2>1 DEF Live
  <2>4. \A e \in bridged' : e \in bridged /\ ~(e.unid = n /\ e.mep = mep)
    BY <2>1 DEF WithoutMapping
  <2>5. ASSUME NEW e \in bridged, e.mep = mep, mep # kInvalidEndpointId
        PROVE  KeyOf(e) = key
    <3>1. mep \in DynamicId BY <2>5 DEF MatterId
    <3> QED BY <3>1, <2>1, <2>5, AssignedIsOwn
  <2>6. UniqueMatterEndpoint' BY <2>4, <1>0 DEF UniqueMatterEndpoint
  <2>7. BridgedIsRegistered'
    <3> SUFFICES ASSUME NEW e \in bridged', e.mep # kInvalidEndpointId
                 PROVE  \E s \in ember' : s.id = e.mep /\ OwnerOf(s) = KeyOf(e) /\ s.held
      BY DEF BridgedIsRegistered, OwnerOf, KeyOf
    <3>1. PICK r \in ember : r.id = e.mep /\ OwnerOf(r) = KeyOf(e) /\ r.held
      BY <2>2, <2>4, <1>0 DEF BridgedIsRegistered
    <3>2. ~Owned(gone(mep), r)
      BY <2>4, <3>1, GoneFacts DEF OwnerOf, KeyOf
    <3>3. PICK s \in ember' : SameSlot(r, s) /\ s.held BY <2>1, <3>1, <3>2
    <3> QED BY <3>1, <3>3 DEF SameSlot, OwnerOf
  <2>8. MappedIsBridged'
    <3> SUFFICES ASSUME NEW k \in Key, kvs'[k] \in DynamicId, k # key
                 PROVE  \E e \in bridged' : KeyOf(e) = k
      BY <2>1, <2>3 DEF MappedIsBridged, BeingReplaced, KeyOf
    <3>1. kvs[k] \in DynamicId /\ kvs'[k] = kvs[k]
      BY <2>1, <1>0 DEF TypeOK
    <3>2. PICK e \in bridged : KeyOf(e) = k
      BY <3>1, <2>1, <1>0 DEF MappedIsBridged, BeingReplaced
    <3>3. kvs[k] = e.mep BY <3>2, <2>2, <1>0 DEF MappingIsDurable
    <3>4. e.mep # mep BY <3>1, <3>2, <3>3, <2>5, <1>b
    <3>5. e \in bridged' BY <3>4, <2>1 DEF WithoutMapping
    <3> QED BY <3>2, <3>5
  <2>9. ReplacedIsOwn'
    <3> SUFFICES ASSUME mep # kInvalidEndpointId
                 PROVE  /\ \A e \in bridged' : e.mep # mep
                        /\ \A s \in ember' : s.id = mep => OwnerOf(s) = key
      BY <2>1 DEF ReplacedIsOwn, OwnerOf
    <3>1. ASSUME NEW e \in bridged' PROVE e.mep # mep
      BY <2>4, <2>5 DEF KeyOf
    <3>2. ASSUME NEW s \in ember', s.id = mep PROVE OwnerOf(s) = key
      <4>1. PICK r \in ember : SameSlot(r, s) BY <2>1
      <4>2. Source(r) # {} BY <2>1, <1>0, AllHeld
      <4>3. PICK e \in bridged : KeyOf(e) = OwnerOf(r) /\ e.mep = r.id
        BY <4>2 DEF Source
      <4>4. KeyOf(e) = key BY <4>1, <4>3, <3>2, <2>5 DEF SameSlot
      <4> QED BY <4>1, <4>3, <4>4 DEF SameSlot, OwnerOf
    <3> QED BY <3>1, <3>2
  <2> QED BY <2>6, <2>7, <2>8, <2>9 DEF OwnInv
<1>7. CASE RegisterEndpoint
  <2> DEFINE e0 == NewEntry
             key == <<handler.unid, handler.ep>>
             mep == handler.mep
  <2>1. /\ handler.op = "replacing" /\ handler'.op \notin {"replacing", "removing"}
        /\ bridged' = bridged \cup {e0} /\ kvs' = kvs
        /\ ember' = {r \in ember : r.id # mep}
                      \cup (IF mep = kInvalidEndpointId THEN {} ELSE {NewSlot})
    BY <1>7, <1>0, RegisterFacts
  <2>2. KeyOf(e0) = key /\ e0.mep = mep BY <2>1, <1>0, NewEntryType
  <2>3. NewSlot.id = mep /\ OwnerOf(NewSlot) = key /\ NewSlot.held
    BY DEF NewSlot, OwnerOf
  <2> HIDE DEF e0
  <2>4. \A e \in bridged : Live(e) BY <2>1 DEF Live
  <2>5. \A e \in bridged' : Live(e)' BY <2>1 DEF Live
  <2>6. mep # kInvalidEndpointId => \A e \in bridged : e.mep # mep
    BY <2>1, <1>0 DEF ReplacedIsOwn
  <2>7. UniqueMatterEndpoint'
    <3> SUFFICES ASSUME NEW e \in bridged', NEW f \in bridged', e.mep = f.mep,
                        e.mep # kInvalidEndpointId
                 PROVE  e = f
      BY DEF UniqueMatterEndpoint
    <3>1. CASE e \in bridged /\ f \in bridged
      BY <3>1, <1>0 DEF UniqueMatterEndpoint
    <3>2. CASE e = e0 \/ f = e0 BY <3>2, <2>1, <2>2, <2>6
    <3> QED BY <3>1, <3>2, <2>1
  <2>8. BridgedIsRegistered'
    <3> SUFFICES ASSUME NEW e \in bridged', e.mep # kInvalidEndpointId
                 PROVE  \E r \in ember' : r.id = e.mep /\ OwnerOf(r) = KeyOf(e) /\ r.held
      BY DEF BridgedIsRegistered, OwnerOf, KeyOf
    <3>1. CASE e = e0
      <4>1. NewSlot \in ember' BY <3>1, <2>1, <2>2
      <4> QED BY <4>1, <3>1, <2>2, <2>3
    <3>2. CASE e \in bridged
      <4>1. PICK r \in ember : r.id = e.mep /\ OwnerOf(r) = KeyOf(e) /\ r.held
        BY <3>2, <2>4, <1>0 DEF BridgedIsRegistered
      <4> QED BY <4>1, <3>2, <2>1, <2>6
    <3> QED BY <3>1, <3>2, <2>1
  <2>9. MappedIsBridged'
    <3> SUFFICES ASSUME NEW k \in Key, kvs[k] \in DynamicId
                 PROVE  \E e \in bridged' : KeyOf(e) = k
      BY <2>1, <2>5 DEF MappedIsBridged, KeyOf
    <3>1. CASE k = key BY <3>1, <2>1, <2>2
    <3>2. CASE k # key
      BY <3>2, <2>1, <1>0 DEF MappedIsBridged, BeingReplaced
    <3> QED BY <3>1, <3>2
  <2>10. ReplacedIsOwn' BY <2>1 DEF ReplacedIsOwn
  <2> QED BY <2>7, <2>8, <2>9, <2>10 DEF OwnInv
<1>2. ASSUME NEW e \in bridged, RemoveEndpoint(e)
      PROVE  OwnInv'
  <2>1. /\ bridged' = bridged
        /\ ember' = {r \in ember : r.index # e.index}
        /\ kvs' = [kvs EXCEPT ![KeyOf(e)] = NoMapping]
        /\ handler.op = "removing" /\ e.unid = handler.unid
        /\ e.mep \in handler.meps
        /\ handler' = [handler EXCEPT !.meps = @ \ {e.mep}]
    BY <1>2 DEF RemoveEndpoint, Unregistered, Cleared, Forgotten, EntriesOf
  <2>2. handler \in RemoveHandler BY <2>1, <1>0, HandlerFacts
  <2>3. /\ handler'.op = "removing" /\ handler'.unid = handler.unid
        /\ handler'.meps = handler.meps \ {e.mep}
    BY <2>1, <2>2 DEF RemoveHandler
  <2>4. UniqueMatterEndpoint' BY <2>1, <1>0 DEF UniqueMatterEndpoint
  <2>5. ASSUME NEW f \in bridged PROVE Live(f)' <=> Live(f) /\ ~(f.unid = e.unid /\ f.mep = e.mep)
    BY <2>1, <2>3 DEF Live
  <2>6. BridgedIsRegistered'
    <3> SUFFICES ASSUME NEW f \in bridged, Live(f)', f.mep # kInvalidEndpointId
                 PROVE  \E r \in ember' : r.id = f.mep /\ OwnerOf(r) = KeyOf(f) /\ r.held
      BY <2>1 DEF BridgedIsRegistered, OwnerOf, KeyOf
    <3>1. PICK r \in ember : r.id = f.mep /\ OwnerOf(r) = KeyOf(f) /\ r.held
      BY <2>5, <1>0 DEF BridgedIsRegistered
    <3>2. r.index # e.index
      <4> SUFFICES ASSUME r.index = e.index PROVE FALSE OBVIOUS
      <4>1. f.mep = e.mep
        BY <3>1, <1>a, <1>0, IndexOfFacts DEF EmberIndexed, EntriesIndexed
      <4>2. f = e BY <4>1, <1>0 DEF UniqueMatterEndpoint
      <4> QED BY <4>2, <2>5
    <3> QED BY <3>1, <3>2, <2>1
  <2>7. MappedIsBridged'
    <3> SUFFICES ASSUME NEW k \in Key, kvs'[k] \in DynamicId
                 PROVE  \E f \in bridged : Live(f)' /\ KeyOf(f) = k
      BY <2>1 DEF MappedIsBridged, KeyOf
    <3>1. k # KeyOf(e) /\ kvs[k] \in DynamicId
      BY <2>1, <1>b, <1>0 DEF TypeOK
    <3>2. PICK f \in bridged : Live(f) /\ KeyOf(f) = k
      BY <3>1, <2>1, <1>0 DEF MappedIsBridged, BeingReplaced
    <3>3. f.mep = kvs[k] BY <3>2, <1>0 DEF MappingIsDurable
    <3>4. ~(f.unid = e.unid /\ f.mep = e.mep)
      <4> SUFFICES ASSUME f.mep = e.mep PROVE FALSE OBVIOUS
      <4>1. f = e BY <3>1, <3>3, <1>b, <1>0 DEF UniqueMatterEndpoint
      <4> QED BY <4>1, <3>1, <3>2
    <3> QED BY <3>2, <3>4, <2>5
  <2>8. ReplacedIsOwn' BY <2>3 DEF ReplacedIsOwn
  <2> QED BY <2>4, <2>6, <2>7, <2>8 DEF OwnInv
<1>3. CASE EraseNode
  <2> DEFINE gone == EntriesOf(handler.unid)
  <2>1. /\ handler.op = "removing" /\ handler.meps = {} /\ handler' = Idle
        /\ bridged' = bridged \ gone /\ ember' = Released(gone) /\ kvs' = kvs
    BY <1>3 DEF EraseNode
  <2>2. \A e \in bridged : Live(e) <=> e \in bridged'
    BY <2>1 DEF Live, EntriesOf
  <2>3. \A e \in gone : IsFree(e.mep)
    BY <2>1, <1>0 DEF EntriesOf, PassedAreCleared, Live
  <2>4. \A r \in ember : \E s \in ember' : SameSlot(r, s) /\ (s.held <=> r.held)
    BY <2>1, <2>3, <1>0, ReleasedFacts DEF Owned, IsFree
  <2>5. UniqueMatterEndpoint' BY <2>1, <1>0 DEF UniqueMatterEndpoint
  <2>6. BridgedIsRegistered'
    <3> SUFFICES ASSUME NEW e \in bridged', e.mep # kInvalidEndpointId
                 PROVE  \E s \in ember' : s.id = e.mep /\ OwnerOf(s) = KeyOf(e) /\ s.held
      BY DEF BridgedIsRegistered, OwnerOf, KeyOf
    <3>1. PICK r \in ember : r.id = e.mep /\ OwnerOf(r) = KeyOf(e) /\ r.held
      BY <2>1, <2>2, <1>0 DEF BridgedIsRegistered
    <3>2. PICK s \in ember' : SameSlot(r, s) /\ (s.held <=> r.held) BY <2>4
    <3> QED BY <3>1, <3>2 DEF SameSlot, OwnerOf
  <2>7. MappedIsBridged'
    <3>1. \A e \in bridged' : Live(e)' BY <2>1 DEF Live, Idle
    <3> QED BY <3>1, <2>1, <2>2, <1>0 DEF MappedIsBridged, BeingReplaced, KeyOf, Idle
  <2>8. ReplacedIsOwn' BY <2>1 DEF ReplacedIsOwn, Idle
  <2> QED BY <2>5, <2>6, <2>7, <2>8 DEF OwnInv
<1>4. ASSUME NEW n \in Unid, NEW online \in NodeStates, NodeStateChanged(n, online)
      PROVE  OwnInv'
  <2> DEFINE changed(e) == IF e.unid = n THEN [e EXCEPT !.reachable = online] ELSE e
  <2>1. /\ bridged' = {changed(e) : e \in bridged}
        /\ kvs' = kvs /\ ember' = ember /\ handler = Idle /\ handler' = Idle
    BY <1>4 DEF NodeStateChanged
  <2>2. \A e \in bridged : KeyOf(changed(e)) = KeyOf(e) /\ changed(e).mep = e.mep
    BY <1>0 DEF TypeOK, Entry, KeyOf
  <2>3. \A e \in bridged, f \in bridged : e = f => changed(e) = changed(f)
    OBVIOUS
  <2> HIDE DEF changed
  <2>4. \A e \in bridged : Live(e) BY <2>1 DEF Live, Idle
  <2>5. \A e \in bridged' : Live(e)' BY <2>1 DEF Live, Idle
  <2>6. UniqueMatterEndpoint'
    BY <2>1, <2>2, <2>3, <1>0 DEF UniqueMatterEndpoint
  <2>7. BridgedIsRegistered'
    BY <2>1, <2>2, <2>4, <1>0 DEF BridgedIsRegistered, OwnerOf, KeyOf
  <2>8. MappedIsBridged'
    <3> SUFFICES ASSUME NEW k \in Key, kvs'[k] \in DynamicId
                 PROVE  \E e \in bridged' : Live(e)' /\ KeyOf(e) = k
      BY DEF MappedIsBridged, KeyOf
    <3>1. PICK e \in bridged : KeyOf(e) = k
      BY <2>1, <1>0 DEF MappedIsBridged, BeingReplaced, Idle
    <3>2. changed(e) \in bridged' BY <2>1
    <3> QED BY <3>1, <3>2, <2>2, <2>5
  <2>9. ReplacedIsOwn' BY <2>1 DEF ReplacedIsOwn, Idle
  <2> QED BY <2>6, <2>7, <2>8, <2>9 DEF OwnInv
<1>5. CASE Quiet
  BY <1>5, <1>0 DEF Quiet, OwnInv, MappedIsBridged, ReplacedIsOwn, BridgedIsRegistered,
                    UniqueMatterEndpoint, BeingReplaced, KeyOf, OwnerOf
<1>6. CASE UNCHANGED vars
  BY <1>6, <1>0 DEF vars, volatile, OwnInv, MappedIsBridged, ReplacedIsOwn,
                    BridgedIsRegistered, UniqueMatterEndpoint, BeingReplaced, KeyOf,
                    OwnerOf, Live
<1> QED BY <1>1, <1>2, <1>3, <1>4, <1>5, <1>6, <1>7, <1>0, RunSteps

\* Under any sequence of announcements, removals and state changes of one run,
\* no two bridged endpoints share a Matter endpoint.
THEOREM UniqueEndpoints ==
  ASSUME PutOutcomes = {TRUE}
  PROVE  SpecOneRun => []UniqueMatterEndpoint
<1>1. OneRunInv => UniqueMatterEndpoint BY DEF OneRunInv
<1> QED BY <1>1, InitOneRun, NextOneRun, PTL DEF SpecOneRun

\* Every bridged endpoint with a real id is visible on the Matter fabric.
THEOREM BridgedAreVisible ==
  ASSUME PutOutcomes = {TRUE}
  PROVE  SpecOneRun => []BridgedIsRegistered
<1>1. OneRunInv => BridgedIsRegistered BY DEF OneRunInv
<1> QED BY <1>1, InitOneRun, NextOneRun, PTL DEF SpecOneRun

\* A read, write or command to a Matter endpoint reaches the Unify endpoint the
\* Matter stack shows there.
THEOREM CommandsReachOwner ==
  ASSUME PutOutcomes = {TRUE}
  PROVE  SpecOneRun => []RoutedToOwner
<1>1. OneRunInv => RoutedToOwner
  <2> SUFFICES ASSUME OneRunInv, NEW r \in ember, NEW e \in BridgedByMatter(r.id)
               PROVE  KeyOf(e) = OwnerOf(r)
    BY DEF RoutedToOwner
  <2>1. e \in bridged /\ e.mep = r.id BY DEF BridgedByMatter
  <2>2. r.id # kInvalidEndpointId
    BY EndpointCountAssumption
       DEF OneRunInv, EmberInv, TypeOK, Registration, DynamicId, kInvalidEndpointId
  <2>3. handler.op # "replacing" \/ handler.mep # r.id
    BY <2>1, <2>2 DEF OneRunInv, ReplacedIsOwn
  <2>4. PICK f \in bridged : KeyOf(f) = OwnerOf(r) /\ f.mep = r.id
    BY <2>3, AllHeld DEF OneRunInv, EmberInv, Source
  <2>5. e = f BY <2>1, <2>2, <2>4 DEF OneRunInv, UniqueMatterEndpoint
  <2> QED BY <2>4, <2>5
<1> QED BY <1>1, InitOneRun, NextOneRun, PTL DEF SpecOneRun

(***************************************************************************)
(* One run: what is served for an endpoint, and what is left of one.       *)
(***************************************************************************)

\* A step that sets Reachable sets it for the entries it changes, and an id has
\* one entry: so Reachable is right for every real id, on the fabric or not.
ReachableKept ==
  \A e \in bridged : e.mep \in DynamicId => reachableAttr[e.mep] = AttrOf(e.reachable)

LEMMA NextReachable ==
  ASSUME PutOutcomes = {TRUE}
  PROVE  OneRunInv /\ ReachableKept /\ [Run]_vars => ReachableKept'
<1> SUFFICES ASSUME OneRunInv, ReachableKept, [Run]_vars PROVE ReachableKept'
  OBVIOUS
<1>0. /\ TypeOK /\ EmberIndexed /\ UniqueMatterEndpoint /\ ReplacedIsOwn
      /\ kInvalidEndpointId \notin DynamicId /\ DynamicId \subseteq MatterId
  BY EndpointCountAssumption
     DEF OneRunInv, EmberInv, DynamicId, kInvalidEndpointId, MatterId
<1>1. ASSUME NEW ep \in UnifyEp, EraseEntry(ep) PROVE ReachableKept'
  <2>1. bridged' \subseteq bridged /\ reachableAttr' = reachableAttr
    BY <1>1 DEF EraseEntry, WithoutMapping
  <2> QED BY <2>1 DEF ReachableKept, AttrOf
<1>7. CASE RegisterEndpoint
  <2> DEFINE mep == handler.mep
             e0 == NewEntry
  <2>1. /\ handler.op = "replacing" /\ bridged' = bridged \cup {e0}
        /\ reachableAttr' = [reachableAttr EXCEPT ![mep] = AttrOf(handler.online)]
    BY <1>7 DEF RegisterEndpoint, Announced
  <2>2. e0.mep = mep /\ e0.reachable = handler.online /\ mep \in MatterId
    BY <2>1, <1>0, NewEntryType
  <2> HIDE DEF e0
  <2>3. reachableAttr'[mep] = AttrOf(handler.online) BY <2>1, <2>2, <1>0 DEF TypeOK
  <2>4. ASSUME NEW e \in bridged, e.mep \in DynamicId
        PROVE  reachableAttr'[e.mep] = AttrOf(e.reachable)
    <3>1. e.mep # mep BY <2>1, <2>4, <1>0 DEF ReplacedIsOwn
    <3> QED BY <3>1, <2>1, <2>4, <1>0 DEF ReachableKept, TypeOK
  <2> QED BY <2>1, <2>2, <2>3, <2>4 DEF ReachableKept, AttrOf
<1>2. ASSUME NEW e \in bridged, RemoveEndpoint(e) PROVE ReachableKept'
  BY <1>2 DEF RemoveEndpoint, ReachableKept, AttrOf
<1>3. CASE EraseNode BY <1>3 DEF EraseNode, ReachableKept, AttrOf
<1>4. ASSUME NEW n \in Unid, NEW online \in NodeStates, NodeStateChanged(n, online)
      PROVE  ReachableKept'
  <2> DEFINE changed(e) == IF e.unid = n THEN [e EXCEPT !.reachable = online] ELSE e
  <2>1. /\ bridged' = {changed(e) : e \in bridged}
        /\ \A mep \in MatterId :
             reachableAttr'[mep] = IF \E f \in bridged : f.unid = n /\ f.mep = mep
                                   THEN AttrOf(online) ELSE reachableAttr[mep]
    BY <1>4 DEF NodeStateChanged, EntriesOf
  <2>2. ASSUME NEW e \in bridged
        PROVE  /\ changed(e).mep = e.mep
               /\ e.unid = n => changed(e).reachable = online
               /\ e.unid # n => changed(e).reachable = e.reachable
    BY <1>0 DEF TypeOK, Entry
  <2> HIDE DEF changed
  <2>3. ASSUME NEW e \in bridged, e.mep \in DynamicId
        PROVE  reachableAttr'[e.mep] = AttrOf(changed(e).reachable)
    <3>1. CASE e.unid = n BY <3>1, <2>1, <2>2, <2>3, <1>0
    <3>2. CASE e.unid # n
      <4>1. ~ \E f \in bridged : f.unid = n /\ f.mep = e.mep
        BY <3>2, <2>3, <1>0 DEF UniqueMatterEndpoint
      <4> QED BY <4>1, <3>2, <2>1, <2>2, <2>3, <1>0 DEF ReachableKept
    <3> QED BY <3>1, <3>2
  <2> QED BY <2>1, <2>2, <2>3 DEF ReachableKept, AttrOf
<1>5. CASE Quiet BY <1>5 DEF Quiet, ReachableKept, AttrOf
<1>6. CASE UNCHANGED vars BY <1>6 DEF vars, volatile, ReachableKept, AttrOf
<1> QED BY <1>1, <1>2, <1>3, <1>4, <1>5, <1>6, <1>7, <1>0, RunSteps

\* Reachable reads as the node's last state on every id of the fabric, also on
\* one that another node had before.
THEOREM ReachableIsServed ==
  ASSUME PutOutcomes = {TRUE}
  PROVE  SpecOneRun => []ReachableServed
<1>1. Init => ReachableKept BY DEF Init, VolatileInit, ReachableKept
<1>2. OneRunInv /\ ReachableKept => ReachableServed
  BY DEF OneRunInv, EmberInv, TypeOK, Registration, ReachableKept, ReachableServed
<1> QED BY <1>1, <1>2, InitOneRun, NextOneRun, NextReachable, PTL DEF SpecOneRun

\* Entries of a node differ in their ids, the invalid one included; what the
\* removal loop has passed is unsubscribed; and a subscribed endpoint has an
\* entry, unless another one of its node took its place under the invalid id.
SubscribedInv ==
  /\ \A e, f \in bridged : e.unid = f.unid /\ e.mep = f.mep => e = f
  /\ \A e \in bridged : ~Live(e) => KeyOf(e) \notin subscribed
  /\ \A key \in subscribed :
       \/ BeingReplaced(key)
       \/ \E e \in bridged : KeyOf(e) = key
       \/ kvs[key] = kInvalidEndpointId

LEMMA NextSubscribed ==
  ASSUME PutOutcomes = {TRUE}
  PROVE  OneRunInv /\ SubscribedInv /\ [Run]_vars => SubscribedInv'
<1> SUFFICES ASSUME OneRunInv, SubscribedInv, [Run]_vars PROVE SubscribedInv'
  OBVIOUS
<1>0. /\ TypeOK /\ EmberIndexed /\ MappingIsDurable /\ UniqueMatterEndpoint
      /\ ReplacedIsErased /\ MatterId = DynamicId \cup {kInvalidEndpointId}
  BY DEF OneRunInv, EmberInv, MatterId
<1>a. \A e \in bridged : e.mep \in MatterId /\ KeyOf(e) \in Key
  BY <1>0 DEF TypeOK, Entry, KeyOf, Key
<1>1. ASSUME NEW ep \in UnifyEp, EraseEntry(ep) PROVE SubscribedInv'
  <2> DEFINE n == handler.unid
             key == <<n, ep>>
  <2>1. PICK mep \in MatterId :
          /\ handler.op = "adding" /\ key \in Key
          /\ Assigned(key, mep)
          /\ kvs' = IF kvs[key] = NoMapping THEN [kvs EXCEPT ![key] = mep] ELSE kvs
          /\ bridged' = WithoutMapping(n, mep) /\ subscribed' = subscribed
          /\ handler'.op = "replacing" /\ handler'.unid = n /\ handler'.ep = ep
    BY <1>1, <1>0, EraseEntryFacts
  <2>2. \A e, f \in bridged' : e.unid = f.unid /\ e.mep = f.mep => e = f
    BY <2>1 DEF SubscribedInv, WithoutMapping
  <2>3. \A e \in bridged' : Live(e)' BY <2>1 DEF Live
  <2>4. ASSUME NEW k \in subscribed, k # key
        PROVE  (\E e \in bridged' : KeyOf(e) = k) \/ kvs'[k] = kInvalidEndpointId
    <3>1. kvs'[k] = kvs[k] BY <2>1, <2>4, <1>0 DEF TypeOK
    <3>2. CASE kvs[k] = kInvalidEndpointId BY <3>1, <3>2
    <3>3. CASE \E e \in bridged : KeyOf(e) = k
      <4>1. PICK e \in bridged : KeyOf(e) = k BY <3>3
      <4>2. CASE e \in bridged' BY <4>1, <4>2
      <4>3. CASE e \notin bridged'
        <5>1. e.unid = n /\ e.mep = mep BY <4>3, <2>1 DEF WithoutMapping
        <5>2. mep \notin DynamicId
          BY <5>1, <4>1, <2>4, <2>1, AssignedIsOwn
        <5>3. kvs[k] = mep BY <4>1, <5>1, <2>1, <1>0 DEF MappingIsDurable, Live
        <5> QED BY <5>2, <5>3, <3>1, <1>0
      <4> QED BY <4>2, <4>3
    <3>4. ~BeingReplaced(k) BY <2>1 DEF BeingReplaced
    <3> QED BY <3>2, <3>3, <3>4 DEF SubscribedInv
  <2>5. BeingReplaced(key)' BY <2>1 DEF BeingReplaced
  <2>6. \A k \in subscribed' :
          \/ BeingReplaced(k)'
          \/ \E e \in bridged' : KeyOf(e) = k
          \/ kvs'[k] = kInvalidEndpointId
    BY <2>1, <2>4, <2>5
  <2> QED BY <2>2, <2>3, <2>6 DEF SubscribedInv, KeyOf, BeingReplaced
<1>7. CASE RegisterEndpoint
  <2> DEFINE e0 == NewEntry
             key == <<handler.unid, handler.ep>>
  <2>1. /\ handler.op = "replacing" /\ handler'.op \notin {"replacing", "removing"}
        /\ bridged' = bridged \cup {e0} /\ kvs' = kvs
        /\ subscribed' = subscribed \cup {key}
    BY <1>7, <1>0, RegisterFacts
  <2>2. KeyOf(e0) = key /\ e0.unid = handler.unid /\ e0.mep = handler.mep
    BY <2>1, <1>0, NewEntryType
  <2> HIDE DEF e0
  <2>3. \A e, f \in bridged' : e.unid = f.unid /\ e.mep = f.mep => e = f
    BY <2>1, <2>2, <1>0 DEF SubscribedInv, ReplacedIsErased
  <2>4. \A e \in bridged' : Live(e)' BY <2>1 DEF Live
  <2>5. \A k \in subscribed' :
          (\E e \in bridged' : KeyOf(e) = k) \/ kvs'[k] = kInvalidEndpointId
    BY <2>1, <2>2 DEF SubscribedInv, BeingReplaced
  <2> QED BY <2>3, <2>4, <2>5 DEF SubscribedInv, KeyOf
<1>2. ASSUME NEW e \in bridged, RemoveEndpoint(e) PROVE SubscribedInv'
  <2>1. /\ bridged' = bridged
        /\ kvs' = [kvs EXCEPT ![KeyOf(e)] = NoMapping]
        /\ subscribed' = subscribed \ {KeyOf(e)}
        /\ handler.op = "removing" /\ e.unid = handler.unid
        /\ handler' = [handler EXCEPT !.meps = @ \ {e.mep}]
    BY <1>2 DEF RemoveEndpoint, Forgotten, EntriesOf
  <2>2. handler \in RemoveHandler BY <2>1, <1>0, HandlerFacts
  <2>3. /\ handler'.op = "removing" /\ handler'.unid = handler.unid
        /\ handler'.meps = handler.meps \ {e.mep}
    BY <2>1, <2>2 DEF RemoveHandler
  <2>4. ASSUME NEW f \in bridged, ~Live(f)' PROVE KeyOf(f) \notin subscribed'
    <3>1. ~Live(f) \/ (f.unid = e.unid /\ f.mep = e.mep)
      BY <2>1, <2>3, <2>4 DEF Live
    <3> QED BY <3>1, <2>1 DEF SubscribedInv
  <2>5. ASSUME NEW k \in subscribed'
        PROVE  (\E f \in bridged : KeyOf(f) = k) \/ kvs'[k] = kInvalidEndpointId
    <3>1. k \in subscribed /\ kvs'[k] = kvs[k] BY <2>1, <1>0, <1>a DEF TypeOK
    <3> QED BY <3>1, <2>1 DEF SubscribedInv, BeingReplaced
  <2> QED BY <2>1, <2>4, <2>5 DEF SubscribedInv, KeyOf
<1>3. CASE EraseNode
  <2>1. /\ handler.op = "removing" /\ handler.meps = {} /\ handler' = Idle
        /\ bridged' = bridged \ EntriesOf(handler.unid)
        /\ kvs' = kvs /\ subscribed' = subscribed
    BY <1>3 DEF EraseNode
  <2>2. \A e \in bridged : KeyOf(e) \in subscribed => e \in bridged'
    BY <2>1 DEF SubscribedInv, Live, EntriesOf
  <2>3. \A e \in bridged' : Live(e)' BY <2>1 DEF Live, Idle
  <2> QED BY <2>1, <2>2, <2>3 DEF SubscribedInv, KeyOf, BeingReplaced
<1>4. ASSUME NEW n \in Unid, NEW online \in NodeStates, NodeStateChanged(n, online)
      PROVE  SubscribedInv'
  <2> DEFINE changed(e) == IF e.unid = n THEN [e EXCEPT !.reachable = online] ELSE e
  <2>1. /\ bridged' = {changed(e) : e \in bridged} /\ handler' = Idle
        /\ kvs' = kvs /\ subscribed' = subscribed /\ handler = Idle
    BY <1>4 DEF NodeStateChanged
  <2>2. \A e \in bridged : /\ KeyOf(changed(e)) = KeyOf(e)
                           /\ changed(e).mep = e.mep /\ changed(e).unid = e.unid
    BY <1>0 DEF TypeOK, Entry, KeyOf
  <2> HIDE DEF changed
  <2>3. \A e \in bridged' : Live(e)' BY <2>1 DEF Live, Idle
  <2>4. \A e, f \in bridged' : e.unid = f.unid /\ e.mep = f.mep => e = f
    BY <2>1, <2>2 DEF SubscribedInv
  <2>5. \A k \in subscribed' :
          (\E e \in bridged' : KeyOf(e) = k) \/ kvs'[k] = kInvalidEndpointId
    BY <2>1, <2>2 DEF SubscribedInv, BeingReplaced, Idle
  <2> QED BY <2>3, <2>4, <2>5 DEF SubscribedInv, KeyOf
<1>5. CASE Quiet BY <1>5 DEF Quiet, SubscribedInv, BeingReplaced, KeyOf
<1>6. CASE UNCHANGED vars
  BY <1>6 DEF vars, volatile, SubscribedInv, BeingReplaced, KeyOf, Live
<1> QED BY <1>1, <1>2, <1>3, <1>4, <1>5, <1>6, <1>7, <1>0, RunSteps

\* Removing a node undoes what adding it did: the disk holds no real id, and the
\* translators no subscription, of an endpoint that is gone.
THEOREM NothingIsLeftBehind ==
  ASSUME PutOutcomes = {TRUE}
  PROVE  SpecOneRun => []NothingLeftBehind
<1>1. Init => SubscribedInv BY DEF Init, VolatileInit, SubscribedInv
<1>2. OneRunInv /\ SubscribedInv => NothingLeftBehind
  BY DEF OneRunInv, MappedIsBridged, SubscribedInv, NothingLeftBehind, BridgedByKey
<1> QED BY <1>1, <1>2, InitOneRun, NextOneRun, NextSubscribed, PTL DEF SpecOneRun

(***************************************************************************)
(* One run implements the endpoint directory.                              *)
(***************************************************************************)

\* Tables with the same slots show the same.
LEMMA SameSlotsShowSame ==
  ASSUME \A s \in ember' : \E r \in ember : SameSlot(r, s),
         \A r \in ember : \E s \in ember' : SameSlot(r, s)
  PROVE  \A id \in DynamicId : ShownAt(id)' = ShownAt(id)
BY DEF ShownAt, SameSlot

\* What a step of a run does to what the fabric sees: nothing, one endpoint more
\* for an id and an owner that had none, or one of the node that is being
\* removed less.
LEMMA ShownSteps ==
  ASSUME OneRunInv, Run
  PROVE  \/ \A id \in DynamicId : ShownAt(id)' = ShownAt(id)
         \/ \E id \in DynamicId, key \in Key :
              /\ ShownAt(id) = {}
              /\ \A other \in DynamicId : key \notin ShownAt(other)
              /\ \A other \in DynamicId :
                   ShownAt(other)' = IF other = id THEN {key} ELSE ShownAt(other)
         \/ \E id \in DynamicId :
              /\ handler.op = "removing" /\ ShownAt(id) # {}
              /\ \A key \in ShownAt(id) : key[1] = handler.unid
              /\ \A other \in DynamicId :
                   ShownAt(other)' = IF other = id THEN {} ELSE ShownAt(other)
<1> DEFINE Same == \A id \in DynamicId : ShownAt(id)' = ShownAt(id)
<1>0. /\ TypeOK /\ EntriesIndexed /\ EmberIndexed /\ EmberOwnersAlive
      /\ PassedAreCleared /\ MappingIsDurable /\ ReplacedIsMapped /\ ReplacedIsOwn
      /\ UniqueMatterEndpoint
  BY DEF OneRunInv, EmberInv
<1>a. \A r \in ember : /\ r \in Registration /\ r.id \in DynamicId /\ r.id \in MatterId
                         /\ r.id # kInvalidEndpointId
  BY <1>0, EndpointCountAssumption
     DEF TypeOK, Registration, MatterId, DynamicId, kInvalidEndpointId
<1>1. ASSUME NEW ep \in UnifyEp, EraseEntry(ep) PROVE Same
  BY <1>1, <1>0, EraseEntryFacts, SameSlotsShowSame
<1>2. CASE RegisterEndpoint
  <2> DEFINE key == <<handler.unid, handler.ep>>
  <2>0. PICK mep : mep = handler.mep OBVIOUS
  <2>1. /\ handler.op = "replacing"
        /\ ember' = {r \in ember : r.id # mep}
                      \cup (IF mep = kInvalidEndpointId THEN {} ELSE {NewSlot})
    BY <1>2, <1>0, <2>0, RegisterFacts
  <2>2. key \in Key /\ mep \in MatterId BY <2>0, <2>1, <1>0, NewEntryType DEF Key
  <2>3. NewSlot.id = mep /\ <<NewSlot.unid, NewSlot.uep>> = key
    BY <2>0 DEF NewSlot
  <2>4. CASE mep = kInvalidEndpointId
    <3>1. ember' = ember BY <2>1, <2>4, <1>a
    <3>2. Same BY <3>1 DEF ShownAt
    <3> QED BY <3>2
  <2>5. CASE mep # kInvalidEndpointId
    <3>1. mep \in DynamicId /\ ember' = {r \in ember : r.id # mep} \cup {NewSlot}
      BY <2>5, <2>1, <2>2 DEF MatterId
    <3>2. \A other \in DynamicId :
            ShownAt(other)' = IF other = mep THEN {key} ELSE ShownAt(other)
      <4>1. ShownAt(mep)' = {key} BY <3>1, <2>3 DEF ShownAt
      <4>2. ASSUME NEW other \in DynamicId, other # mep
            PROVE  ShownAt(other)' = ShownAt(other)
        BY <4>2, <3>1, <2>3 DEF ShownAt
      <4> QED BY <4>1, <4>2
    <3>3. CASE ~IsFree(mep)
      <4>1. ShownAt(mep) = {key}
        BY <3>3, <2>0, <2>1, <2>5, <1>0 DEF ShownAt, IsFree, ReplacedIsOwn, OwnerOf
      <4>2. Same BY <4>1, <3>2
      <4> QED BY <4>2
    <3>4. CASE IsFree(mep)
      <4>1. ShownAt(mep) = {} BY <3>4 DEF ShownAt, IsFree
      <4>2. ASSUME NEW r \in ember, OwnerOf(r) = key PROVE FALSE
        <5>1. r.id # mep BY <3>4 DEF IsFree
        <5>2. PICK e \in bridged : KeyOf(e) = key /\ e.mep = r.id
          BY <2>0, <5>1, <4>2, <1>0, AllHeld DEF Source
        <5>3. kvs[key] = e.mep BY <5>2, <2>1, <1>0 DEF MappingIsDurable, Live
        <5> QED BY <2>0, <5>1, <5>2, <5>3, <2>1, <1>0 DEF ReplacedIsMapped
      <4>3. \A other \in DynamicId : key \notin ShownAt(other)
        BY <4>2 DEF ShownAt, OwnerOf
      <4> QED BY <4>1, <4>3, <3>1, <3>2, <2>2
    <3> QED BY <3>3, <3>4
  <2> QED BY <2>4, <2>5
<1>3. ASSUME NEW e \in bridged, RemoveEndpoint(e)
      PROVE  \/ Same
             \/ \E id \in DynamicId :
                  /\ handler.op = "removing" /\ ShownAt(id) # {}
                  /\ \A key \in ShownAt(id) : key[1] = handler.unid
                  /\ \A other \in DynamicId :
                       ShownAt(other)' = IF other = id THEN {} ELSE ShownAt(other)
  <2>1. /\ handler.op = "removing" /\ e.unid = handler.unid
        /\ ember' = {s \in ember : s.index # e.index}
    BY <1>3 DEF RemoveEndpoint, Unregistered, Cleared, EntriesOf
  <2>2. e.mep \in MatterId BY <1>0 DEF TypeOK, Entry
  <2>3. \A s \in ember : s.index = e.index <=> s.id = e.mep
    BY <2>2, <1>a, <1>0, IndexOfFacts DEF EmberIndexed, EntriesIndexed
  <2>4. ember' = {s \in ember : s.id # e.mep} BY <2>1, <2>3
  <2>5. CASE IsFree(e.mep)
    <3>1. ember' = ember BY <2>4, <2>5 DEF IsFree
    <3>2. Same BY <3>1 DEF ShownAt
    <3> QED BY <3>2
  <2>6. CASE ~IsFree(e.mep)
    <3>1. e.mep \in DynamicId BY <2>6, <1>a DEF IsFree
    <3>2. ASSUME NEW r \in ember, r.id = e.mep PROVE r.unid = handler.unid
      <4>1. PICK f \in bridged : KeyOf(f) = OwnerOf(r) /\ f.mep = r.id
        BY <2>1, <1>0, AllHeld DEF Source
      <4>2. e = f BY <4>1, <3>2, <1>a, <1>0 DEF UniqueMatterEndpoint
      <4> QED BY <4>1, <4>2, <2>1 DEF KeyOf, OwnerOf
    <3>3. ShownAt(e.mep) # {} BY <2>6 DEF ShownAt, IsFree
    <3>4. \A key \in ShownAt(e.mep) : key[1] = handler.unid BY <3>2 DEF ShownAt
    <3>5. ASSUME NEW other \in DynamicId
          PROVE  ShownAt(other)' = IF other = e.mep THEN {} ELSE ShownAt(other)
      BY <2>4 DEF ShownAt
    <3> QED BY <3>1, <3>3, <3>4, <3>5, <2>1
  <2> QED BY <2>5, <2>6
<1>4. CASE EraseNode
  <2>1. ember' = Released(EntriesOf(handler.unid)) BY <1>4 DEF EraseNode
  <2>2. Same BY <2>1, <1>0, ReleasedFacts, SameSlotsShowSame
  <2> QED BY <2>2
<1>5. ASSUME ember' = ember PROVE Same BY <1>5 DEF ShownAt
<1>6. ASSUME NEW n \in Unid, NEW online \in NodeStates, NodeStateChanged(n, online)
      PROVE  ember' = ember
  BY <1>6 DEF NodeStateChanged
<1>7. Quiet => ember' = ember BY DEF Quiet
<1> QED BY <1>1, <1>2, <1>3, <1>4, <1>5, <1>6, <1>7, <1>0, RunSteps

\* Handling one node never takes another node's endpoint off the fabric: only
\* the removal of its own node does.
THEOREM NodesAreIsolated ==
  ASSUME PutOutcomes = {TRUE}
  PROVE  SpecOneRun => NoEviction
<1> DEFINE Step == \A id \in DynamicId : \A key \in ShownAt(id) :
                     key \in ShownAt(id)' \/ (handler # Idle /\ handler.unid = key[1])
<1>1. OneRunInv /\ [Run]_vars => [Step]_vars
  <2> SUFFICES ASSUME OneRunInv, Run, NEW id \in DynamicId, NEW key \in ShownAt(id),
                      key \notin ShownAt(id)'
               PROVE  handler # Idle /\ handler.unid = key[1]
    BY DEF vars
  <2>1. handler.op = "removing" /\ handler.unid = key[1]
    BY ShownSteps
  <2>2. handler # Idle BY <2>1 DEF Idle
  <2> QED BY <2>1, <2>2
<1> QED BY <1>1, InitOneRun, NextOneRun, PTL DEF SpecOneRun, NoEviction

\* Every behaviour of one run, seen through ember's table, is a behaviour of the
\* endpoint directory: a slot filled is a Show, a slot cleared is a Hide, and
\* everything else, the replacement of an endpoint's entry included, stutters.
THEOREM RunImplementsDirectory ==
  ASSUME PutOutcomes = {TRUE}
  PROVE  SpecOneRun => ImplementsDirectory
<1> DEFINE shown == [id \in DynamicId |-> ShownAt(id)]
<1>1. Init => Directory!Init
  BY DEF Init, VolatileInit, Directory!Init, ShownAt
<1>2. OneRunInv /\ [Run]_vars => [Directory!Next]_shown
  <2> SUFFICES ASSUME OneRunInv, [Run]_vars
               PROVE  Directory!Next \/ shown' = shown
    OBVIOUS
  <2>1. ASSUME \A id \in DynamicId : ShownAt(id)' = ShownAt(id) PROVE shown' = shown
    BY <2>1
  <2>2. ASSUME NEW id \in DynamicId, NEW key \in Key, ShownAt(id) = {},
               \A other \in DynamicId : key \notin ShownAt(other),
               \A other \in DynamicId :
                 ShownAt(other)' = IF other = id THEN {key} ELSE ShownAt(other)
        PROVE  Directory!Next
    <3>1. shown' = [shown EXCEPT ![id] = {key}] BY <2>2
    <3>2. shown[id] = {} /\ \A other \in DynamicId : key \notin shown[other] BY <2>2
    <3> QED BY <3>1, <3>2 DEF Directory!Next, Directory!Show, Directory!Vacant
  <2>3. ASSUME NEW id \in DynamicId, ShownAt(id) # {},
               \A other \in DynamicId :
                 ShownAt(other)' = IF other = id THEN {} ELSE ShownAt(other)
        PROVE  Directory!Next
    <3>1. shown' = [shown EXCEPT ![id] = {}] BY <2>3
    <3>2. shown[id] # {} BY <2>3
    <3> QED BY <3>1, <3>2 DEF Directory!Next, Directory!Hide, Directory!Vacant
  <2>4. CASE Run BY <2>1, <2>2, <2>3, <2>4, ShownSteps
  <2>5. CASE UNCHANGED vars BY <2>5 DEF vars, volatile, ShownAt
  <2> QED BY <2>4, <2>5
<1> QED BY <1>1, <1>2, InitOneRun, NextOneRun, PTL
        DEF SpecOneRun, ImplementsDirectory, Directory!Spec

=============================================================================
