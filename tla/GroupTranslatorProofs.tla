------------------------- MODULE GroupTranslatorProofs -------------------------
(***************************************************************************)
(* Proofs about the group translator, for any fabrics, groups, endpoints   *)
(* and width of the group numbers.                                         *)
(***************************************************************************)
EXTENDS GroupTranslator, FiniteSetTheorems, TLAPS

\* A number stays within its width.
LEMMA ModFacts ==
  ASSUME NEW a \in Int, NEW b \in Nat, b > 0
  PROVE  a % b \in Int /\ 0 <= a % b /\ a % b < b
  OBVIOUS

LEMMA AfterType ==
  ASSUME NEW k \in Nat, lastAllocated \in UnifyGroup
  PROVE  After(k) \in UnifyGroup
<1> DEFINE sum == lastAllocated + k
           width == MaxUnifyGroup + 1
<1>1. sum \in Int /\ width \in Nat /\ width > 0
  BY GroupAssumption DEF UnifyGroup
<1>2. After(k) = sum % width BY DEF After
<1> HIDE DEF sum
<1>3. After(k) \in Int /\ 0 <= After(k) /\ After(k) < width
  BY <1>1, <1>2, ModFacts
<1> QED BY <1>3, GroupAssumption DEF UnifyGroup

\* What the loop of add_matter_group ends on, unless it gives up.
LEMMA AllocatesFree ==
  ASSUME NEW k, Increments(k), ~Exhausted(k)
  PROVE  After(k) \notin allocated
  BY DEF Increments, StopsAt, Exhausted

LEMMA InitType == Init => TypeOK
  BY GroupAssumption DEF Init, TypeOK, UnifyGroup, NoGroup

\* What is published is a command, and the queue is bounded.
LEMMA PublishType ==
  ASSUME TypeOK, NEW c \in Command, Publish(c)
  PROVE  toUnify' \in Seq(Command) /\ Len(toUnify') <= MaxQueue
  BY GroupAssumption DEF TypeOK, Publish

LEMMA JoinType ==
  ASSUME TypeOK, NEW mg \in MatterGroup, NEW ep \in Endpoint, Join(mg, ep)
  PROVE  members' \subseteq MatterGroup \X Endpoint
  BY DEF TypeOK, Join

\* A group message is a command, addressed to a set of endpoints.
LEMMA CastIsCommand ==
  ASSUME TypeOK, NEW mg \in MatterGroup, groupMap[mg] # NoGroup
  PROVE  LET c == [cmd |-> "cast", group |-> groupMap[mg], meant |-> MembersOf(mg)]
         IN  /\ c \in Command /\ c.cmd = "cast"
             /\ c.group = groupMap[mg] /\ c.meant = MembersOf(mg)
<1>1. groupMap[mg] \in UnifyGroup BY DEF TypeOK
<1>2. MembersOf(mg) \subseteq Endpoint BY DEF MembersOf
<1> QED BY <1>1, <1>2 DEF Command

\* Its copies come after what was under way.
LEMMA CopiesAppended ==
  ASSUME NEW q \in Seq(Command), NEW c \in Command, c.cmd = "cast"
  PROVE  LET r == q \o Copies(c)
         IN  /\ r \in Seq(Command)
             /\ Len(r) = Len(q) + Cardinality(c.meant) /\ Cardinality(c.meant) \in Nat
             /\ \A i \in 1 .. Len(q) : r[i] = q[i]
             /\ \A i \in (Len(q) + 1) .. Len(r) : r[i] = c
<1> DEFINE n == Cardinality(c.meant)
           s == [i \in 1 .. n |-> c]
<1>1. c.meant \subseteq Endpoint BY DEF Command
<1>2. n \in Nat BY <1>1, GroupAssumption, FS_Subset, FS_CardinalityType
<1>3. Copies(c) = s BY DEF Copies
<1> HIDE DEF n
<1>4. s \in Seq(Command) /\ Len(s) = n /\ \A i \in 1 .. n : s[i] = c BY <1>2
<1> HIDE DEF s
<1>5. /\ q \o s \in Seq(Command) /\ Len(q \o s) = Len(q) + n /\ Len(q) \in Nat
      /\ \A i \in 1 .. Len(q) : (q \o s)[i] = q[i]
  BY <1>2, <1>4
<1>6. \A i \in (Len(q) + 1) .. (Len(q) + n) : (q \o s)[i] = c
  <2> TAKE i \in (Len(q) + 1) .. (Len(q) + n)
  <2>1. i - Len(q) \in 1 .. n BY <1>2, <1>5
  <2>2. (q \o s)[i] = s[i - Len(q)] BY <1>2, <1>4, <1>5
  <2> QED BY <2>1, <2>2, <1>4
<1> QED BY <1>2, <1>3, <1>5, <1>6 DEF n

\* Type correctness, action by action.
LEMMA NextType == TypeOK /\ [Next]_vars => TypeOK'
<1> SUFFICES ASSUME TypeOK, [Next]_vars PROVE TypeOK'
  OBVIOUS
<1> USE DEF TypeOK
<1>1. ASSUME NEW mg \in MatterGroup, NEW ep \in Endpoint, AddToKnown(mg, ep)
      PROVE  TypeOK'
  <2>1. members' \subseteq MatterGroup \X Endpoint
    BY <1>1, JoinType DEF AddToKnown
  <2>2. CASE groupMap[mg] = NoGroup BY <1>1, <2>1, <2>2 DEF AddToKnown, translator, unify
  <2>3. CASE groupMap[mg] # NoGroup
    <3> DEFINE c == [cmd |-> "AddGroup", group |-> groupMap[mg], ep |-> ep]
    <3>1. c \in Command BY <2>3 DEF Command
    <3>2. Publish(c) BY <1>1, <2>3 DEF AddToKnown
    <3>3. toUnify' \in Seq(Command) /\ Len(toUnify') <= MaxQueue
      BY <3>1, <3>2, PublishType
    <3> QED BY <1>1, <2>1, <3>3 DEF AddToKnown, translator, unify
  <2> QED BY <2>2, <2>3
<1>2. ASSUME NEW mg \in MatterGroup, NEW ep \in Endpoint, AddNew(mg, ep)
      PROVE  TypeOK'
  <2>1. members' \subseteq MatterGroup \X Endpoint
    BY <1>2, JoinType DEF AddNew
  <2>2. PICK k \in 0 .. (MaxUnifyGroup + 1) :
          /\ lastAllocated' = After(k)
          /\ groupMap' = [groupMap EXCEPT ![mg] = After(k)]
          /\ Publish([cmd |-> "AddGroup", group |-> After(k), ep |-> ep])
    BY <1>2 DEF AddNew
  <2>3. After(k) \in UnifyGroup BY AfterType, GroupAssumption
  <2>4. toUnify' \in Seq(Command) /\ Len(toUnify') <= MaxQueue
    <3> DEFINE c == [cmd |-> "AddGroup", group |-> After(k), ep |-> ep]
    <3>1. c \in Command BY <2>3 DEF Command
    <3> QED BY <2>2, <3>1, PublishType
  <2> QED BY <1>2, <2>1, <2>2, <2>3, <2>4 DEF AddNew, unify
<1>3. ASSUME NEW mg \in MatterGroup, NEW ep \in Endpoint, AddNewFails(mg, ep)
      PROVE  TypeOK'
  <2>1. members' \subseteq MatterGroup \X Endpoint
    BY <1>3, JoinType DEF AddNewFails
  <2>2. PICK k \in 0 .. (MaxUnifyGroup + 1) : lastAllocated' = After(k)
    BY <1>3 DEF AddNewFails
  <2>3. After(k) \in UnifyGroup BY AfterType, GroupAssumption
  <2> QED BY <1>3, <2>1, <2>2, <2>3 DEF AddNewFails, unify
<1>4. ASSUME NEW mg \in MatterGroup, NEW ep \in Endpoint, RemoveGroup(mg, ep)
      PROVE  TypeOK'
  <2>1. toUnify' \in Seq(Command) /\ Len(toUnify') <= MaxQueue
    <3>1. CASE groupMap[mg] = NoGroup BY <1>4, <3>1 DEF RemoveGroup
    <3>2. CASE groupMap[mg] # NoGroup
      <4> DEFINE c == [cmd |-> "RemoveGroup", group |-> groupMap[mg], ep |-> ep]
      <4>1. c \in Command BY <3>2 DEF Command
      <4>2. Publish(c) BY <1>4, <3>2 DEF RemoveGroup
      <4> QED BY <4>1, <4>2, PublishType
    <3> QED BY <3>1, <3>2
  <2> QED BY <1>4, <2>1 DEF RemoveGroup, Forgotten, unify
<1>5. ASSUME NEW fabric \in Fabric, NEW ep \in Endpoint, RemoveAllGroups(fabric, ep)
      PROVE  TypeOK'
  <2>1. toUnify' \in Seq(Command) /\ Len(toUnify') <= MaxQueue
    <3> DEFINE c == [cmd |-> "RemoveAllGroups", ep |-> ep]
    <3>1. c \in Command BY DEF Command
    <3>2. Publish(c) BY <1>5 DEF RemoveAllGroups
    <3> QED BY <3>1, <3>2, PublishType
  <2> QED BY <1>5, <2>1 DEF RemoveAllGroups, unify
<1>6. ASSUME NEW mg \in MatterGroup, GroupCommand(mg) PROVE TypeOK'
  <2> DEFINE c == [cmd |-> "cast", group |-> groupMap[mg], meant |-> MembersOf(mg)]
  <2>1. c \in Command /\ c.cmd = "cast" BY <1>6, CastIsCommand DEF GroupCommand
  <2>2. toUnify' = toUnify \o Copies(c) /\ Len(toUnify) + Cardinality(c.meant) <= MaxQueue
    BY <1>6 DEF GroupCommand
  <2> HIDE DEF c
  <2>3. toUnify' \in Seq(Command) /\ Len(toUnify') <= MaxQueue
    BY <2>1, <2>2, CopiesAppended
  <2> QED BY <1>6, <2>3 DEF GroupCommand, translator, unify
<1>7. CASE UnifyExecutes
  <2> DEFINE c == Head(toUnify)
  <2>1. /\ toUnify # <<>> /\ toUnify' = Tail(toUnify)
        /\ UNCHANGED <<translator, members>>
    BY <1>7 DEF UnifyExecutes
  <2>2. c \in Command BY <2>1
  <2>3. toUnify' \in Seq(Command) /\ Len(toUnify') <= MaxQueue
    BY <2>1, GroupAssumption
  <2>4. unifyMembers' \subseteq UnifyGroup \X Endpoint /\ nodeLists' \subseteq UnifyGroup
    <3>1. CASE /\ c.cmd = "AddGroup"
               /\ unifyMembers' = unifyMembers \cup {<<c.group, c.ep>>}
               /\ nodeLists' = nodeLists \cup {c.group}
      <4>1. c.group \in UnifyGroup /\ c.ep \in Endpoint BY <2>2, <3>1 DEF Command
      <4> QED BY <3>1, <4>1
    <3>2. ASSUME NEW leaving, Leave(leaving)
          PROVE  /\ unifyMembers' \subseteq UnifyGroup \X Endpoint
                 /\ nodeLists' \subseteq UnifyGroup
      BY <3>2 DEF Leave
    <3>3. CASE UNCHANGED unify BY <3>3 DEF unify
    <3> QED BY <1>7, <3>1, <3>2, <3>3 DEF UnifyExecutes
  <2> QED BY <2>1, <2>3, <2>4 DEF translator
<1>8. ASSUME NEW ug \in UnifyGroup, NodeListReceived(ug) PROVE TypeOK'
  BY <1>8 DEF NodeListReceived, unify
<1>9. CASE Restart BY <1>9, GroupAssumption DEF Restart, UnifyGroup, unify
<1>10. CASE UNCHANGED vars BY <1>10 DEF vars, translator, unify
<1> QED BY <1>1, <1>2, <1>3, <1>4, <1>5, <1>6, <1>7, <1>8, <1>9, <1>10
        DEF Next, AddGroup, Others

\* Every variable keeps its type.
THEOREM TypeCorrect == Spec => []TypeOK
  BY InitType, NextType, PTL DEF Spec

\* add_matter_group never hands out a Unify group that is known to be in use,
\* whatever the width of the numbers and wherever the counter wraps around.
THEOREM NeverInUse == Spec => FreshUnifyGroup
<1> DEFINE Step == \A mg \in MatterGroup :
       groupMap'[mg] \notin {groupMap[mg], NoGroup} => groupMap'[mg] \notin allocated
<1>1. TypeOK /\ [Next]_vars => [Step]_vars
  <2> SUFFICES ASSUME TypeOK, Next, NEW mg \in MatterGroup,
                      groupMap'[mg] # groupMap[mg], groupMap'[mg] # NoGroup
               PROVE  groupMap'[mg] \notin allocated
    BY DEF vars
  <2>1. ASSUME NEW new \in MatterGroup, NEW ep \in Endpoint, AddNew(new, ep)
        PROVE  groupMap'[mg] \notin allocated
    <3>1. PICK k \in 0 .. (MaxUnifyGroup + 1) :
            /\ Increments(k) /\ ~Exhausted(k)
            /\ groupMap' = [groupMap EXCEPT ![new] = After(k)]
      BY <2>1 DEF AddNew
    <3>2. groupMap'[mg] = After(k) BY <3>1 DEF TypeOK
    <3> QED BY <3>1, <3>2, AllocatesFree
  <2>2. ASSUME NEW other \in MatterGroup, NEW ep \in Endpoint, RemoveGroup(other, ep)
        PROVE  FALSE
    BY <2>2 DEF RemoveGroup, Forgotten, TypeOK
  <2>3. ASSUME NEW fabric \in Fabric, NEW ep \in Endpoint, RemoveAllGroups(fabric, ep)
        PROVE  FALSE
    BY <2>3 DEF RemoveAllGroups, TypeOK
  <2>4. ASSUME groupMap' = groupMap PROVE FALSE
    BY <2>4
  <2> QED BY <2>1, <2>2, <2>3, <2>4
          DEF Next, AddGroup, Others, AddToKnown, AddNewFails, GroupCommand,
              UnifyExecutes, NodeListReceived, Restart, translator
<1> QED BY <1>1, TypeCorrect, PTL DEF Spec, FreshUnifyGroup

(***************************************************************************)
(* Memberships, and the messages to groups.                                *)
(***************************************************************************)

\* A published command takes effect after all that was under way.
LEMMA MemberAppend ==
  ASSUME NEW q \in Seq(Command), NEW c \in Command, NEW u, NEW ug, NEW e
  PROVE  /\ \A n \in 0 .. Len(q) :
              MemberAfter(Append(q, c), u, n, ug, e) <=> MemberAfter(q, u, n, ug, e)
         /\ MemberAfter(Append(q, c), u, Len(q) + 1, ug, e)
              <=> Adds(c, ug, e) \/ (MemberAfter(q, u, Len(q), ug, e) /\ ~Removes(c, ug, e))
<1> DEFINE r == Append(q, c)
<1>1. /\ Len(q) \in Nat /\ r[Len(q) + 1] = c
      /\ \A i \in 1 .. Len(q) : r[i] = q[i]
  OBVIOUS
<1> HIDE DEF r
<1>2. ASSUME NEW n \in 0 .. Len(q)
      PROVE  MemberAfter(r, u, n, ug, e) <=> MemberAfter(q, u, n, ug, e)
  <2>1. \A i \in 1 .. n : r[i] = q[i] BY <1>1
  <2>2. \A j \in 1 .. n : \A k \in (j + 1) .. n : r[k] = q[k] BY <1>1
  <2> QED BY <2>1, <2>2 DEF MemberAfter
<1>3. MemberAfter(r, u, Len(q) + 1, ug, e)
        <=> Adds(c, ug, e) \/ (MemberAfter(q, u, Len(q), ug, e) /\ ~Removes(c, ug, e))
  <2> DEFINE l == Len(q)
  <2>0. l \in Nat /\ r[l + 1] = c /\ \A i \in 1 .. l : r[i] = q[i] BY <1>1
  <2> HIDE DEF l
  <2>1. \A k : k \in 1 .. (l + 1) <=> k \in 1 .. l \/ k = l + 1 BY <2>0
  <2>2. \A j \in 1 .. l : \A k : k \in (j + 1) .. (l + 1) <=> k \in (j + 1) .. l \/ k = l + 1
    BY <2>0
  <2>3. \A j \in 1 .. l : \A k \in (j + 1) .. l : k \in 1 .. l BY <2>0
  <2>4. \A k \in (l + 1 + 1) .. (l + 1) : FALSE BY <2>0
  <2>5. ASSUME MemberAfter(r, u, l + 1, ug, e)
        PROVE  Adds(c, ug, e) \/ (MemberAfter(q, u, l, ug, e) /\ ~Removes(c, ug, e))
    <3>1. CASE <<ug, e>> \in u /\ \A k \in 1 .. (l + 1) : ~Removes(r[k], ug, e)
      BY <3>1, <2>0, <2>1 DEF MemberAfter
    <3>2. CASE \E j \in 1 .. (l + 1) :
                 Adds(r[j], ug, e) /\ \A k \in (j + 1) .. (l + 1) : ~Removes(r[k], ug, e)
      <4>1. PICK j \in 1 .. (l + 1) :
              Adds(r[j], ug, e) /\ \A k \in (j + 1) .. (l + 1) : ~Removes(r[k], ug, e)
        BY <3>2
      <4>2. CASE j = l + 1 BY <4>1, <4>2, <2>0
      <4>3. CASE j \in 1 .. l
        <5>1. Adds(q[j], ug, e) /\ ~Removes(c, ug, e) BY <4>1, <4>3, <2>0, <2>2
        <5>2. \A k \in (j + 1) .. l : ~Removes(q[k], ug, e) BY <4>1, <4>3, <2>0, <2>2, <2>3
        <5> QED BY <5>1, <5>2, <4>3 DEF MemberAfter
      <4> QED BY <4>1, <4>2, <4>3, <2>1
    <3> QED BY <2>5, <3>1, <3>2 DEF MemberAfter
  <2>6. ASSUME Adds(c, ug, e) PROVE MemberAfter(r, u, l + 1, ug, e)
    BY <2>6, <2>0, <2>1, <2>4 DEF MemberAfter
  <2>7. ASSUME MemberAfter(q, u, l, ug, e), ~Removes(c, ug, e)
        PROVE  MemberAfter(r, u, l + 1, ug, e)
    <3>1. CASE <<ug, e>> \in u /\ \A k \in 1 .. l : ~Removes(q[k], ug, e)
      BY <3>1, <2>7, <2>0, <2>1 DEF MemberAfter
    <3>2. CASE \E j \in 1 .. l : Adds(q[j], ug, e) /\ \A k \in (j + 1) .. l : ~Removes(q[k], ug, e)
      <4>1. PICK j \in 1 .. l : Adds(q[j], ug, e) /\ \A k \in (j + 1) .. l : ~Removes(q[k], ug, e)
        BY <3>2
      <4>2. j \in 1 .. (l + 1) /\ Adds(r[j], ug, e) BY <4>1, <2>0, <2>1
      <4>3. \A k \in (j + 1) .. (l + 1) : ~Removes(r[k], ug, e)
        BY <4>1, <2>0, <2>2, <2>3, <2>7
      <4> QED BY <4>2, <4>3 DEF MemberAfter
    <3> QED BY <2>7, <3>1, <3>2 DEF MemberAfter
  <2> QED BY <2>5, <2>6, <2>7 DEF l
<1> QED BY <1>2, <1>3 DEF r

\* Executing the first command leaves what the rest will come to unchanged.
LEMMA MemberTail ==
  ASSUME NEW q \in Seq(Command), q # <<>>, NEW u, NEW v, NEW ug, NEW e,
         <<ug, e>> \in v <=> Adds(q[1], ug, e) \/ (<<ug, e>> \in u /\ ~Removes(q[1], ug, e))
  PROVE  \A n \in 0 .. (Len(q) - 1) :
           MemberAfter(Tail(q), v, n, ug, e) <=> MemberAfter(q, u, n + 1, ug, e)
<1> SUFFICES ASSUME NEW n \in 0 .. (Len(q) - 1)
             PROVE  MemberAfter(Tail(q), v, n, ug, e) <=> MemberAfter(q, u, n + 1, ug, e)
  OBVIOUS
<1> DEFINE t == Tail(q)
<1>1. n \in Nat /\ \A i \in 1 .. n : t[i] = q[i + 1] OBVIOUS
<1> HIDE DEF t
<1>2. \A k \in 2 .. (n + 1) : k - 1 \in 1 .. n /\ q[k] = t[k - 1]
  <2> TAKE k \in 2 .. (n + 1)
  <2>1. k - 1 \in 1 .. n /\ (k - 1) + 1 = k BY <1>1
  <2> QED BY <2>1, <1>1
<1>3. ASSUME MemberAfter(t, v, n, ug, e) PROVE MemberAfter(q, u, n + 1, ug, e)
  <2>1. CASE <<ug, e>> \in v /\ \A k \in 1 .. n : ~Removes(t[k], ug, e)
    <3>1. \A k \in 2 .. (n + 1) : ~Removes(q[k], ug, e) BY <2>1, <1>2
    <3>2. CASE Adds(q[1], ug, e)
      <4>1. 1 \in 1 .. (n + 1) /\ 1 + 1 = 2 BY <1>1
      <4> QED BY <3>1, <3>2, <4>1 DEF MemberAfter
    <3>3. CASE <<ug, e>> \in u /\ ~Removes(q[1], ug, e)
      <4>1. \A k \in 1 .. (n + 1) : k = 1 \/ k \in 2 .. (n + 1) BY <1>1
      <4> QED BY <3>1, <3>3, <4>1 DEF MemberAfter
    <3> QED BY <2>1, <3>2, <3>3
  <2>2. CASE \E j \in 1 .. n : Adds(t[j], ug, e) /\ \A k \in (j + 1) .. n : ~Removes(t[k], ug, e)
    <3>1. PICK j \in 1 .. n : Adds(t[j], ug, e) /\ \A k \in (j + 1) .. n : ~Removes(t[k], ug, e)
      BY <2>2
    <3>2. j + 1 \in 1 .. (n + 1) /\ Adds(q[j + 1], ug, e) BY <3>1, <1>1
    <3>3. \A k \in (j + 1 + 1) .. (n + 1) : k \in 2 .. (n + 1) /\ k - 1 \in (j + 1) .. n
      BY <1>1
    <3>4. \A k \in (j + 1 + 1) .. (n + 1) : ~Removes(q[k], ug, e) BY <3>1, <3>3, <1>2
    <3> QED BY <3>2, <3>4 DEF MemberAfter
  <2> QED BY <1>3, <2>1, <2>2 DEF MemberAfter
<1>4. ASSUME MemberAfter(q, u, n + 1, ug, e) PROVE MemberAfter(t, v, n, ug, e)
  <2>0. \A k \in 1 .. n : k + 1 \in 1 .. (n + 1) /\ k + 1 \in 2 .. (n + 1) BY <1>1
  <2>1. CASE <<ug, e>> \in u /\ \A k \in 1 .. (n + 1) : ~Removes(q[k], ug, e)
    <3>1. 1 \in 1 .. (n + 1) BY <1>1
    <3>2. <<ug, e>> \in v BY <2>1, <3>1
    <3>3. \A k \in 1 .. n : ~Removes(t[k], ug, e) BY <2>1, <2>0, <1>1
    <3> QED BY <3>2, <3>3 DEF MemberAfter
  <2>2. CASE \E j \in 1 .. (n + 1) :
               Adds(q[j], ug, e) /\ \A k \in (j + 1) .. (n + 1) : ~Removes(q[k], ug, e)
    <3>1. PICK j \in 1 .. (n + 1) :
            Adds(q[j], ug, e) /\ \A k \in (j + 1) .. (n + 1) : ~Removes(q[k], ug, e)
      BY <2>2
    <3>2. CASE j = 1
      <4>1. \A k \in 2 .. (n + 1) : ~Removes(q[k], ug, e) BY <3>1, <3>2
      <4>2. \A k \in 1 .. n : ~Removes(t[k], ug, e) BY <4>1, <2>0, <1>1
      <4> QED BY <3>1, <3>2, <4>2 DEF MemberAfter
    <3>3. CASE j # 1
      <4>1. j \in 2 .. (n + 1) BY <3>3, <1>1
      <4>2. j - 1 \in 1 .. n /\ Adds(t[j - 1], ug, e) BY <4>1, <3>1, <1>2
      <4>3. \A k \in (j - 1 + 1) .. n : k \in 1 .. n /\ k + 1 \in (j + 1) .. (n + 1)
        BY <4>1, <1>1
      <4>4. \A k \in (j - 1 + 1) .. n : ~Removes(t[k], ug, e) BY <4>3, <3>1, <1>1
      <4> QED BY <4>2, <4>4 DEF MemberAfter
    <3> QED BY <3>2, <3>3
  <2> QED BY <1>4, <2>1, <2>2 DEF MemberAfter
<1> QED BY <1>3, <1>4 DEF t

\* A queue that goes on with group messages comes to the same memberships.
LEMMA MemberCasts ==
  ASSUME NEW q \in Seq(Command), NEW r \in Seq(Command), Len(q) <= Len(r),
         \A i \in 1 .. Len(q) : r[i] = q[i],
         \A i \in (Len(q) + 1) .. Len(r) : r[i].cmd = "cast",
         NEW u, NEW ug, NEW e
  PROVE  /\ \A n \in 0 .. Len(q) :
              MemberAfter(r, u, n, ug, e) <=> MemberAfter(q, u, n, ug, e)
         /\ \A n \in Len(q) .. Len(r) :
              MemberAfter(r, u, n, ug, e) <=> MemberAfter(q, u, Len(q), ug, e)
<1> DEFINE l == Len(q)
<1>0. l \in Nat /\ Len(r) \in Nat OBVIOUS
<1> HIDE DEF l
<1>1. ASSUME NEW n \in 0 .. l
      PROVE  MemberAfter(r, u, n, ug, e) <=> MemberAfter(q, u, n, ug, e)
  <2>1. \A i \in 1 .. n : r[i] = q[i] BY <1>0, <1>1 DEF l
  <2>2. \A j \in 1 .. n : \A k \in (j + 1) .. n : r[k] = q[k] BY <1>0, <1>1 DEF l
  <2> QED BY <2>1, <2>2 DEF MemberAfter
<1>2. ASSUME NEW n \in l .. Len(r)
      PROVE  MemberAfter(r, u, n, ug, e) <=> MemberAfter(r, u, l, ug, e)
  <2>1. \A i \in (l + 1) .. n : ~Removes(r[i], ug, e) /\ ~Adds(r[i], ug, e)
    <3> TAKE i \in (l + 1) .. n
    <3>1. i \in (l + 1) .. Len(r) BY <1>0, <1>2
    <3>2. r[i].cmd = "cast" BY <3>1 DEF l
    <3> QED BY <3>2 DEF Removes, Adds
  <2>2. n \in Nat /\ \A i \in 1 .. n : i \in 1 .. l \/ i \in (l + 1) .. n
    BY <1>0, <1>2
  <2>3. \A i \in 1 .. l : i \in 1 .. n BY <1>0, <1>2
  <2>4. \A j \in 1 .. l : \A k \in (j + 1) .. n : k \in (j + 1) .. l \/ k \in (l + 1) .. n
    BY <1>0, <1>2
  <2>5. \A j \in 1 .. l : \A k \in (j + 1) .. l : k \in (j + 1) .. n
    BY <1>0, <1>2
  <2>6. (\A k \in 1 .. n : ~Removes(r[k], ug, e)) <=> \A k \in 1 .. l : ~Removes(r[k], ug, e)
    BY <2>1, <2>2, <2>3
  <2>7. ASSUME NEW j \in 1 .. l
        PROVE  (\A k \in (j + 1) .. n : ~Removes(r[k], ug, e))
                 <=> \A k \in (j + 1) .. l : ~Removes(r[k], ug, e)
    BY <2>1, <2>4, <2>5
  <2>8. (\E j \in 1 .. n : /\ Adds(r[j], ug, e)
                           /\ \A k \in (j + 1) .. n : ~Removes(r[k], ug, e))
          <=> \E j \in 1 .. l : /\ Adds(r[j], ug, e)
                                /\ \A k \in (j + 1) .. l : ~Removes(r[k], ug, e)
    BY <2>1, <2>2, <2>3, <2>7
  <2> QED BY <2>6, <2>8 DEF MemberAfter
<1>3. l \in 0 .. l BY <1>0
<1> QED BY <1>1, <1>2, <1>3 DEF l

\* Publishing a change of memberships keeps the agreement if the members on the
\* Matter side change as the command will change those on the Unify side.
LEMMA PublishAgrees ==
  ASSUME TypeOK, CastsAgree, NEW c \in Command, c.cmd # "cast", Publish(c),
         unifyMembers' = unifyMembers,
         \A mg \in MatterGroup, ep \in Endpoint : groupMap'[mg] # NoGroup =>
           (<<mg, ep>> \in members'
              <=> \/ Adds(c, groupMap'[mg], ep)
                  \/ /\ MemberAfter(toUnify, unifyMembers, Len(toUnify), groupMap'[mg], ep)
                     /\ ~Removes(c, groupMap'[mg], ep))
  PROVE  MappedAgree' /\ CastsAgree'
<1> DEFINE q == toUnify
           u == unifyMembers
           l == Len(q)
<1>1. q \in Seq(Command) /\ toUnify' = Append(q, c) /\ l \in Nat
  BY DEF TypeOK, Publish
<1>2. /\ Len(toUnify') = l + 1 /\ toUnify'[l + 1] = c
      /\ \A i \in 1 .. l : toUnify'[i] = q[i]
  BY <1>1
<1>3. ASSUME NEW ug, NEW ep, NEW n \in 0 .. l
      PROVE  MemberAfter(toUnify', u, n, ug, ep) <=> MemberAfter(q, u, n, ug, ep)
  BY <1>1, MemberAppend
<1>4. ASSUME NEW ug, NEW ep
      PROVE  MemberAfter(toUnify', u, l + 1, ug, ep)
               <=> Adds(c, ug, ep) \/ (MemberAfter(q, u, l, ug, ep) /\ ~Removes(c, ug, ep))
  BY <1>1, MemberAppend
<1>5. MappedAgree'
  <2> SUFFICES ASSUME NEW mg \in MatterGroup, NEW ep \in Endpoint, groupMap'[mg] # NoGroup
               PROVE  <<mg, ep>> \in members'
                        <=> MemberAfter(toUnify', u, l + 1, groupMap'[mg], ep)
    BY <1>2 DEF MappedAgree
  <2> QED BY <1>4
<1>6. CastsAgree'
  <2> SUFFICES ASSUME NEW i \in 1 .. (l + 1), NEW ep \in Endpoint, toUnify'[i].cmd = "cast"
               PROVE  ep \in toUnify'[i].meant
                        <=> MemberAfter(toUnify', u, i - 1, toUnify'[i].group, ep)
    BY <1>2 DEF CastsAgree
  <2>1. i # l + 1 BY <1>2
  <2>2. i \in 1 .. l /\ i - 1 \in 0 .. l BY <2>1, <1>1
  <2>3. toUnify'[i] = q[i] BY <2>2, <1>2
  <2>4. ep \in q[i].meant <=> MemberAfter(q, u, i - 1, q[i].group, ep)
    BY <2>2, <2>3 DEF CastsAgree
  <2> QED BY <2>2, <2>3, <2>4, <1>3
<1> QED BY <1>5, <1>6

\* So does a group message that is meant for the members of now.
LEMMA CopiesAgree ==
  ASSUME TypeOK, MappedAgree, CastsAgree, NEW mg \in MatterGroup, GroupCommand(mg)
  PROVE  MappedAgree' /\ CastsAgree'
<1> DEFINE q == toUnify
           u == unifyMembers
           l == Len(q)
           c == [cmd |-> "cast", group |-> groupMap[mg], meant |-> MembersOf(mg)]
<1>1. /\ c \in Command /\ c.cmd = "cast"
      /\ c.group = groupMap[mg] /\ c.meant = MembersOf(mg)
  BY CastIsCommand DEF GroupCommand
<1>2. /\ toUnify' = q \o Copies(c) /\ groupMap[mg] # NoGroup
      /\ groupMap' = groupMap /\ members' = members /\ unifyMembers' = unifyMembers
  BY DEF GroupCommand, translator, unify
<1>3. q \in Seq(Command) /\ l \in Nat BY DEF TypeOK
<1> HIDE DEF c
<1>4. PICK r : r = toUnify' OBVIOUS
<1>5. /\ r \in Seq(Command) /\ Len(r) \in Nat /\ l <= Len(r)
      /\ \A i \in 1 .. l : r[i] = q[i]
      /\ \A i \in (l + 1) .. Len(r) : r[i] = c
  BY <1>1, <1>2, <1>3, <1>4, CopiesAppended
<1>6. \A i \in (l + 1) .. Len(r) : r[i].cmd = "cast" BY <1>1, <1>5
<1>7. ASSUME NEW ug, NEW ep
      PROVE  /\ \A n \in 0 .. l : MemberAfter(r, u, n, ug, ep) <=> MemberAfter(q, u, n, ug, ep)
             /\ \A n \in l .. Len(r) :
                  MemberAfter(r, u, n, ug, ep) <=> MemberAfter(q, u, l, ug, ep)
  BY <1>3, <1>5, <1>6, MemberCasts
<1>8. MappedAgree'
  <2> SUFFICES ASSUME NEW other \in MatterGroup, NEW ep \in Endpoint, groupMap[other] # NoGroup
               PROVE  <<other, ep>> \in members
                        <=> MemberAfter(r, u, Len(r), groupMap[other], ep)
    BY <1>2, <1>4 DEF MappedAgree
  <2>1. Len(r) \in l .. Len(r) BY <1>3, <1>5
  <2> QED BY <2>1, <1>7 DEF MappedAgree
<1>9. CastsAgree'
  <2> SUFFICES ASSUME NEW i \in 1 .. Len(r), NEW ep \in Endpoint, r[i].cmd = "cast"
               PROVE  ep \in r[i].meant <=> MemberAfter(r, u, i - 1, r[i].group, ep)
    BY <1>2, <1>4 DEF CastsAgree
  <2>1. CASE i \in 1 .. l
    <3>1. i - 1 \in 0 .. l /\ r[i] = q[i] BY <2>1, <1>3, <1>5
    <3>2. ep \in q[i].meant <=> MemberAfter(q, u, i - 1, q[i].group, ep)
      BY <2>1, <3>1 DEF CastsAgree
    <3> QED BY <3>1, <3>2, <1>7
  <2>2. CASE i \notin 1 .. l
    <3>1. i \in (l + 1) .. Len(r) /\ i - 1 \in l .. Len(r) BY <2>2, <1>3, <1>5
    <3>2. r[i] = c BY <3>1, <1>5
    <3>3. ep \in c.meant <=> MemberAfter(q, u, l, groupMap[mg], ep)
      BY <1>1, <1>2 DEF MappedAgree, MembersOf
    <3> QED BY <3>1, <3>2, <3>3, <1>1, <1>7
  <2> QED BY <2>1, <2>2
<1> QED BY <1>8, <1>9

\* Unify executes the first command.
LEMMA ExecuteAgrees ==
  ASSUME TypeOK, MappedAgree, CastsAgree, UnifyExecutes
  PROVE  MappedAgree' /\ CastsAgree'
<1> DEFINE q == toUnify
           l == Len(q)
           c == q[1]
<1>1. /\ q # <<>> /\ toUnify' = Tail(q) /\ groupMap' = groupMap /\ members' = members
      /\ Head(q) = c /\ q \in Seq(Command)
  BY DEF UnifyExecutes, translator, TypeOK
<1>2. /\ l \in Nat \ {0} /\ Len(toUnify') = l - 1 /\ c \in Command
      /\ \A i \in 1 .. (l - 1) : toUnify'[i] = q[i + 1]
  BY <1>1
<1>3. ASSUME NEW ug \in UnifyGroup, NEW e \in Endpoint
      PROVE  <<ug, e>> \in unifyMembers'
               <=> Adds(c, ug, e) \/ (<<ug, e>> \in unifyMembers /\ ~Removes(c, ug, e))
  <2>1. CASE /\ c.cmd = "AddGroup"
             /\ unifyMembers' = unifyMembers \cup {<<c.group, c.ep>>}
    BY <2>1 DEF Adds, Removes
  <2>2. CASE c.cmd = "RemoveGroup" /\ Leave({<<c.group, c.ep>>})
    BY <2>2 DEF Adds, Removes, Leave
  <2>3. CASE c.cmd = "RemoveAllGroups" /\ Leave({m \in unifyMembers : m[2] = c.ep})
    BY <2>3 DEF Adds, Removes, Leave
  <2>4. CASE c.cmd = "cast" /\ UNCHANGED unify
    BY <2>4 DEF Adds, Removes, unify
  <2> QED BY <1>1, <2>1, <2>2, <2>3, <2>4 DEF UnifyExecutes
<1>4. PICK t, v : t = toUnify' /\ v = unifyMembers' OBVIOUS
<1>5. ASSUME NEW ug \in UnifyGroup, NEW e \in Endpoint, NEW n \in 0 .. (l - 1)
      PROVE  MemberAfter(t, v, n, ug, e) <=> MemberAfter(q, unifyMembers, n + 1, ug, e)
  <2>1. <<ug, e>> \in v
          <=> Adds(q[1], ug, e) \/ (<<ug, e>> \in unifyMembers /\ ~Removes(q[1], ug, e))
    BY <1>3, <1>4
  <2>2. t = Tail(q) BY <1>1, <1>4
  <2> QED BY <1>1, <2>1, <2>2, MemberTail
<1>6. MappedAgree'
  <2> SUFFICES ASSUME NEW mg \in MatterGroup, NEW ep \in Endpoint, groupMap[mg] # NoGroup
               PROVE  <<mg, ep>> \in members <=> MemberAfter(t, v, l - 1, groupMap[mg], ep)
    BY <1>1, <1>2, <1>4 DEF MappedAgree
  <2>1. groupMap[mg] \in UnifyGroup BY DEF TypeOK
  <2>2. l - 1 \in 0 .. (l - 1) /\ (l - 1) + 1 = l BY <1>2
  <2> QED BY <2>1, <2>2, <1>5 DEF MappedAgree
<1>7. CastsAgree'
  <2> SUFFICES ASSUME NEW i \in 1 .. (l - 1), NEW ep \in Endpoint, t[i].cmd = "cast"
               PROVE  ep \in t[i].meant <=> MemberAfter(t, v, i - 1, t[i].group, ep)
    BY <1>2, <1>4 DEF CastsAgree
  <2>1. t[i] = q[i + 1] /\ i + 1 \in 1 .. l BY <1>2, <1>4
  <2>2. ep \in q[i + 1].meant
          <=> MemberAfter(q, unifyMembers, i + 1 - 1, q[i + 1].group, ep)
    BY <2>1 DEF CastsAgree
  <2>3. q[i + 1] \in Command BY <2>1, <1>1
  <2>4. q[i + 1].group \in UnifyGroup BY <2>1, <2>3 DEF Command
  <2>5. i - 1 \in 0 .. (l - 1) /\ (i - 1) + 1 = i + 1 - 1 BY <1>2
  <2> QED BY <2>1, <2>2, <2>4, <2>5, <1>5
<1> QED BY <1>6, <1>7

LEMMA InitAgree == Init => AgreeInv
<1> SUFFICES ASSUME Init PROVE AgreeInv
  OBVIOUS
<1>1. TypeOK BY InitType
<1>2. /\ toUnify = <<>> /\ Len(toUnify) = 0
      /\ \A mg \in MatterGroup : groupMap[mg] = NoGroup
  BY DEF Init
<1> QED BY <1>1, <1>2
        DEF AgreeInv, MappedAreKnown, DistinctUnifyGroups, MappedAgree, CastsAgree

\* With one fabric and a stack that has room, every step keeps both sides in
\* agreement: a number that an up-to-date translator takes for free is that of no
\* mapping, and nobody is or will be in its group, whatever is under way for it.
LEMMA NextAgree ==
  ASSUME \A f \in Fabric, g \in Fabric : f = g, StackOutcomes = {TRUE}
  PROVE  AgreeInv /\ [NextUpToDate]_vars => AgreeInv'
<1> DEFINE Maps    == MappedAreKnown /\ DistinctUnifyGroups
           Members == MappedAgree /\ CastsAgree
<1>n. [NextUpToDate]_vars => [Next]_vars
  BY DEF NextUpToDate, Next
<1> SUFFICES ASSUME AgreeInv, [NextUpToDate]_vars PROVE Maps' /\ Members'
  BY <1>n, NextType DEF AgreeInv
<1>0. TypeOK /\ MappedAreKnown /\ DistinctUnifyGroups /\ MappedAgree /\ CastsAgree
  BY DEF AgreeInv
<1>t. /\ groupMap \in [MatterGroup -> UnifyGroup \cup {NoGroup}]
      /\ members \subseteq MatterGroup \X Endpoint
  BY <1>0 DEF TypeOK
<1>u. ASSUME UNCHANGED <<groupMap, toUnify, unifyMembers>>,
             \A mg \in MatterGroup, ep \in Endpoint : groupMap[mg] # NoGroup =>
               (<<mg, ep>> \in members' <=> <<mg, ep>> \in members)
      PROVE  Maps' /\ Members'
  <2>1. Maps' BY <1>0, <1>u DEF MappedAreKnown, Known, MembersOf, DistinctUnifyGroups
  <2>2. MappedAgree' BY <1>0, <1>u DEF MappedAgree
  <2>3. CastsAgree' BY <1>0, <1>u DEF CastsAgree
  <2> QED BY <2>1, <2>2, <2>3
<1>1. ASSUME NEW mg \in MatterGroup, NEW ep \in Endpoint, AddToKnown(mg, ep)
      PROVE  Maps' /\ Members'
  <2>1. /\ members' = members \cup {<<mg, ep>>}
        /\ groupMap' = groupMap /\ unifyMembers' = unifyMembers
    BY <1>1 DEF AddToKnown, Join, translator, unify
  <2>2. CASE groupMap[mg] = NoGroup
    BY <1>1, <1>u, <2>1, <2>2 DEF AddToKnown
  <2>3. CASE groupMap[mg] # NoGroup
    <3> DEFINE c == [cmd |-> "AddGroup", group |-> groupMap[mg], ep |-> ep]
    <3>1. c \in Command /\ c.cmd # "cast" BY <2>3, <1>t DEF Command
    <3>2. Publish(c) BY <1>1, <2>3 DEF AddToKnown
    <3>3. \A ug, e : /\ Adds(c, ug, e) <=> groupMap[mg] = ug /\ ep = e
                     /\ ~Removes(c, ug, e)
      BY DEF Adds, Removes
    <3> HIDE DEF c
    <3>4. ASSUME NEW other \in MatterGroup, NEW e \in Endpoint, groupMap'[other] # NoGroup
          PROVE  <<other, e>> \in members'
                   <=> \/ Adds(c, groupMap'[other], e)
                       \/ /\ MemberAfter(toUnify, unifyMembers, Len(toUnify), groupMap'[other], e)
                          /\ ~Removes(c, groupMap'[other], e)
      <4>1. groupMap[mg] = groupMap[other] <=> mg = other
        BY <2>1, <2>3, <3>4, <1>0 DEF DistinctUnifyGroups
      <4>2. <<other, e>> \in members
              <=> MemberAfter(toUnify, unifyMembers, Len(toUnify), groupMap[other], e)
        BY <2>1, <3>4, <1>0 DEF MappedAgree
      <4> QED BY <2>1, <3>3, <4>1, <4>2
    <3>5. Members' BY <3>1, <3>2, <3>4, <2>1, <1>0, PublishAgrees
    <3>6. Maps' BY <2>1, <1>0 DEF MappedAreKnown, Known, MembersOf, DistinctUnifyGroups
    <3> QED BY <3>5, <3>6
  <2> QED BY <2>2, <2>3
<1>2. ASSUME UpToDate, NEW mg \in MatterGroup, NEW ep \in Endpoint, AddNew(mg, ep)
      PROVE  Maps' /\ Members'
  <2>1. PICK k \in 0 .. (MaxUnifyGroup + 1) :
          /\ Increments(k) /\ ~Exhausted(k)
          /\ groupMap' = [groupMap EXCEPT ![mg] = After(k)]
          /\ Publish([cmd |-> "AddGroup", group |-> After(k), ep |-> ep])
    BY <1>2 DEF AddNew
  <2> DEFINE new == After(k)
             c   == [cmd |-> "AddGroup", group |-> new, ep |-> ep]
  <2>2. new \in UnifyGroup /\ new \notin allocated
    BY <2>1, <1>0, AfterType, AllocatesFree, GroupAssumption DEF TypeOK
  <2>3. Publish(c) /\ groupMap' = [groupMap EXCEPT ![mg] = new] BY <2>1
  <2> HIDE DEF new
  <2>4. members' = members \cup {<<mg, ep>>} /\ unifyMembers' = unifyMembers
    BY <1>2 DEF AddNew, Join, unify
  <2>5. c \in Command /\ c.cmd # "cast" BY <2>2 DEF Command
  <2>6. \A ug, e : (Adds(c, ug, e) <=> new = ug /\ ep = e) /\ ~Removes(c, ug, e)
    BY DEF Adds, Removes
  <2> HIDE DEF c
  <2>7. \A e \in Endpoint : ~MemberAfter(toUnify, unifyMembers, Len(toUnify), new, e)
    BY <2>2, <1>2 DEF UpToDate, InUse
  <2>8. ASSUME NEW other \in MatterGroup, groupMap[other] # NoGroup
        PROVE  groupMap[other] # new /\ other # mg
    <3>1. PICK e \in Endpoint : <<other, e>> \in members
      BY <2>8, <1>0 DEF MappedAreKnown, Known, MembersOf
    <3>2. MemberAfter(toUnify, unifyMembers, Len(toUnify), groupMap[other], e)
      BY <2>8, <3>1, <1>0 DEF MappedAgree
    <3>3. other # mg BY <3>1, <1>2 DEF AddNew, Known, MembersOf
    <3> QED BY <2>7, <3>2, <3>3
  <2>9. /\ groupMap'[mg] = new
        /\ \A other \in MatterGroup : other # mg => groupMap'[other] = groupMap[other]
    BY <2>3, <1>t
  <2>10. Maps'
    <3>1. DistinctUnifyGroups' BY <2>8, <2>9, <1>0 DEF DistinctUnifyGroups
    <3>2. MappedAreKnown' BY <2>4, <2>9, <1>0 DEF MappedAreKnown, Known, MembersOf
    <3> QED BY <3>1, <3>2
  <2>11. ASSUME NEW other \in MatterGroup, NEW e \in Endpoint, groupMap'[other] # NoGroup
         PROVE  <<other, e>> \in members'
                  <=> \/ Adds(c, groupMap'[other], e)
                      \/ /\ MemberAfter(toUnify, unifyMembers, Len(toUnify), groupMap'[other], e)
                         /\ ~Removes(c, groupMap'[other], e)
    <3>1. CASE other = mg
      <4>1. <<mg, e>> \notin members BY <1>2 DEF AddNew, Known, MembersOf
      <4>2. <<mg, e>> \in members' <=> ep = e BY <4>1, <2>4
      <4> QED BY <3>1, <4>2, <2>6, <2>7, <2>9
    <3>2. CASE other # mg
      <4>1. groupMap'[other] = groupMap[other] /\ groupMap[other] # new
        BY <3>2, <2>8, <2>9, <2>11
      <4>2. <<other, e>> \in members
              <=> MemberAfter(toUnify, unifyMembers, Len(toUnify), groupMap[other], e)
        BY <4>1, <2>11, <1>0 DEF MappedAgree
      <4>3. <<other, e>> \in members' <=> <<other, e>> \in members BY <3>2, <2>4
      <4> QED BY <4>1, <4>2, <4>3, <2>6
    <3> QED BY <3>1, <3>2
  <2>12. Members' BY <2>3, <2>4, <2>5, <2>11, <1>0, PublishAgrees
  <2> QED BY <2>10, <2>12
<1>3. ASSUME NEW mg \in MatterGroup, NEW ep \in Endpoint, AddNewFails(mg, ep)
      PROVE  Maps' /\ Members'
  <2>1. /\ members' = members \cup {<<mg, ep>>}
        /\ UNCHANGED <<groupMap, unifyMembers, toUnify>>
    BY <1>3 DEF AddNewFails, Join, unify
  <2>2. groupMap[mg] = NoGroup BY <1>3, <1>0 DEF AddNewFails, MappedAreKnown
  <2> QED BY <1>u, <2>1, <2>2
<1>4. ASSUME NEW mg \in MatterGroup, NEW ep \in Endpoint, RemoveGroup(mg, ep)
      PROVE  Maps' /\ Members'
  <2>1. /\ groupMap' = [groupMap EXCEPT ![mg] = NoGroup]
        /\ unifyMembers' = unifyMembers /\ members' = members \ {<<mg, ep>>}
    BY <1>4 DEF RemoveGroup, Forgotten, unify
  <2>2. /\ groupMap'[mg] = NoGroup
        /\ \A other \in MatterGroup : other # mg => groupMap'[other] = groupMap[other]
    BY <2>1, <1>t
  <2>3. ASSUME NEW other \in MatterGroup, groupMap'[other] # NoGroup, NEW e \in Endpoint
        PROVE  /\ groupMap'[other] = groupMap[other] /\ other # mg
               /\ <<other, e>> \in members' <=> <<other, e>> \in members
    BY <2>1, <2>2, <2>3
  <2>4. Maps'
    <3>1. DistinctUnifyGroups' BY <2>2, <1>0 DEF DistinctUnifyGroups
    <3>2. MappedAreKnown' BY <2>3, <1>0 DEF MappedAreKnown, Known, MembersOf
    <3> QED BY <3>1, <3>2
  <2>5. CASE groupMap[mg] = NoGroup
    <3>1. groupMap' = groupMap BY <2>1, <2>5, <1>t
    <3>2. toUnify' = toUnify BY <1>4, <2>5 DEF RemoveGroup
    <3> QED BY <3>1, <3>2, <2>1, <2>3, <1>u
  <2>6. CASE groupMap[mg] # NoGroup
    <3> DEFINE c == [cmd |-> "RemoveGroup", group |-> groupMap[mg], ep |-> ep]
    <3>1. c \in Command /\ c.cmd # "cast" BY <2>6, <1>t DEF Command
    <3>2. Publish(c) BY <1>4, <2>6 DEF RemoveGroup
    <3>3. \A ug, e : ~Adds(c, ug, e) /\ (Removes(c, ug, e) => ug = groupMap[mg])
      BY DEF Adds, Removes
    <3> HIDE DEF c
    <3>4. ASSUME NEW other \in MatterGroup, NEW e \in Endpoint, groupMap'[other] # NoGroup
          PROVE  <<other, e>> \in members'
                   <=> \/ Adds(c, groupMap'[other], e)
                       \/ /\ MemberAfter(toUnify, unifyMembers, Len(toUnify), groupMap'[other], e)
                          /\ ~Removes(c, groupMap'[other], e)
      <4>1. groupMap[other] # groupMap[mg]
        BY <2>3, <2>6, <3>4, <1>0 DEF DistinctUnifyGroups
      <4>2. <<other, e>> \in members
              <=> MemberAfter(toUnify, unifyMembers, Len(toUnify), groupMap[other], e)
        BY <2>3, <3>4, <1>0 DEF MappedAgree
      <4> QED BY <2>3, <3>3, <3>4, <4>1, <4>2
    <3>5. Members' BY <3>1, <3>2, <3>4, <2>1, <1>0, PublishAgrees
    <3> QED BY <3>5, <2>4
  <2> QED BY <2>5, <2>6
<1>5. ASSUME NEW fabric \in Fabric, NEW ep \in Endpoint, RemoveAllGroups(fabric, ep)
      PROVE  Maps' /\ Members'
  <2> DEFINE c == [cmd |-> "RemoveAllGroups", ep |-> ep]
  <2>1. c \in Command /\ c.cmd # "cast" BY DEF Command
  <2>2. Publish(c) /\ unifyMembers' = unifyMembers BY <1>5 DEF RemoveAllGroups, unify
  <2>3. ASSUME NEW mg \in MatterGroup PROVE groupMap'[mg] = NoGroup
    <3>1. mg[1] = fabric BY DEF MatterGroup
    <3>2. groupMap'[mg] = IF mg[1] = fabric /\ Known(mg) THEN NoGroup ELSE groupMap[mg]
      BY <1>5 DEF RemoveAllGroups
    <3> QED BY <3>1, <3>2, <1>0 DEF MappedAreKnown
  <2> HIDE DEF c
  <2>4. Members' BY <2>1, <2>2, <2>3, <1>0, PublishAgrees
  <2>5. Maps' BY <2>3 DEF MappedAreKnown, DistinctUnifyGroups
  <2> QED BY <2>4, <2>5
<1>6. ASSUME NEW mg \in MatterGroup, GroupCommand(mg)
      PROVE  Maps' /\ Members'
  <2>1. Members' BY <1>6, <1>0, CopiesAgree
  <2>2. Maps' BY <1>6, <1>0 DEF GroupCommand, translator, MappedAreKnown, Known, MembersOf,
                                DistinctUnifyGroups
  <2> QED BY <2>1, <2>2
<1>7. CASE UnifyExecutes
  <2>1. Members' BY <1>7, <1>0, ExecuteAgrees
  <2>2. Maps' BY <1>7, <1>0 DEF UnifyExecutes, translator, MappedAreKnown, Known, MembersOf,
                                DistinctUnifyGroups
  <2> QED BY <2>1, <2>2
<1>8. ASSUME UNCHANGED <<groupMap, members, toUnify, unifyMembers>> PROVE Maps' /\ Members'
  BY <1>8, <1>u
<1> QED BY <1>1, <1>2, <1>3, <1>4, <1>5, <1>6, <1>7, <1>8
        DEF NextUpToDate, AddGroup, Others, NodeListReceived, Restart,
            vars, translator, unify

\* Two Matter groups never share a Unify group, restarts and lost writes included:
\* with one fabric, a stack that has room, and a translator that knows what will be
\* in use when it allocates.
THEOREM DistinctGroups ==
  ASSUME \A f \in Fabric, g \in Fabric : f = g, StackOutcomes = {TRUE}
  PROVE  SpecUpToDate => []DistinctUnifyGroups
<1>1. AgreeInv => DistinctUnifyGroups BY DEF AgreeInv
<1> QED BY <1>1, InitAgree, NextAgree, PTL DEF SpecUpToDate

\* A group message reaches exactly the endpoints it was meant for, whatever was
\* under way when it was sent, and also when its Unify group has been freed and
\* given to another Matter group before Unify executed it: for any number of
\* endpoints, under the same assumptions.
THEOREM MessagesReachMembers ==
  ASSUME \A f \in Fabric, g \in Fabric : f = g, StackOutcomes = {TRUE}
  PROVE  SpecUpToDate => []CommandReachesMembers
<1>1. AgreeInv => CommandReachesMembers
  <2> SUFFICES ASSUME TypeOK, CastsAgree, toUnify # <<>>, Head(toUnify).cmd = "cast"
               PROVE  UnifyMembersOf(Head(toUnify).group) = Head(toUnify).meant
    BY DEF AgreeInv, CommandReachesMembers
  <2> DEFINE c == Head(toUnify)
  <2>1. 1 \in 1 .. Len(toUnify) /\ toUnify[1] = c /\ c \in Command BY DEF TypeOK
  <2>2. \A ep \in Endpoint :
          ep \in c.meant <=> MemberAfter(toUnify, unifyMembers, 1 - 1, c.group, ep)
    BY <2>1 DEF CastsAgree
  <2>3. \A ep : MemberAfter(toUnify, unifyMembers, 1 - 1, c.group, ep)
                  <=> <<c.group, ep>> \in unifyMembers
    BY DEF MemberAfter
  <2>4. c.meant \subseteq Endpoint BY <2>1 DEF Command
  <2> QED BY <2>2, <2>3, <2>4 DEF UnifyMembersOf
<1> QED BY <1>1, InitAgree, NextAgree, PTL DEF SpecUpToDate

=============================================================================
