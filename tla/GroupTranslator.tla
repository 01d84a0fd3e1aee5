--------------------------- MODULE GroupTranslator ---------------------------
(***************************************************************************)
(* Matter groups and Unify groups: the group translator allocates a Unify  *)
(* group for every Matter group and persists the pair, and the handler of  *)
(* the Groups cluster translates the commands that change memberships.     *)
(*                                                                         *)
(* The handler only "sniffs": the Matter stack executes every command too, *)
(* on its own group table, right after the handler.  Unify executes what   *)
(* was published, in order but later, and publishes the node list of every *)
(* group in use, which is how the translator learns which are taken.       *)
(***************************************************************************)
EXTENDS Integers, Sequences, FiniteSets

CONSTANTS
  Fabric, Group,  \* a Matter group is a group id of a fabric
  Endpoint,       \* bridged endpoints, each with its Unify endpoint
  MaxUnifyGroup,  \* numeric_limits<unify_group_t>::max()
  PutOutcomes,    \* what KeyValueStoreManager::Put can return here
  StackOutcomes,  \* does the Matter stack have room for another membership?
  MaxQueue        \* bound: commands under way to Unify

ASSUME GroupAssumption ==
  /\ MaxUnifyGroup \in Nat \ {0}
  /\ IsFiniteSet(Endpoint)
  /\ PutOutcomes \in SUBSET BOOLEAN
  /\ StackOutcomes \in SUBSET BOOLEAN
  /\ MaxQueue \in Nat \ {0}

MatterGroup == Fabric \X Group
UnifyGroup  == 0 .. MaxUnifyGroup
NoGroup     == -1       \* no mapping stored

VARIABLES
  lastAllocated, \* last_allocated_group
  allocated,     \* allocated_unify_groups, those known to be in use
  groupMap,      \* the persisted map from Matter group to Unify group
  members,       \* the Matter stack's group table: <<Matter group, endpoint>>
  toUnify,       \* commands published and not yet executed by Unify
  unifyMembers,  \* memberships on the Unify side: <<Unify group, endpoint>>
  nodeLists      \* Unify groups with a retained NodeList at the broker

translator == <<lastAllocated, allocated, groupMap>>
unify      == <<unifyMembers, nodeLists>>
vars       == <<translator, members, toUnify, unify>>

Command ==
  [cmd : {"AddGroup", "RemoveGroup"}, group : UnifyGroup, ep : Endpoint]
    \cup [cmd : {"RemoveAllGroups"}, ep : Endpoint]
    \cup [cmd : {"cast"}, group : UnifyGroup, meant : SUBSET Endpoint]

\* The types of the state: the counter stays a Unify group number when it wraps.
TypeOK ==
  /\ lastAllocated \in UnifyGroup
  /\ allocated \subseteq UnifyGroup
  /\ groupMap \in [MatterGroup -> UnifyGroup \cup {NoGroup}]
  /\ members \subseteq MatterGroup \X Endpoint
  /\ toUnify \in Seq(Command) /\ Len(toUnify) <= MaxQueue
  /\ unifyMembers \subseteq UnifyGroup \X Endpoint
  /\ nodeLists \subseteq UnifyGroup

(***************************************************************************)
(* The group tables.                                                       *)
(***************************************************************************)
MembersOf(mg)      == {ep \in Endpoint : <<mg, ep>> \in members}
UnifyMembersOf(ug) == {ep \in Endpoint : <<ug, ep>> \in unifyMembers}

\* GroupDataProvider::GetGroupInfo: the stack knows the groups with members.
Known(mg) == MembersOf(mg) # {}

(***************************************************************************)
(* add_matter_group: the loop over the groups known to be in use.          *)
(***************************************************************************)

\* Seeded fault: the number does not wrap around.
AfterFault(k) == lastAllocated + k

\* last_allocated_group after k increments (uint16_t).
After(k) == (lastAllocated + k) % (MaxUnifyGroup + 1)

\* Seeded fault: one increment, whether or not it finds a free group.
StopsAtFault(k) == After(k) \notin allocated \/ k > 0

\* The loop ends after k increments: on a group that is not in use, or on the
\* largest number, which is only tested after an increment.
StopsAt(k) == After(k) \notin allocated \/ (k > 0 /\ After(k) = MaxUnifyGroup)

Increments(k) ==
  /\ k \in 0 .. (MaxUnifyGroup + 1)
  /\ StopsAt(k)
  /\ \A j \in 0 .. (k - 1) : ~StopsAt(j)

Exhausted(k) == k > 0 /\ After(k) = MaxUnifyGroup

(***************************************************************************)
(* Commands of the Groups cluster, each followed by the Matter stack's own *)
(* execution (SetCommandNotHandled).                                       *)
(***************************************************************************)
Publish(c) ==
  /\ Len(toUnify) < MaxQueue
  /\ toUnify' = Append(toUnify, c)

\* The Matter stack's AddGroup.
Join(mg, ep) ==
  \E accepted \in StackOutcomes :
    members' = IF accepted THEN members \cup {<<mg, ep>>} ELSE members

\* AddGroup to a group the stack knows: the mapping is looked up; without one
\* nothing is published.  A member that is added again changes nothing.
AddToKnown(mg, ep) ==
  /\ <<mg, ep>> \notin members
  /\ Known(mg)
  /\ IF groupMap[mg] = NoGroup THEN UNCHANGED toUnify
     ELSE Publish([cmd |-> "AddGroup", group |-> groupMap[mg], ep |-> ep])
  /\ Join(mg, ep)
  /\ UNCHANGED <<translator, unify>>

\* AddGroup to a new group: allocate and persist a Unify group, then publish.
AddNew(mg, ep) ==
  /\ ~Known(mg)
  /\ \E k \in 0 .. (MaxUnifyGroup + 1) :
       /\ Increments(k)
       /\ ~Exhausted(k)
       /\ TRUE \in PutOutcomes
       /\ lastAllocated' = After(k)
       /\ groupMap' = [groupMap EXCEPT ![mg] = After(k)]
       /\ Publish([cmd |-> "AddGroup", group |-> After(k), ep |-> ep])
  /\ Join(mg, ep)
  /\ UNCHANGED <<allocated, unify>>

\* The same when no Unify group is left or the mapping cannot be stored: the
\* handler gives up, the Matter stack does not.
AddNewFails(mg, ep) ==
  /\ ~Known(mg)
  /\ \E k \in 0 .. (MaxUnifyGroup + 1) :
       /\ Increments(k)
       /\ Exhausted(k) \/ FALSE \in PutOutcomes
       /\ lastAllocated' = After(k)
  /\ Join(mg, ep)
  /\ UNCHANGED <<allocated, groupMap, toUnify, unify>>

\* Seeded fault: the mapping stays.
ForgottenFault(mg) == groupMap

\* remove_matter_group
Forgotten(mg) == [groupMap EXCEPT ![mg] = NoGroup]

\* RemoveGroup: the mapping goes with the first endpoint that leaves.
RemoveGroup(mg, ep) ==
  /\ groupMap' = Forgotten(mg)
  /\ IF groupMap[mg] = NoGroup THEN UNCHANGED toUnify
     ELSE Publish([cmd |-> "RemoveGroup", group |-> groupMap[mg], ep |-> ep])
  /\ members' = members \ {<<mg, ep>>}
  /\ UNCHANGED <<lastAllocated, allocated, unify>>

\* RemoveAllGroups: all mappings of the fabric's groups that the stack knows.
RemoveAllGroups(fabric, ep) ==
  /\ groupMap' = [mg \in MatterGroup |->
                    IF mg[1] = fabric /\ Known(mg) THEN NoGroup ELSE groupMap[mg]]
  /\ Publish([cmd |-> "RemoveAllGroups", ep |-> ep])
  /\ members' = {m \in members : ~(m[1][1] = fabric /\ m[2] = ep)}
  /\ UNCHANGED <<lastAllocated, allocated, unify>>

\* One copy of the group message c for every endpoint it is dispatched to.
Copies(c) == [i \in 1 .. Cardinality(c.meant) |-> c]

\* Any other command, received as a group message: the stack dispatches it to
\* every member of the group, and for each of them send_unify_mqtt_cmd publishes
\* it to the Unify group, or drops it if there is none.  "meant" records whom it
\* is for.
GroupCommand(mg) ==
  /\ Known(mg)
  /\ groupMap[mg] # NoGroup
  /\ LET c == [cmd |-> "cast", group |-> groupMap[mg], meant |-> MembersOf(mg)]
     IN /\ Len(toUnify) + Cardinality(c.meant) <= MaxQueue
        /\ toUnify' = toUnify \o Copies(c)
  /\ UNCHANGED <<translator, members, unify>>

(***************************************************************************)
(* Unify (external), its node lists, and a restart of the bridge.          *)
(***************************************************************************)
Leave(leaving) ==
  /\ unifyMembers' = unifyMembers \ leaving
  /\ nodeLists' = {ug \in nodeLists : \E m \in unifyMembers \ leaving : m[1] = ug}

UnifyExecutes ==
  /\ toUnify # <<>>
  /\ toUnify' = Tail(toUnify)
  /\ LET c == Head(toUnify) IN
       \/ /\ c.cmd = "AddGroup"
          /\ unifyMembers' = unifyMembers \cup {<<c.group, c.ep>>}
          /\ nodeLists' = nodeLists \cup {c.group}
       \/ c.cmd = "RemoveGroup" /\ Leave({<<c.group, c.ep>>})
       \/ c.cmd = "RemoveAllGroups" /\ Leave({m \in unifyMembers : m[2] = c.ep})
       \/ c.cmd = "cast" /\ UNCHANGED unify
  /\ UNCHANGED <<translator, members>>

\* on_mqtt_message_cb: the translator hears of a group in use.
NodeListReceived(ug) ==
  /\ ug \in nodeLists \ allocated
  /\ allocated' = allocated \cup {ug}
  /\ UNCHANGED <<lastAllocated, groupMap, members, toUnify, unify>>

Restart ==
  /\ lastAllocated' = 1
  /\ allocated' = {}
  /\ UNCHANGED <<groupMap, members, toUnify, unify>>

Init ==
  /\ lastAllocated = 1
  /\ allocated = {}
  /\ groupMap = [mg \in MatterGroup |-> NoGroup]
  /\ members = {}
  /\ toUnify = <<>>
  /\ unifyMembers = {}
  /\ nodeLists = {}

AddGroup ==
  \E mg \in MatterGroup, ep \in Endpoint :
    AddToKnown(mg, ep) \/ AddNew(mg, ep) \/ AddNewFails(mg, ep)

Others ==
  \/ \E mg \in MatterGroup, ep \in Endpoint :
       RemoveGroup(mg, ep)
  \/ \E mg \in MatterGroup : GroupCommand(mg)
  \/ \E fabric \in Fabric, ep \in Endpoint : RemoveAllGroups(fabric, ep)
  \/ UnifyExecutes
  \/ \E ug \in UnifyGroup : NodeListReceived(ug)
  \/ Restart

\* Command c puts endpoint ep into Unify group ug, or takes it out.
Adds(c, ug, ep) == c.cmd = "AddGroup" /\ c.group = ug /\ c.ep = ep
Removes(c, ug, ep) ==
  \/ c.cmd = "RemoveAllGroups" /\ c.ep = ep
  \/ c.cmd = "RemoveGroup" /\ c.group = ug /\ c.ep = ep

\* ep is in ug after the first n commands of the queue q: nothing has taken it
\* out since it was put in or, for one of the members um of now, at all.
MemberAfter(q, um, n, ug, ep) ==
  \/ <<ug, ep>> \in um /\ \A k \in 1 .. n : ~Removes(q[k], ug, ep)
  \/ \E j \in 1 .. n : /\ Adds(q[j], ug, ep)
                       /\ \A k \in (j + 1) .. n : ~Removes(q[k], ug, ep)

\* The Unify groups that have members once Unify has executed what is under way.
InUse ==
  {ug \in UnifyGroup : \E ep \in Endpoint :
     MemberAfter(toUnify, unifyMembers, Len(toUnify), ug, ep)}

\* The translator knows them when it has to allocate.  Commands may be under way
\* then, those for a Unify group it takes for free, whose last member is about to
\* leave, among them.
UpToDate == InUse \subseteq allocated

Next         == AddGroup \/ Others
NextUpToDate == (UpToDate /\ AddGroup) \/ Others

Spec         == Init /\ [][Next]_vars
SpecUpToDate == Init /\ [][NextUpToDate]_vars

(***************************************************************************)
(* Properties.                                                             *)
(***************************************************************************)

\* add_matter_group never hands out a Unify group it has been told is in use,
\* also when last_allocated_group wraps around.
FreshUnifyGroup ==
  [][\A mg \in MatterGroup :
       groupMap'[mg] \notin {groupMap[mg], NoGroup} => groupMap'[mg] \notin allocated]_vars

\* Two Matter groups never share a Unify group ("allocates a new unify group to
\* match with the matter group number"), restarts included.
DistinctUnifyGroups ==
  \A mg, other \in MatterGroup :
    groupMap[mg] # NoGroup /\ groupMap[mg] = groupMap[other] => mg = other

\* A group message to a group with members is never dropped for want of a
\* mapping ("this command must be translated and propagated to the
\* corresponding Unify Group").
MembersAreMapped == \A m \in members : groupMap[m[1]] # NoGroup

\* A group message that Unify is about to execute reaches exactly the endpoints
\* that were members of the Matter group when it arrived: no member is missed,
\* and a Unify group that is freed, by removals that Unify executes in the order
\* they were published, and given to another Matter group takes no message of
\* the old one along.
CommandReachesMembers ==
  toUnify # <<>> /\ Head(toUnify).cmd = "cast" =>
    UnifyMembersOf(Head(toUnify).group) = Head(toUnify).meant

(***************************************************************************)
(* The inductive invariant behind DistinctUnifyGroups and                  *)
(* CommandReachesMembers, for one fabric, a stack that has room and a      *)
(* translator that is up to date whenever it allocates.                    *)
(***************************************************************************)
MappedAreKnown == \A mg \in MatterGroup : groupMap[mg] # NoGroup => Known(mg)

\* Once Unify has executed what is under way, a mapped group has the same
\* members on both sides.
MappedAgree ==
  \A mg \in MatterGroup, ep \in Endpoint : groupMap[mg] # NoGroup =>
    (<<mg, ep>> \in members
       <=> MemberAfter(toUnify, unifyMembers, Len(toUnify), groupMap[mg], ep))

\* Where a group message stands in the queue, its group has the members it is
\* meant for.
CastsAgree ==
  \A i \in 1 .. Len(toUnify), ep \in Endpoint : toUnify[i].cmd = "cast" =>
    (ep \in toUnify[i].meant
       <=> MemberAfter(toUnify, unifyMembers, i - 1, toUnify[i].group, ep))

AgreeInv ==
  /\ TypeOK
  /\ MappedAreKnown
  /\ DistinctUnifyGroups
  /\ MappedAgree
  /\ CastsAgree

=============================================================================
