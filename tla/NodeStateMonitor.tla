--------------------------- MODULE NodeStateMonitor ---------------------------
(***************************************************************************)
(* The Matter node state monitor: it turns the nodes that Unify announces  *)
(* into bridged Matter endpoints, keeps the map between the two address    *)
(* spaces, and registers every bridged endpoint as a dynamic endpoint of   *)
(* the Matter stack ("ember").                                             *)
(*                                                                         *)
(* All handlers run on the Matter event loop, one at a time.  A handler    *)
(* that loops over endpoints is a sequence of steps, one per iteration or  *)
(* two where an iteration erases an entry before it makes the new one, and *)
(* nothing but a process restart comes between them: the KVS writes of an  *)
(* iteration are durable at once, the rest of the state is not.            *)
(***************************************************************************)
EXTENDS Integers

CONSTANTS
  Unid,                \* Unify nodes, numbered in the order of their UNIDs
  UnifyEp,             \* endpoint numbers of a Unify node
  FixedEndpointCount,  \* FIXED_ENDPOINT_COUNT: root, aggregator, ...
  MaxEndpointCount,    \* MAX_ENDPOINT_COUNT: fixed plus dynamic endpoints
  PutOutcomes,         \* what KeyValueStoreManager::Put can return here
  NodeStates           \* node states: is it ONLINE_FUNCTIONAL?

kInvalidEndpointId == 65535

\* The root endpoint is 0, which no bridged endpoint gets: "no mapping stored".
NoMapping == 0

ASSUME UnidAssumption == Unid \subseteq Nat /\ UnifyEp \subseteq Nat
ASSUME EndpointCountAssumption ==
  /\ FixedEndpointCount \in Nat \ {0}
  /\ MaxEndpointCount \in Nat
  /\ FixedEndpointCount <= MaxEndpointCount
  /\ MaxEndpointCount <= kInvalidEndpointId
ASSUME InputAssumption ==
  /\ PutOutcomes \in SUBSET BOOLEAN /\ PutOutcomes # {}
  /\ NodeStates \in SUBSET BOOLEAN

DynamicId == FixedEndpointCount .. (MaxEndpointCount - 1)
MatterId  == DynamicId \cup {kInvalidEndpointId}
Key       == Unid \X UnifyEp       \* a Unify endpoint: (unid, epid)
Index     == 0 .. (kInvalidEndpointId - FixedEndpointCount)

VARIABLES
  handler,       \* the handler in progress, Idle between two of them
  bridged,       \* bridged_endpoints, the multimap of bridged endpoints
  lastReturned,  \* last_returned_available_endpoint_id
  ember,         \* the dynamic endpoints registered with the Matter stack
  subscribed,    \* Unify endpoints whose topics the translators subscribe to
  reachableAttr, \* cached attribute Reachable of each Matter endpoint
  kvs            \* the persisted map from Unify endpoint to Matter endpoint

volatile == <<handler, bridged, lastReturned, ember, subscribed, reachableAttr>>
vars     == <<volatile, kvs>>

Entry == [unid : Unid, uep : UnifyEp, mep : MatterId, index : Index,
          reachable : BOOLEAN]

\* A slot points to buffers in the context of a registry entry: held says that
\* the entry it was filled from is still in the registry.
Registration == [index : Index, id : DynamicId, unid : Unid, uep : UnifyEp,
                 held : BOOLEAN]

\* eps: the endpoints the loop has not reached; typed: those of the node's
\* endpoints that get a Matter device type; ep and mep: the endpoint whose old
\* entry was erased and the id it gets; meps: bridged endpoints to remove.
Idle          == [op |-> "idle"]
AddHandler    == [op : {"adding"}, unid : Unid, eps : SUBSET UnifyEp,
                  typed : SUBSET UnifyEp, online : BOOLEAN]
ReplaceHandler == [op : {"replacing"}, unid : Unid, eps : SUBSET UnifyEp,
                   typed : SUBSET UnifyEp, online : BOOLEAN, ep : UnifyEp,
                   mep : MatterId]
RemoveHandler == [op : {"removing"}, unid : Unid, meps : SUBSET MatterId]

\* The types of the state: an id handed out, also when the allocator finds none,
\* is a Matter endpoint or kInvalidEndpointId.
TypeOK ==
  /\ handler \in {Idle} \cup AddHandler \cup ReplaceHandler \cup RemoveHandler
  /\ bridged \subseteq Entry
  /\ lastReturned \in (FixedEndpointCount - 1) .. (MaxEndpointCount - 1)
  /\ ember \subseteq Registration
  /\ subscribed \subseteq Key
  /\ reachableAttr \in [MatterId -> {"unset", "yes", "no"}]
  /\ kvs \in [Key -> MatterId \cup {NoMapping}]

(***************************************************************************)
(* The Matter stack's table of dynamic endpoints (external).               *)
(***************************************************************************)

\* emberAfGetDynamicIndexFromEndpoint(id) finds no slot.
IsFree(id) == \A r \in ember : r.id # id

\* emberAfClearDynamicEndpoint(index), on the table tbl.
Cleared(tbl, index) == {r \in tbl : r.index # index}

\* emberAfSetDynamicEndpoint(index, id): refused for an index past the table,
\* the invalid id and an id that another slot already holds.
WithEndpoint(tbl, e) ==
  IF \/ e.index >= MaxEndpointCount - FixedEndpointCount
     \/ e.mep = kInvalidEndpointId
     \/ \E r \in tbl : r.id = e.mep
  THEN tbl
  ELSE Cleared(tbl, e.index) \cup
         {[index |-> e.index, id |-> e.mep, unid |-> e.unid, uep |-> e.uep,
           held |-> TRUE]}

(***************************************************************************)
(* Allocation of Matter endpoint ids.                                      *)
(***************************************************************************)
FreeAfterLast == {id \in DynamicId : id > lastReturned /\ IsFree(id)}
FreeIds       == {id \in DynamicId : IsFree(id)}

IsLeast(id, S) == id \in S /\ \A other \in S : id <= other

\* Seeded fault: the second scan does not skip the ids in use.
NextAvailableFault(id) ==
  \/ IsLeast(id, FreeAfterLast)
  \/ FreeAfterLast = {} /\ id = FixedEndpointCount

\* getNextDynamicAvailableEndpointIndex() returns id: first a scan upwards from
\* the last id returned, then one of the whole range, then the invalid id.
NextAvailable(id) ==
  \/ IsLeast(id, FreeAfterLast)
  \/ FreeAfterLast = {} /\ IsLeast(id, FreeIds)
  \/ FreeIds = {} /\ id = kInvalidEndpointId

\* Seeded fault: every answer is remembered, the invalid id included.
LastReturnedAfterFault(id) == id

\* The value of last_returned_available_endpoint_id after that call: only the
\* upward scan moves it.
LastReturnedAfter(id) == IF FreeAfterLast = {} THEN lastReturned ELSE id

(***************************************************************************)
(* The registry's lookups.                                                 *)
(***************************************************************************)
KeyOf(e) == <<e.unid, e.uep>>

EntriesOf(n) == {e \in bridged : e.unid = n}

\* bridged_endpoint(unid, epid)
BridgedByKey(key) == {e \in bridged : KeyOf(e) = key}

\* bridged_endpoint(matter_endpoint): the map is walked in the order of the
\* UNIDs, and the first entry with that Matter endpoint is the answer.
BridgedByMatter(mep) ==
  {e \in bridged : /\ e.mep = mep
                   /\ \A f \in bridged : f.mep = mep => e.unid <= f.unid}

\* The table when the entries gone leave the registry: their contexts are
\* destroyed, the slots keep pointing to them.
Released(gone) ==
  {[r EXCEPT !.held = @ /\ ~\E e \in gone : e.unid = r.unid /\ e.mep = r.id] :
     r \in ember}

(***************************************************************************)
(* on_unify_node_added                                                     *)
(***************************************************************************)

\* erase_mapper_endpoint(unid, endpoint)
WithoutMapping(n, mep) == {e \in bridged : ~(e.unid = n /\ e.mep = mep)}

\* Seeded fault: the fixed endpoints are not taken off.
IndexOfFault(mep) == mep

IndexOf(mep) == mep - FixedEndpointCount

\* Seeded fault: an endpoint that the stack has already is not set anew.
RegisteredFault(e) == IF IsFree(e.mep) THEN WithEndpoint(ember, e) ELSE ember

\* register_dynamic_endpoint(bridge): the table afterwards.
Registered(e) ==
  WithEndpoint(
    IF IsFree(e.mep) THEN ember
    ELSE LET r == CHOOSE r \in ember : r.id = e.mep IN Cleared(ember, r.index), e)

\* Seeded fault: the persisted mapping is not consulted.
AssignedFault(key, mep) == NextAvailable(mep)

\* The Matter endpoint of a Unify endpoint: the persisted one, else a new one.
Assigned(key, mep) ==
  IF kvs[key] # NoMapping THEN mep = kvs[key] ELSE NextAvailable(mep)

AttrOf(reachable) == IF reachable THEN "yes" ELSE "no"

\* Seeded fault: the reachable state of a (re)added endpoint is not announced.
AnnouncedFault(mep, reachable) == reachableAttr

\* NODE_STATE_CHANGED for an endpoint that was just added: the listener of the
\* Bridged Device Basic Information cluster stores the attribute Reachable.
Announced(mep, reachable) == [reachableAttr EXCEPT ![mep] = AttrOf(reachable)]

\* The loop is done with endpoint ep.
NextEndpoint(ep) ==
  handler' = IF handler.eps = {ep} THEN Idle
             ELSE [op |-> "adding", unid |-> handler.unid, eps |-> handler.eps \ {ep},
                   typed |-> handler.typed, online |-> handler.online]

\* The handler is entered for node n.  typed are the endpoints that pass the
\* three filters of the loop: not only Groups/NameAndLocation clusters, some
\* cluster known to Matter, and a Matter device type.
NodeAdded(n, eps, typed, online) ==
  /\ handler = Idle
  /\ handler' = [op |-> "adding", unid |-> n, eps |-> eps, typed |-> typed,
                 online |-> online]
  /\ UNCHANGED <<bridged, lastReturned, ember, subscribed, reachableAttr, kvs>>

SkipEndpoint(ep) ==
  /\ handler.op = "adding"
  /\ ep \in handler.eps \ handler.typed
  /\ NextEndpoint(ep)
  /\ UNCHANGED <<bridged, lastReturned, ember, subscribed, reachableAttr, kvs>>

\* The first half of an iteration: find or make the mapping, erase the entry
\* that the node has under that id.  The result of persisting a new mapping is
\* not looked at.
EraseEntry(ep) ==
  /\ handler.op = "adding"
  /\ ep \in handler.eps \cap handler.typed
  /\ \E mep \in MatterId, stored \in PutOutcomes :
       LET n   == handler.unid
           key == <<n, ep>>
           new == kvs[key] = NoMapping
       IN /\ Assigned(key, mep)
          /\ kvs' = IF new /\ stored THEN [kvs EXCEPT ![key] = mep] ELSE kvs
          /\ lastReturned' = IF new THEN LastReturnedAfter(mep) ELSE lastReturned
          /\ bridged' = WithoutMapping(n, mep)
          /\ ember' = Released(bridged \ WithoutMapping(n, mep))
          /\ handler' = [op |-> "replacing", unid |-> n, eps |-> handler.eps,
                         typed |-> handler.typed, online |-> handler.online,
                         ep |-> ep, mep |-> mep]
  /\ UNCHANGED <<subscribed, reachableAttr>>

\* The entry the iteration makes.
NewEntry == [unid |-> handler.unid, uep |-> handler.ep, mep |-> handler.mep,
             index |-> IndexOf(handler.mep), reachable |-> handler.online]

\* The second half: insert the new entry, register it with ember, tell the
\* listeners.
RegisterEndpoint ==
  /\ handler.op = "replacing"
  /\ bridged' = bridged \cup {NewEntry}
  /\ ember' = Registered(NewEntry)
  /\ subscribed' = subscribed \cup {KeyOf(NewEntry)}
  /\ reachableAttr' = Announced(handler.mep, handler.online)
  /\ NextEndpoint(handler.ep)
  /\ UNCHANGED <<lastReturned, kvs>>

(***************************************************************************)
(* on_unify_node_removed                                                   *)
(***************************************************************************)
NodeRemoved(n) ==
  /\ handler = Idle
  /\ EntriesOf(n) # {}
  /\ handler' = [op |-> "removing", unid |-> n,
                 meps |-> {e.mep : e \in EntriesOf(n)}]
  /\ UNCHANGED <<bridged, lastReturned, ember, subscribed, reachableAttr, kvs>>

\* Seeded faults: the persisted mapping outlives the removed endpoint; every
\* mapping to its Matter endpoint goes, not only its own.
ForgottenFault(e) == kvs
ForgottenByIdFault(e) ==
  [key \in Key |-> IF kvs[key] = e.mep THEN NoMapping ELSE kvs[key]]

\* remove_persisted_data
Forgotten(e) == [kvs EXCEPT ![KeyOf(e)] = NoMapping]

Unregistered(e) == Cleared(ember, e.index)

\* One iteration: clear the slot, forget the mapping, unsubscribe.  The entry
\* itself stays in the map until the loop is over.
RemoveEndpoint(e) ==
  /\ handler.op = "removing"
  /\ e \in EntriesOf(handler.unid)
  /\ e.mep \in handler.meps
  /\ ember' = Unregistered(e)
  /\ kvs' = Forgotten(e)
  /\ subscribed' = subscribed \ {KeyOf(e)}
  /\ handler' = [handler EXCEPT !.meps = @ \ {e.mep}]
  /\ UNCHANGED <<bridged, lastReturned, reachableAttr>>

EraseNode ==
  /\ handler.op = "removing"
  /\ handler.meps = {}
  /\ bridged' = bridged \ EntriesOf(handler.unid)
  /\ ember' = Released(EntriesOf(handler.unid))
  /\ handler' = Idle
  /\ UNCHANGED <<lastReturned, subscribed, reachableAttr, kvs>>

(***************************************************************************)
(* on_unify_node_state_changed: all endpoints of the node change at once.  *)
(***************************************************************************)
NodeStateChanged(n, online) ==
  /\ handler = Idle
  /\ bridged' = {IF e.unid = n THEN [e EXCEPT !.reachable = online] ELSE e :
                   e \in bridged}
  /\ reachableAttr' = [mep \in MatterId |->
                         IF \E e \in EntriesOf(n) : e.mep = mep
                         THEN AttrOf(online) ELSE reachableAttr[mep]]
  /\ UNCHANGED <<handler, lastReturned, ember, subscribed, kvs>>

(***************************************************************************)
(* The process starts again: only the KVS is left of its state.            *)
(***************************************************************************)
VolatileInit ==
  /\ handler = Idle
  /\ bridged = {}
  /\ lastReturned = FixedEndpointCount - 1
  /\ ember = {}
  /\ subscribed = {}
  /\ reachableAttr = [mep \in MatterId |-> "unset"]

Restart ==
  /\ handler' = Idle
  /\ bridged' = {}
  /\ lastReturned' = FixedEndpointCount - 1
  /\ ember' = {}
  /\ subscribed' = {}
  /\ reachableAttr' = [mep \in MatterId |-> "unset"]
  /\ UNCHANGED kvs

Init == VolatileInit /\ kvs = [key \in Key |-> NoMapping]

\* One process lifetime; Next adds restarts.
Run ==
  \/ \E n \in Unid, eps \in (SUBSET UnifyEp) \ {{}}, online \in NodeStates :
       \E typed \in SUBSET eps : NodeAdded(n, eps, typed, online)
  \/ \E ep \in UnifyEp : SkipEndpoint(ep) \/ EraseEntry(ep)
  \/ RegisterEndpoint
  \/ \E n \in Unid : NodeRemoved(n)
  \/ \E e \in bridged : RemoveEndpoint(e)
  \/ EraseNode
  \/ \E n \in Unid, online \in NodeStates : NodeStateChanged(n, online)

Next == Run \/ Restart

Spec       == Init /\ [][Next]_vars
SpecOneRun == Init /\ [][Run]_vars

(***************************************************************************)
(* What the Matter fabric sees of one run is an EndpointDirectory.         *)
(***************************************************************************)
ShownAt(id) == {<<r.unid, r.uep>> : r \in {x \in ember : x.id = id}}

Directory == INSTANCE EndpointDirectory WITH
  Ids <- DynamicId, Keys <- Key, shown <- [id \in DynamicId |-> ShownAt(id)]

(***************************************************************************)
(* Properties.                                                             *)
(***************************************************************************)

\* The removal loop has not passed entry e (true outside a removal).
Live(e) == ~(handler.op = "removing" /\ handler.unid = e.unid
                                     /\ e.mep \notin handler.meps)

OwnerOf(r) == <<r.unid, r.uep>>

\* An iteration has erased the entry of key and not made the new one.
BeingReplaced(key) ==
  handler.op = "replacing" /\ key = <<handler.unid, handler.ep>>

\* Whatever the registry maps is on disk under the same id, through restarts
\* and re-announcements: the endpoint a controller knows is the one it finds
\* after the bridge restarts (get_persisted_data / persist_data in
\* on_unify_node_added).  It needs Put to succeed: its result is ignored.
MappingIsDurable ==
  \A e \in bridged : Live(e) => kvs[KeyOf(e)] = e.mep

\* Two bridged endpoints never share a Matter endpoint, so a Matter address
\* means one device (getNextDynamicAvailableEndpointIndex hands out free ids).
UniqueMatterEndpoint ==
  \A e, f \in bridged : e.mep = f.mep /\ e.mep # kInvalidEndpointId => e = f

\* A slot of the Matter stack points into an entry the registry still holds, at
\* the index computed for it.  The one exception is the endpoint whose entry an
\* announcement replaces: erased first, it leaves its own slot, and no other,
\* without a context until register_dynamic_endpoint clears it; that repair
\* comes before the handler goes on.
EmberOwnersAlive ==
  \A r \in ember :
    IF r.held
      THEN \E e \in bridged : KeyOf(e) = OwnerOf(r) /\ e.mep = r.id /\ e.index = r.index
      ELSE handler.op = "replacing" /\ handler.unid = r.unid /\ handler.mep = r.id

\* What the comment in matter_context.hpp asks for: "its critical that this
\* object lives longer as the references of the matter_endpoint inside the
\* matter API".
ContextOutlivesSlot == \A r \in ember : r.held

\* The other way round: a bridged endpoint with a real id is visible on the
\* Matter fabric, by a slot filled from its own entry and not from one it has
\* replaced (register_dynamic_endpoint never fails for it).
BridgedIsRegistered ==
  \A e \in bridged : Live(e) /\ e.mep # kInvalidEndpointId =>
    \E r \in ember : r.id = e.mep /\ OwnerOf(r) = KeyOf(e) /\ r.held

\* A read, write or command to a Matter endpoint reaches the Unify endpoint
\* whose clusters and device type the Matter stack shows there: the lookup
\* bridged_endpoint(matter_endpoint) answers with the owner of the slot.
RoutedToOwner ==
  \A r \in ember : \A e \in BridgedByMatter(r.id) : KeyOf(e) = OwnerOf(r)

\* Reachable reads as the node's last state for every endpoint on the fabric,
\* also on an id that another node had before (the cache is never cleared).
ReachableServed ==
  \A r \in ember, e \in bridged :
    KeyOf(e) = OwnerOf(r) /\ e.mep = r.id =>
      reachableAttr[r.id] = AttrOf(e.reachable)

\* Within a run, disk and topics hold nothing for endpoints that are gone:
\* on_unify_node_removed undoes what on_unify_node_added did.  The exception
\* is the invalid id, under which one endpoint of a node evicts another.
NothingLeftBehind ==
  \A key \in Key : ~BeingReplaced(key) =>
    /\ kvs[key] \in DynamicId => BridgedByKey(key) # {}
    /\ key \in subscribed => \/ BridgedByKey(key) # {}
                             \/ kvs[key] = kInvalidEndpointId

\* A mapping on disk never changes; it goes away only while its own node is
\* being removed, whatever restarts come between.
StableMapping ==
  [][\A key \in Key : kvs[key] # NoMapping /\ kvs'[key] # kvs[key] =>
       /\ kvs'[key] = NoMapping
       /\ handler.op = "removing" /\ handler.unid = key[1]]_vars

\* Handling one node never takes another node's endpoint off the fabric.
NoEviction ==
  [][\A id \in DynamicId : \A key \in ShownAt(id) :
       key \in ShownAt(id)' \/ (handler # Idle /\ handler.unid = key[1])]_vars

\* The endpoints of one run, as controllers see them, behave like the abstract
\* directory: an id is only given to a Unify endpoint while it is vacant, and
\* no Unify endpoint has two ids.
ImplementsDirectory == Directory!Spec

\* An endpoint added while the Matter stack has room gets a Matter endpoint
\* (matter_node_state_monitor.hpp: "All newly added endpints will get a matter
\* endpoint id assigned").
AddedGetsEndpoint ==
  [][RegisterEndpoint /\ FreeIds # {} =>
       \E r \in ember' : OwnerOf(r) = KeyOf(NewEntry)]_vars

(***************************************************************************)
(* Inductive invariants: EmberInv for every behaviour, OneRunInv for the   *)
(* behaviours without a restart in which Put succeeds.                     *)
(***************************************************************************)
EntriesIndexed == \A e \in bridged : e.index = IndexOf(e.mep)
EmberIndexed   == \A r \in ember : r.index = IndexOf(r.id)

\* What the removal loop has passed is off the fabric already.
PassedAreCleared == \A e \in bridged : ~Live(e) => IsFree(e.mep)

\* Nothing else of the node is mapped to the id of the endpoint being replaced.
ReplacedIsErased ==
  handler.op = "replacing" =>
    \A e \in bridged : ~(e.unid = handler.unid /\ e.mep = handler.mep)

EmberInv ==
  /\ TypeOK /\ EntriesIndexed /\ EmberIndexed
  /\ PassedAreCleared /\ ReplacedIsErased /\ EmberOwnersAlive

\* A mapping on disk to a real id belongs to a bridged endpoint.
MappedIsBridged ==
  \A key \in Key : kvs[key] \in DynamicId /\ ~BeingReplaced(key) =>
    \E e \in bridged : Live(e) /\ KeyOf(e) = key

\* The id of the endpoint being replaced is on disk, as its own.
ReplacedIsMapped ==
  handler.op = "replacing" => kvs[<<handler.unid, handler.ep>>] = handler.mep

\* If it is a real id, nothing else has it.
ReplacedIsOwn ==
  handler.op = "replacing" /\ handler.mep # kInvalidEndpointId =>
    /\ \A e \in bridged : e.mep # handler.mep
    /\ \A r \in ember : r.id = handler.mep => OwnerOf(r) = <<handler.unid, handler.ep>>

OneRunInv ==
  /\ EmberInv
  /\ MappingIsDurable
  /\ MappedIsBridged
  /\ ReplacedIsMapped
  /\ ReplacedIsOwn
  /\ BridgedIsRegistered
  /\ UniqueMatterEndpoint

=============================================================================
