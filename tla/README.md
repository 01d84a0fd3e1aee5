# The Unify Matter bridge in TLA+

The Unify Matter bridge is a Linux program that shows the nodes of a Unify
gateway (Z-Wave, Zigbee and other devices, reached over MQTT) as bridged
endpoints of a Matter device. This directory holds a model of its protocol
state, the configurations under which TLC checks it, and proofs of what holds
for every size of a system. Paths are relative to the repository root; `NSM` is
`linux/src/matter_node_state_monitor/matter_node_state_monitor.cpp`, `CTI` is
`linux/src/cluster_translator/command_translator_interface.hpp`.

To check one configuration: `tlc -config MCGroupTranslator_Wrap.cfg
MCGroupTranslator.tla`; to check the proofs of a module: `tlapm
GroupTranslatorProofs.tla`. `PROJECT.json` maps every definition to the lines it
models.

## 1. Inventory

All handlers run on the Matter event loop: a second thread waits for file
descriptors and schedules the Unify work there. So two handlers never overlap,
and what makes this code hard is order: MQTT messages that are under way,
answers that come late, volatile state that is relearnt after a restart beside
state that is durable, and several tables that must agree (the bridge's, the
Matter stack's, Unify's and the disk's).

| component | state | operations | talks to | correct when |
|---|---|---|---|---|
| **Node state monitor** (`NSM`, `matter_node_state_monitor.hpp`, `unify_ember_interface.hpp`) | multimap of bridged endpoints, last id returned by the allocator | node added or announced again, removed, state changed; lookup by Unify or Matter address | Unify's node monitor (calls it), the Matter stack's dynamic endpoint table, the data storage, listeners (all translators) | a Matter endpoint is one device; what is bridged is on the fabric; lookups reach the owner; mappings outlive a restart and go with their node |
| **Data storage** (`matter_data_storage.cpp`) | endpoint and group mappings in the key-value store | persist, get, remove | node state monitor, group translator | writes are durable, one at a time |
| **Group translator and Groups handler** (`group_translator.cpp`, `group_command_translator.cpp`) | last Unify group allocated, groups known to be in use; durable map from Matter group to Unify group | AddGroup, RemoveGroup, RemoveAllGroups, group messages, Unify's node lists | the Matter stack's own Groups server (runs after the handler), Unify over MQTT | groups map one to one; a group message reaches the members it was meant for, and is not lost for want of a mapping |
| **Command translator** (`CTI`, generated `command_translator.cpp`) | map of request handles that wait for a response, with time stamps | send, refuse as busy, purge, response received | Matter requests, MQTT | each request is answered once, with its own outcome; one command of a topic at a time; nobody waits for ever |
| **Attribute translator and cache** (`attribute_translator_interface.hpp`, `attribute_state_cache.hpp`, generated `attribute_translator.cpp`, `chip_types_*_json.hpp`) | cache of attribute values by Matter path | subscribe, report received, read, write, change callback | MQTT, Matter reads, writes and subscriptions, node state monitor | a read shows the last report of that device, a write reads back, subscribers hear of changes |
| **Bridged device basic information** (`bridged_device_basic_info_attribute_translator.cpp`) | Reachable and texts in the cache | state changed, name reported, read, write | node state monitor, MQTT | Reachable is the node's last state |
| **Cluster emulators** (`emulations/*.hpp`, `cluster_emulator.cpp`) | per-attribute state in the cache | emulated reads, writes, commands | attribute and command translators | what is made up agrees with the device once reports have come; set points stay in their limits |
| **Device type mapper** (`device_type_mapper/*.cpp`) | none | name mapping, conformance, score, selection | endpoint builder, node state monitor | the choice is the best conforming type, whatever the order of candidates |
| **Endpoint builder** (`matter_endpoint_builder.cpp`, `cluster_interactor`) | clusters, attributes and commands of an endpoint | build the clusters, get the device types | device type mapper, emulators, node state monitor | what is listed can be read, reported, written and invoked |
| **Main loop** (`matter_bridge_main.cpp`) | `matter_running`, the mutex, the work queue | schedule, run, shut down | both threads | a shutdown ends both threads; no work is lost |
| **Generated tables** (`zap-generated/`) | none | switches by cluster, attribute and command; names to ids | all translators, the mapper | the tables agree with one another |
| **QR code, configuration, command line, MQTT wrapper** | options | input and output | | not modelled: no protocol state |

`PROJECT.json` lists the hazards of this code at the lines where they bite, and
which property would catch each.

## 2. Plan

The order puts first what everything else relies on; all of it is done.

1. `NodeStateMonitor`, with `EndpointDirectory` as its abstract specification
   and `NodeStateMonitorProofs`.
2. `GroupTranslator` and its proofs, but for Groups commands that arrive as
   group messages.
3. `CommandResponse`, with `CommandService` as its abstract specification, and
   its proofs: commands with a response.
4. `AttributeTables`, the generated switches as tables; `AttributeTranslator`,
   the path of one attribute of any kind the tables have, and its proofs.
5. `CommandTables`, `DeviceTypes` and, over all three tables, `EndpointBuilder` and
   its proofs.
6. `WindowCovering` and `Thermostat`, the emulators that keep or compute
   something that can go wrong, and their proofs.
7. `MainLoop`, the two threads and the way out, and its proofs.

What could follow: the arguments of commands, colour control's emulated
commands, writing NodeLabel, and Groups commands as group messages.

`AttributeTables`, `CommandTables` and `DeviceTypes` have constants only.
`MCAttributeTranslator` takes its attributes from `AttributeTables`,
`EndpointBuilder` extends the three. The other modules stand alone; they meet in
what they share with the outside: bridging is an environment action of
`AttributeTranslator` and `CommandResponse`, and what those rely on (an id is
one device) is what `NodeStateMonitor` shows.

## 3. What is modelled, and how

### NodeStateMonitor

| variable | in the code |
|---|---|
| `handler` | the handler in progress, and the loop's position in it |
| `bridged` | `bridged_endpoints` |
| `lastReturned` | `last_returned_available_endpoint_id` |
| `ember` | the Matter stack's dynamic endpoint table (external) |
| `subscribed` | the topics the translators' listeners subscribe to |
| `reachableAttr` | the attribute Reachable in the cache |
| `kvs` | the endpoint mappings on disk |

A loop over endpoints is a sequence of steps between which only `Restart` can
come, since handlers do not overlap. A removal's iteration is one action
(`RemoveEndpoint`), an endpoint that is filtered out another (`SkipEndpoint`). An
iteration of an announcement is two: `EraseEntry` is the allocation or lookup, the
write to disk and the erasure of the endpoint's old entry (`NSM`:111), and
`RegisterEndpoint` the new entry, the registration, the listeners and the
reachability. In between, `handler.op` is `"replacing"`, and a slot of the Matter
stack that was filled from the old entry points to memory that is free: `held`
records, of each slot, whether the very entry it was filled from is still in the
registry. An equal entry made later does not count. Registering clears the slot
before it looks for a free one, so it ends the state. A cluster descriptor is
abstracted to whether the endpoint passes the three filters of the loop
(`typed`). The order in which a node's endpoints are visited is not fixed.
`Restart` may come between any two of these steps; it loses everything but `kvs`.

The Matter stack's table (`WithEndpoint`, `Cleared`, `IsFree`) is modelled from
how the code uses it: registering is refused for an id in use, an id that is
invalid, or an index past the table.

`EndpointDirectory` is what a controller may rely on: an id shows at most one
device, a device is shown under at most one id, and an id changes hands only by
becoming vacant in between. `Directory` maps `ember` to it.

Specifications: `Spec` allows restarts, `SpecOneRun` is one lifetime of the
process. Everything said about this module is safety, so it states no fairness.

### GroupTranslator

`lastAllocated`, `allocated` and `groupMap` are the translator's; `members` is
the Matter stack's group table, `toUnify` the MQTT commands under way,
`unifyMembers` and `nodeLists` Unify's side. The Groups handler only translates:
the Matter stack executes the same command right after it, so one action does
both (`AddToKnown`, `AddNew`, `AddNewFails`, `RemoveGroup`, `RemoveAllGroups`).
AddGroupIfIdentifying takes the same path as AddGroup while the device is
identifying and is not a case of its own. The allocation loop is the pair
`StopsAt`, `Increments`: how often the counter is incremented before the loop
ends, with its wrap at the width of the type and its test for the largest number
after an increment only.

`toUnify` holds at most `MaxQueue` commands, the model's only bound on behaviour
here; it is in order and loses nothing, which MQTT with a local broker gives
while the bridge runs; a crash between two publications is not modelled.
`NodeListReceived` comes at any time after Unify has published a list, in any
order. A restart keeps `groupMap` and empties `allocated`. The Matter stack dispatches a
group message once for each member endpoint, so `GroupCommand` publishes as many
copies (`Copies`); `meant` is, for the property, who the members were.

`SpecUpToDate` lets AddGroup happen only when the translator knows every Unify
group that has members once Unify has executed what is under way
(`InUse \subseteq allocated`). Commands may be under way then, and a Unify group
whose last member they are about to remove is free to be handed out, with
messages to it still in the queue. That is an assumption on the surroundings
which the code does not enforce; the properties that need it are checked and
proved with it, and the run `group_shared` shows what happens without it. `Spec`
has no such assumption. Unify is taken to stay connected: the broker retains
the last message of a group (CTI:145) and would send it again to a Unify that
connects anew, which may have other members by then.

### CommandResponse

`responseMap` is `cmd_responsestruct_map`, by topic. A request is `unsent`, then
`waiting` (its handle is in the map), and ends as answered with a status,
refused as `busy`, or `dropped` (closed without a status: its entry was erased,
or its endpoint is unknown). `age` counts whole seconds since it was sent, as
`ishandler_timedout` does, and stops at the first value that is too old.
`atDevice`, `outcome` and `responses` are Unify's side: a device may answer with
success, failure or something unreadable, or not at all (`DeviceSilent`), and
MQTT may deliver a response again. `Reuse` forgets a request that is over, so
that a few names stand for any number of requests. Requests that come to a group
are not modelled, nor commands without a response: those are answered with
success before they are published and keep no state.

`Spec` has no assumption on time. In `SpecTimely` a response arrives within
HANDLER_TIMEOUT or never. `FairTimely` adds that Unify deals with each command
and that a message that arrived is handled; the clock is not fair and needs not
be. Devices may still be silent and nodes may leave: `SentIsAnswered` says which
of these a request without an answer must have met (`Lost`).

`CommandService` is what a Matter client may rely on when responses are in time,
told without handles, time stamps or messages: Unify works on one command of a
topic at a time; a request that was sent gets the outcome of its own command,
once, or is given up when Unify is done with it; "busy" names another request of
the topic which the bridge remembers. It may have been answered long ago: that is
the divergence in section 4. `Service` maps the requests that are under way
(`Underway`) to `work`.

### AttributeTables and AttributeTranslator

`AttributeTables` has, for each cluster, what the generated switches do with its
attributes: which the mapping table names (`Mapped`), which a read, a report and
a write have a case for, their types (`TypeOf`, `KindOf`, `IsNullable`) and what
sets an attribute apart on the way (texts taken for numbers, the number reserved
for null, the level emulator's bounds). Two attributes the tables describe alike
behave alike, so `AttributeTranslator` follows one attribute at a time, and TLC
one of each description.

| variable | in the code |
|---|---|
| `attr` | the attribute: kind, nullable, texts, bounds, writable |
| `home`, `bridged` | the endpoint mapping on disk; the keys bridged in this run |
| `device`, `order` | Unify's retained messages: the report, the WriteAttributes command |
| `inbox`, `outbox` | messages under way to the bridge, and to Unify |
| `cache` | `attribute_state_cache`, by Matter endpoint |
| `dirty`, `view` | paths given to the change callback; what the stack told its subscribers |
| `told`, `wish`, `former` | history for the properties; the bridge has no such variables |

`Receive` is `on_mqtt_message_cb` as a whole: the lookup of the key, the JSON
conversion by kind (`FromJson`) with its refusals, the store in the cache and
the change callback. `Write` decodes, converts back (`ToJson`) and publishes,
retained. The code ignores the error of `Decode` (`attribute_translator.cpp:128`
and at every other attribute): a value of the wrong type (`Garbled`, a null for
what is not Nullable) leaves the C++ variable uninitialised, and what it happens to
hold is published (`Uninitialised`, any value of the type) and answered with
NO_ERROR. `Reconnect` is Unify being sent the retained command again. `Inform` is
the Matter stack reading a dirty attribute: for an endpoint that is not bridged the
read returns before it encodes, and subscribers keep what they knew.
`Bridge` subscribes, which fetches the retained report; `Unbridge` leaves the
cache alone, as the code does; `Restart` loses everything but `home`. A value
has two bits, which tells apart zero, an ordinary number, the largest one and
the one reserved for null; a report is a JSON shape with a number for its
content. `FairSpec` adds that messages are delivered, that Unify executes what
it gets, and that the Matter stack serves its subscriptions.

### CommandTables, DeviceTypes and EndpointBuilder

`CommandTables` has the names of each cluster's commands and those InvokeCommand
handles; `DeviceTypes` the table of device types with the clusters, attributes
and commands each demands. `BuildMatterCluster` is `build_matter_cluster`: the
names mapped to ids, the unknown ones dropped, and what each emulator adds.
`GetMatterType` is the conformance test, the scores, the sort and the loop that
leaves the best type at the front of the list; `matter_type` is that type's id.
The sort's comparison says yes to equal scores both ways and leaves their order
open; the model puts the later id first (a theorem, `AnyOrderIsBest`, shows that
it does not matter). `device` is what the endpoint announces,
`strict` the option for strict mapping. Strict conformance looks at the first
`ScanLength` places of a command list without regard to its length; what lies
past the list's end is memory that belongs to something else, and `garbage` is
the set of commands it may equal. `DevicesAssumption` says that the clusters of a
device are a map by their names, and that no server announces an answer
(`Responses`) as a command it supports, but for the groups clusters of the tests.
Two attributes are exceptions the properties name: UniqueID, which is listed and
not answered (`ListedIsAnswered`), and the window covering's Mode (`SaidRefused`):
a document says its writes are refused, the code publishes them, and nothing is
claimed of them.

### WindowCovering

Unify has no OperationalStatus; the emulator keeps it in the cache (`status`).
`Invoke` is UpOrOpen, DownOrClose and StopMotion with the tests on the cached
mode and position, `InvokeGoTo` the commands that only pass through, `Deliver` a
report with what the emulator does to the status when one says the position is
at an end. The covering (`Obey`, `Move`, `Local`, `Report`) is external: it
moves one raw position at a time, may be operated by hand, and reports each
attribute on a topic of its own, so that reports of one attribute are in order
and those of several are not. A restart empties the cache and has what the
broker retains sent again. `blind` marks a status set by a command that came
when only one of the two limits was cached: the command looks at the limit of
its own end, a report only at both. Of such a status nothing is claimed.

### MainLoop

Each thread has a place in its loop (`matter`, `unify`), one step per call. The
flag `matterRunning` is a plain `bool` that both threads use: a read takes the
value before or after a write under way. `work` is the platform's queue; behind
`MaxQueue` jobs one more of the Unify thread's makes no difference and is not
recorded. `exiting` is the user's request that Unify exit, which its main loop
has to read like any message; `PlatformStops` is a signal the Matter platform
handles.

### Thermostat

Set points and limits are the code's 16 bit hundredths of a degree, amounts its
8 bit tenths; `Cut` is the limiting of a SetpointRaiseLower with its divisions,
casts and sums (`Int8`, `Int16`), `WriteSetpoint` the test of `write_attribute`.
Limits the thermostat does not report have the emulator's defaults. As in
`WindowCovering`, reports and commands are under way, so the emulator goes by
values that may be out of date. Commands and writes are published retained
(`Send`, `retained`), and `Reconnect` is Unify being sent the last one of a topic
again: a raise then adds its amount once more, and a write that was within the
limits when it was tested may be outside them now (`stale`). `unguarded` marks the
modes for whose set point a raise was not cut, was cut by values that were out of
date or was sent again, or a write was tested by limits that were out of date, or
are when it is sent again; a change at the thermostat itself, which puts it within
its limits, takes the mark away. `LimitRange` keeps limits so far from the ends of
16 bits that the sum of set point and amount does not overflow: a thermostat has
no limits beyond -314 degrees.

## 4. Runs

| run | specification | shows | bounds and why they suffice |
|---|---|---|---|
| `node_monitor_one_run` | NodeStateMonitor, `SpecOneRun` | ids are unique, bridged endpoints are visible, Reachable is right after an id changed hands, removal undoes all, and the run implements the directory | 2 nodes of 2 endpoints for 3 dynamic ids: ids run out, are freed and are reused, and the allocator takes each of its three exits |
| `node_monitor_restart` | NodeStateMonitor, `Spec` | mappings are durable and stable, a slot points at a freed entry only while that endpoint is being replaced, with a restart between any two steps | 2 nodes of 2 endpoints, 2 ids: exhaustion happens, and a node has two endpoints so a restart can split its announcement or its removal. `Put` succeeds; a failing one is in a configuration below and in the theorems |
| `node_monitor_shared` | the same | **disagreement**: after a restart two endpoints get one Matter id | |
| `group_up_to_date` | GroupTranslator, `SpecUpToDate` | one-to-one mapping; a group message that is published reaches exactly the endpoints it was meant for | 1 fabric, 2 endpoints, 2 groups, 2 numbers, 3 commands under way, storage may fail: one member leaves and the mapping goes while the other stays; a number is freed and handed out again while a message and the removal of its last member are still under way; with two numbers the counter wraps |
| `group_wrap` | GroupTranslator, `Spec` | a number known to be in use is never handed out | 2 groups, 2 endpoints, 3 numbers, one command under way: the counter wraps, and an endpoint joins a group another one is in; storage and the Matter stack may fail |
| `group_shared` | the same | **disagreement**: two Matter groups get one Unify group | |
| `command_timely` | CommandResponse, `FairTimely` | own answers, one command of a topic, the command service with its one answer, and that in the end | 3 requests, 2 topics, time-out of 1 s: an entry is fresh, at the limit or too old; a purge meets another topic's entry; a third request follows an answered and a silent one |
| `attribute_bridge` | AttributeTranslator, `FairSpec` | reads show the last report, are current when quiet, show nothing of another device on a fresh id; a write that can be decoded reads back; subscribers are told; all is known in the end | 2 keys, 2 ids, every kind of attribute, 2 bit values, 9 reports of all shapes, writes of values, of null and of what cannot be decoded, 4 events: a key can be bridged, report, leave and leave its id to the other |
| `endpoint_build` | EndpointBuilder, `Spec` | what an endpoint lists is answered (but UniqueID), reported, written (but the window covering's Mode) and invoked under the announced names; the type chosen is the best that conforms | every cluster with all attributes and commands, with few, with the commands in another order or more than the scan sees, with and without the clusters that types demand, in both modes, for three contents of the memory past the list |
| `window_covering` | WindowCovering, `Spec` | a covering that is quiet at an end is not shown moving towards it, and in the end never is; no motion is shown towards an end the cache has it at, by percentage and by limit. Nothing is said of a `blind` status, nor of a covering quiet elsewhere | 4 positions, of which two are rounded to 0 %, 2 commands, 1 local change, 1 report of each attribute on the way: a command meets positions that are out of date, and a second one the reports of the first |
| `main_loop` | MainLoop, `Spec` | a cleared flag has a stop behind it, readable descriptors are read, the program ends | 3 jobs: one running, one queued, one more |
| `thermostat` | Thermostat, `Spec` | the bridge's limiting keeps a set point in its limits, up to the marks above; no more is sent than was asked for | set points at a limit, less than a step from one and far from both, limits wide and narrow, all within what thermostats have: only the amounts go to the ends of their width, so the sums never wrap at 16 bits; 3 events: a change, a command that goes by what was before it, and one after it or a retained one sent again |

Groups are compared for equality only, so the group runs use symmetry;
`command_timely` has a liveness property and uses none. `CHECK_DEADLOCK` is off
where the bounds on the environment, or the end of a construction, let the
system stop: `attribute_bridge`, `endpoint_build`, `window_covering` and
`thermostat`.

Fairness. Messages under way are delivered and handled, which the event loop and
MQTT with a local broker give, and Unify and the device do what they are told:
weak fairness of each. No clock, restart, controller or node is fair. In
`MainLoop` the threads go on when they can; the two locks of the mutex are
strongly fair, since a mutex of the platform that is free again and again is had
in the end. Nothing is assumed to wake the Unify thread: `ExitCompletes`
therefore allows that it waits for descriptors for ever, and `join` for it.

With two fabrics `CommandReachesMembers` does not hold: RemoveAllGroups is
published without a fabric, so Unify removes the endpoint from the groups of
every fabric, while the Matter stack and the translator keep to the accessing
one (doc/UMB_Design.md:77). `group_up_to_date` has one fabric for that reason.
The property is about messages that are published. That a message to a group with
members is published at all is `MembersAreMapped`, and does not hold for two
endpoints (below); nor do both sides then agree on who is a member.

Some configurations are kept to be run by hand. `MCNodeStateMonitor_PutFails.cfg`
passes: `EmberOwnersAlive` and `StableMapping` with storage that fails, which
takes TLC about four minutes; the theorems say the same for any size. Each of
the others has one property that a comment or a document of the repository
suggests, or that a reader might expect, and TLC shows that the code does
otherwise:

| configuration | property | what it shows |
|---|---|---|
| `MCNodeStateMonitor_Dangling.cfg` | `ContextOutlivesSlot` (matter_context.hpp:24) | announced again, an endpoint's old entry is erased before its slot is cleared, and in between the stack points to what is gone |
| `MCNodeStateMonitor_Starved.cfg` | `AddedGetsEndpoint` (matter_node_state_monitor.hpp:158) | an endpoint added when ids had run out gets none when it is announced again and there is room: kInvalidEndpointId was persisted for it |
| `MCGroupTranslator_TwoEndpoints.cfg` | `MembersAreMapped` (doc/UMB_Design.md:74, group_command_translator.cpp:108) | when one member leaves a group, the mapping goes and the others can no longer be addressed |
| `MCAttributeTranslator_Replay.cfg` | `ReplaysAreCurrent` | the last write is retained, so Unify carries it out again after the device was operated by hand since |
| `MCEndpointBuilder_Mode.cfg` | `ModeIsRefused` (readme_overview.md:100) | a write to the window covering's Mode is published, not refused (attribute_translator.cpp:2346) |
| `MCThermostat_OutOfDate.cfg` | `AlwaysInLimits` | what `StaysInLimits` leaves out does happen, first of all a raise for both set points that the cooling limits do not cut |
| `MCCommandResponse_Busy.cfg` | `BusyMeansProcessing` (CTI:98) | the entry of an answered command stays until it is too old, and its topic is busy although Unify is idle |
| `MCCommandResponse_Late.cfg` | `AnswerIsOwn` under `Spec` (CTI:224, command_translator.cpp:1085) | a response that comes after the time-out answers a newer request of its topic |
| `MCMainLoop_Schedule.cfg` | `ScheduleWorkAlone` (matter_bridge_main.cpp:84) | the stop is scheduled after the mutex was given back (line 74), beside the Unify thread's ScheduleWork |

## 5. Proofs

Assumptions on constants are the named ASSUMEs of the modules, and those a
theorem states.

*NodeStateMonitorProofs.* `EmberInv` is inductive under `Spec`, whatever `Put`
returns: types, that entry and slot have the index computed from their id, that
the entries a removal loop has passed are off the fabric, and that every slot
has its entry but the one of the endpoint being replaced (`EmberOwnersAlive`).
The third part is needed because entries outlive their slots until the loop is
over. The exception ends with the iteration since the id's index is that of the
dangling slot, which registering clears first (`RegisteredFacts`). From it come `TypeCorrect`,
`OwnersAlive` and `MappingsAreStable`. When `Put` succeeds, `MappingsAreDurable`
adds that live entries are on disk. For one run, `OneRunInv` adds that a mapping
to a real id belongs to a bridged endpoint, that bridged endpoints are
registered, and that ids are unique; each needs the other two, since a free id
is recognised by the table alone. From it: `UniqueEndpoints`,
`BridgedAreVisible`, `CommandsReachOwner`, `NodesAreIsolated`, and
`RunImplementsDirectory`, which maps a registration to `Show`, a removal to
`Hide` and every other step to a stutter. `ReachableIsServed` strengthens its
property from the fabric to every real id of the registry (`ReachableKept`).
`NothingIsLeftBehind` needs `SubscribedInv`: the entries of a node differ in
their ids, the invalid one included, so what the removal loop passes is one
endpoint, which it unsubscribes.

*GroupTranslatorProofs.* `NeverInUse` follows from the loop's exit condition
(`AllocatesFree`) and the arithmetic of the wrap, under `Spec`. The two others
assume one fabric, a stack that accepts, and `SpecUpToDate`, and hold for any
number of endpoints and groups and any length of the queue. Their invariant
`AgreeInv` follows the queue: `MemberAfter` says whether an endpoint is in a Unify
group after the first n commands under way. After all of them a mapped group has
the same members on both sides (`MappedAgree`), and the Matter stack knows it
(`MappedAreKnown`), so its number is in use and an up-to-date translator does not
hand it out; where a group message stands in the queue, its group has the members
it is meant for (`CastsAgree`), and what is appended later changes nothing of
that (`MemberAppend`). From it come `DistinctGroups` and `MessagesReachMembers`.

*CommandResponseProofs.* `PendingInv` is inductive under `Spec`: an entry is
filed under its request's topic and unsent requests leave no traces; it gives
`TypeCorrect`, `WaitingArePending` and `AnswersAreFinal`. `TimelyInv` adds,
under `SpecTimely`, that what Unify still works on has its entry, not too old,
and that a response carries its request's outcome: then a topic with an entry
has room for no second command, and the entry a response finds is its own
(`OneCommandAtATime`, `AnswersAreOwn`). `TimelyImplementsService` maps each
action to one of `CommandService` or to a stutter: sending is `Accept`, `Busy` or
`Refuse`, together with the requests its purge closes, none of which Unify still
works on (`PurgeStrands`); a response is `Answer`, or `Finish` when it says
nothing new; the clock and the nodes stutter.

*AttributeTranslatorProofs.* All under `Spec`, for any keys, ids, attributes,
reports and width `Top`. `ReportsInv` is inductive: types, and that no two keys
share an id; the newest report under way for a bridged key is what Unify retains
for it (`Newest`), and with none under way the bridge has been told it, if it
fits (`Received`); the cache holds the conversion of what was told (`Current`),
and otherwise only values on ids whose key was removed (`Filled`); a bridged key
that has reported and whose value the subscribers do not know is dirty. Each property reads off
these, but none is inductive alone: that a read is current when all is quiet
needs to know what was on the way before. `WriteAlwaysReadsBack` needs
`LastWritten`: the last command under way orders the written value, and with
none under way Unify retains it as the report; and that the two conversions undo
each other for every writable kind. A write that cannot be decoded may publish any
value of the type (`UninitialisedIsReport`), and orders none.

*WindowCoveringProofs.* `IInv` is inductive for every number of positions and
every rounding. The last report on the way of each attribute is what the
covering last reported, and the cache has it when none is on the way
(`LatestInv`); cached limits and those under way are the covering's
(`LimitsInv`); and a status of moving is backed by a cached position away from
its end, by the percentage or by the raw position (`Opening`, `Closing`, with
`Backed`). `AlwaysStoppedAtEnd` and `NeverBeyondKnownEnd` follow.

*MainLoopProofs.* A thread between its lock and its unlock holds the mutex
(`HoldsMutex`), which gives `AlwaysRunsAlone`; a queue with a stop in it keeps
it when jobs are appended, and when one of the Unify thread's is taken from its
head (`StopStaysBehind`), which gives `AlwaysClearedMeansStopping`.

*ThermostatProofs.* `CutKeepsLimits` and the lemmas around it are arithmetic:
what `Cut` forwards has the sign of what was asked, is no larger, and leads from
a cached set point within cached limits to one within them, through the
divisions and casts. The invariant is `Synced` (the last report of an attribute
on the way tells the thermostat's value; with none on the way, the cache does)
with `Guarded` and `Lasting`. The set point of a mode that is not marked is within
its limits and so it is after each command under way (`Safe`): writes because
they were tested by limits that were known (`LimitsWhenQuiet`), a raise because
what it adds to is known, which it is only as long as the raise comes first of
the mode's commands. The retained write is within the limits while it is not
stale (`Lasting`), so it may be sent again. Together they give
`AlwaysStaysInLimits`; the marks are needed because the bridge cannot know of a
change whose report is still under way, nor take back what the broker retains.

*EndpointBuilderProofs.* All under `Spec`, for any device and any content of what
lies past the lists' ends. `BuilderInv` is inductive: the endpoint is empty or
the translation of the device (`MatterClusters`), a type is chosen only after it
is built, and it is the best of those the endpoint conforms to, which lasts since
no later step changes what it is judged by. Three arguments carry the properties:

- the tables agree cluster by cluster, by evaluation: what is mapped is readable
  and reported (`MappedIsReadable`, `MappedIsReported`), a written key is the
  attribute's name (`WriteKeyIsName`), and a command goes to Matter and back
  under one name (`CommandsAgree`). With `ServedCluster` (a cluster on the
  endpoint is the translation of one announced cluster, which needs that names
  are unique) they give `AttributesAnswered`, `AttributesReported` and
  `AttributesWritten`;
- the loop over a cluster's commands, for lists of any length: the list holds the
  ids of the known ones and nothing else (`AcceptedElements`), and Matter sees
  all of them and nothing of what the emulators append after its end
  (`SeenCommands`). This gives `CommandsInvoked`;
- the sort and the loop over the scores: in a total order every place is that of
  one element (`PlaceIsBijection`), so that the sorted list is a permutation of
  the conforming types (`ScoresOfConforming`); the loop's invariant is that the
  front is no worse than all before (`BestIsLeast`). It gives `AnyOrderIsBest`
  and `TypeIsBest`; `ScoresFitTheirType` bounds the counts by the number of
  clusters there are, so that no score wraps in its uint8_t.

The induction over these lists is done with sets: the rounds a property fails in
would have a least element (`LeastElement`, `Induction`), and the recursive
definitions have their function by the same argument (`Recursion`).

Some theorems state properties that no run lists, since another property of the
same run says more: `CommandsReachOwner`, `NodesAreIsolated`,
`WaitingArePending`, `AnswersAreFinal`, `AlwaysRunsAlone`, the types of `CommandResponse`,
`MainLoop` and `WindowCovering`, and, of `EndpointBuilder`, `AnyOrderIsBest` and
`ScoresFitTheirType`.

Model-checked only: liveness (`SentIsAnswered`, `EventuallyKnown`, `SettlesAtEnd`,
`EventsHandled`, `ExitCompletes`). Fairness is out of the prover's reach.

## 6. Not modelled

- QR code, configuration, command line and the MQTT wrapper: input and output
  without protocol state.
- The text tables of each enum and bitmap, the sizes of the types and the
  cluster revisions: data; the conversions by kind stand for what uses them.
- The arguments of commands, but for those an emulator computes; the commands of
  colour control's emulator; the values of FeatureMap and of the event list;
  writing NodeLabel.
- Requests that come to a Matter group, but for the group messages of
  `GroupTranslator`.
- Endpoints of a node that are missing from a later announcement: Unify is taken
  to announce the same endpoints each time.
- A wall clock that is set back or forward while requests wait.

### Observations on the way

What was met while the code was translated and is in no property, because it is
local to a few lines or outside what the models tell apart:

- The error of `Decode` is ignored in the write of every attribute of every
  cluster; the model has what follows from it for the cached attributes
  (`AttributeTranslator`).
- Strict mapping (readme_user.md) reads the first places of a command
  list whatever its length: commands past them are not seen, and a short list is
  read past its end. `StrictIsSound` is stated with that exception.
- A null report leaves the cache as it is, so a Nullable attribute never goes back
  to null by a report.
- StartUpCurrentLevel's text "SetToPreviousValue" stands for 0xFF, the
  number reserved for null, which the cache does not take.
- A window covering command that comes before Mode was reported is neither
  answered nor handled.
- The bridged device's basic information lists UniqueID for a device with
  DeviceEnabled and has no case to read it; `ListedIsAnswered` names it.
- SoftwareVersion is stored with 16 bits and read with 32.
- `send_unify_mqtt_command_with_callbacks` (CTI:159) has no caller.
- A shutdown job that was queued twice runs Unify's main loop again after it
  has shut down.
- SetpointRaiseLower for both set points is cut by the heating limits alone,
  the dead band is not looked at, and without a cached set point the command is published
  without arguments. The emulator reads the request's arguments first, so that the
  translator's own attempt finds none left: what is published is the cut amount.
- The tests of SetpointRaiseLower list expected amounts larger than what was asked
  for (TestThermostat.cpp:217 has 130 for 127). They pass because the harness
  compares the topics of commands and never their payloads.
