----------------------------- MODULE EndpointBuilder -----------------------------
(***************************************************************************)
(* How the bridge turns a Unify endpoint into a Matter one: the clusters,  *)
(* attributes and commands the endpoint announces are mapped to Matter's   *)
(* (cluster_interactor), completed by the emulators of the clusters        *)
(* (ClusterEmulator), and a device type is chosen for the result           *)
(* (matter_device_type_selection).                                         *)
(*                                                                         *)
(* The names come from the generated tables, so what is checked is that    *)
(* the tables agree with one another: what an endpoint shows to Matter can *)
(* be read, written and invoked, and reaches the device under the name the *)
(* device announced.                                                       *)
(***************************************************************************)
EXTENDS SequencesExt, AttributeTables, CommandTables, DeviceTypes

CONSTANTS
  Devices,      \* what Unify endpoints announce: sets of clusters, each with a name, the
                \* names of its attributes and a sequence of those of its commands
  Beyond        \* the commands that what lies past the end of a command list may equal

VARIABLES
  device,       \* what the endpoint announces
  strict,       \* whether the bridge maps strictly (m_spec_compliant)
  garbage,      \* what lies past the end of its command lists
  endpoint,     \* cluster -> the attributes and the list of accepted commands
  matter_type   \* the id of the device type it gets; NoType if it gets none, Unset before

vars == <<device, strict, garbage, endpoint, matter_type>>

Empty == [c \in {} |-> {}]
Unset == -1
NoType == 0
End == "kInvalidCommandId"

(* What a server sends and so is not among the commands it supports, which     *)
(* only the tests' groups clusters say otherwise.                              *)
Responses ==
  {"IdentifyQueryResponse", "AddGroupResponse", "ViewGroupResponse",
   "GetGroupMembershipResponse", "RemoveGroupResponse", "LockDoorResponse",
   "UnlockDoorResponse", "GetWeeklyScheduleResponse"}

(* The clusters of an endpoint are a map by their names.                       *)
ASSUME DevicesAssumption ==
  \A d \in Devices :
    /\ \A k, l \in d : k.name = l.name => k = l
    /\ \A k \in d : /\ k.commands \in Seq(STRING)
                    /\ k.name # "Groups" => ToSet(k.commands) \cap Responses = {}

-----------------------------------------------------------------------------
(* Unify's names for Matter's.                                                *)

Basic == "BridgedDeviceBasicInformation"

BasicAttribute == [PhysicalEnvironment |-> "Reachable", DeviceEnabled |-> "UniqueID"]

ClustersOf(name) ==
  IF name = "Basic" THEN {Basic} ELSE {c \in Clusters : UnifyCluster(c) = name}

AttributesOf(c, u) ==
  IF c = Basic
  THEN {BasicAttribute[v] : v \in DOMAIN BasicAttribute \cap {u}}
  ELSE {a \in Mapped[c] : UnifyAttribute(a) = u}

IsKnown(c, u) == c # Basic /\ u \in CommandNames[c]

(* The ids of the commands that have one, in the order they are announced in.  *)
Accepted(c, commands) ==
  LET upTo[i \in 0 .. Len(commands)] ==
        IF i = 0 THEN <<>>
        ELSE IF IsKnown(c, commands[i])
             THEN Append(upTo[i - 1], MatterCommand(c, commands[i]))
             ELSE upTo[i - 1]
  IN upTo[Len(commands)]

-----------------------------------------------------------------------------
(* The Matter endpoint.                                                       *)

GlobalAttributes == {"FeatureMap", "ClusterRevision", "EventList"}
BridgedAttributes == {"NodeLabel", "Reachable"}

GroupsAccepted == <<"AddGroup", "ViewGroup", "GetGroupMembership", "RemoveGroup",
                    "RemoveAllGroups", "AddGroupIfIdentifying">>

(* What an emulator adds to the attributes and commands of its cluster.       *)
EmulatedAttributes(c) ==
  IF c \in {"Identify", "DoorLock", "WindowCovering"} THEN Emulated(c) ELSE {}
EmulatedCommands(c) == IF c = "DoorLock" THEN <<"LockDoor", "UnlockDoor">> ELSE <<>>

Emulate(c, attributes, accepted) ==
  IF c = "Groups"
  THEN [attributes |-> {"NameSupport", "ClusterRevision", "FeatureMap"},
        accepted |-> GroupsAccepted]
  ELSE [attributes |-> attributes \cup GlobalAttributes \cup EmulatedAttributes(c),
        accepted |-> accepted \o EmulatedCommands(c)]

(* Fault: the list is closed before the commands are put into it.             *)
MatterClusterEndFirst(c, k) ==
  Emulate(c,
          (UNION {AttributesOf(c, u) : u \in k.attributes})
            \cup (IF c = Basic THEN BridgedAttributes ELSE {}),
          <<End>> \o Accepted(c, k.commands))

MatterCluster(c, k) ==
  Emulate(c,
          (UNION {AttributesOf(c, u) : u \in k.attributes})
            \cup (IF c = Basic THEN BridgedAttributes ELSE {}),
          Append(Accepted(c, k.commands), End))

(* A cluster without attributes, and one the bridge has no id for, is skipped. *)
Translated(d) ==
  [c \in UNION {ClustersOf(k.name) : k \in {l \in d : l.attributes # {}}} |->
     MatterCluster(c, CHOOSE k \in d : c \in ClustersOf(k.name))]

DescriptorCluster ==
  [attributes |-> {"DeviceTypeList", "ServerList", "ClientList", "PartsList", "ClusterRevision"},
   accepted |-> <<>>]

BridgedCluster ==
  [attributes |-> BridgedAttributes \cup {"FeatureMap", "ClusterRevision"}, accepted |-> <<>>]

(* The device's own Basic cluster stands in for the bridged one.               *)
MatterClusters(d) ==
  LET translated == Translated(d)
  IN [c \in DOMAIN translated \cup {Basic, "Descriptor"} |->
        CASE c \in DOMAIN translated -> translated[c]
          [] c = "Descriptor" -> DescriptorCluster
          [] OTHER -> BridgedCluster]

BuildMatterCluster ==
  /\ endpoint = Empty
  /\ endpoint' = MatterClusters(device)
  /\ UNCHANGED <<device, strict, garbage, matter_type>>

-----------------------------------------------------------------------------
(* The choice of a device type.                                               *)

(* sizeof of the list's pointer: no more entries of a list are looked at, and  *)
(* no fewer, as the value taken for the end of a list is in none.              *)
ScanLength == 8

HasCommand(accepted, m) ==
  \/ \E i \in 1 .. ScanLength : i \in DOMAIN accepted /\ accepted[i] = m
  \/ Len(accepted) < ScanLength /\ m \in garbage

AdditionalAttributes(c) ==
  IF c = "WindowCovering"
  THEN {"CurrentPositionLiftPercentage", "CurrentPositionLift", "InstalledOpenLimitLift",
        "InstalledClosedLimitLift"}
  ELSE {}

(* Fault: the attributes are not compared.                                    *)
HasTheCommands(c, needs) ==
  /\ c \in DOMAIN endpoint
  /\ \A m \in needs.commands : HasCommand(endpoint[c].accepted, m)

HasWhatItNeeds(c, needs) ==
  /\ c \in DOMAIN endpoint
  /\ needs.attributes \cup AdditionalAttributes(c) \subseteq endpoint[c].attributes
  /\ \A m \in needs.commands : HasCommand(endpoint[c].accepted, m)

Conforms(t) ==
  LET mandatory == DeviceTypes[t].mandatory
  IN strict => \A c \in DOMAIN mandatory : HasWhatItNeeds(c, mandatory[c])

TypeClusters(t) == DOMAIN DeviceTypes[t].mandatory \cup DeviceTypes[t].optional
Matched(t) == Cardinality(DOMAIN endpoint \cap TypeClusters(t))
Required(t) == Cardinality(DOMAIN endpoint \cap DOMAIN DeviceTypes[t].mandatory)
Extra(t) == Cardinality(DOMAIN endpoint) - Matched(t)
Miss(t) == Cardinality(TypeClusters(t)) - Matched(t)

NumericalScore(t) == 20 + Miss(t) + Extra(t) - Required(t)

(* The order of the scores: fewer misses, more required clusters, fewer others; *)
(* of equal scores the later id comes first, which the comparison leaves to    *)
(* the sorting algorithm.                                                     *)
ComesBefore(s, t) ==
  \/ Miss(s) < Miss(t)
  \/ Miss(s) = Miss(t) /\ Required(s) > Required(t)
  \/ Miss(s) = Miss(t) /\ Required(s) = Required(t) /\ Extra(s) < Extra(t)
  \/ Miss(s) = Miss(t) /\ Required(s) = Required(t) /\ Extra(s) = Extra(t) /\ s > t

Conforming == {t \in DOMAIN DeviceTypes : Conforms(t)}

(* The conforming types in the order of their scores.                         *)
Scores ==
  LET conforming == Conforming
      place == [t \in conforming |-> Cardinality({s \in conforming : ComesBefore(s, t)}) + 1]
  IN [i \in 1 .. Cardinality(conforming) |-> CHOOSE t \in conforming : place[t] = i]

(* Fault: every later type is put in front.                                   *)
PutInFrontAlways(best, t) == t

(* A type no worse than the best before it is put in front of that.            *)
PutInFront(best, t) == IF NumericalScore(best) >= NumericalScore(t) THEN t ELSE best

(* The front of possible_device_list, and best_score, after all the scores.    *)
BestOf(scores) ==
  LET best[i \in 1 .. Len(scores)] ==
        IF i = 1 THEN scores[1] ELSE PutInFront(best[i - 1], scores[i])
  IN best[Len(scores)]

(* What is at the front of the list, if there is any.                          *)
SelectOnScore == LET scores == Scores IN IF scores = <<>> THEN NoType ELSE BestOf(scores)

GetMatterType ==
  /\ endpoint # Empty
  /\ matter_type = Unset
  /\ matter_type' = SelectOnScore
  /\ UNCHANGED <<device, strict, garbage, endpoint>>

-----------------------------------------------------------------------------

Init ==
  /\ device \in Devices
  /\ strict \in BOOLEAN
  /\ garbage \in Beyond
  /\ endpoint = Empty
  /\ matter_type = Unset

Next == BuildMatterCluster \/ GetMatterType

Spec == Init /\ [][Next]_vars

-----------------------------------------------------------------------------
(* Properties.                                                                *)

Chosen == matter_type \notin {Unset, NoType}

(* The clusters of the device that are on the Matter endpoint.                *)
Served == {k \in device : k.name # "Basic" /\ ClustersOf(k.name) \cap DOMAIN endpoint # {}}
ClusterOf(k) == CHOOSE c \in ClustersOf(k.name) : TRUE

(* The commands Matter sees: those up to the list's end.                       *)
Visible(c) ==
  {endpoint[c].accepted[i] :
     i \in {j \in DOMAIN endpoint[c].accepted :
              \A h \in 1 .. j : endpoint[c].accepted[h] # End}}

(* The attributes of the bridged device's basic information that are read.     *)
BasicRead ==
  {"VendorName", "VendorID", "ProductName", "HardwareVersion", "HardwareVersionString",
   "SoftwareVersion", "SoftwareVersionString", "ManufacturingDate", "ProductURL",
   "ProductLabel", "SerialNumber", "NodeLabel", "Reachable"}

(* Every attribute the endpoint lists is one the bridge answers a read of:     *)
(* cluster_interactor lists what the mapping table has, and the handlers of    *)
(* attribute_translator.cpp, the emulators and bridged_device_basic_info are   *)
(* generated or written apart from it.  UniqueID, which a device with          *)
(* DeviceEnabled gets, is listed and not read.                                 *)
ListedIsAnswered ==
  \A c \in DOMAIN endpoint \ {"Descriptor"} :
    \A a \in endpoint[c].attributes \ GlobalAttributes :
      \/ c = Basic /\ a \in BasicRead \cup {"UniqueID"}
      \/ c # Basic /\ a \in Readable(c) \cup Emulated(c)

(* What the device reports under the names it announced reaches the attribute  *)
(* that is listed for it: the topic its cluster's translator subscribes to has *)
(* the announced name, and reported_updated has a case for the attribute.      *)
ReportsReachAttribute ==
  \A k \in Served :
    LET c == ClusterOf(k)
    IN /\ TopicName(c) = k.name
       /\ \A u \in k.attributes :
            AttributesOf(c, u) \cap endpoint[c].attributes
              \subseteq Reported[c] \cup GlobalAttributes

(* The writes that readme_overview.md:100-103 says are always refused.         *)
SaidRefused(c) == IF c = "WindowCovering" THEN {"Mode"} ELSE {}

(* A Matter write of a listed attribute is sent to the device under the name   *)
(* the device announced, which WriteAttributes' keys and the mapping table     *)
(* spell apart from each other.  The window covering's Mode is left out: that  *)
(* its writes are sent at all is against the document (ModeIsRefused).         *)
WritesReachAttribute ==
  \A k \in Served :
    LET c == ClusterOf(k)
    IN \A u \in k.attributes :
         \A a \in (AttributesOf(c, u) \cap Writable[c]) \ SaidRefused(c) : WriteKey(a) = u

(* What the document says instead, and WindowCoveringAttributeAccess::Write    *)
(* does not do: a write of a listed Mode is refused with a constraint error.   *)
ModeIsRefused ==
  \A c \in DOMAIN endpoint \cap DOMAIN Writable :
    endpoint[c].attributes \cap Writable[c] \cap SaidRefused(c) = {}

(* A command Matter sees is one InvokeCommand handles, and publishes under a   *)
(* name the device announced; a command the device announced and Matter has is *)
(* seen.  Groups is left out: its commands are the group translator's.         *)
CommandsReachDevice ==
  \A k \in Served :
    LET c == ClusterOf(k)
        own == ToSet(k.commands)
    IN c # "Groups" =>
         /\ \A m \in Visible(c) : m \in Invoked[c] /\ UnifyCommand(c, m) \in own
         /\ \A u \in own \cap CommandNames[c] : \E m \in Visible(c) : UnifyCommand(c, m) = u

(* The type the endpoint gets is one it conforms to and none it conforms to    *)
(* has a better score, whichever order sorting leaves equal scores in; it gets *)
(* none only if there is none.                                                 *)
ChosenIsBest ==
  /\ Chosen =>
       /\ Conforms(matter_type)
       /\ \A t \in DOMAIN DeviceTypes :
            Conforms(t) => NumericalScore(matter_type) <= NumericalScore(t)
  /\ matter_type = NoType => \A t \in DOMAIN DeviceTypes : ~Conforms(t)

(* In strict mode an endpoint gets a type only with all the clusters and       *)
(* attributes the type demands, and the commands too unless a list shorter     *)
(* than the scan was completed with what lies past its end.                    *)
StrictIsSound ==
  strict /\ Chosen =>
    LET mandatory == DeviceTypes[matter_type].mandatory
    IN \A c \in DOMAIN mandatory :
         /\ c \in DOMAIN endpoint
         /\ mandatory[c].attributes \subseteq endpoint[c].attributes
         /\ \/ mandatory[c].commands \subseteq ToSet(endpoint[c].accepted)
            \/ garbage # {} /\ Len(endpoint[c].accepted) < ScanLength
=============================================================================
