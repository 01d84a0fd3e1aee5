-------------------------- MODULE AttributeTranslator --------------------------
(***************************************************************************)
(* One attribute on its way through the bridge.  Unify publishes its value *)
(* as a retained report for every device endpoint (a key).  The translator *)
(* subscribes when the node state monitor bridges the key, converts each   *)
(* report to the Matter type of the attribute and caches the value by the  *)
(* key's Matter endpoint (an id).  Controllers read the cache and are      *)
(* notified of changes; what they write is published to Unify, retained.   *)
(*                                                                         *)
(* The attribute is chosen in Init, by what the generated code does with   *)
(* it: its kind, whether its type is Nullable, the texts it takes for      *)
(* numbers, whether the number reserved for null is moved, whether the     *)
(* level emulator bounds what is read, whether it can be written.          *)
(***************************************************************************)
EXTENDS Integers, Sequences

CONSTANTS
  Keys,         \* Unify endpoints (unid and endpoint)
  Ids,          \* Matter endpoints
  Attributes,   \* descriptions of the attributes to look at
  Top,          \* values are 0 .. Top - 1, the last one reserved for null
  Sent,         \* the reports devices make
  Written,      \* the values controllers write
  MaxEvents     \* bound on what the environment does

Kinds == {"number", "boolean", "enum", "bitmap"}
Shapes == {"number", "boolean", "text", "object", "null"}

Values == 0 .. Top - 1
Reserved == Top - 1

(* Only numbers are written as texts, and what is written is not bounded.      *)
Attribute ==
  {a \in [kind : Kinds, nullable : BOOLEAN, words : UNION {[D -> Values] : D \in SUBSET {0, 1}},
           moved : BOOLEAN, floor : BOOLEAN, ceiling : BOOLEAN, writable : BOOLEAN] :
     /\ a.kind # "number" => DOMAIN a.words = {} /\ ~a.moved /\ ~a.floor /\ ~a.ceiling
     /\ a.writable => ~a.moved /\ ~a.floor /\ ~a.ceiling}

ASSUME TopAssumption == Top \in Nat /\ Top >= 4
ASSUME AttributesAssumption == Attributes \subseteq Attribute
ASSUME MaxEventsAssumption == MaxEvents \in Nat

Nothing == -1     \* no entry in the cache, no number
NullRead == -2    \* Matter's null
Garbled == -3     \* TLV that is no value of the attribute's type

ASSUME IdsAssumption == Nothing \notin Ids

(* The value of a report is a JSON shape and a number that stands for the      *)
(* content: the number itself, the index of a text, the fields of an object.   *)
(* Unify's numbers are as wide as Matter's; Top is an unknown text, and the    *)
(* fields of an object beyond Top are unknown ones.                            *)
Reports ==
  ({"number"} \X Values) \cup ({"boolean"} \X {0, 1}) \cup ({"null"} \X {0})
  \cup ({"text"} \X (0 .. Top)) \cup ({"object"} \X (0 .. 2 * Top - 1))
NoReport == <<"null", Nothing>>

ASSUME SentAssumption == Sent \subseteq Reports
ASSUME WrittenAssumption == Written \subseteq Values \cup {NullRead, Garbled}

VARIABLES
  attr,      \* the attribute
  home,      \* home[key]: the persisted Matter endpoint of key, or Nothing
  bridged,   \* keys the monitor has bridged in this run
  device,    \* device[key]: the report Unify retains for key
  inbox,     \* reports under way to the bridge
  cache,     \* attribute_state_cache, by id
  dirty,     \* ids reported as changed to the Matter stack
  view,      \* view[id]: what the stack told its subscribers
  outbox,    \* WriteAttributes commands under way to Unify
  order,     \* order[key]: the retained WriteAttributes command
  events,    \* environment events so far
  told,      \* (history) the last fitting report received since key was bridged
  wish,      \* (history) the last value written since the device changed by itself
  former     \* (history) ids whose key was removed in this run

node == <<home, bridged>>
history == <<told, wish, former>>
vars == <<attr, home, bridged, device, inbox, cache, dirty, view, outbox, order, events, history>>

-----------------------------------------------------------------------------
(* Conversion of reports.                                                     *)

(* The shape to_json gives a kind, and the shapes from_json takes one from:    *)
(* JSON's booleans convert to numbers.  Another shape is a type_error.         *)
ShapeOf(kind) ==
  CASE kind = "number" -> "number"
    [] kind = "boolean" -> "boolean"
    [] kind = "bitmap" -> "object"
    [] OTHER -> "text"

Converts(kind, shape) == shape = ShapeOf(kind) \/ (kind = "number" /\ shape = "boolean")

(* StartUpCurrentLevel and ColorTemperatureMireds: texts that mean a number.   *)
Substituted(a, r) ==
  IF r[1] = "text" /\ r[2] \in DOMAIN a.words THEN <<"number", a.words[r[2]]>> ELSE r

(* Faults: the bits of a bitmap are not cut to its width; an unknown text is   *)
(* taken for the first value of the enum.                                      *)
FromJsonWide(a, r) == IF Converts(a.kind, r[1]) THEN r[2] ELSE Nothing
FromJsonDefault(a, r) ==
  IF ~Converts(a.kind, r[1]) THEN Nothing ELSE IF r[2] < Top THEN r[2] ELSE 0

(* from_json: numbers are cut to the width of the type, an unknown text of an  *)
(* enum gives no value, unknown fields of a bitmap are not looked at.          *)
FromJson(a, r) ==
  IF ~Converts(a.kind, r[1]) THEN Nothing
  ELSE IF a.kind \in {"number", "bitmap"} THEN r[2] % Top
  ELSE IF r[2] < Top THEN r[2] ELSE Nothing

(* Fault: the reserved number is not moved.                                    *)
MovedNever(a, v) == v

(* reported_updated: the reserved number becomes the one below it.             *)
Moved(a, v) == IF a.moved /\ v = Reserved THEN Reserved - 1 ELSE v

(* attribute_state_cache::set: the value reserved for null is not stored.      *)
Stored(a, v) == IF a.nullable /\ a.kind = "number" /\ v = Reserved THEN Nothing ELSE v

Converted(a, r) == FromJson(a, Substituted(a, r))
Cached(a, r) == Stored(a, Moved(a, Converted(a, r)))

(* A read: the cached value; null for a Nullable type that was not reported;   *)
(* no value for the others.  The level emulator reads 0 as 1, and the          *)
(* reserved number of the largest level as the one below it.                   *)
Bounded(a, v) ==
  IF a.floor /\ v = 0 THEN 1 ELSE IF a.ceiling /\ v = Reserved THEN Reserved - 1 ELSE v

ReadOf(a, c) ==
  IF c # Nothing THEN Bounded(a, c) ELSE IF a.nullable THEN NullRead ELSE Nothing

(* Fault: every value is written as a number.                                  *)
ToJsonNumber(a, v) == IF v = NullRead THEN <<"null", 0>> ELSE <<"number", v>>

(* to_json: null and the value reserved for it become JSON's null.             *)
ToJson(a, v) ==
  IF v = NullRead \/ (a.nullable /\ a.kind = "number" /\ v = Reserved)
    THEN <<"null", 0>>
    ELSE <<ShapeOf(a.kind), v>>

-----------------------------------------------------------------------------
(* Reports.                                                                    *)

None == [k \in Keys |-> Nothing]
Empty == [id \in Ids |-> Nothing]
IsFree(id) == \A k \in Keys : home[k] # id
About(queue, k) == \E i \in 1 .. Len(queue) : queue[i][1] = k

(* Publishing reaches the translator's subscription to the key's topics.       *)
Published(k, r) == IF k \in bridged THEN Append(inbox, <<k, r>>) ELSE inbox

EnvironmentEvent == events < MaxEvents /\ events' = events + 1

(* The device changes by itself, Unify publishes its value.                    *)
DeviceReports(k, r) ==
  /\ EnvironmentEvent
  /\ r \in Sent \ {device[k]}
  /\ device' = [device EXCEPT ![k] = r]
  /\ inbox' = Published(k, r)
  /\ wish' = [wish EXCEPT ![k] = Nothing]
  /\ UNCHANGED <<attr, node, cache, dirty, view, outbox, order, told, former>>

(* Faults: only the first report is kept; only the first one is announced.     *)
UpdatedOnce(id, r) ==
  IF cache[id] = Nothing /\ Cached(attr, r) # Nothing
    THEN [cache EXCEPT ![id] = Cached(attr, r)] ELSE cache
NotifiedOnce(id, r) ==
  IF cache[id] = Nothing /\ Converted(attr, r) # Nothing THEN dirty \cup {id} ELSE dirty

(* The cache after report r of endpoint id, and whether the change callback of *)
(* the Matter stack is called.                                                 *)
Updated(id, r) ==
  IF Cached(attr, r) # Nothing THEN [cache EXCEPT ![id] = Cached(attr, r)] ELSE cache
Notified(id, r) == IF Converted(attr, r) # Nothing THEN dirty \cup {id} ELSE dirty

(* A report is a value of the attribute's type, other than the reserved one;   *)
(* Meaning is what a controller is to read then.                               *)
Number(a, r) ==
  IF r[1] = "text" /\ r[2] \in DOMAIN a.words THEN a.words[r[2]]
  ELSE IF r[1] \in {"number", "boolean"} THEN r[2] ELSE Nothing

Fits(a, r) ==
  CASE a.kind = "number" ->
         Number(a, r) # Nothing /\ (a.nullable /\ Number(a, r) = Reserved => a.moved)
    [] a.kind = "boolean" -> r[1] = "boolean"
    [] a.kind = "bitmap" -> r[1] = "object"
    [] OTHER -> r[1] = "text" /\ r[2] < Top

Meaning(a, r) ==
  IF a.kind # "number" THEN r[2] % Top
  ELSE IF a.floor /\ Number(a, r) = 0 THEN 1
  ELSE IF (a.moved \/ a.ceiling) /\ Number(a, r) = Reserved THEN Reserved - 1
  ELSE Number(a, r)

(* on_mqtt_message_cb and reported_updated                                     *)
Receive ==
  /\ inbox # <<>>
  /\ inbox' = Tail(inbox)
  /\ LET k == Head(inbox)[1]
         r == Head(inbox)[2]
     IN IF k \in bridged
          THEN /\ cache' = Updated(home[k], r)
               /\ dirty' = Notified(home[k], r)
               /\ told' = [told EXCEPT ![k] = IF Fits(attr, r) THEN r ELSE @]
          ELSE UNCHANGED <<cache, dirty, told>>
  /\ UNCHANGED <<attr, node, device, view, outbox, order, events, wish, former>>

(* The Matter stack reads a changed attribute and informs its subscribers.     *)
(* For an endpoint that is not bridged the read encodes nothing.               *)
Inform(id) ==
  /\ id \in dirty
  /\ dirty' = dirty \ {id}
  /\ view' = IF \E k \in bridged : home[k] = id
               THEN [view EXCEPT ![id] = ReadOf(attr, cache[id])] ELSE view
  /\ UNCHANGED <<attr, node, device, inbox, cache, outbox, order, events, history>>

-----------------------------------------------------------------------------
(* The node state monitor and restarts.                                        *)

(* A key gets the endpoint it has on disk, or a free one; the translator       *)
(* subscribes, and the broker sends the report it retains.                     *)
Bridge(k, id) ==
  /\ EnvironmentEvent
  /\ k \notin bridged
  /\ IF home[k] = Nothing THEN IsFree(id) ELSE home[k] = id
  /\ home' = [home EXCEPT ![k] = id]
  /\ bridged' = bridged \cup {k}
  /\ inbox' = IF device[k] # NoReport THEN Append(inbox, <<k, device[k]>>) ELSE inbox
  /\ told' = [told EXCEPT ![k] = NoReport]
  /\ UNCHANGED <<attr, device, cache, dirty, view, outbox, order, wish, former>>

(* The key's node is removed: mapping and subscription go, the cache stays.    *)
Unbridge(k) ==
  /\ EnvironmentEvent
  /\ k \in bridged
  /\ home' = [home EXCEPT ![k] = Nothing]
  /\ bridged' = bridged \ {k}
  /\ former' = former \cup {home[k]}
  /\ UNCHANGED <<attr, device, inbox, cache, dirty, view, outbox, order, told, wish>>

(* The bridge process ends and starts again: the mappings are on disk, the     *)
(* broker keeps what it retains, all else is lost.                             *)
Restart ==
  /\ EnvironmentEvent
  /\ bridged # {}
  /\ bridged' = {}
  /\ inbox' = <<>>
  /\ cache' = Empty
  /\ dirty' = {}
  /\ view' = Empty
  /\ told' = [k \in Keys |-> NoReport]
  /\ former' = {}
  /\ UNCHANGED <<attr, home, device, outbox, order, wish>>

-----------------------------------------------------------------------------
(* Writes.                                                                     *)

(* Decode: a value of the type, or null for a Nullable one.                    *)
Decodable(a, v) ==
  /\ v # Garbled
  /\ v = NullRead => a.nullable
  /\ a.kind = "boolean" => v < 2

(* What the variable holds that was not initialised: anything of its type,     *)
(* which for an enum is also what has no text.                                 *)
Uninitialised(a) ==
  {v \in 0 .. Top : (v = Top => a.kind = "enum") /\ (a.kind = "boolean" => v < 2)}
    \cup {v \in {NullRead} : a.nullable}

(* Write: the error of Decode is ignored.  Whatever the variable holds then is *)
(* published retained, and the write is answered NO_ERROR.                     *)
Write(k, v) ==
  /\ EnvironmentEvent
  /\ k \in bridged /\ attr.writable
  /\ \E d \in IF Decodable(attr, v) THEN {v} ELSE Uninitialised(attr) :
       /\ outbox' = Append(outbox, <<k, ToJson(attr, d)>>)
       /\ order' = [order EXCEPT ![k] = ToJson(attr, d)]
       /\ wish' = [wish EXCEPT ![k] =
                     IF ~Decodable(attr, v) THEN Nothing
                     ELSE IF ToJson(attr, d)[1] = "null" THEN @ ELSE v]
  /\ UNCHANGED <<attr, node, device, inbox, cache, dirty, view, told, former>>

(* Unify carries a command out and reports the value.  It cannot take null or  *)
(* an unknown text.                                                            *)
Refused(r) == r[1] = "null" \/ r = <<"text", Top>>

Execute ==
  /\ outbox # <<>>
  /\ outbox' = Tail(outbox)
  /\ LET k == Head(outbox)[1]
         r == Head(outbox)[2]
     IN IF Refused(r)
          THEN UNCHANGED <<device, inbox>>
          ELSE /\ device' = [device EXCEPT ![k] = r]
               /\ inbox' = Published(k, r)
  /\ UNCHANGED <<attr, node, cache, dirty, view, order, events, history>>

(* Unify subscribes anew and is sent the command the broker retains.           *)
Reconnect(k) ==
  /\ EnvironmentEvent
  /\ order[k] # NoReport
  /\ outbox' = Append(outbox, <<k, order[k]>>)
  /\ UNCHANGED <<attr, node, device, inbox, cache, dirty, view, order, history>>

-----------------------------------------------------------------------------

Init ==
  /\ attr \in Attributes
  /\ home = None /\ bridged = {}
  /\ device = [k \in Keys |-> NoReport]
  /\ inbox = <<>> /\ cache = Empty /\ dirty = {} /\ view = Empty
  /\ outbox = <<>> /\ order = [k \in Keys |-> NoReport]
  /\ events = 0
  /\ told = [k \in Keys |-> NoReport] /\ wish = None /\ former = {}

Environment ==
  \/ \E k \in Keys : Unbridge(k)
  \/ \E k \in Keys : Reconnect(k)
  \/ \E k \in Keys, r \in Sent : DeviceReports(k, r)
  \/ \E k \in Keys, id \in Ids : Bridge(k, id)
  \/ \E k \in Keys, v \in Written : Write(k, v)
  \/ Restart

Next == Receive \/ Execute \/ (\E id \in Ids : Inform(id)) \/ Environment

(* Messages are delivered, Unify executes what it gets, and the Matter stack   *)
(* serves its subscriptions.                                                   *)
Fairness == WF_vars(Receive) /\ WF_vars(Execute) /\ WF_vars(\E id \in Ids : Inform(id))

Spec == Init /\ [][Next]_vars
FairSpec == Spec /\ Fairness

-----------------------------------------------------------------------------

(* What Updated puts into the cache is a value of the attribute's type, which  *)
(* reads and writes rely on: the conversions cut or refuse every report.       *)
TypeOK ==
  /\ attr \in Attribute
  /\ home \in [Keys -> Ids \cup {Nothing}]
  /\ bridged \in SUBSET Keys
  /\ device \in [Keys -> Reports \cup {NoReport}]
  /\ inbox \in Seq(Keys \X Reports)
  /\ cache \in [Ids -> Values \cup {Nothing}]
  /\ dirty \in SUBSET Ids
  /\ view \in [Ids -> Values \cup {Nothing, NullRead}]
  /\ outbox \in Seq(Keys \X Reports)
  /\ order \in [Keys -> Reports \cup {NoReport}]
  /\ events \in 0 .. MaxEvents
  /\ told \in [Keys -> Reports \cup {NoReport}]
  /\ wish \in [Keys -> Values \cup {Nothing}]
  /\ former \in SUBSET Ids

Reads(k) == ReadOf(attr, cache[home[k]])

(* What a controller reads is what the device's last fitting report said:      *)
(* reports of other shapes, unknown texts, nulls, reports for other endpoints  *)
(* and for keys that are gone leave it alone, and the conversion on the way    *)
(* into the cache and the one on the way out agree.                            *)
LastReportStands ==
  \A k \in bridged : told[k] # NoReport => Reads(k) = Meaning(attr, told[k])

(* As soon as no report of a device is under way, controllers read the value   *)
(* Unify retains for it, whatever the order of changes, removals, additions    *)
(* and restarts was: the subscription on NODE_ADDED fetches what was missed.   *)
CurrentWhenQuiet ==
  \A k \in bridged :
    device[k] # NoReport /\ Fits(attr, device[k]) /\ ~About(inbox, k)
      => Reads(k) = Meaning(attr, device[k])

(* A value of another device can only be read on a Matter endpoint that was    *)
(* given up in this run of the bridge: the cache is not cleared on             *)
(* NODE_DELETED.                                                               *)
FreshIsEmpty ==
  \A k \in bridged :
    told[k] = NoReport /\ home[k] \notin former
      => cache[home[k]] = Nothing

(* A value that was written, and is the last thing that happened to its        *)
(* device, is read back once Unify has carried it out and reported, though it  *)
(* goes through to_json and from_json under different names, and however often *)
(* Unify is sent the retained command again.  Nothing is said of a write that  *)
(* could not be decoded.                                                       *)
WriteReadsBack ==
  \A k \in bridged :
    wish[k] # Nothing /\ ~About(outbox, k) /\ ~About(inbox, k) => Reads(k) = wish[k]

(* Unify is sent a command again only while it is the last thing that happened *)
(* to its device.                                                              *)
ReplaysAreCurrent == [][\A k \in Keys : Reconnect(k) => wish[k] # Nothing]_vars

(* Subscribers know what a read gives for a device that has reported since it  *)
(* was bridged: every change of the cache calls the change callback, until the *)
(* stack has read the attribute, and what a read that finds the endpoint       *)
(* unbridged leaves untold is told after the endpoint is bridged again.        *)
SubscribersInformed ==
  \A k \in bridged :
    told[k] # NoReport /\ home[k] \notin dirty => view[home[k]] = Reads(k)

(* When devices and nodes settle, controllers and subscribers come to know     *)
(* the value of every bridged device.                                          *)
EventuallyKnown ==
  <>[](\A k \in bridged :
         device[k] # NoReport /\ Fits(attr, device[k])
           => Reads(k) = Meaning(attr, device[k]) /\ view[home[k]] = Reads(k))
=============================================================================
