----------------------- MODULE AttributeTranslatorProofs -----------------------
(***************************************************************************)
(* Proofs about AttributeTranslator, for any number of devices and Matter  *)
(* endpoints, any width of a value and any history of events.              *)
(*                                                                         *)
(* The argument: what is in the cache of a bridged key is the conversion   *)
(* of the last report that fits (Current), the newest report under way for *)
(* a key is the one Unify retains (Newest), and without one under way the  *)
(* retained one has been received (Received).  For writes: the newest      *)
(* command under way, or else what Unify retains, is what was written last *)
(* (LastWritten).                                                          *)
(***************************************************************************)
EXTENDS AttributeTranslator, TLAPS

USE TopAssumption, IdsAssumption, AttributesAssumption, MaxEventsAssumption,
    SentAssumption, WrittenAssumption

-----------------------------------------------------------------------------
(* Conversions.                                                                *)

(* A report that fits is cached, and the cached value is read as what the      *)
(* report means; a report that does not fit leaves no value.                   *)
LEMMA FittingIsCached ==
  ASSUME NEW a \in Attribute, NEW r \in Reports
  PROVE  /\ Fits(a, r) <=> Cached(a, r) # Nothing
         /\ Fits(a, r) => Cached(a, r) \in Values /\ ReadOf(a, Cached(a, r)) = Meaning(a, r)
<1> DEFINE s == Substituted(a, r)
<1>1. a.kind \in Kinds /\ a.nullable \in BOOLEAN /\ a.moved \in BOOLEAN
      /\ a.floor \in BOOLEAN /\ a.ceiling \in BOOLEAN
  BY DEF Attribute
<1>2. \A t \in DOMAIN a.words : a.words[t] \in Values
  <2>1. PICK D \in SUBSET {0, 1} : a.words \in [D -> Values]
    BY DEF Attribute
  <2> QED BY <2>1
<1>3. r[1] \in Shapes /\ r[2] \in 0 .. 2 * Top - 1 /\ r = <<r[1], r[2]>>
      /\ (r[1] = "number" => r[2] \in Values) /\ (r[1] = "boolean" => r[2] \in {0, 1})
  BY DEF Reports, Shapes, Values
<1>4. r[2] % Top \in Values /\ (r[2] \in Values => r[2] % Top = r[2])
  BY <1>3 DEF Values
<1>5. CASE a.kind = "number"
  <2>1. Converted(a, r) = Number(a, r)
    <3>1. CASE r[1] = "text" /\ r[2] \in DOMAIN a.words
      <4>1. s[1] = "number" /\ s[2] = a.words[r[2]] /\ Number(a, r) = a.words[r[2]]
        BY <3>1 DEF Substituted, Number
      <4>2. s[2] % Top = s[2]
        BY <1>2, <3>1, <4>1 DEF Values
      <4> HIDE DEF s
      <4>3. FromJson(a, s) = s[2] % Top
        BY <1>5, <4>1 DEF FromJson, Converts, ShapeOf
      <4> QED BY <4>1, <4>2, <4>3 DEF Converted, s
    <3>2. CASE ~(r[1] = "text" /\ r[2] \in DOMAIN a.words)
      <4>1. s = r
        BY <3>2 DEF Substituted
      <4>2. Converts(a.kind, r[1]) <=> r[1] \in {"number", "boolean"}
        BY <1>5 DEF Converts, ShapeOf
      <4>3. r[1] \in {"number", "boolean"} => r[2] \in Values
        BY <1>3 DEF Values
      <4> QED BY <1>4, <1>5, <3>2, <4>1, <4>2, <4>3 DEF Converted, FromJson, Number
    <3> QED BY <3>1, <3>2
  <2>2. Number(a, r) \in Values \cup {Nothing}
    BY <1>2, <1>3 DEF Number, Values
  <2> HIDE DEF s
  <2> QED BY <1>1, <1>5, <2>1, <2>2
          DEF Cached, Stored, Moved, Fits, Meaning, ReadOf, Bounded, Values, Reserved, Nothing
<1>6. CASE a.kind # "number"
  <2>1. DOMAIN a.words = {} /\ ~a.moved /\ ~a.floor /\ ~a.ceiling
    BY <1>6 DEF Attribute
  <2>2. Converted(a, r) = FromJson(a, r) /\ Number(a, r) \in Int
    BY <1>3, <2>1 DEF Converted, Substituted, Number, Nothing
  <2>3. Cached(a, r) = FromJson(a, r)
    BY <1>6, <2>1, <2>2 DEF Cached, Stored, Moved
  <2>4. a.floor = FALSE /\ a.ceiling = FALSE /\ a.moved = FALSE
    BY <1>1, <2>1
  <2>5. CASE a.kind = "boolean"
    <3>1. Converts(a.kind, r[1]) <=> r[1] = "boolean"
      BY <2>5 DEF Converts, ShapeOf
    <3>2. r[1] = "boolean" => r[2] < Top /\ r[2] \in Values
      BY <1>3 DEF Values
    <3> QED BY <1>3, <1>4, <2>3, <2>4, <2>5, <3>1, <3>2
            DEF FromJson, Fits, Meaning, ReadOf, Bounded, Nothing, Values
  <2>6. CASE a.kind = "bitmap"
    <3>1. Converts(a.kind, r[1]) <=> r[1] = "object"
      BY <2>6 DEF Converts, ShapeOf
    <3> QED BY <1>3, <1>4, <2>3, <2>4, <2>6, <3>1
            DEF FromJson, Fits, Meaning, ReadOf, Bounded, Nothing, Values
  <2>7. CASE a.kind = "enum"
    <3>1. Converts(a.kind, r[1]) <=> r[1] = "text"
      BY <2>7 DEF Converts, ShapeOf
    <3> QED BY <1>3, <1>4, <2>3, <2>4, <2>7, <3>1
            DEF FromJson, Fits, Meaning, ReadOf, Bounded, Nothing, Values
  <2> QED BY <1>1, <1>6, <2>5, <2>6, <2>7 DEF Kinds
<1> QED BY <1>5, <1>6

(* A value that is cached was converted, so its change is announced.           *)
LEMMA CachedIsConverted ==
  ASSUME NEW a \in Attribute, NEW r \in Reports, Cached(a, r) # Nothing
  PROVE  Converted(a, r) # Nothing
  BY DEF Cached, Stored, Moved, Reserved, Nothing

(* What is written and can be decoded is published as a report that fits and   *)
(* means the value.                                                            *)
LEMMA WrittenFits ==
  ASSUME NEW a \in Attribute, NEW v \in Written, a.writable, Decodable(a, v)
  PROVE  /\ ToJson(a, v) \in Reports
         /\ ToJson(a, v)[1] # "null" =>
              v \in Values /\ Fits(a, ToJson(a, v)) /\ Meaning(a, ToJson(a, v)) = v
         /\ Refused(ToJson(a, v)) <=> ToJson(a, v)[1] = "null"
<1>1. a.kind \in Kinds /\ a.nullable \in BOOLEAN /\ a.moved = FALSE
      /\ a.floor = FALSE /\ a.ceiling = FALSE
  BY DEF Attribute
<1>2. ToJson(a, v) = <<"null", 0>> \/ (ToJson(a, v) = <<ShapeOf(a.kind), v>> /\ v # NullRead)
  BY DEF ToJson
<1>3. v \in Values \/ v = NullRead
  BY DEF Decodable
<1>4. CASE ToJson(a, v) = <<"null", 0>>
  BY <1>4 DEF Reports, Refused
<1>5. CASE ToJson(a, v) = <<ShapeOf(a.kind), v>> /\ v # NullRead
  <2>1. v \in Values /\ v % Top = v /\ v < Top /\ v \in 0 .. Top /\ v \in 0 .. 2 * Top - 1
    BY <1>3, <1>5 DEF Values
  <2>2. a.kind = "number" /\ a.nullable => v # Reserved
    BY <1>5 DEF ToJson, ShapeOf
  <2>3. CASE a.kind = "number"
    <3>1. ToJson(a, v) = <<"number", v>>
      BY <1>5, <2>3 DEF ShapeOf
    <3>2. Number(a, <<"number", v>>) = v
      BY <2>3 DEF Number
    <3> QED BY <1>1, <2>1, <2>2, <2>3, <3>1, <3>2
            DEF Fits, Meaning, Reports, Nothing, Values, Refused
  <2>4. CASE a.kind = "boolean"
    <3>1. ToJson(a, v) = <<"boolean", v>> /\ v \in {0, 1}
      BY <1>5, <2>1, <2>4 DEF ShapeOf, Decodable, Values
    <3> QED BY <2>1, <2>4, <3>1 DEF Fits, Meaning, Reports, Refused
  <2>5. CASE a.kind = "bitmap"
    <3>1. ToJson(a, v) = <<"object", v>>
      BY <1>5, <2>5 DEF ShapeOf
    <3> QED BY <2>1, <2>5, <3>1 DEF Fits, Meaning, Reports, Refused
  <2>6. CASE a.kind = "enum"
    <3>1. ToJson(a, v) = <<"text", v>>
      BY <1>5, <2>6 DEF ShapeOf
    <3> QED BY <2>1, <2>6, <3>1 DEF Fits, Meaning, Reports, Refused
  <2> QED BY <1>1, <2>3, <2>4, <2>5, <2>6 DEF Kinds
<1> QED BY <1>2, <1>4, <1>5

(* What a variable holds that was not initialised is published as some report. *)
LEMMA UninitialisedIsReport ==
  ASSUME NEW a \in Attribute, NEW d \in Uninitialised(a)
  PROVE  ToJson(a, d) \in Reports
<1>1. a.kind \in Kinds
  BY DEF Attribute
<1>2. ToJson(a, d) = <<"null", 0>> \/ (ToJson(a, d) = <<ShapeOf(a.kind), d>> /\ d # NullRead)
  BY DEF ToJson
<1>3. CASE ToJson(a, d) = <<"null", 0>>
  BY <1>3 DEF Reports
<1>4. CASE ToJson(a, d) = <<ShapeOf(a.kind), d>> /\ d # NullRead
  <2>1. d \in 0 .. Top /\ (d = Top => a.kind = "enum") /\ (a.kind = "boolean" => d < 2)
    BY <1>4 DEF Uninitialised
  <2>2. d \in 0 .. 2 * Top - 1 /\ (d # Top => d \in Values)
    BY <2>1 DEF Values
  <2>3. CASE a.kind = "number" BY <1>4, <2>1, <2>2, <2>3 DEF ShapeOf, Reports
  <2>4. CASE a.kind = "boolean"
    <3>1. d \in {0, 1} BY <2>1, <2>4
    <3> QED BY <1>4, <2>4, <3>1 DEF ShapeOf, Reports
  <2>5. CASE a.kind = "bitmap" BY <1>4, <2>2, <2>5 DEF ShapeOf, Reports
  <2>6. CASE a.kind = "enum" BY <1>4, <2>1, <2>6 DEF ShapeOf, Reports
  <2> QED BY <1>1, <2>3, <2>4, <2>5, <2>6 DEF Kinds
<1> QED BY <1>2, <1>3, <1>4

(* What a write publishes.                                                     *)
LEMMA WriteSends ==
  ASSUME attr \in Attribute, wish \in [Keys -> Values \cup {Nothing}],
         NEW k \in Keys, NEW v \in Written, Write(k, v)
  PROVE  \E r \in Reports :
           /\ outbox' = Append(outbox, <<k, r>>)
           /\ order' = [order EXCEPT ![k] = r]
           /\ \E w \in Values \cup {Nothing} :
                /\ wish' = [wish EXCEPT ![k] = w]
                /\ Refused(r) => w \in {wish[k], Nothing}
                /\ ~Refused(r) /\ w # Nothing =>
                     w \in Written /\ Decodable(attr, w) /\ r = ToJson(attr, w)
<1>1. attr.writable
  BY DEF Write
<1>2. PICK d \in IF Decodable(attr, v) THEN {v} ELSE Uninitialised(attr) :
        /\ outbox' = Append(outbox, <<k, ToJson(attr, d)>>)
        /\ order' = [order EXCEPT ![k] = ToJson(attr, d)]
        /\ wish' = [wish EXCEPT ![k] =
                      IF ~Decodable(attr, v) THEN Nothing
                      ELSE IF ToJson(attr, d)[1] = "null" THEN wish[k] ELSE v]
  BY DEF Write
<1> DEFINE r == ToJson(attr, d)
           w == IF ~Decodable(attr, v) THEN Nothing ELSE IF r[1] = "null" THEN wish[k] ELSE v
<1>3. CASE Decodable(attr, v)
  <2>1. d = v
    BY <1>2, <1>3
  <2>2. /\ r \in Reports /\ (Refused(r) <=> r[1] = "null")
        /\ r[1] # "null" => v \in Values
    BY <1>1, <1>3, <2>1, WrittenFits
  <2>3. w \in Values \cup {Nothing}
    BY <1>3, <2>2
  <2> QED BY <1>2, <1>3, <2>1, <2>2, <2>3
<1>4. CASE ~Decodable(attr, v)
  BY <1>2, <1>4, UninitialisedIsReport
<1> QED BY <1>3, <1>4

-----------------------------------------------------------------------------
(* Queues and types.                                                           *)

LEMMA TailOf ==
  ASSUME NEW S, NEW q \in Seq(S), q # <<>>
  PROVE  /\ Tail(q) \in Seq(S) /\ Len(Tail(q)) = Len(q) - 1 /\ Len(q) \in Nat /\ Len(q) >= 1
         /\ Head(q) = q[1] /\ Head(q) \in S
         /\ \A i \in 1 .. Len(Tail(q)) : Tail(q)[i] = q[i + 1]
  OBVIOUS

LEMMA AppendOf ==
  ASSUME NEW S, NEW q \in Seq(S), NEW x \in S
  PROVE  /\ Append(q, x) \in Seq(S) /\ Len(Append(q, x)) = Len(q) + 1 /\ Len(q) \in Nat
         /\ Append(q, x)[Len(q) + 1] = x
         /\ \A i \in 1 .. Len(q) : Append(q, x)[i] = q[i]
  OBVIOUS

LEMMA ReadIsTyped ==
  ASSUME NEW a \in Attribute, NEW c \in Values \cup {Nothing}
  PROVE  ReadOf(a, c) \in Values \cup {Nothing, NullRead}
  BY DEF ReadOf, Bounded, Values, Reserved, Nothing, NullRead

(* Every bridged key has a Matter endpoint, which it shares with no other key. *)
Homes ==
  /\ \A k \in bridged : home[k] # Nothing
  /\ \A k, l \in Keys : home[k] = home[l] /\ home[k] # Nothing => k = l

Typed == TypeOK /\ Homes

LEMMA InitTyped == Init => Typed
<1> SUFFICES ASSUME Init
             PROVE  Typed
  OBVIOUS
<1>1. home \in [Keys -> Ids \cup {Nothing}] /\ bridged \in SUBSET Keys
  BY DEF Init, None, Nothing
<1>2. /\ device \in [Keys -> Reports \cup {NoReport}] /\ order \in [Keys -> Reports \cup {NoReport}]
      /\ told \in [Keys -> Reports \cup {NoReport}] /\ wish \in [Keys -> Values \cup {Nothing}]
  BY DEF Init, None
<1>3. inbox \in Seq(Keys \X Reports) /\ outbox \in Seq(Keys \X Reports)
  BY DEF Init
<1>4. cache \in [Ids -> Values \cup {Nothing}] /\ view \in [Ids -> Values \cup {Nothing, NullRead}]
  BY DEF Init, Empty
<1>5. attr \in Attributes /\ dirty \in SUBSET Ids /\ events \in 0 .. MaxEvents
      /\ former \in SUBSET Ids
  BY DEF Init
<1>6. Homes
  BY DEF Init, Homes, None
<1> QED BY <1>1, <1>2, <1>3, <1>4, <1>5, <1>6 DEF Typed, TypeOK

LEMMA TypedStep == Typed /\ [Next]_vars => Typed'
<1> SUFFICES ASSUME Typed, [Next]_vars
             PROVE  Typed'
  OBVIOUS
<1>0. TypeOK /\ Homes
  BY DEF Typed
<1>1. attr \in Attribute
  BY <1>0 DEF TypeOK
<1>2. ASSUME NEW k \in Keys, NEW r \in Sent, DeviceReports(k, r)
      PROVE  Typed'
  <2>1. inbox' \in Seq(Keys \X Reports)
    BY <1>0, <1>2, AppendOf DEF TypeOK, DeviceReports, Published
  <2>2. events' \in 0 .. MaxEvents
    BY <1>0, <1>2 DEF TypeOK, DeviceReports, EnvironmentEvent
  <2> QED BY <1>0, <1>2, <2>1, <2>2 DEF Typed, TypeOK, Homes, DeviceReports, node
<1>3. CASE Receive
  <2>1. inbox' \in Seq(Keys \X Reports) /\ Head(inbox)[1] \in Keys /\ Head(inbox)[2] \in Reports
    <3>1. Head(inbox) \in Keys \X Reports /\ Tail(inbox) \in Seq(Keys \X Reports)
      BY <1>0, <1>3, TailOf DEF Receive, TypeOK
    <3> QED BY <1>3, <3>1 DEF Receive
  <2> DEFINE r == Head(inbox)[2]
             k == Head(inbox)[1]
  <2>2. Cached(attr, r) # Nothing => Cached(attr, r) \in Values
    BY <1>1, <2>1, FittingIsCached
  <2>3. CASE k \in bridged
    <3>1. /\ cache' = Updated(home[k], r) /\ dirty' = Notified(home[k], r)
          /\ told' = [told EXCEPT ![k] = IF Fits(attr, r) THEN r ELSE @]
      BY <1>3, <2>3 DEF Receive
    <3>2. home[k] \in Ids
      BY <1>0, <2>1, <2>3 DEF TypeOK, Homes
    <3> HIDE DEF k, r
    <3>3. cache' \in [Ids -> Values \cup {Nothing}] /\ dirty' \in SUBSET Ids
      BY <1>0, <2>2, <3>1, <3>2 DEF TypeOK, Updated, Notified
    <3>4. told' \in [Keys -> Reports \cup {NoReport}]
      BY <1>0, <2>1, <3>1 DEF TypeOK, k, r
    <3> QED BY <1>0, <1>3, <2>1, <3>3, <3>4 DEF Typed, TypeOK, Homes, Receive, node
  <2>4. CASE k \notin bridged
    <3>1. UNCHANGED <<cache, dirty, told>>
      BY <1>3, <2>4 DEF Receive
    <3> QED BY <1>0, <1>3, <2>1, <3>1 DEF Typed, TypeOK, Homes, Receive, node
  <2> QED BY <2>3, <2>4
<1>4. ASSUME NEW id \in Ids, Inform(id)
      PROVE  Typed'
  <2>1. ReadOf(attr, cache[id]) \in Values \cup {Nothing, NullRead}
    BY <1>0, <1>1, ReadIsTyped DEF TypeOK
  <2> QED BY <1>0, <1>4, <2>1 DEF Typed, TypeOK, Homes, Inform, node, history
<1>5. ASSUME NEW k \in Keys, NEW id \in Ids, Bridge(k, id)
      PROVE  Typed'
  <2>1. inbox' \in Seq(Keys \X Reports)
    BY <1>0, <1>5, AppendOf DEF TypeOK, Bridge
  <2>2. events' \in 0 .. MaxEvents
    BY <1>0, <1>5 DEF TypeOK, Bridge, EnvironmentEvent
  <2>3. Homes'
    BY <1>0, <1>5 DEF TypeOK, Homes, Bridge, IsFree
  <2>4. told' \in [Keys -> Reports \cup {NoReport}]
    BY <1>0, <1>5 DEF TypeOK, Bridge
  <2>5. home' \in [Keys -> Ids \cup {Nothing}] /\ bridged' \in SUBSET Keys
    BY <1>0, <1>5 DEF TypeOK, Bridge
  <2> QED BY <1>0, <1>5, <2>1, <2>2, <2>3, <2>4, <2>5 DEF Typed, TypeOK, Bridge
<1>6. ASSUME NEW k \in Keys, Unbridge(k)
      PROVE  Typed'
  <2>1. events' \in 0 .. MaxEvents
    BY <1>0, <1>6 DEF TypeOK, Unbridge, EnvironmentEvent
  <2>2. home[k] \in Ids
    BY <1>0, <1>6 DEF TypeOK, Homes, Unbridge
  <2>3. Homes'
    BY <1>0, <1>6 DEF TypeOK, Homes, Unbridge
  <2> QED BY <1>0, <1>6, <2>1, <2>2, <2>3 DEF Typed, TypeOK, Unbridge
<1>7. CASE Restart
  <2>1. events' \in 0 .. MaxEvents
    BY <1>0, <1>7 DEF TypeOK, Restart, EnvironmentEvent
  <2>2. Homes'
    BY <1>0, <1>7 DEF TypeOK, Homes, Restart
  <2>3. /\ cache' \in [Ids -> Values \cup {Nothing}]
        /\ view' \in [Ids -> Values \cup {Nothing, NullRead}]
        /\ told' \in [Keys -> Reports \cup {NoReport}] /\ inbox' \in Seq(Keys \X Reports)
    BY <1>7 DEF Restart, Empty
  <2> QED BY <1>0, <1>7, <2>1, <2>2, <2>3 DEF Typed, TypeOK, Restart
<1>8. ASSUME NEW k \in Keys, NEW v \in Written, Write(k, v)
      PROVE  Typed'
  <2>1. PICK r \in Reports, w \in Values \cup {Nothing} :
          /\ outbox' = Append(outbox, <<k, r>>) /\ order' = [order EXCEPT ![k] = r]
          /\ wish' = [wish EXCEPT ![k] = w]
    BY <1>0, <1>1, <1>8, WriteSends DEF TypeOK
  <2>2. outbox' \in Seq(Keys \X Reports)
    BY <1>0, <2>1, AppendOf DEF TypeOK
  <2>3. events' \in 0 .. MaxEvents
    BY <1>0, <1>8 DEF TypeOK, Write, EnvironmentEvent
  <2>4. order' \in [Keys -> Reports \cup {NoReport}] /\ wish' \in [Keys -> Values \cup {Nothing}]
    BY <1>0, <2>1 DEF TypeOK
  <2>5. UNCHANGED <<attr, node, device, inbox, cache, dirty, view, told, former>>
    BY <1>8 DEF Write
  <2> QED BY <1>0, <2>2, <2>3, <2>4, <2>5 DEF Typed, TypeOK, Homes, node
<1>9. CASE Execute
  <2>1. outbox' \in Seq(Keys \X Reports) /\ Head(outbox) \in Keys \X Reports
    BY <1>0, <1>9, TailOf DEF TypeOK, Execute
  <2> DEFINE k == Head(outbox)[1]
             r == Head(outbox)[2]
  <2>2. k \in Keys /\ r \in Reports
    BY <2>1
  <2>3. CASE Refused(r)
    BY <1>0, <1>9, <2>1, <2>3 DEF Typed, TypeOK, Homes, Execute, node, history
  <2>4. CASE ~Refused(r)
    <3>1. device' = [device EXCEPT ![k] = r] /\ inbox' = Published(k, r)
      BY <1>9, <2>4 DEF Execute
    <3> HIDE DEF k, r
    <3>2. device' \in [Keys -> Reports \cup {NoReport}]
      BY <1>0, <2>2, <3>1 DEF TypeOK
    <3>3. inbox' \in Seq(Keys \X Reports)
      BY <1>0, <2>2, <3>1, AppendOf DEF TypeOK, Published
    <3> QED BY <1>0, <1>9, <2>1, <3>2, <3>3 DEF Typed, TypeOK, Homes, Execute, node, history
  <2> QED BY <2>3, <2>4
<1>10. ASSUME NEW k \in Keys, Reconnect(k)
       PROVE  Typed'
  <2>1. order[k] \in Reports
    BY <1>0, <1>10 DEF TypeOK, Reconnect
  <2>2. outbox' \in Seq(Keys \X Reports)
    BY <1>0, <1>10, <2>1, AppendOf DEF TypeOK, Reconnect
  <2>3. events' \in 0 .. MaxEvents
    BY <1>0, <1>10 DEF TypeOK, Reconnect, EnvironmentEvent
  <2> QED BY <1>0, <1>10, <2>2, <2>3 DEF Typed, TypeOK, Homes, Reconnect, node, history
<1>11. CASE UNCHANGED vars
  BY <1>0, <1>11 DEF Typed, TypeOK, Homes, vars, node, history
<1> QED
  BY <1>2, <1>3, <1>4, <1>5, <1>6, <1>7, <1>8, <1>9, <1>10, <1>11 DEF Next, Environment

(* Every variable keeps its type.                                              *)
THEOREM TypeCorrect == Spec => []TypeOK
<1>1. Typed => TypeOK
  BY DEF Typed
<1> QED BY InitTyped, TypedStep, <1>1, PTL DEF Spec

-----------------------------------------------------------------------------
(* Reports.                                                                    *)

(* A report under way is of a device that Unify retains a value for, and the   *)
(* newest one of a device is the value it retains.                             *)
IsNewest(queue, i) == \A j \in 1 .. Len(queue) : j > i => queue[j][1] # queue[i][1]

Newest ==
  \A i \in 1 .. Len(inbox) :
    /\ device[inbox[i][1]] # NoReport
    /\ inbox[i][1] \in bridged /\ IsNewest(inbox, i) => inbox[i][2] = device[inbox[i][1]]

(* Without one under way, the retained value has been received, if it fits.    *)
Received ==
  \A k \in bridged :
    device[k] # NoReport /\ Fits(attr, device[k]) /\ ~About(inbox, k) => told[k] = device[k]

(* The cache holds the last fitting report of a bridged key.                   *)
Current ==
  \A k \in bridged :
    told[k] # NoReport =>
      told[k] \in Reports /\ Fits(attr, told[k]) /\ cache[home[k]] = Cached(attr, told[k])

(* Nothing else is in the cache, but values of keys that were removed.         *)
Filled ==
  \A id \in Ids :
    cache[id] # Nothing =>
      id \in former \/ \E k \in bridged : home[k] = id /\ told[k] # NoReport

ReportsInv == Typed /\ Newest /\ Received /\ Current /\ Filled /\ SubscribersInformed

(* What appending a message, and taking the first one, does to the newest      *)
(* messages of a queue.                                                        *)
LEMMA AppendNewest ==
  ASSUME NEW q \in Seq(Keys \X Reports), NEW k \in Keys, NEW r \in Reports
  PROVE  /\ \A i \in 1 .. Len(q) + 1 :
              \/ i = Len(q) + 1 /\ Append(q, <<k, r>>)[i] = <<k, r>>
              \/ i \in 1 .. Len(q) /\ Append(q, <<k, r>>)[i] = q[i]
         /\ \A i \in 1 .. Len(q) :
              IsNewest(Append(q, <<k, r>>), i) => q[i][1] # k /\ IsNewest(q, i)
         /\ \A l \in Keys : About(Append(q, <<k, r>>), l) <=> l = k \/ About(q, l)
<1> DEFINE p == Append(q, <<k, r>>)
<1>1. Len(p) = Len(q) + 1 /\ Len(q) \in Nat /\ p[Len(q) + 1] = <<k, r>>
      /\ \A i \in 1 .. Len(q) : p[i] = q[i]
  OBVIOUS
<1> HIDE DEF p
<1>2. ASSUME NEW i \in 1 .. Len(q), IsNewest(p, i)
      PROVE  q[i][1] # k /\ IsNewest(q, i)
  BY <1>1, <1>2 DEF IsNewest
<1>3. ASSUME NEW l \in Keys
      PROVE  About(p, l) <=> l = k \/ About(q, l)
  BY <1>1 DEF About
<1>4. ASSUME NEW i \in 1 .. Len(q) + 1
      PROVE  \/ i = Len(q) + 1 /\ p[i] = <<k, r>>
             \/ i \in 1 .. Len(q) /\ p[i] = q[i]
  BY <1>1
<1> QED BY <1>2, <1>3, <1>4 DEF p

LEMMA TailNewest ==
  ASSUME NEW q \in Seq(Keys \X Reports), q # <<>>
  PROVE  /\ \A i \in 1 .. Len(Tail(q)) :
              i + 1 \in 1 .. Len(q) /\ Tail(q)[i] = q[i + 1]
              /\ (IsNewest(Tail(q), i) => IsNewest(q, i + 1))
         /\ \A l \in Keys : About(q, l) <=> l = Head(q)[1] \/ About(Tail(q), l)
         /\ ~About(Tail(q), Head(q)[1]) => IsNewest(q, 1)
         /\ 1 \in 1 .. Len(q) /\ Head(q) = q[1]
<1> DEFINE p == Tail(q)
<1>1. Len(p) = Len(q) - 1 /\ Len(q) \in Nat /\ Len(q) >= 1 /\ Head(q) = q[1]
      /\ \A i \in 1 .. Len(p) : p[i] = q[i + 1]
  OBVIOUS
<1> HIDE DEF p
<1>2. ASSUME NEW j \in 2 .. Len(q)
      PROVE  j - 1 \in 1 .. Len(p) /\ p[j - 1] = q[j]
  <2>1. j - 1 \in 1 .. Len(p) /\ (j - 1) + 1 = j
    BY <1>1
  <2> QED BY <1>1, <2>1
<1>3. ASSUME NEW i \in 1 .. Len(p), IsNewest(p, i)
      PROVE  IsNewest(q, i + 1)
  <2>1. p[i] = q[i + 1]
    BY <1>1
  <2> QED BY <1>1, <1>2, <1>3, <2>1 DEF IsNewest
<1>4. ASSUME NEW l \in Keys
      PROVE  About(q, l) <=> l = q[1][1] \/ About(p, l)
  <2>1. ASSUME About(q, l), l # q[1][1]
        PROVE  About(p, l)
    <3>1. PICK i \in 1 .. Len(q) : q[i][1] = l
      BY <2>1 DEF About
    <3>2. i \in 2 .. Len(q)
      BY <1>1, <2>1, <3>1
    <3> QED BY <1>2, <3>1, <3>2 DEF About
  <2>2. ASSUME About(p, l)
        PROVE  About(q, l)
    <3>1. PICK i \in 1 .. Len(p) : p[i][1] = l
      BY <2>2 DEF About
    <3>2. i + 1 \in 1 .. Len(q) /\ q[i + 1] = p[i]
      BY <1>1
    <3> QED BY <3>1, <3>2 DEF About
  <2>3. l = q[1][1] => About(q, l)
    BY <1>1 DEF About
  <2> QED BY <2>1, <2>2, <2>3
<1>5. ~About(p, q[1][1]) => IsNewest(q, 1)
  BY <1>1, <1>2 DEF About, IsNewest
<1> QED BY <1>1, <1>3, <1>4, <1>5 DEF p

LEMMA InitReports == Init => ReportsInv
<1> SUFFICES ASSUME Init
             PROVE  ReportsInv
  OBVIOUS
<1>1. Newest /\ Received /\ Current
  BY DEF Init, Newest, Received, Current
<1>2. Filled /\ SubscribersInformed
  BY DEF Init, Empty, Filled, SubscribersInformed
<1> QED BY InitTyped, <1>1, <1>2 DEF ReportsInv

(* Whether a device changes by itself or at Unify's command, its value is      *)
(* published.                                                                  *)
LEMMA PublishStep ==
  ASSUME ReportsInv, NEW k \in Keys, NEW r \in Reports,
         device' = [device EXCEPT ![k] = r], inbox' = Published(k, r),
         UNCHANGED <<attr, node, cache, dirty, view, told, former>>
  PROVE  (Newest /\ Received /\ Current /\ Filled /\ SubscribersInformed)'
<1>1. Typed /\ Newest /\ Received /\ Current /\ Filled /\ SubscribersInformed
  BY DEF ReportsInv
<1>2. /\ inbox \in Seq(Keys \X Reports) /\ device \in [Keys -> Reports \cup {NoReport}]
      /\ bridged \subseteq Keys
  BY <1>1 DEF Typed, TypeOK
<1>3. r # NoReport
  BY DEF Reports, NoReport, Nothing, Values
<1>4. UNCHANGED <<attr, home, bridged, cache, dirty, view, told, former>>
  BY DEF node
<1>5. \A i \in 1 .. Len(inbox) : inbox[i] \in Keys \X Reports
  BY <1>2
<1>6. (Current /\ Filled /\ SubscribersInformed)'
  BY <1>1, <1>4 DEF Current, Filled, SubscribersInformed, Reads
<1>7. CASE k \in bridged
  <2>1. inbox' = Append(inbox, <<k, r>>) /\ Len(inbox') = Len(inbox) + 1
    BY <1>2, <1>7 DEF Published
  <2>2. Newest'
    <3> SUFFICES ASSUME NEW i \in 1 .. Len(inbox) + 1
                 PROVE  /\ device'[inbox'[i][1]] # NoReport
                        /\ inbox'[i][1] \in bridged /\ IsNewest(inbox', i)
                             => inbox'[i][2] = device'[inbox'[i][1]]
      BY <1>4, <2>1 DEF Newest, IsNewest
    <3>1. CASE i = Len(inbox) + 1 /\ inbox'[i] = <<k, r>>
      BY <1>2, <1>3, <3>1
    <3>2. CASE i \in 1 .. Len(inbox) /\ inbox'[i] = inbox[i]
               /\ (IsNewest(inbox', i) => inbox[i][1] # k /\ IsNewest(inbox, i))
      BY <1>1, <1>2, <1>3, <1>5, <3>2 DEF Newest
    <3>3. \/ i = Len(inbox) + 1 /\ inbox'[i] = <<k, r>>
          \/ i \in 1 .. Len(inbox) /\ inbox'[i] = inbox[i]
      BY <1>2, <2>1
    <3>4. i \in 1 .. Len(inbox) =>
            (IsNewest(inbox', i) => inbox[i][1] # k /\ IsNewest(inbox, i))
      <4>1. inbox \in Seq(Keys \X Reports)
        BY <1>2
      <4>2. \A j \in 1 .. Len(inbox) :
              IsNewest(Append(inbox, <<k, r>>), j) => inbox[j][1] # k /\ IsNewest(inbox, j)
        BY <4>1, AppendNewest, Zenon
      <4> QED BY <2>1, <4>2, Zenon
    <3> QED BY <3>1, <3>2, <3>3, <3>4
  <2>3. Received'
    BY <1>1, <1>2, <1>4, <2>1, AppendNewest DEF Received
  <2> QED BY <1>6, <2>2, <2>3
<1>8. CASE k \notin bridged
  <2>1. inbox' = inbox
    BY <1>8 DEF Published
  <2>2. Newest'
    BY <1>1, <1>2, <1>3, <1>4, <1>5, <1>8, <2>1 DEF Newest, IsNewest
  <2>3. Received'
    BY <1>1, <1>2, <1>4, <1>8, <2>1 DEF Received, About
  <2> QED BY <1>6, <2>2, <2>3
<1> QED BY <1>7, <1>8

(* The conjuncts that a step keeps when it leaves their variables alone.       *)
LEMMA ReportsFrame ==
  ASSUME ReportsInv,
         UNCHANGED <<attr, home, bridged, device, inbox, cache, told, former, dirty, view>>
  PROVE  (Newest /\ Received /\ Current /\ Filled /\ SubscribersInformed)'
<1>1. Newest /\ Received /\ Current /\ Filled /\ SubscribersInformed
  BY DEF ReportsInv
<1>2. Newest'
  BY <1>1 DEF Newest, IsNewest
<1>3. Received' /\ Current'
  BY <1>1 DEF Received, Current, About
<1>4. Filled' /\ SubscribersInformed'
  BY <1>1 DEF Filled, SubscribersInformed, Reads
<1> QED BY <1>2, <1>3, <1>4

LEMMA ReceiveStep ==
  ASSUME ReportsInv, Receive
  PROVE  (Newest /\ Received /\ Current /\ Filled /\ SubscribersInformed)'
<1>1. Typed /\ Newest /\ Received /\ Current /\ Filled /\ SubscribersInformed
  BY DEF ReportsInv
<1>2. /\ inbox \in Seq(Keys \X Reports) /\ device \in [Keys -> Reports \cup {NoReport}]
      /\ bridged \subseteq Keys /\ attr \in Attribute /\ told \in [Keys -> Reports \cup {NoReport}]
      /\ home \in [Keys -> Ids \cup {Nothing}] /\ cache \in [Ids -> Values \cup {Nothing}]
      /\ Homes
  BY <1>1 DEF Typed, TypeOK
<1>3. inbox # <<>> /\ inbox' = Tail(inbox) /\ Head(inbox) = inbox[1] /\ 1 \in 1 .. Len(inbox)
  BY <1>2, TailNewest DEF Receive
<1> DEFINE k == Head(inbox)[1]
           r == Head(inbox)[2]
<1>4. k \in Keys /\ r \in Reports
  <2>1. Head(inbox) \in Keys \X Reports
    BY <1>2, <1>3
  <2> QED BY <2>1
<1>5. /\ UNCHANGED <<attr, home, bridged, device, view, former>>
      /\ k \in bridged =>
           /\ cache' = Updated(home[k], r) /\ dirty' = Notified(home[k], r)
           /\ told' = [told EXCEPT ![k] = IF Fits(attr, r) THEN r ELSE @]
      /\ k \notin bridged => UNCHANGED <<cache, dirty, told>>
  BY DEF Receive, node
<1>6. r # NoReport
  BY <1>4 DEF Reports, NoReport, Nothing, Values
<1>7. /\ \A l \in Keys : About(inbox, l) <=> l = k \/ About(inbox', l)
      /\ ~About(inbox', k) /\ k \in bridged => r = device[k]
  <2>1. /\ \A l \in Keys : About(inbox, l) <=> l = Head(inbox)[1] \/ About(Tail(inbox), l)
        /\ ~About(Tail(inbox), Head(inbox)[1]) => IsNewest(inbox, 1)
    BY <1>2, <1>3, TailNewest
  <2>2. inbox[1][1] \in bridged /\ IsNewest(inbox, 1) => inbox[1][2] = device[inbox[1][1]]
    BY <1>1, <1>3 DEF Newest
  <2> QED BY <1>3, <2>1, <2>2
<1>8. Newest'
  <2> SUFFICES ASSUME NEW i \in 1 .. Len(inbox')
               PROVE  /\ device[inbox'[i][1]] # NoReport
                      /\ inbox'[i][1] \in bridged /\ IsNewest(inbox', i)
                           => inbox'[i][2] = device[inbox'[i][1]]
    BY <1>5 DEF Newest, IsNewest
  <2>1. i + 1 \in 1 .. Len(inbox) /\ inbox'[i] = inbox[i + 1]
        /\ (IsNewest(inbox', i) => IsNewest(inbox, i + 1))
    BY <1>2, <1>3, TailNewest
  <2> QED BY <1>1, <2>1 DEF Newest
<1>9. CASE k \notin bridged
  BY <1>1, <1>2, <1>5, <1>7, <1>8, <1>9
     DEF Received, Current, Filled, SubscribersInformed, Reads
<1>10. CASE k \in bridged
  <2>1. Fits(attr, r) <=> Cached(attr, r) # Nothing
    BY <1>2, <1>4, FittingIsCached
  <2>2. home[k] \in Ids /\ \A l \in bridged : home[l] \in Ids /\ (home[l] = home[k] => l = k)
    BY <1>2, <1>10 DEF Homes
  <2>3. cache' = IF Fits(attr, r) THEN [cache EXCEPT ![home[k]] = Cached(attr, r)] ELSE cache
    BY <1>5, <1>10, <2>1 DEF Updated
  <2>4. dirty' = dirty \cup {home[k]} \/ (cache' = cache /\ dirty' = dirty)
    BY <1>2, <1>4, <1>5, <1>10, CachedIsConverted DEF Updated, Notified
  <2>5. told' = [told EXCEPT ![k] = IF Fits(attr, r) THEN r ELSE @]
    BY <1>5, <1>10
  <2>10. Fits(attr, r) => dirty' = dirty \cup {home[k]}
    BY <1>2, <1>4, <1>5, <1>10, <2>1, CachedIsConverted DEF Notified
  <2> HIDE DEF k, r
  <2>6. Received'
    <3> SUFFICES ASSUME NEW l \in bridged, device[l] # NoReport, Fits(attr, device[l]),
                        ~About(inbox', l)
                 PROVE  told'[l] = device[l]
      BY <1>5 DEF Received
    <3>1. CASE l = k
      BY <1>2, <1>7, <2>5, <3>1
    <3>2. CASE l # k
      BY <1>1, <1>2, <1>7, <2>5, <3>2 DEF Received
    <3> QED BY <3>1, <3>2
  <2>7. Current'
    BY <1>1, <1>2, <1>4, <1>5, <2>2, <2>3, <2>5 DEF Current
  <2>8. Filled'
    BY <1>1, <1>2, <1>4, <1>5, <1>6, <1>10, <2>2, <2>3, <2>5 DEF Filled
  <2>9. SubscribersInformed'
    <3> SUFFICES ASSUME NEW l \in bridged, told'[l] # NoReport, home[l] \notin dirty'
                 PROVE  view[home[l]] = ReadOf(attr, cache'[home[l]])
      BY <1>5 DEF SubscribersInformed, Reads
    <3>1. told'[l] = told[l] /\ home[l] \notin dirty
      BY <1>2, <2>4, <2>5, <2>10
    <3>2. cache'[home[l]] = cache[home[l]]
      BY <1>2, <2>2, <2>3, <2>10
    <3> QED BY <1>1, <3>1, <3>2 DEF SubscribersInformed, Reads
  <2> QED BY <1>8, <2>6, <2>7, <2>8, <2>9
<1> QED BY <1>9, <1>10

LEMMA BridgeStep ==
  ASSUME ReportsInv, NEW k \in Keys, NEW id \in Ids, Bridge(k, id)
  PROVE  (Newest /\ Received /\ Current /\ Filled /\ SubscribersInformed)'
<1>1. Typed /\ Newest /\ Received /\ Current /\ Filled /\ SubscribersInformed
  BY DEF ReportsInv
<1>2. /\ inbox \in Seq(Keys \X Reports) /\ device \in [Keys -> Reports \cup {NoReport}]
      /\ bridged \subseteq Keys /\ told \in [Keys -> Reports \cup {NoReport}]
      /\ home \in [Keys -> Ids \cup {Nothing}]
  BY <1>1 DEF Typed, TypeOK
<1>3. /\ home' = [home EXCEPT ![k] = id] /\ bridged' = bridged \cup {k} /\ k \notin bridged
      /\ told' = [told EXCEPT ![k] = NoReport]
      /\ UNCHANGED <<attr, device, cache, dirty, view, former>>
  BY DEF Bridge
<1>4. SubscribersInformed'
  BY <1>1, <1>2, <1>3 DEF SubscribersInformed, Reads
<1>5. Current' /\ Filled'
  BY <1>1, <1>2, <1>3 DEF Current, Filled
<1>6. CASE device[k] # NoReport
  <2>1. inbox' = Append(inbox, <<k, device[k]>>) /\ device[k] \in Reports
    BY <1>2, <1>6 DEF Bridge
  <2>2. Len(inbox') = Len(inbox) + 1
    BY <1>2, <2>1
  <2>3. Newest'
    <3> SUFFICES ASSUME NEW i \in 1 .. Len(inbox) + 1
                 PROVE  /\ device[inbox'[i][1]] # NoReport
                        /\ inbox'[i][1] \in bridged' /\ IsNewest(inbox', i)
                             => inbox'[i][2] = device[inbox'[i][1]]
      BY <1>3, <2>2 DEF Newest, IsNewest
    <3>1. CASE i = Len(inbox) + 1 /\ inbox'[i] = <<k, device[k]>>
      BY <1>6, <3>1
    <3>2. CASE i \in 1 .. Len(inbox) /\ inbox'[i] = inbox[i]
               /\ (IsNewest(inbox', i) => inbox[i][1] # k /\ IsNewest(inbox, i))
      BY <1>1, <1>3, <3>2 DEF Newest
    <3>3. \/ i = Len(inbox) + 1 /\ inbox'[i] = <<k, device[k]>>
          \/ i \in 1 .. Len(inbox) /\ inbox'[i] = inbox[i]
      BY <1>2, <2>1
    <3>4. i \in 1 .. Len(inbox) =>
            (IsNewest(inbox', i) => inbox[i][1] # k /\ IsNewest(inbox, i))
      <4>1. PICK r \in Reports : r = device[k]
        BY <2>1
      <4>2. inbox' = Append(inbox, <<k, r>>) /\ inbox \in Seq(Keys \X Reports)
        BY <1>2, <2>1, <4>1
      <4>3. \A j \in 1 .. Len(inbox) :
              IsNewest(Append(inbox, <<k, r>>), j) => inbox[j][1] # k /\ IsNewest(inbox, j)
        BY <4>2, AppendNewest, Zenon
      <4> QED BY <4>2, <4>3, Zenon
    <3> QED BY <3>1, <3>2, <3>3, <3>4
  <2>4. Received'
    BY <1>1, <1>2, <1>3, <2>1, AppendNewest DEF Received
  <2> QED BY <1>4, <1>5, <2>3, <2>4
<1>7. CASE device[k] = NoReport
  <2>1. inbox' = inbox
    BY <1>7 DEF Bridge
  <2>2. Newest'
    BY <1>1, <1>3, <1>7, <2>1 DEF Newest, IsNewest
  <2>3. Received'
    BY <1>1, <1>2, <1>3, <1>7, <2>1 DEF Received, About
  <2> QED BY <1>4, <1>5, <2>2, <2>3
<1> QED BY <1>6, <1>7

LEMMA ReportsStep == ReportsInv /\ [Next]_vars => ReportsInv'
<1> SUFFICES ASSUME ReportsInv, [Next]_vars
             PROVE  ReportsInv'
  OBVIOUS
<1>1. Typed /\ Typed'
  BY TypedStep DEF ReportsInv
<1>2. SUFFICES (Newest /\ Received /\ Current /\ Filled /\ SubscribersInformed)'
  BY <1>1 DEF ReportsInv
<1>3. Newest /\ Received /\ Current /\ Filled /\ SubscribersInformed /\ Homes
  BY <1>1 DEF ReportsInv, Typed
<1>4. bridged \subseteq Keys /\ home \in [Keys -> Ids \cup {Nothing}]
      /\ inbox \in Seq(Keys \X Reports) /\ outbox \in Seq(Keys \X Reports)
  BY <1>1 DEF Typed, TypeOK
<1>5. ASSUME NEW k \in Keys, NEW r \in Sent, DeviceReports(k, r)
      PROVE  (Newest /\ Received /\ Current /\ Filled /\ SubscribersInformed)'
  BY <1>5, PublishStep DEF DeviceReports
<1>6. CASE Receive
  BY <1>6, ReceiveStep
<1>7. ASSUME NEW id \in Ids, Inform(id)
      PROVE  (Newest /\ Received /\ Current /\ Filled /\ SubscribersInformed)'
  <2>1. UNCHANGED <<attr, home, bridged, device, inbox, cache, told, former>>
    BY <1>7 DEF Inform, node, history
  <2>2. Newest' /\ Received' /\ Current' /\ Filled'
    BY <1>3, <2>1 DEF Newest, IsNewest, Received, About, Current, Filled
  <2>3. view \in [Ids -> Values \cup {Nothing, NullRead}]
    BY <1>1 DEF Typed, TypeOK
  <2>4. SubscribersInformed'
    <3> SUFFICES ASSUME NEW k \in bridged, told[k] # NoReport, home[k] \notin dirty'
                 PROVE  view'[home[k]] = ReadOf(attr, cache[home[k]])
      BY <2>1 DEF SubscribersInformed, Reads
    <3>1. home[k] \in Ids
      BY <1>3, <1>4 DEF Homes
    <3>2. CASE home[k] = id
      BY <1>7, <2>3, <3>1, <3>2 DEF Inform
    <3>3. CASE home[k] # id
      <4>1. home[k] \notin dirty /\ view'[home[k]] = view[home[k]]
        BY <1>7, <2>3, <3>1, <3>3 DEF Inform
      <4> QED BY <1>3, <4>1 DEF SubscribersInformed, Reads
    <3> QED BY <3>2, <3>3
  <2> QED BY <2>2, <2>4
<1>8. ASSUME NEW k \in Keys, NEW id \in Ids, Bridge(k, id)
      PROVE  (Newest /\ Received /\ Current /\ Filled /\ SubscribersInformed)'
  BY <1>8, BridgeStep
<1>9. ASSUME NEW k \in Keys, Unbridge(k)
      PROVE  (Newest /\ Received /\ Current /\ Filled /\ SubscribersInformed)'
  <2>1. /\ home' = [home EXCEPT ![k] = Nothing] /\ bridged' = bridged \ {k} /\ k \in bridged
        /\ former' = former \cup {home[k]}
        /\ UNCHANGED <<attr, device, inbox, cache, dirty, view, told>>
    BY <1>9 DEF Unbridge
  <2>2. Newest' /\ Received'
    BY <1>3, <2>1 DEF Newest, IsNewest, Received, About
  <2>3. Current' /\ Filled' /\ SubscribersInformed'
    BY <1>3, <1>4, <2>1 DEF Current, Filled, SubscribersInformed, Reads
  <2> QED BY <2>2, <2>3
<1>10. CASE Restart
  BY <1>10 DEF Restart, Empty, Newest, Received, Current, Filled, SubscribersInformed
<1>11. ASSUME NEW k \in Keys, NEW v \in Written, Write(k, v)
       PROVE  (Newest /\ Received /\ Current /\ Filled /\ SubscribersInformed)'
  BY <1>11, ReportsFrame DEF Write, node
<1>12. CASE Execute
  <2> DEFINE k == Head(outbox)[1]
             r == Head(outbox)[2]
  <2>1. k \in Keys /\ r \in Reports
    <3>1. Head(outbox) \in Keys \X Reports
      BY <1>4, <1>12, TailOf DEF Execute
    <3> QED BY <3>1
  <2>2. UNCHANGED <<attr, home, bridged, cache, dirty, view, told, former>>
    BY <1>12 DEF Execute, node, history
  <2>3. CASE Refused(r)
    BY <1>12, <2>2, <2>3, ReportsFrame DEF Execute
  <2>4. CASE ~Refused(r)
    <3>1. device' = [device EXCEPT ![k] = r] /\ inbox' = Published(k, r)
      BY <1>12, <2>4 DEF Execute
    <3> HIDE DEF k, r
    <3> QED BY <2>1, <2>2, <3>1, PublishStep DEF node
  <2> QED BY <2>3, <2>4
<1>13. ASSUME NEW k \in Keys, Reconnect(k)
       PROVE  (Newest /\ Received /\ Current /\ Filled /\ SubscribersInformed)'
  BY <1>13, ReportsFrame DEF Reconnect, node, history
<1>14. CASE UNCHANGED vars
  BY <1>14, ReportsFrame DEF vars, node, history
<1> QED
  BY <1>5, <1>6, <1>7, <1>8, <1>9, <1>10, <1>11, <1>12, <1>13, <1>14 DEF Next, Environment

LEMMA ReportsAlways == Spec => []ReportsInv
  BY InitReports, ReportsStep, PTL DEF Spec

(* Controllers read what the device's last fitting report said.                *)
THEOREM LastReportAlwaysStands == Spec => []LastReportStands
<1>1. ReportsInv => LastReportStands
  <2>1. ReportsInv => attr \in Attribute /\ Current
    BY DEF ReportsInv, Typed, TypeOK
  <2> QED BY <2>1, FittingIsCached DEF Current, LastReportStands, Reads
<1> QED BY ReportsAlways, <1>1, PTL

(* Without a report under way, controllers read the value Unify retains.       *)
THEOREM AlwaysCurrentWhenQuiet == Spec => []CurrentWhenQuiet
<1>1. ReportsInv => CurrentWhenQuiet
  <2>1. ReportsInv => attr \in Attribute /\ Current /\ Received
    BY DEF ReportsInv, Typed, TypeOK
  <2> QED BY <2>1, FittingIsCached DEF Current, Received, CurrentWhenQuiet, Reads
<1> QED BY ReportsAlways, <1>1, PTL

(* Other devices' values are only on Matter endpoints that were given up.      *)
THEOREM FreshAlwaysEmpty == Spec => []FreshIsEmpty
<1>1. ReportsInv => FreshIsEmpty
  <2> SUFFICES ASSUME ReportsInv, NEW k \in bridged, told[k] = NoReport, home[k] \notin former
               PROVE  cache[home[k]] = Nothing
    BY DEF FreshIsEmpty
  <2>1. Filled /\ Homes /\ bridged \subseteq Keys /\ home \in [Keys -> Ids \cup {Nothing}]
    BY DEF ReportsInv, Typed, TypeOK
  <2> QED BY <2>1 DEF Filled, Homes
<1> QED BY ReportsAlways, <1>1, PTL

(* Subscribers of a bridged endpoint miss no change of the cache, also when it *)
(* was not bridged while the stack read it.                                    *)
THEOREM SubscribersAlwaysInformed == Spec => []SubscribersInformed
<1>1. ReportsInv => SubscribersInformed
  BY DEF ReportsInv
<1> QED BY ReportsAlways, <1>1, PTL

-----------------------------------------------------------------------------
(* Writes.                                                                     *)

(* Command i orders a value, and no later command for its device does.         *)
Orders(queue, i) == ~Refused(queue[i][2])
IsFinal(queue, i) ==
  /\ Orders(queue, i)
  /\ \A j \in 1 .. Len(queue) : j > i /\ queue[j][1] = queue[i][1] => ~Orders(queue, j)

(* What was written last is what the retained command, the final command under *)
(* way and, without one, the value Unify retains say; commands that Unify      *)
(* refuses change nothing.                                                     *)
LastWritten ==
  \A k \in Keys : wish[k] # Nothing =>
    /\ attr.writable /\ wish[k] \in Written /\ Decodable(attr, wish[k])
    /\ ~Refused(ToJson(attr, wish[k]))
    /\ Refused(order[k]) \/ order[k] = ToJson(attr, wish[k])
    /\ \A i \in 1 .. Len(outbox) :
         outbox[i][1] = k /\ IsFinal(outbox, i) => outbox[i][2] = ToJson(attr, wish[k])
    /\ (\A i \in 1 .. Len(outbox) : outbox[i][1] = k => ~Orders(outbox, i))
         => device[k] = ToJson(attr, wish[k])

(* A command is sent, of the value written last or of one Unify refuses, or    *)
(* nothing is wished for any more.                                             *)
LEMMA SendStep ==
  ASSUME Typed, LastWritten, NEW k \in Keys, NEW r \in Reports,
         Len(outbox') = Len(outbox) + 1, Len(outbox) \in Nat,
         outbox'[Len(outbox) + 1] = <<k, r>>,
         \A i \in 1 .. Len(outbox) : outbox'[i] = outbox[i],
         UNCHANGED <<attr, device>>,
         wish' \in [Keys -> Values \cup {Nothing}],
         \A l \in Keys : l # k => wish'[l] = wish[l] /\ order'[l] = order[l],
         Refused(r) => wish'[k] \in {wish[k], Nothing},
         ~Refused(r) /\ wish'[k] # Nothing =>
           attr.writable /\ wish'[k] \in Written /\ Decodable(attr, wish'[k])
           /\ r = ToJson(attr, wish'[k]),
         order'[k] = r \/ (order'[k] = order[k] /\ wish'[k] = wish[k])
  PROVE  LastWritten'
<1> SUFFICES ASSUME NEW l \in Keys, wish'[l] # Nothing
             PROVE  /\ attr.writable /\ wish'[l] \in Written /\ Decodable(attr, wish'[l])
                    /\ ~Refused(ToJson(attr, wish'[l]))
                    /\ Refused(order'[l]) \/ order'[l] = ToJson(attr, wish'[l])
                    /\ \A i \in 1 .. Len(outbox') :
                         outbox'[i][1] = l /\ IsFinal(outbox', i)
                           => outbox'[i][2] = ToJson(attr, wish'[l])
                    /\ (\A i \in 1 .. Len(outbox') : outbox'[i][1] = l => ~Orders(outbox', i))
                         => device[l] = ToJson(attr, wish'[l])
  BY DEF LastWritten
<1>3. ASSUME NEW i \in 1 .. Len(outbox)
      PROVE  outbox'[i] = outbox[i] /\ (Orders(outbox', i) <=> Orders(outbox, i))
             /\ i \in 1 .. Len(outbox')
             /\ i < Len(outbox) + 1
  BY DEF Orders
<1>4. /\ outbox'[Len(outbox) + 1] = <<k, r>> /\ Len(outbox) + 1 \in 1 .. Len(outbox')
      /\ Orders(outbox', Len(outbox) + 1) <=> ~Refused(r)
      /\ \A i \in 1 .. Len(outbox') : i = Len(outbox) + 1 \/ i \in 1 .. Len(outbox)
  BY DEF Orders
<1>5. ASSUME NEW i \in 1 .. Len(outbox), IsFinal(outbox', i)
      PROVE  IsFinal(outbox, i) /\ (outbox[i][1] = k => Refused(r))
  <2>1. Orders(outbox', i) /\ \A j \in 1 .. Len(outbox') :
          j > i /\ outbox'[j][1] = outbox'[i][1] => ~Orders(outbox', j)
    BY <1>5 DEF IsFinal
  <2>2. Orders(outbox, i) /\ \A j \in 1 .. Len(outbox) :
          j > i /\ outbox[j][1] = outbox[i][1] => ~Orders(outbox, j)
    BY <1>3, <1>4, <2>1
  <2>3. outbox[i][1] = k => ~Orders(outbox', Len(outbox) + 1)
    BY <1>3, <1>4, <2>1
  <2> QED BY <1>4, <2>2, <2>3 DEF IsFinal
<1>6. CASE l # k \/ Refused(r)
  <2>1. wish'[l] = wish[l] /\ (order'[l] = order[l] \/ Refused(order'[l]))
    BY <1>6
  <2>2. ASSUME NEW i \in 1 .. Len(outbox'), outbox'[i][1] = l, IsFinal(outbox', i)
        PROVE  outbox'[i][2] = ToJson(attr, wish'[l])
    <3>1. i # Len(outbox) + 1
      BY <1>3, <1>4, <1>6, <2>2 DEF IsFinal
    <3>2. i \in 1 .. Len(outbox)
      BY <1>4, <3>1
    <3> QED BY <1>3, <1>4, <1>5, <2>1, <2>2, <3>2 DEF LastWritten
  <2>3. ASSUME \A i \in 1 .. Len(outbox') : outbox'[i][1] = l => ~Orders(outbox', i)
        PROVE  device[l] = ToJson(attr, wish'[l])
    BY <1>3, <1>4, <2>1, <2>3 DEF LastWritten
  <2> QED BY <2>1, <2>2, <2>3 DEF LastWritten
<1>7. CASE l = k /\ ~Refused(r)
  <2>1. /\ attr.writable /\ wish'[l] \in Written /\ Decodable(attr, wish'[l])
        /\ r = ToJson(attr, wish'[l])
    BY <1>7
  <2>2. ASSUME NEW i \in 1 .. Len(outbox'), outbox'[i][1] = l, IsFinal(outbox', i)
        PROVE  outbox'[i][2] = ToJson(attr, wish'[l])
    <3>1. i \notin 1 .. Len(outbox)
      BY <1>3, <1>4, <1>5, <1>7, <2>2
    <3> QED BY <1>3, <1>4, <2>1, <2>2, <3>1
  <2>3. ~ \A i \in 1 .. Len(outbox') : outbox'[i][1] = l => ~Orders(outbox', i)
    BY <1>3, <1>4, <1>7
  <2>4. Refused(order'[l]) \/ order'[l] = ToJson(attr, wish'[l])
    BY <1>7, <2>1 DEF LastWritten
  <2> QED BY <1>7, <2>1, <2>2, <2>3, <2>4
<1> QED BY <1>6, <1>7

LEMMA LastWrittenStep == Typed /\ Typed' /\ LastWritten /\ [Next]_vars => LastWritten'
<1> SUFFICES ASSUME Typed, Typed', LastWritten, [Next]_vars
             PROVE  LastWritten'
  OBVIOUS
<1>1. /\ outbox \in Seq(Keys \X Reports) /\ attr \in Attribute
      /\ wish \in [Keys -> Values \cup {Nothing}] /\ wish' \in [Keys -> Values \cup {Nothing}]
      /\ order \in [Keys -> Reports \cup {NoReport}] /\ device \in [Keys -> Reports \cup {NoReport}]
  BY DEF Typed, TypeOK
<1>2. ASSUME UNCHANGED <<attr, device, outbox, order, wish>>
      PROVE  LastWritten'
  BY <1>2 DEF LastWritten, IsFinal, Orders
<1>3. ASSUME NEW k \in Keys, NEW r \in Sent, DeviceReports(k, r)
      PROVE  LastWritten'
  <2>1. /\ device' = [device EXCEPT ![k] = r] /\ wish' = [wish EXCEPT ![k] = Nothing]
        /\ UNCHANGED <<attr, outbox, order>>
    BY <1>3 DEF DeviceReports
  <2> QED BY <1>1, <2>1 DEF LastWritten, IsFinal, Orders
<1>4. CASE Receive
  BY <1>2, <1>4 DEF Receive
<1>5. ASSUME NEW id \in Ids, Inform(id)
      PROVE  LastWritten'
  BY <1>2, <1>5 DEF Inform, history
<1>6. ASSUME NEW k \in Keys, NEW id \in Ids, Bridge(k, id)
      PROVE  LastWritten'
  BY <1>2, <1>6 DEF Bridge
<1>7. ASSUME NEW k \in Keys, Unbridge(k)
      PROVE  LastWritten'
  BY <1>2, <1>7 DEF Unbridge
<1>8. CASE Restart
  BY <1>2, <1>8 DEF Restart
<1>9. ASSUME NEW k \in Keys, NEW v \in Written, Write(k, v)
      PROVE  LastWritten'
  <2>1. PICK r \in Reports, w \in Values \cup {Nothing} :
          /\ outbox' = Append(outbox, <<k, r>>) /\ order' = [order EXCEPT ![k] = r]
          /\ wish' = [wish EXCEPT ![k] = w]
          /\ Refused(r) => w \in {wish[k], Nothing}
          /\ ~Refused(r) /\ w # Nothing =>
               w \in Written /\ Decodable(attr, w) /\ r = ToJson(attr, w)
    BY <1>1, <1>9, WriteSends
  <2>2. attr.writable /\ UNCHANGED <<attr, device>>
    BY <1>9 DEF Write
  <2>3. wish'[k] = w /\ order'[k] = r
        /\ \A l \in Keys : l # k => wish'[l] = wish[l] /\ order'[l] = order[l]
    BY <1>1, <2>1
  <2>4. ~Refused(r) /\ wish'[k] # Nothing =>
          attr.writable /\ wish'[k] \in Written /\ Decodable(attr, wish'[k])
          /\ r = ToJson(attr, wish'[k])
    BY <2>1, <2>2, <2>3
  <2>5. Refused(r) => wish'[k] \in {wish[k], Nothing}
    BY <2>1, <2>3
  <2>6. Len(outbox') = Len(outbox) + 1 /\ Len(outbox) \in Nat
        /\ outbox'[Len(outbox) + 1] = <<k, r>>
        /\ \A i \in 1 .. Len(outbox) : outbox'[i] = outbox[i]
    BY <1>1, <2>1, AppendOf
  <2> QED BY <1>1, <2>2, <2>3, <2>4, <2>5, <2>6, SendStep
<1>10. CASE Execute
  <2> DEFINE k == Head(outbox)[1]
             r == Head(outbox)[2]
  <2>1. /\ Len(outbox') = Len(outbox) - 1 /\ Len(outbox) \in Nat /\ Len(outbox) >= 1
        /\ Head(outbox) = outbox[1] /\ \A i \in 1 .. Len(outbox') : outbox'[i] = outbox[i + 1]
        /\ Head(outbox) \in Keys \X Reports
    BY <1>1, <1>10, TailOf DEF Execute
  <2>2. /\ device' = IF Refused(r) THEN device ELSE [device EXCEPT ![k] = r]
        /\ UNCHANGED <<attr, order, wish>> /\ k = outbox[1][1] /\ r = outbox[1][2]
    BY <1>10, <2>1 DEF Execute, history
  <2> HIDE DEF k, r
  <2>3. Orders(outbox, 1) <=> ~Refused(r)
    BY <2>2 DEF Orders
  <2>4. \A i \in 1 .. Len(outbox') : Orders(outbox', i) <=> Orders(outbox, i + 1)
    BY <2>1 DEF Orders
  <2>5. ASSUME NEW j \in 2 .. Len(outbox)
        PROVE  j - 1 \in 1 .. Len(outbox') /\ outbox'[j - 1] = outbox[j]
               /\ (Orders(outbox', j - 1) <=> Orders(outbox, j))
    <3>1. j - 1 \in 1 .. Len(outbox') /\ (j - 1) + 1 = j
      BY <2>1
    <3> QED BY <2>1, <2>4, <3>1
  <2>6. ASSUME NEW i \in 1 .. Len(outbox'), IsFinal(outbox', i)
        PROVE  IsFinal(outbox, i + 1)
    <3>1. Orders(outbox, i + 1) /\ outbox'[i] = outbox[i + 1] /\ i + 1 \in 1 .. Len(outbox)
      BY <2>1, <2>4, <2>6 DEF IsFinal
    <3>2. ASSUME NEW j \in 1 .. Len(outbox), j > i + 1, outbox[j][1] = outbox[i + 1][1]
          PROVE  ~Orders(outbox, j)
      <4>1. j \in 2 .. Len(outbox) /\ j - 1 > i
        BY <3>2
      <4> QED BY <2>5, <2>6, <3>1, <3>2, <4>1 DEF IsFinal
    <3> QED BY <3>1, <3>2 DEF IsFinal
  <2> SUFFICES ASSUME NEW l \in Keys, wish[l] # Nothing
               PROVE  /\ \A i \in 1 .. Len(outbox') :
                           outbox'[i][1] = l /\ IsFinal(outbox', i)
                           => outbox'[i][2] = ToJson(attr, wish[l])
                      /\ (\A i \in 1 .. Len(outbox') : outbox'[i][1] = l => ~Orders(outbox', i))
                           => device'[l] = ToJson(attr, wish[l])
    BY <2>2 DEF LastWritten
  <2>7. ASSUME NEW i \in 1 .. Len(outbox'), outbox'[i][1] = l, IsFinal(outbox', i)
        PROVE  outbox'[i][2] = ToJson(attr, wish[l])
    <3>1. i + 1 \in 1 .. Len(outbox) /\ outbox'[i] = outbox[i + 1]
      BY <2>1
    <3> QED BY <2>6, <2>7, <3>1 DEF LastWritten
  <2>8. ASSUME \A i \in 1 .. Len(outbox') : outbox'[i][1] = l => ~Orders(outbox', i)
        PROVE  device'[l] = ToJson(attr, wish[l])
    <3>1. \A j \in 2 .. Len(outbox) : outbox[j][1] = l => ~Orders(outbox, j)
      BY <2>5, <2>8
    <3>2. CASE l = k /\ ~Refused(r)
      <4>1. IsFinal(outbox, 1) /\ 1 \in 1 .. Len(outbox)
        BY <2>1, <2>2, <2>3, <3>1, <3>2 DEF IsFinal
      <4>2. r = ToJson(attr, wish[l])
        BY <2>2, <3>2, <4>1 DEF LastWritten
      <4> QED BY <1>1, <2>2, <3>2, <4>2
    <3>3. CASE ~(l = k /\ ~Refused(r))
      <4>1. \A j \in 1 .. Len(outbox) : outbox[j][1] = l => ~Orders(outbox, j)
        BY <2>1, <2>2, <2>3, <3>1, <3>3
      <4>2. device'[l] = device[l]
        BY <1>1, <2>2, <3>3
      <4> QED BY <4>1, <4>2 DEF LastWritten
    <3> QED BY <3>2, <3>3
  <2> QED BY <2>7, <2>8
<1>11. ASSUME NEW k \in Keys, Reconnect(k)
       PROVE  LastWritten'
  <2>1. /\ outbox' = Append(outbox, <<k, order[k]>>) /\ order[k] \in Reports
        /\ UNCHANGED <<attr, device, order, wish>>
    BY <1>1, <1>11 DEF Reconnect, history
  <2>2. ~Refused(order[k]) /\ wish[k] # Nothing =>
          attr.writable /\ wish[k] \in Written /\ Decodable(attr, wish[k])
          /\ order[k] = ToJson(attr, wish[k])
    BY DEF LastWritten
  <2>3. /\ Len(outbox') = Len(outbox) + 1 /\ Len(outbox) \in Nat
        /\ outbox'[Len(outbox) + 1] = <<k, order[k]>>
        /\ \A i \in 1 .. Len(outbox) : outbox'[i] = outbox[i]
    BY <1>1, <2>1, AppendOf
  <2> QED BY <1>1, <2>1, <2>2, <2>3, SendStep
<1>12. CASE UNCHANGED vars
  BY <1>2, <1>12 DEF vars, history
<1> QED
  BY <1>3, <1>4, <1>5, <1>6, <1>7, <1>8, <1>9, <1>10, <1>11, <1>12 DEF Next, Environment

(* A write that can be decoded is read back when Unify has carried it out.     *)
THEOREM WriteAlwaysReadsBack == Spec => []WriteReadsBack
<1>1. Init => LastWritten
  BY DEF Init, None, LastWritten
<1>2. ReportsInv => Typed
  BY DEF ReportsInv
<1>3. Spec => [](ReportsInv /\ LastWritten)
  BY InitReports, ReportsStep, LastWrittenStep, <1>1, <1>2, PTL DEF Spec
<1>4. ReportsInv /\ LastWritten => WriteReadsBack
  <2> SUFFICES ASSUME ReportsInv, LastWritten, NEW k \in bridged, wish[k] # Nothing,
                      ~About(outbox, k), ~About(inbox, k)
               PROVE  Reads(k) = wish[k]
    BY DEF WriteReadsBack
  <2>1. /\ attr \in Attribute /\ k \in Keys /\ Current /\ Received
    BY DEF ReportsInv, Typed, TypeOK
  <2>2. device[k] = ToJson(attr, wish[k])
    BY <2>1 DEF LastWritten, About
  <2>3. /\ ToJson(attr, wish[k]) \in Reports /\ Fits(attr, ToJson(attr, wish[k]))
        /\ Meaning(attr, ToJson(attr, wish[k])) = wish[k]
    BY <2>1, WrittenFits DEF LastWritten
  <2>4. device[k] # NoReport
    BY <2>2, <2>3 DEF Reports, NoReport, Nothing, Values
  <2>5. told[k] = device[k] /\ cache[home[k]] = Cached(attr, device[k])
    BY <2>1, <2>2, <2>3, <2>4 DEF Current, Received
  <2> QED BY <2>1, <2>2, <2>3, <2>5, FittingIsCached DEF Reads
<1> QED BY <1>3, <1>4, PTL
=============================================================================
