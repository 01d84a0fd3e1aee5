--------------------------- MODULE CommandResponse ---------------------------
(***************************************************************************)
(* Commands whose Matter answer waits for a response from Unify (door      *)
(* lock commands).  The translator publishes the command, keeps the        *)
(* request's handle in a map under the topic the response will come on,    *)
(* and answers when a message arrives there.  Nothing in a response says   *)
(* which command it is for, and no timer removes an entry: an entry is too *)
(* old after HANDLER_TIMEOUT, which is tested when a command or a response *)
(* comes in.                                                               *)
(*                                                                         *)
(* A request's age stands for the time stamp of its entry.  It counts      *)
(* seconds and stops at the first value that is too old.                   *)
(***************************************************************************)
EXTENDS Integers

CONSTANTS
  Endpoint, Cmd,   \* bridged endpoints, kinds of commands with a response
  Request,         \* Matter requests under consideration at a time
  HandlerTimeout   \* HANDLER_TIMEOUT, in seconds

ASSUME TimeoutAssumption == HandlerTimeout \in Nat

Topic  == Endpoint \X Cmd   \* .../GeneratedCommands/<response>
Age    == 0 .. (HandlerTimeout + 1)
Status == {"success", "failure"}

\* "unreadable": not JSON, or a Status that is not a string.
Payload == Status \cup {"unreadable"}

None == "none"
ASSUME RequestAssumption == None \notin Request

VARIABLES
  bridged,      \* endpoints known to the node state monitor
  responseMap,  \* cmd_responsestruct_map: the request under a topic
  answer,       \* the state of each request, as its Matter client sees it
  topicOf,      \* the topic of each request that was handled
  age,          \* seconds since it was published, as the map sees them
  atDevice,     \* requests whose command Unify has yet to execute
  outcome,      \* what the device made of the command
  responses     \* responses under way: [request, payload]

vars == <<bridged, responseMap, answer, topicOf, age, atDevice, outcome, responses>>

\* The types of the state; an entry is too old HandlerTimeout + 1 ticks after
\* its command, and its age is not counted further.
TypeOK ==
  /\ bridged \subseteq Endpoint
  /\ responseMap \in [Topic -> Request \cup {None}]
  /\ answer \in [Request -> {"unsent", "waiting", "busy", "dropped"} \cup Status]
  /\ topicOf \in [Request -> Topic \cup {<<>>}]
  /\ age \in [Request -> Age]
  /\ atDevice \subseteq Request
  /\ outcome \in [Request -> Payload \cup {None}]
  /\ responses \subseteq [request : Request, payload : Payload]

Underway(r) == r \in atDevice \/ \E m \in responses : m.request = r

(***************************************************************************)
(* The map of pending commands.                                            *)
(***************************************************************************)

\* Seeded fault: an entry is too old a second early.
TimedOutFault(r) == age[r] >= HandlerTimeout

\* ishandler_timedout, on the entry of request r
TimedOut(r) == age[r] > HandlerTimeout

\* The map after the loop that clears timed-out entries.
Purged ==
  [topic \in Topic |->
     IF responseMap[topic] # None /\ TimedOut(responseMap[topic]) THEN None
     ELSE responseMap[topic]]

\* Seeded fault: erasing an entry closes its request even if it was answered.
ReleasedAgainFault(kept) ==
  [r \in Request |->
     IF topicOf[r] # <<>> /\ \A topic \in Topic : kept[topic] # r
     THEN "dropped" ELSE answer[r]]

\* An erased entry releases its handle: a request still waiting is closed
\* without a status.
Released(kept) ==
  [r \in Request |->
     IF answer[r] = "waiting" /\ \A topic \in Topic : kept[topic] # r
     THEN "dropped" ELSE answer[r]]

(***************************************************************************)
(* send_unify_mqtt_cmd, for a command with a response.                     *)
(***************************************************************************)
SendNowhere(r, topic) ==
  /\ answer[r] = "unsent"
  /\ topic[1] \notin bridged
  /\ answer' = [answer EXCEPT ![r] = "dropped"]
  /\ topicOf' = [topicOf EXCEPT ![r] = topic]
  /\ UNCHANGED <<bridged, responseMap, age, atDevice, outcome, responses>>

RejectBusy(r, topic) ==
  /\ answer[r] = "unsent"
  /\ topic[1] \in bridged
  /\ Purged[topic] # None
  /\ responseMap' = Purged
  /\ answer' = [Released(Purged) EXCEPT ![r] = "busy"]
  /\ topicOf' = [topicOf EXCEPT ![r] = topic]
  /\ UNCHANGED <<bridged, age, atDevice, outcome, responses>>

SendCommand(r, topic) ==
  /\ answer[r] = "unsent"
  /\ topic[1] \in bridged
  /\ Purged[topic] = None
  /\ responseMap' = [Purged EXCEPT ![topic] = r]
  /\ answer' = [Released(Purged) EXCEPT ![r] = "waiting"]
  /\ topicOf' = [topicOf EXCEPT ![r] = topic]
  /\ age' = [age EXCEPT ![r] = 0]
  /\ atDevice' = atDevice \cup {r}
  /\ UNCHANGED <<bridged, outcome, responses>>

(***************************************************************************)
(* on_mqtt_message_cb and command_response.                                *)
(***************************************************************************)

\* The response m answers request r: it can be read, and the handle has not
\* been released by an earlier one.
Answers(m, r) == m.payload \in Status /\ answer[r] = "waiting"

\* A message on a topic of request m.request; MQTT may deliver it again.
ResponseReceived(m, again) ==
  LET topic == topicOf[m.request]
      r     == responseMap[topic]
  IN /\ m \in responses
     /\ responses' = IF again THEN responses ELSE responses \ {m}
     /\ \/ /\ topic[1] \notin bridged \/ r = None
           /\ UNCHANGED <<responseMap, answer>>
        \/ /\ topic[1] \in bridged /\ r # None
           /\ TimedOut(r)
           /\ responseMap' = [responseMap EXCEPT ![topic] = None]
           /\ answer' = Released([responseMap EXCEPT ![topic] = None])
        \/ /\ topic[1] \in bridged /\ r # None
           /\ ~TimedOut(r)
           /\ answer' = IF Answers(m, r) THEN [answer EXCEPT ![r] = m.payload]
                        ELSE answer
           /\ UNCHANGED responseMap
     /\ UNCHANGED <<bridged, topicOf, age, atDevice, outcome>>

(***************************************************************************)
(* Unify and its devices (external), time, and the node state monitor.     *)
(***************************************************************************)
DeviceResponds(r, payload) ==
  /\ r \in atDevice
  /\ atDevice' = atDevice \ {r}
  /\ outcome' = [outcome EXCEPT ![r] = payload]
  /\ responses' = responses \cup {[request |-> r, payload |-> payload]}
  /\ UNCHANGED <<bridged, responseMap, answer, topicOf, age>>

DeviceSilent(r) ==
  /\ r \in atDevice
  /\ atDevice' = atDevice \ {r}
  /\ UNCHANGED <<bridged, responseMap, answer, topicOf, age, outcome, responses>>

Tick ==
  /\ age' = [r \in Request |->
               IF (Underway(r) \/ \E topic \in Topic : responseMap[topic] = r)
                    /\ ~TimedOut(r)
               THEN age[r] + 1 ELSE age[r]]
  /\ UNCHANGED <<bridged, responseMap, answer, topicOf, atDevice, outcome, responses>>

NodeChanged(ep) ==
  /\ bridged' = IF ep \in bridged THEN bridged \ {ep} ELSE bridged \cup {ep}
  /\ UNCHANGED <<responseMap, answer, topicOf, age, atDevice, outcome, responses>>

\* A request that is over makes room for another one.
Reuse(r) ==
  /\ answer[r] \notin {"unsent", "waiting"}
  /\ ~Underway(r)
  /\ \A topic \in Topic : responseMap[topic] # r
  /\ answer' = [answer EXCEPT ![r] = "unsent"]
  /\ topicOf' = [topicOf EXCEPT ![r] = <<>>]
  /\ age' = [age EXCEPT ![r] = 0]
  /\ outcome' = [outcome EXCEPT ![r] = None]
  /\ UNCHANGED <<bridged, responseMap, atDevice, responses>>

Init ==
  /\ bridged = Endpoint
  /\ responseMap = [topic \in Topic |-> None]
  /\ answer = [r \in Request |-> "unsent"]
  /\ topicOf = [r \in Request |-> <<>>]
  /\ age = [r \in Request |-> 0]
  /\ atDevice = {}
  /\ outcome = [r \in Request |-> None]
  /\ responses = {}

Commands ==
  \E r \in Request :
    \/ \E topic \in Topic :
         SendNowhere(r, topic) \/ RejectBusy(r, topic) \/ SendCommand(r, topic)
    \/ Reuse(r)

Received == \E m \in responses, again \in BOOLEAN : ResponseReceived(m, again)

Responds(payloads) == \E r \in Request, p \in payloads : DeviceResponds(r, p)

Disturbances ==
  \/ \E r \in Request : DeviceSilent(r)
  \/ \E ep \in Endpoint : NodeChanged(ep)

Next == Commands \/ Received \/ Responds(Payload) \/ Disturbances \/ Tick

\* A response arrives within the time the bridge allows for it.
Timely == \A r \in Request : Underway(r) => age[r] < HandlerTimeout

NextTimely ==
  Commands \/ Received \/ Responds(Payload) \/ Disturbances \/ (Timely /\ Tick)

Spec       == Init /\ [][Next]_vars
SpecTimely == Init /\ [][NextTimely]_vars

\* Unify handles what it got, with a response or without, and every message
\* that arrived is handled.
FairTimely ==
  /\ SpecTimely
  /\ \A r \in Request :
       WF_vars(DeviceSilent(r) \/ \E p \in Payload : DeviceResponds(r, p))
  /\ \A r \in Request, p \in Payload :
       WF_vars(ResponseReceived([request |-> r, payload |-> p], FALSE))

(***************************************************************************)
(* With responses in time, what a client sees is a CommandService.         *)
(***************************************************************************)
Service == INSTANCE CommandService WITH work <- {r \in Request : Underway(r)}

(***************************************************************************)
(* Properties.                                                             *)
(***************************************************************************)

\* Every request is answered as the abstract service allows: its own outcome or
\* given up, once, with one command of a topic at work.
ImplementsService == Service!Spec

\* A request is answered with the outcome of its own command, never with that
\* of an earlier one on the same topic ("we retrieve the same handler used by
\* invoke command to send command to UMB").
AnswerIsOwn ==
  \A r \in Request : answer[r] \in Status => outcome[r] = answer[r]

\* Unify never works on two commands of one topic at a time ("we can only
\* handle one command per topic").
OneCommandPerTopic ==
  \A r, s \in Request :
    Underway(r) /\ Underway(s) /\ topicOf[r] = topicOf[s] => r = s

\* A waiting request can still be answered or timed out: its handle is in the
\* map, under the topic its response comes on.
WaitingIsPending ==
  \A r \in Request : answer[r] = "waiting" => responseMap[topicOf[r]] = r

\* A request gets one answer, whatever arrives later or twice.
AnsweredOnce ==
  [][\A r \in Request :
       answer[r] \notin {"unsent", "waiting"} => answer'[r] \in {answer[r], "unsent"}]_vars

\* "Busy" means what the comment says, "we have a command processing in the
\* backend": another command of the topic has not had its response yet.
BusyMeansProcessing ==
  [][\A r \in Request : answer[r] = "unsent" /\ answer'[r] = "busy" =>
       \E s \in Request : Underway(s) /\ topicOf[s] = topicOf'[r]]_vars

\* Unify has no readable response for request r, or r's endpoint is not bridged.
Lost(r) ==
  \/ ~Underway(r) /\ outcome[r] \notin Status
  \/ outcome[r] \in Payload \ Status
  \/ topicOf[r][1] \notin bridged

\* Every command that was sent is answered with a status, unless Unify has none
\* for it or its node leaves while the response is on its way: no other request,
\* purge or duplicate takes its handle away.
SentIsAnswered ==
  \A r \in Request :
    answer[r] = "waiting" /\ Underway(r) ~> answer[r] \in Status \/ Lost(r)

(***************************************************************************)
(* The inductive invariants behind them: PendingInv for any environment,   *)
(* TimelyInv for responses in time.                                        *)
(***************************************************************************)
HandledHaveTopic == \A r \in Request : answer[r] # "unsent" => topicOf[r] \in Topic
UnsentAreFresh ==
  \A r \in Request : answer[r] = "unsent" =>
    /\ ~Underway(r)
    /\ outcome[r] = None
    /\ \A topic \in Topic : responseMap[topic] # r

\* An entry is filed under its request's topic.
EntriesFiled ==
  \A topic \in Topic :
    responseMap[topic] # None => topicOf[responseMap[topic]] = topic

PendingInv ==
  TypeOK /\ HandledHaveTopic /\ UnsentAreFresh /\ EntriesFiled /\ WaitingIsPending

\* What Unify still works on has its entry, which is not too old.
UnderwayIsPending ==
  \A r \in Request : Underway(r) => responseMap[topicOf[r]] = r /\ ~TimedOut(r)

\* A device makes up its mind once, and the response says what it did.
ResponsesAreOutcomes ==
  /\ \A r \in atDevice : outcome[r] = None
  /\ \A m \in responses : outcome[m.request] = m.payload

TimelyInv ==
  PendingInv /\ UnderwayIsPending /\ ResponsesAreOutcomes /\ AnswerIsOwn

=============================================================================
