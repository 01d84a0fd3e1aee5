------------------------ MODULE CommandResponseProofs ------------------------
(***************************************************************************)
(* Proofs about commands with a response, for any endpoints, commands,     *)
(* requests and time-out.                                                  *)
(***************************************************************************)
EXTENDS CommandResponse, TLAPS

\* The purge of too old entries empties slots and changes nothing else.
LEMMA PurgedFacts ==
  ASSUME TypeOK
  PROVE  /\ Purged \in [Topic -> Request \cup {None}]
         /\ \A topic \in Topic : Purged[topic] # None => Purged[topic] = responseMap[topic]
         /\ \A topic \in Topic :
              responseMap[topic] # None /\ ~TimedOut(responseMap[topic]) =>
                Purged[topic] = responseMap[topic]
<1> USE DEF TypeOK
<1>1. Purged \in [Topic -> Request \cup {None}] BY DEF Purged
<1>2. \A topic \in Topic : Purged[topic] # None => Purged[topic] = responseMap[topic]
  BY DEF Purged
<1>3. \A topic \in Topic :
        responseMap[topic] # None /\ ~TimedOut(responseMap[topic]) =>
          Purged[topic] = responseMap[topic]
  BY DEF Purged
<1> QED BY <1>1, <1>2, <1>3

\* Erasing entries only closes requests that were waiting, and leaves a
\* waiting request its entry.
LEMMA ReleasedFacts ==
  ASSUME TypeOK, NEW kept
  PROVE  /\ Released(kept) \in
              [Request -> {"unsent", "waiting", "busy", "dropped"} \cup Status]
         /\ \A r \in Request :
              \/ Released(kept)[r] = answer[r]
              \/ answer[r] = "waiting" /\ Released(kept)[r] = "dropped"
         /\ \A r \in Request : Released(kept)[r] = "waiting" =>
              \E topic \in Topic : kept[topic] = r
<1> USE DEF TypeOK
<1>1. Released(kept) \in
        [Request -> {"unsent", "waiting", "busy", "dropped"} \cup Status]
  BY DEF Released
<1>2. \A r \in Request :
        \/ Released(kept)[r] = answer[r]
        \/ answer[r] = "waiting" /\ Released(kept)[r] = "dropped"
  BY DEF Released
<1>3. \A r \in Request : Released(kept)[r] = "waiting" =>
        \E topic \in Topic : kept[topic] = r
  BY DEF Released
<1> QED BY <1>1, <1>2, <1>3

LEMMA InitPending == Init => PendingInv
<1> SUFFICES ASSUME Init PROVE PendingInv
  OBVIOUS
<1>1. TypeOK BY TimeoutAssumption DEF Init, TypeOK, Age
<1>2. HandledHaveTopic BY DEF Init, HandledHaveTopic
<1>3. UnsentAreFresh BY RequestAssumption DEF Init, UnsentAreFresh, Underway
<1>4. EntriesFiled BY DEF Init, EntriesFiled
<1>5. WaitingIsPending BY DEF Init, WaitingIsPending
<1> QED BY <1>1, <1>2, <1>3, <1>4, <1>5 DEF PendingInv

LEMMA SendNowherePending ==
  ASSUME PendingInv, NEW r \in Request, NEW topic \in Topic, SendNowhere(r, topic)
  PROVE  PendingInv'
<1> USE DEF PendingInv, SendNowhere
<1>1. TypeOK' BY DEF TypeOK
<1>2. HandledHaveTopic' BY DEF TypeOK, HandledHaveTopic
<1>3. UnsentAreFresh' BY DEF TypeOK, UnsentAreFresh, Underway
<1>4. EntriesFiled' BY DEF TypeOK, EntriesFiled, UnsentAreFresh
<1>5. WaitingIsPending' BY DEF TypeOK, WaitingIsPending
<1> QED BY <1>1, <1>2, <1>3, <1>4, <1>5

LEMMA RejectBusyPending ==
  ASSUME PendingInv, NEW r \in Request, NEW topic \in Topic, RejectBusy(r, topic)
  PROVE  PendingInv'
<1> USE DEF PendingInv, RejectBusy
<1>1. TypeOK BY DEF PendingInv
<1>2. /\ Purged \in [Topic -> Request \cup {None}]
      /\ \A t \in Topic : Purged[t] # None => Purged[t] = responseMap[t]
  BY <1>1, PurgedFacts
<1>3. /\ Released(Purged) \in
           [Request -> {"unsent", "waiting", "busy", "dropped"} \cup Status]
      /\ \A s \in Request :
           \/ Released(Purged)[s] = answer[s]
           \/ answer[s] = "waiting" /\ Released(Purged)[s] = "dropped"
      /\ \A s \in Request : Released(Purged)[s] = "waiting" =>
           \E t \in Topic : Purged[t] = s
  BY <1>1, ReleasedFacts
<1>4. TypeOK' BY <1>1, <1>2, <1>3 DEF TypeOK
<1>5. HandledHaveTopic' BY <1>1, <1>3 DEF TypeOK, HandledHaveTopic
<1>6. UnsentAreFresh'
  BY <1>1, <1>2, <1>3, RequestAssumption DEF TypeOK, UnsentAreFresh, Underway
<1>7. EntriesFiled' BY <1>1, <1>2 DEF TypeOK, EntriesFiled, UnsentAreFresh
<1>8. WaitingIsPending'
  <2> SUFFICES ASSUME NEW s \in Request, answer'[s] = "waiting"
               PROVE  responseMap'[topicOf'[s]] = s
    BY DEF WaitingIsPending
  <2>1. s # r /\ Released(Purged)[s] = "waiting" BY <1>3 DEF TypeOK
  <2>2. PICK t \in Topic : Purged[t] = s BY <1>3, <2>1
  <2>3. topicOf[s] = t BY <1>2, <2>2, RequestAssumption DEF EntriesFiled
  <2> QED BY <1>1, <2>1, <2>2, <2>3 DEF TypeOK
<1> QED BY <1>4, <1>5, <1>6, <1>7, <1>8

LEMMA SendCommandPending ==
  ASSUME PendingInv, NEW r \in Request, NEW topic \in Topic, SendCommand(r, topic)
  PROVE  PendingInv'
<1> USE DEF PendingInv, SendCommand
<1>1. TypeOK BY DEF PendingInv
<1>2. /\ Purged \in [Topic -> Request \cup {None}]
      /\ \A t \in Topic : Purged[t] # None => Purged[t] = responseMap[t]
  BY <1>1, PurgedFacts
<1>3. /\ Released(Purged) \in
           [Request -> {"unsent", "waiting", "busy", "dropped"} \cup Status]
      /\ \A s \in Request :
           \/ Released(Purged)[s] = answer[s]
           \/ answer[s] = "waiting" /\ Released(Purged)[s] = "dropped"
      /\ \A s \in Request : Released(Purged)[s] = "waiting" =>
           \E t \in Topic : Purged[t] = s
  BY <1>1, ReleasedFacts
<1>4. TypeOK'
  <2>1. age' \in [Request -> Age] BY <1>1, TimeoutAssumption DEF TypeOK, Age
  <2> QED BY <1>1, <1>2, <1>3, <2>1 DEF TypeOK
<1>5. HandledHaveTopic' BY <1>1, <1>3 DEF TypeOK, HandledHaveTopic
<1>6. UnsentAreFresh'
  BY <1>1, <1>2, <1>3, RequestAssumption DEF TypeOK, UnsentAreFresh, Underway
<1>7. EntriesFiled' BY <1>1, <1>2 DEF TypeOK, EntriesFiled, UnsentAreFresh
<1>8. WaitingIsPending'
  <2> SUFFICES ASSUME NEW s \in Request, answer'[s] = "waiting"
               PROVE  responseMap'[topicOf'[s]] = s
    BY DEF WaitingIsPending
  <2>1. CASE s = r BY <1>1, <1>2, <2>1 DEF TypeOK
  <2>2. CASE s # r
    <3>1. Released(Purged)[s] = "waiting" BY <1>3, <2>2
    <3>2. PICK t \in Topic : Purged[t] = s BY <1>3, <3>1
    <3>3. topicOf[s] = t BY <1>2, <3>2, RequestAssumption DEF EntriesFiled
    <3>4. t # topic BY <3>2, RequestAssumption
    <3> QED BY <1>1, <1>2, <2>2, <3>2, <3>3, <3>4 DEF TypeOK
  <2> QED BY <2>1, <2>2
<1> QED BY <1>4, <1>5, <1>6, <1>7, <1>8

\* A response is about the entry of its topic: it goes if it is too old, or is
\* answered.
LEMMA ResponsePending ==
  ASSUME PendingInv, NEW m \in responses, NEW again \in BOOLEAN,
         ResponseReceived(m, again)
  PROVE  PendingInv'
<1> DEFINE topic  == topicOf[m.request]
           r      == responseMap[topic]
           erased == [responseMap EXCEPT ![topic] = None]
<1>1. TypeOK BY DEF PendingInv
<1>2. m \in [request : Request, payload : Payload] /\ m.request \in Request
  BY <1>1 DEF TypeOK
<1>3. topic \in Topic
  BY <1>2 DEF PendingInv, HandledHaveTopic, UnsentAreFresh, Underway
<1>4. /\ responses' \subseteq responses
      /\ UNCHANGED <<bridged, topicOf, age, atDevice, outcome>>
  BY DEF ResponseReceived
<1>5. CASE UNCHANGED <<responseMap, answer>>
  <2>1. TypeOK' BY <1>1, <1>4, <1>5 DEF TypeOK
  <2>2. HandledHaveTopic' BY <1>4, <1>5 DEF PendingInv, HandledHaveTopic
  <2>3. UnsentAreFresh' BY <1>4, <1>5 DEF PendingInv, UnsentAreFresh, Underway
  <2>4. EntriesFiled' BY <1>4, <1>5 DEF PendingInv, EntriesFiled
  <2>5. WaitingIsPending' BY <1>4, <1>5 DEF PendingInv, WaitingIsPending
  <2> QED BY <2>1, <2>2, <2>3, <2>4, <2>5 DEF PendingInv
<1>6. CASE responseMap' = erased /\ answer' = Released(erased)
  <2> HIDE DEF topic, erased
  <2>1. /\ erased \in [Topic -> Request \cup {None}]
        /\ \A t \in Topic : erased[t] # None => erased[t] = responseMap[t]
    BY <1>1, <1>3 DEF TypeOK, erased
  <2>2. /\ Released(erased) \in
             [Request -> {"unsent", "waiting", "busy", "dropped"} \cup Status]
        /\ \A s \in Request :
             \/ Released(erased)[s] = answer[s]
             \/ answer[s] = "waiting" /\ Released(erased)[s] = "dropped"
        /\ \A s \in Request : Released(erased)[s] = "waiting" =>
             \E t \in Topic : erased[t] = s
    BY <1>1, ReleasedFacts
  <2>3. TypeOK' BY <1>1, <1>4, <1>6, <2>1, <2>2 DEF TypeOK
  <2>4. HandledHaveTopic' BY <1>4, <1>6, <2>2 DEF PendingInv, HandledHaveTopic
  <2>5. UnsentAreFresh'
    BY <1>4, <1>6, <2>1, <2>2, RequestAssumption
    DEF PendingInv, UnsentAreFresh, Underway
  <2>6. EntriesFiled' BY <1>4, <1>6, <2>1 DEF PendingInv, EntriesFiled
  <2>7. WaitingIsPending'
    <3> SUFFICES ASSUME NEW s \in Request, answer'[s] = "waiting"
                 PROVE  responseMap'[topicOf'[s]] = s
      BY DEF WaitingIsPending
    <3>1. PICK t \in Topic : erased[t] = s BY <1>6, <2>2
    <3>2. topicOf[s] = t
      BY <2>1, <3>1, RequestAssumption DEF PendingInv, EntriesFiled
    <3> QED BY <1>4, <1>6, <3>1, <3>2
  <2> QED BY <2>3, <2>4, <2>5, <2>6, <2>7 DEF PendingInv
<1>7. CASE /\ r # None /\ UNCHANGED responseMap
           /\ answer' = [answer EXCEPT ![r] = m.payload]
           /\ Answers(m, r)
  <2>1. r \in Request BY <1>1, <1>3, <1>7 DEF TypeOK
  <2> HIDE DEF topic, r
  <2>2. /\ answer' \in [Request -> {"unsent", "waiting", "busy", "dropped"} \cup Status]
        /\ \A s \in Request : s # r => answer'[s] = answer[s]
        /\ answer[r] = "waiting" /\ answer'[r] \in Status
    BY <1>1, <1>7, <2>1 DEF TypeOK, Answers
  <2>3. TypeOK' BY <1>1, <1>4, <1>7, <2>2 DEF TypeOK
  <2>4. HandledHaveTopic' BY <1>4, <2>1, <2>2 DEF PendingInv, HandledHaveTopic
  <2>5. UnsentAreFresh'
    BY <1>4, <1>7, <2>1, <2>2 DEF PendingInv, UnsentAreFresh, Underway, Status
  <2>6. EntriesFiled' BY <1>4, <1>7 DEF PendingInv, EntriesFiled
  <2>7. WaitingIsPending' BY <1>4, <1>7, <2>1, <2>2 DEF PendingInv, WaitingIsPending, Status
  <2> QED BY <2>3, <2>4, <2>5, <2>6, <2>7 DEF PendingInv
<1> QED BY <1>5, <1>6, <1>7 DEF ResponseReceived

\* Steps of the environment do not touch the map or an answer.
LEMMA EnvironmentPending ==
  ASSUME PendingInv,
         \/ Responds(Payload)
         \/ Disturbances
         \/ Tick
         \/ UNCHANGED vars
  PROVE  PendingInv'
<1>1. TypeOK BY DEF PendingInv
<1>2. UNCHANGED <<responseMap, answer, topicOf>>
  BY DEF Responds, Disturbances, DeviceResponds, DeviceSilent, NodeChanged, Tick, vars
<1>3. TypeOK'
  <2>1. CASE Responds(Payload)
    BY <1>1, <2>1 DEF TypeOK, Responds, DeviceResponds
  <2>2. CASE Disturbances
    BY <1>1, <2>2 DEF TypeOK, Disturbances, DeviceSilent, NodeChanged
  <2>3. CASE Tick
    <3>1. age' \in [Request -> Age]
      BY <1>1, <2>3, TimeoutAssumption DEF TypeOK, Tick, TimedOut, Age
    <3> QED BY <1>1, <2>3, <3>1 DEF TypeOK, Tick
  <2>4. CASE UNCHANGED vars BY <1>1, <2>4 DEF TypeOK, vars
  <2> QED BY <2>1, <2>2, <2>3, <2>4
<1>4. UnsentAreFresh'
  <2>1. \A r \in Request : Underway(r)' => Underway(r)
    BY <1>1 DEF TypeOK, Underway, Responds, Disturbances, DeviceResponds, DeviceSilent,
                NodeChanged, Tick, vars
  <2>2. \A r \in Request : ~Underway(r) => outcome'[r] = outcome[r]
    BY <1>1 DEF TypeOK, Underway, Responds, Disturbances, DeviceResponds, DeviceSilent,
                NodeChanged, Tick, vars
  <2> QED BY <1>2, <2>1, <2>2 DEF PendingInv, UnsentAreFresh
<1>5. HandledHaveTopic' /\ EntriesFiled' /\ WaitingIsPending'
  BY <1>2 DEF PendingInv, HandledHaveTopic, EntriesFiled, WaitingIsPending
<1> QED BY <1>3, <1>4, <1>5 DEF PendingInv

LEMMA ReusePending ==
  ASSUME PendingInv, NEW r \in Request, Reuse(r)
  PROVE  PendingInv'
<1> USE DEF PendingInv, Reuse
<1>1. TypeOK' BY TimeoutAssumption DEF TypeOK, Age
<1>2. HandledHaveTopic' BY DEF TypeOK, HandledHaveTopic
<1>3. UnsentAreFresh' BY DEF TypeOK, UnsentAreFresh, Underway
<1>4. EntriesFiled' BY DEF TypeOK, EntriesFiled
<1>5. WaitingIsPending' BY DEF TypeOK, WaitingIsPending
<1> QED BY <1>1, <1>2, <1>3, <1>4, <1>5

LEMMA NextPending == PendingInv /\ [Next]_vars => PendingInv'
<1> SUFFICES ASSUME PendingInv, [Next]_vars PROVE PendingInv'
  OBVIOUS
<1>1. CASE Commands
  BY <1>1, SendNowherePending, RejectBusyPending, SendCommandPending, ReusePending
  DEF Commands
<1>2. CASE Received BY <1>2, ResponsePending DEF Received
<1>3. CASE Responds(Payload) \/ Disturbances \/ Tick \/ UNCHANGED vars
  BY <1>3, EnvironmentPending
<1> QED BY <1>1, <1>2, <1>3 DEF Next

\* Type correctness of the command translator's map and of what surrounds it.
THEOREM TypeCorrect == Spec => []TypeOK
<1>1. PendingInv => TypeOK BY DEF PendingInv
<1> QED BY <1>1, InitPending, NextPending, PTL DEF Spec

\* A request that waits has its handle in cmd_responsestruct_map under the
\* topic of its response, however late, doubled or missing the responses are:
\* a purge or a response closes whatever it erases.
THEOREM WaitingArePending == Spec => []WaitingIsPending
<1>1. PendingInv => WaitingIsPending BY DEF PendingInv
<1> QED BY <1>1, InitPending, NextPending, PTL DEF Spec

(***************************************************************************)
(* Answers are final.                                                      *)
(***************************************************************************)
LEMMA FinalAnswers ==
  ASSUME TypeOK, [Next]_vars, NEW r \in Request, answer[r] \notin {"unsent", "waiting"}
  PROVE  answer'[r] \in {answer[r], "unsent"}
<1>1. ASSUME NEW s \in Request, NEW topic \in Topic,
             SendNowhere(s, topic) \/ RejectBusy(s, topic) \/ SendCommand(s, topic)
      PROVE  answer'[r] = answer[r]
  <2>1. Released(Purged)[r] = answer[r] BY ReleasedFacts
  <2>2. s # r BY <1>1 DEF SendNowhere, RejectBusy, SendCommand
  <2>3. Released(Purged) \in
          [Request -> {"unsent", "waiting", "busy", "dropped"} \cup Status]
    BY ReleasedFacts
  <2> QED BY <1>1, <2>1, <2>2, <2>3 DEF TypeOK, SendNowhere, RejectBusy, SendCommand
<1>2. ASSUME NEW s \in Request, Reuse(s)
      PROVE  answer'[r] \in {answer[r], "unsent"}
  BY <1>2 DEF TypeOK, Reuse
<1>3. ASSUME NEW m \in responses, NEW again \in BOOLEAN, ResponseReceived(m, again)
      PROVE  answer'[r] = answer[r]
  <2> DEFINE topic == topicOf[m.request]
  <2>1. \/ UNCHANGED answer
        \/ answer' = Released([responseMap EXCEPT ![topic] = None])
        \/ /\ Answers(m, responseMap[topic])
           /\ answer' = [answer EXCEPT ![responseMap[topic]] = m.payload]
    BY <1>3 DEF ResponseReceived
  <2>2. CASE answer' = Released([responseMap EXCEPT ![topic] = None])
    BY <2>2, ReleasedFacts
  <2>3. CASE /\ Answers(m, responseMap[topic])
             /\ answer' = [answer EXCEPT ![responseMap[topic]] = m.payload]
    BY <2>3 DEF TypeOK, Answers
  <2> QED BY <2>1, <2>2, <2>3
<1>4. Responds(Payload) \/ Disturbances \/ Tick \/ UNCHANGED vars => answer' = answer
  BY DEF Responds, Disturbances, DeviceResponds, DeviceSilent, NodeChanged, Tick, vars
<1> QED BY <1>1, <1>2, <1>3, <1>4 DEF Next, Commands, Received

\* A request is answered once, however often and however late responses arrive:
\* the handle of an answered request has been released.
THEOREM AnswersAreFinal == Spec => AnsweredOnce
<1>1. TypeOK /\ [Next]_vars =>
        [\A r \in Request : answer[r] \notin {"unsent", "waiting"} =>
           answer'[r] \in {answer[r], "unsent"}]_vars
  BY FinalAnswers
<1> QED BY <1>1, TypeCorrect, PTL DEF Spec, AnsweredOnce

(***************************************************************************)
(* Responses in time.                                                      *)
(***************************************************************************)
LEMMA InitTimely == Init => TimelyInv
<1> SUFFICES ASSUME Init PROVE TimelyInv
  OBVIOUS
<1>1. PendingInv BY InitPending
<1>2. UnderwayIsPending BY DEF Init, UnderwayIsPending, Underway
<1>3. ResponsesAreOutcomes BY DEF Init, ResponsesAreOutcomes
<1>4. AnswerIsOwn BY DEF Init, AnswerIsOwn, Status
<1> QED BY <1>1, <1>2, <1>3, <1>4 DEF TimelyInv

LEMMA TimelyIsNext == [NextTimely]_vars => [Next]_vars
  BY DEF NextTimely, Next

\* The parts of TimelyInv that are not in PendingInv, action by action.
TimelyPart == UnderwayIsPending /\ ResponsesAreOutcomes /\ AnswerIsOwn

LEMMA RefusedTimely ==
  ASSUME TimelyInv, NEW r \in Request, NEW topic \in Topic,
         SendNowhere(r, topic) \/ RejectBusy(r, topic)
  PROVE  TimelyPart'
<1>1. TypeOK /\ UnsentAreFresh BY DEF TimelyInv, PendingInv
<1>2. /\ UNCHANGED <<age, atDevice, outcome, responses>>
      /\ answer[r] = "unsent"
      /\ topicOf' = [topicOf EXCEPT ![r] = topic]
      /\ responseMap' \in {responseMap, Purged}
  BY DEF SendNowhere, RejectBusy
<1>3. \A s \in Request : answer'[s] \in Status => answer'[s] = answer[s]
  <2>1. CASE SendNowhere(r, topic) BY <1>1, <2>1 DEF TypeOK, SendNowhere, Status
  <2>2. CASE RejectBusy(r, topic)
    BY <1>1, <2>2, ReleasedFacts DEF RejectBusy, Status
  <2> QED BY <2>1, <2>2
<1>4. UnderwayIsPending'
  <2> SUFFICES ASSUME NEW s \in Request, Underway(s)'
               PROVE  (responseMap[topicOf[s]] = s /\ ~TimedOut(s))'
    BY DEF UnderwayIsPending
  <2>1. Underway(s) BY <1>2 DEF Underway
  <2>2. s # r BY <1>1, <1>2, <2>1 DEF UnsentAreFresh
  <2>3. topicOf'[s] = topicOf[s] /\ topicOf[s] \in Topic
    BY <1>1, <1>2, <2>1, <2>2
    DEF TypeOK, TimelyInv, PendingInv, HandledHaveTopic, UnsentAreFresh
  <2>4. responseMap[topicOf[s]] = s /\ ~TimedOut(s)
    BY <2>1 DEF TimelyInv, UnderwayIsPending
  <2>5. Purged[topicOf[s]] = s BY <1>1, <2>3, <2>4, PurgedFacts, RequestAssumption
  <2> QED BY <1>2, <2>3, <2>4, <2>5 DEF TimedOut
<1>5. ResponsesAreOutcomes' BY <1>2 DEF TimelyInv, ResponsesAreOutcomes
<1>6. AnswerIsOwn' BY <1>2, <1>3 DEF TimelyInv, AnswerIsOwn
<1> QED BY <1>4, <1>5, <1>6 DEF TimelyPart

LEMMA SentTimely ==
  ASSUME TimelyInv, NEW r \in Request, NEW topic \in Topic, SendCommand(r, topic)
  PROVE  TimelyPart'
<1>1. TypeOK /\ UnsentAreFresh /\ answer[r] = "unsent"
  BY DEF TimelyInv, PendingInv, SendCommand
<1>2. UnderwayIsPending'
  <2> SUFFICES ASSUME NEW s \in Request, Underway(s)'
               PROVE  (responseMap[topicOf[s]] = s /\ ~TimedOut(s))'
    BY DEF UnderwayIsPending
  <2>1. CASE s = r
    <3>1. age'[r] = 0 BY <1>1 DEF TypeOK, SendCommand
    <3>2. topicOf'[r] = topic /\ responseMap'[topic] = r
      BY <1>1, PurgedFacts DEF TypeOK, SendCommand
    <3> QED BY <2>1, <3>1, <3>2, TimeoutAssumption DEF TimedOut
  <2>2. CASE s # r
    <3>1. Underway(s) BY <2>2 DEF Underway, SendCommand
    <3>2. topicOf'[s] = topicOf[s] /\ topicOf[s] \in Topic /\ age'[s] = age[s]
      BY <1>1, <2>2, <3>1
      DEF TypeOK, TimelyInv, PendingInv, HandledHaveTopic, UnsentAreFresh, SendCommand
    <3>3. responseMap[topicOf[s]] = s /\ ~TimedOut(s)
      BY <3>1 DEF TimelyInv, UnderwayIsPending
    <3>4. Purged[topicOf[s]] = s BY <1>1, <3>2, <3>3, PurgedFacts, RequestAssumption
    <3>5. topicOf[s] # topic BY <3>4, RequestAssumption DEF SendCommand
    <3> QED BY <1>1, <3>2, <3>3, <3>4, <3>5, PurgedFacts DEF SendCommand, TimedOut
  <2> QED BY <2>1, <2>2
<1>3. ResponsesAreOutcomes'
  BY <1>1 DEF TimelyInv, ResponsesAreOutcomes, UnsentAreFresh, SendCommand
<1>4. AnswerIsOwn'
  <2>1. \A s \in Request : answer'[s] \in Status => answer'[s] = answer[s]
    BY <1>1, ReleasedFacts DEF SendCommand, Status
  <2> QED BY <2>1 DEF TimelyInv, AnswerIsOwn, SendCommand
<1> QED BY <1>2, <1>3, <1>4 DEF TimelyPart

\* The entry a response finds is that of its own command.
LEMMA ReceivedTimely ==
  ASSUME TimelyInv, NEW m \in responses, NEW again \in BOOLEAN,
         ResponseReceived(m, again)
  PROVE  TimelyPart'
<1>1. TypeOK BY DEF TimelyInv, PendingInv
<1>2. m.request \in Request /\ Underway(m.request) BY <1>1 DEF TypeOK, Underway
<1>3. responseMap[topicOf[m.request]] = m.request /\ ~TimedOut(m.request)
  BY <1>2 DEF TimelyInv, UnderwayIsPending
<1>4. /\ responses' \subseteq responses
      /\ UNCHANGED <<responseMap, topicOf, age, atDevice, outcome>>
  BY <1>3 DEF ResponseReceived
<1>5. UnderwayIsPending'
  BY <1>4 DEF TimelyInv, UnderwayIsPending, Underway, TimedOut
<1>6. ResponsesAreOutcomes' BY <1>4 DEF TimelyInv, ResponsesAreOutcomes
<1>7. \/ answer' = answer
      \/ answer' = [answer EXCEPT ![m.request] = m.payload]
  BY <1>3 DEF ResponseReceived
<1>8. outcome[m.request] = m.payload BY DEF TimelyInv, ResponsesAreOutcomes
<1>9. AnswerIsOwn' BY <1>1, <1>4, <1>7, <1>8 DEF TypeOK, TimelyInv, AnswerIsOwn
<1> QED BY <1>5, <1>6, <1>9 DEF TimelyPart

LEMMA RespondsTimely ==
  ASSUME TimelyInv, NEW r \in Request, NEW payload \in Payload,
         DeviceResponds(r, payload)
  PROVE  TimelyPart'
<1>1. TypeOK BY DEF TimelyInv, PendingInv
<1>2. Underway(r) BY DEF DeviceResponds, Underway
<1>3. \A s \in Request : Underway(s)' => Underway(s)
  BY <1>2 DEF DeviceResponds, Underway
<1>4. UnderwayIsPending'
  BY <1>3 DEF TimelyInv, UnderwayIsPending, DeviceResponds, TimedOut
<1>5. outcome[r] = None /\ \A m \in responses : m.request # r
  <2>1. outcome[r] = None BY DEF TimelyInv, ResponsesAreOutcomes, DeviceResponds
  <2>2. \A m \in responses : m.payload \in Payload BY <1>1 DEF TypeOK
  <2> QED BY <2>1, <2>2 DEF TimelyInv, ResponsesAreOutcomes, Payload, Status, None
<1>6. outcome'[r] = payload /\ \A s \in Request : s # r => outcome'[s] = outcome[s]
  BY <1>1 DEF TypeOK, DeviceResponds
<1>7. ResponsesAreOutcomes'
  <2>1. \A s \in atDevice' : outcome'[s] = None
    BY <1>1, <1>6 DEF TypeOK, TimelyInv, ResponsesAreOutcomes, DeviceResponds
  <2>2. ASSUME NEW m \in responses' PROVE outcome'[m.request] = m.payload
    <3>1. CASE m \in responses
      BY <1>1, <1>5, <1>6, <3>1 DEF TypeOK, TimelyInv, ResponsesAreOutcomes
    <3>2. CASE m = [request |-> r, payload |-> payload] BY <1>6, <3>2
    <3> QED BY <3>1, <3>2 DEF DeviceResponds
  <2> QED BY <2>1, <2>2 DEF ResponsesAreOutcomes
<1>8. AnswerIsOwn'
  BY <1>5, <1>6 DEF TimelyInv, AnswerIsOwn, DeviceResponds, Status, None
<1> QED BY <1>4, <1>7, <1>8 DEF TimelyPart

LEMMA OthersTimely ==
  ASSUME TimelyInv, Disturbances \/ (Timely /\ Tick) \/ UNCHANGED vars
  PROVE  TimelyPart'
<1>1. TypeOK BY DEF TimelyInv, PendingInv
<1>2. /\ atDevice' \subseteq atDevice
      /\ UNCHANGED <<responseMap, answer, topicOf, outcome, responses>>
  BY DEF Disturbances, DeviceSilent, NodeChanged, Tick, vars
<1>3. ASSUME NEW r \in Request, Underway(r)' PROVE ~TimedOut(r)'
  <2>1. Underway(r) /\ ~TimedOut(r)
    BY <1>2, <1>3 DEF Underway, TimelyInv, UnderwayIsPending
  <2>2. CASE Timely /\ Tick
    <3>1. age[r] < HandlerTimeout /\ age[r] \in Nat
      BY <1>1, <2>1, <2>2, TimeoutAssumption DEF Timely, TypeOK, Age
    <3>2. age'[r] \in {age[r], age[r] + 1} BY <2>2 DEF Tick
    <3> QED BY <3>1, <3>2, TimeoutAssumption DEF TimedOut
  <2>3. CASE Disturbances \/ UNCHANGED vars
    BY <2>1, <2>3 DEF Disturbances, DeviceSilent, NodeChanged, vars, TimedOut
  <2> QED BY <2>2, <2>3
<1>4. UnderwayIsPending'
  BY <1>2, <1>3 DEF TimelyInv, UnderwayIsPending, Underway
<1>5. ResponsesAreOutcomes' /\ AnswerIsOwn'
  BY <1>2 DEF TimelyInv, ResponsesAreOutcomes, AnswerIsOwn
<1> QED BY <1>4, <1>5 DEF TimelyPart

LEMMA ReuseTimely ==
  ASSUME TimelyInv, NEW r \in Request, Reuse(r)
  PROVE  TimelyPart'
<1>1. TypeOK BY DEF TimelyInv, PendingInv
<1>2. \A s \in Request : Underway(s)' => Underway(s) /\ s # r
  BY DEF Reuse, Underway
<1>3. UnderwayIsPending'
  BY <1>1, <1>2 DEF TypeOK, TimelyInv, UnderwayIsPending, Reuse, TimedOut
<1>4. ResponsesAreOutcomes'
  BY <1>1 DEF TypeOK, TimelyInv, ResponsesAreOutcomes, Reuse, Underway
<1>5. AnswerIsOwn' BY <1>1 DEF TypeOK, TimelyInv, AnswerIsOwn, Reuse, Status
<1> QED BY <1>3, <1>4, <1>5 DEF TimelyPart

LEMMA NextTimelyInv == TimelyInv /\ [NextTimely]_vars => TimelyInv'
<1> SUFFICES ASSUME TimelyInv, [NextTimely]_vars PROVE TimelyInv'
  OBVIOUS
<1>1. PendingInv' BY NextPending, TimelyIsNext DEF TimelyInv
<1>2. CASE Commands
  <2>1. TimelyPart' BY <1>2, RefusedTimely, SentTimely, ReuseTimely DEF Commands
  <2> QED BY <1>1, <2>1 DEF TimelyInv, TimelyPart
<1>3. CASE Received
  <2>1. TimelyPart' BY <1>3, ReceivedTimely DEF Received
  <2> QED BY <1>1, <2>1 DEF TimelyInv, TimelyPart
<1>4. CASE Responds(Payload)
  <2>1. TimelyPart' BY <1>4, RespondsTimely DEF Responds
  <2> QED BY <1>1, <2>1 DEF TimelyInv, TimelyPart
<1>5. CASE Disturbances \/ (Timely /\ Tick) \/ UNCHANGED vars
  <2>1. TimelyPart' BY <1>5, OthersTimely
  <2> QED BY <1>1, <2>1 DEF TimelyInv, TimelyPart
<1> QED BY <1>2, <1>3, <1>4, <1>5 DEF NextTimely

\* When responses arrive within HANDLER_TIMEOUT, Unify never works on two
\* commands of one topic: the purge only makes room for a command whose
\* predecessor is over ("we can only handle one command per topic").
THEOREM OneCommandAtATime == SpecTimely => []OneCommandPerTopic
<1>1. TimelyInv => OneCommandPerTopic
  BY DEF TimelyInv, UnderwayIsPending, OneCommandPerTopic
<1> QED BY <1>1, InitTimely, NextTimelyInv, PTL DEF SpecTimely

\* When responses arrive within HANDLER_TIMEOUT, each request is answered with
\* the outcome of its own command, although a response names only its topic.
THEOREM AnswersAreOwn == SpecTimely => []AnswerIsOwn
<1>1. TimelyInv => AnswerIsOwn BY DEF TimelyInv
<1> QED BY <1>1, InitTimely, NextTimelyInv, PTL DEF SpecTimely

(***************************************************************************)
(* With responses in time, the map of handles implements the service.      *)
(***************************************************************************)

\* A purge closes no request whose command Unify still works on.
LEMMA PurgeStrands ==
  ASSUME TimelyInv, NEW q \in Request, Released(Purged)[q] # answer[q]
  PROVE  answer[q] = "waiting" /\ ~Underway(q) /\ Released(Purged)[q] = "dropped"
<1>1. TypeOK BY DEF TimelyInv, PendingInv
<1>2. /\ answer[q] = "waiting" /\ Released(Purged)[q] = "dropped"
      /\ \A topic \in Topic : Purged[topic] # q
  BY DEF Released
<1>3. ASSUME Underway(q) PROVE FALSE
  <2>1. topicOf[q] \in Topic BY <1>2 DEF TimelyInv, PendingInv, HandledHaveTopic
  <2>2. responseMap[topicOf[q]] = q /\ ~TimedOut(q)
    BY <1>3 DEF TimelyInv, UnderwayIsPending
  <2>3. Purged[topicOf[q]] = q BY <1>1, <2>1, <2>2, PurgedFacts, RequestAssumption
  <2> QED BY <1>2, <2>1, <2>3
<1> QED BY <1>2, <1>3

\* What send_unify_mqtt_cmd tells the clients, after its purge.
LEMMA PurgeTells ==
  ASSUME TimelyInv, NEW r \in Request, NEW topic \in Topic, answer[r] = "unsent", NEW a,
         answer' = [Released(Purged) EXCEPT ![r] = a],
         topicOf' = [topicOf EXCEPT ![r] = topic], UNCHANGED outcome
  PROVE  \E lost \in SUBSET Service!Stranded : Service!Tell(r, topic, a, lost)
<1> DEFINE lost == {q \in Request : Released(Purged)[q] # answer[q]}
<1>1. TypeOK BY DEF TimelyInv, PendingInv
<1>2. lost \subseteq Service!Stranded BY PurgeStrands DEF Service!Stranded
<1>3. answer' = [q \in Request |-> IF q = r THEN a
                                   ELSE IF q \in lost THEN "dropped" ELSE answer[q]]
  <2>1. \A q \in lost : Released(Purged)[q] = "dropped" BY PurgeStrands
  <2>2. answer' = [q \in Request |-> IF q = r THEN a ELSE Released(Purged)[q]]
    BY DEF Released
  <2> QED BY <2>1, <2>2
<1> HIDE DEF lost
<1> QED BY <1>2, <1>3 DEF Service!Tell

LEMMA SendNowhereServes ==
  ASSUME TimelyInv, NEW r \in Request, NEW topic \in Topic, SendNowhere(r, topic)
  PROVE  Service!Next
<1>1. answer \in [Request -> {"unsent", "waiting", "busy", "dropped"} \cup Status]
  BY DEF TimelyInv, PendingInv, TypeOK
<1>2. answer' = [q \in Request |-> IF q = r THEN "dropped"
                                   ELSE IF q \in {} THEN "dropped" ELSE answer[q]]
  BY <1>1 DEF SendNowhere
<1>3. Service!Tell(r, topic, "dropped", {}) BY <1>2 DEF SendNowhere, Service!Tell
<1>4. \A q \in Request : Underway(q)' <=> Underway(q) BY DEF SendNowhere, Underway
<1>5. Service!Refuse(r, topic) BY <1>3, <1>4 DEF Service!Refuse
<1> QED BY <1>5 DEF Service!Next

\* "Busy" is said for an entry, and an entry belongs to a request of its topic
\* that was sent.
LEMMA RejectBusyServes ==
  ASSUME TimelyInv, NEW r \in Request, NEW topic \in Topic, RejectBusy(r, topic)
  PROVE  Service!Next
<1>1. TypeOK BY DEF TimelyInv, PendingInv
<1>2. PICK lost \in SUBSET Service!Stranded : Service!Tell(r, topic, "busy", lost)
  BY PurgeTells DEF RejectBusy
<1>3. \E q \in Request : answer[q] # "unsent" /\ topicOf[q] = topic
  <2> DEFINE q == responseMap[topic]
  <2>1. q # None /\ q \in Request BY <1>1, PurgedFacts DEF RejectBusy, TypeOK
  <2>2. topicOf[q] = topic BY <2>1 DEF TimelyInv, PendingInv, EntriesFiled
  <2>3. answer[q] # "unsent" BY <2>1 DEF TimelyInv, PendingInv, UnsentAreFresh
  <2> QED BY <2>1, <2>2, <2>3
<1>4. \A q \in Request : Underway(q)' <=> Underway(q) BY DEF RejectBusy, Underway
<1>5. Service!Busy(r, topic, lost) BY <1>2, <1>3, <1>4 DEF Service!Busy
<1> QED BY <1>5 DEF Service!Next

\* A topic with room in the map has no command at work.
LEMMA SendCommandServes ==
  ASSUME TimelyInv, NEW r \in Request, NEW topic \in Topic, SendCommand(r, topic)
  PROVE  Service!Next
<1>1. TypeOK BY DEF TimelyInv, PendingInv
<1>2. PICK lost \in SUBSET Service!Stranded : Service!Tell(r, topic, "waiting", lost)
  BY PurgeTells DEF SendCommand
<1>3. ASSUME NEW q \in Request, Underway(q), topicOf[q] = topic PROVE FALSE
  <2>1. responseMap[topic] = q /\ ~TimedOut(q)
    BY <1>3 DEF TimelyInv, UnderwayIsPending
  <2>2. Purged[topic] = q BY <1>1, <2>1, PurgedFacts, RequestAssumption
  <2> QED BY <2>2, RequestAssumption DEF SendCommand
<1>4. \A q \in Request : Underway(q)' <=> Underway(q) \/ q = r
  BY DEF SendCommand, Underway
<1>5. {q \in Request : Underway(q)}' = {q \in Request : Underway(q)} \cup {r} BY <1>4
<1>6. Service!Accept(r, topic, lost) BY <1>2, <1>3, <1>5 DEF Service!Accept
<1> QED BY <1>6 DEF Service!Next

LEMMA ReuseServes ==
  ASSUME TimelyInv, NEW r \in Request, Reuse(r)
  PROVE  Service!Next
<1>1. \A q \in Request : Underway(q)' <=> Underway(q) BY DEF Reuse, Underway
<1>2. Service!Forget(r) BY <1>1 DEF Reuse, Service!Forget
<1> QED BY <1>2 DEF Service!Next

\* A response finds its own request: it answers it with the outcome, or finds it
\* answered or its node gone, and Unify may be done with it.
LEMMA ReceivedServes ==
  ASSUME TimelyInv, NEW m \in responses, NEW again \in BOOLEAN,
         ResponseReceived(m, again)
  PROVE  Service!Next \/ UNCHANGED Service!service
<1> DEFINE r == m.request
           work == {q \in Request : Underway(q)}
<1>1. TypeOK BY DEF TimelyInv, PendingInv
<1>2. r \in Request /\ Underway(r) BY <1>1 DEF TypeOK, Underway
<1>3. responseMap[topicOf[r]] = r /\ ~TimedOut(r)
  BY <1>2 DEF TimelyInv, UnderwayIsPending
<1>4. outcome[r] = m.payload BY DEF TimelyInv, ResponsesAreOutcomes
<1>5. UNCHANGED <<topicOf, outcome, atDevice>> BY DEF ResponseReceived
<1>6. \/ UNCHANGED answer
      \/ /\ answer' = [answer EXCEPT ![r] = outcome[r]]
         /\ answer[r] = "waiting" /\ outcome[r] \in Status
  BY <1>3, <1>4 DEF ResponseReceived, Answers
<1>7. work' \in {work, work \ {r}}
  <2>1. responses' = responses \/ responses' = responses \ {m} BY DEF ResponseReceived
  <2>2. \A q \in Request : Underway(q)' => Underway(q) BY <1>5, <2>1 DEF Underway
  <2>3. \A q \in Request : q # r /\ Underway(q) => Underway(q)'
    BY <1>5, <2>1 DEF Underway
  <2> HIDE DEF r
  <2>4. CASE Underway(r)'
    <3>1. work' = work BY <2>2, <2>3, <2>4, <1>2
    <3> QED BY <3>1
  <2>5. CASE ~Underway(r)'
    <3>1. work' = work \ {r} BY <2>2, <2>3, <2>5, <1>2
    <3> QED BY <3>1
  <2> QED BY <2>4, <2>5
<1>8. r \in work BY <1>2
<1> HIDE DEF r
<1>9. CASE UNCHANGED answer /\ work' = work BY <1>9, <1>5 DEF Service!service
<1>10. CASE UNCHANGED answer /\ work' = work \ {r}
  <2>1. Service!Finish(r) BY <1>10, <1>5, <1>8 DEF Service!Finish
  <2> QED BY <2>1, <1>2 DEF Service!Next
<1>11. CASE /\ answer' = [answer EXCEPT ![r] = outcome[r]]
            /\ answer[r] = "waiting" /\ outcome[r] \in Status
  <2>1. Service!Answer(r) BY <1>11, <1>5, <1>7, <1>8 DEF Service!Answer
  <2> QED BY <2>1, <1>2 DEF Service!Next
<1> QED BY <1>6, <1>7, <1>9, <1>10, <1>11

LEMMA RespondsServes ==
  ASSUME TimelyInv, NEW r \in Request, NEW payload \in Payload,
         DeviceResponds(r, payload)
  PROVE  Service!Next
<1>1. outcome[r] = None BY DEF TimelyInv, ResponsesAreOutcomes, DeviceResponds
<1>2. \A q \in Request : Underway(q)' <=> Underway(q)
  <2> DEFINE response == [request |-> r, payload |-> payload]
  <2>1. /\ r \in atDevice /\ atDevice' = atDevice \ {r}
        /\ responses' = responses \cup {response} /\ response.request = r
    BY DEF DeviceResponds
  <2> HIDE DEF response
  <2>2. \A q \in Request : Underway(q)' => Underway(q) BY <2>1 DEF Underway
  <2>3. ASSUME NEW q \in Request, Underway(q) PROVE Underway(q)'
    BY <2>1, <2>3 DEF Underway
  <2> QED BY <2>2, <2>3
<1>3. Underway(r) BY DEF DeviceResponds, Underway
<1>4. Service!Decide(r, payload) BY <1>1, <1>2, <1>3 DEF DeviceResponds, Service!Decide
<1> QED BY <1>4 DEF Service!Next

LEMMA SilentServes ==
  ASSUME TimelyInv, NEW r \in Request, DeviceSilent(r)
  PROVE  Service!Next
<1>1. \A m \in responses : m.request # r
  <2>1. \A m \in responses : m.payload \in Payload
    BY DEF TimelyInv, PendingInv, TypeOK
  <2> QED BY <2>1 DEF TimelyInv, ResponsesAreOutcomes, DeviceSilent, Payload, Status, None
<1>2. \A q \in Request : Underway(q)' <=> Underway(q) /\ q # r
  BY <1>1 DEF DeviceSilent, Underway
<1>3. Underway(r) BY DEF DeviceSilent, Underway
<1>4. {q \in Request : Underway(q)}' = {q \in Request : Underway(q)} \ {r} BY <1>2
<1>5. Service!Finish(r) BY <1>3, <1>4 DEF DeviceSilent, Service!Finish
<1> QED BY <1>5 DEF Service!Next

\* Every behaviour in which responses arrive within HANDLER_TIMEOUT is, for the
\* Matter clients, one of the command service: a request leaves Unify its turn,
\* gets its own outcome or is given up when nothing works on it any more.
THEOREM TimelyImplementsService == SpecTimely => ImplementsService
<1>1. Init => Service!Init
  BY DEF Init, Service!Init, Underway
<1>2. TimelyInv /\ [NextTimely]_vars => [Service!Next]_(Service!service)
  <2> SUFFICES ASSUME TimelyInv, [NextTimely]_vars
               PROVE  Service!Next \/ UNCHANGED Service!service
    OBVIOUS
  <2>1. CASE Commands
    BY <2>1, SendNowhereServes, RejectBusyServes, SendCommandServes, ReuseServes
    DEF Commands
  <2>2. CASE Received BY <2>2, ReceivedServes DEF Received
  <2>3. CASE Responds(Payload) BY <2>3, RespondsServes DEF Responds
  <2>4. ASSUME NEW r \in Request, DeviceSilent(r)
        PROVE  Service!Next
    BY <2>4, SilentServes
  <2>5. ASSUME UNCHANGED <<answer, topicOf, outcome, atDevice, responses>>
        PROVE  UNCHANGED Service!service
    BY <2>5 DEF Service!service, Underway
  <2> QED BY <2>1, <2>2, <2>3, <2>4, <2>5
          DEF NextTimely, Disturbances, NodeChanged, Tick, vars
<1> QED BY <1>1, <1>2, InitTimely, NextTimelyInv, PTL
        DEF SpecTimely, ImplementsService, Service!Spec

=============================================================================
