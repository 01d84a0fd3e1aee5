---------------------------- MODULE CommandService ----------------------------
(***************************************************************************)
(* What the bridge promises to Matter clients about commands with a        *)
(* response.  Unify works on one command of a topic at a time.  A request  *)
(* that was sent gets the outcome of its own command, or is given up once  *)
(* Unify is done with that command; it gets one answer.  A request is told *)
(* that its topic is busy only while the bridge remembers another one.     *)
(*                                                                         *)
(* Nothing here speaks of handles, time stamps or messages.                *)
(***************************************************************************)
CONSTANTS
  Request, Topic,
  Status,     \* the outcomes a client can be told
  Payload,    \* all outcomes of a command
  None        \* no outcome yet

VARIABLES
  answer,     \* what the client of each request was told
  topicOf,    \* the topic of each request
  outcome,    \* what became of its command
  work        \* the requests whose command Unify has not finished

service == <<answer, topicOf, outcome, work>>

Init ==
  /\ answer = [r \in Request |-> "unsent"]
  /\ topicOf = [r \in Request |-> <<>>]
  /\ outcome = [r \in Request |-> None]
  /\ work = {}

\* Requests that wait for nothing.
Stranded == {r \in Request : answer[r] = "waiting" /\ r \notin work}

\* Request r is told a; those in lost are given up on the way.
Tell(r, topic, a, lost) ==
  /\ answer[r] = "unsent"
  /\ lost \subseteq Stranded
  /\ answer' = [q \in Request |-> IF q = r THEN a
                                  ELSE IF q \in lost THEN "dropped" ELSE answer[q]]
  /\ topicOf' = [topicOf EXCEPT ![r] = topic]
  /\ UNCHANGED outcome

Accept(r, topic, lost) ==
  /\ \A q \in work : topicOf[q] # topic
  /\ Tell(r, topic, "waiting", lost)
  /\ work' = work \cup {r}

Busy(r, topic, lost) ==
  /\ \E q \in Request : answer[q] # "unsent" /\ topicOf[q] = topic
  /\ Tell(r, topic, "busy", lost)
  /\ UNCHANGED work

Refuse(r, topic) == Tell(r, topic, "dropped", {}) /\ UNCHANGED work

Decide(r, payload) ==
  /\ r \in work
  /\ outcome[r] = None
  /\ outcome' = [outcome EXCEPT ![r] = payload]
  /\ UNCHANGED <<answer, topicOf, work>>

\* The client learns the outcome; a copy of the response may still come.
Answer(r) ==
  /\ r \in work
  /\ answer[r] = "waiting"
  /\ outcome[r] \in Status
  /\ answer' = [answer EXCEPT ![r] = outcome[r]]
  /\ work' \in {work, work \ {r}}
  /\ UNCHANGED <<topicOf, outcome>>

Finish(r) ==
  /\ r \in work
  /\ work' = work \ {r}
  /\ UNCHANGED <<answer, topicOf, outcome>>

Forget(r) ==
  /\ answer[r] \notin {"unsent", "waiting"}
  /\ r \notin work
  /\ answer' = [answer EXCEPT ![r] = "unsent"]
  /\ topicOf' = [topicOf EXCEPT ![r] = <<>>]
  /\ outcome' = [outcome EXCEPT ![r] = None]
  /\ UNCHANGED work

Next ==
  \E r \in Request :
    \/ \E topic \in Topic, lost \in SUBSET Stranded :
         Accept(r, topic, lost) \/ Busy(r, topic, lost)
    \/ \E topic \in Topic : Refuse(r, topic)
    \/ \E payload \in Payload : Decide(r, payload)
    \/ Answer(r) \/ Finish(r) \/ Forget(r)

Spec == Init /\ [][Next]_service
=============================================================================
