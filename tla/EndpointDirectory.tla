--------------------------- MODULE EndpointDirectory ---------------------------
(***************************************************************************)
(* What the bridge promises to Matter controllers about its endpoints: an  *)
(* endpoint id shows at most one device endpoint, a device endpoint is     *)
(* shown under at most one id, and an id changes hands only by becoming    *)
(* vacant in between.                                                      *)
(***************************************************************************)
CONSTANTS Ids, Keys

VARIABLE shown   \* shown[id]: the device endpoint under id, as a set

Vacant(id) == shown[id] = {}

Init == shown = [id \in Ids |-> {}]

Show(id, key) ==
  /\ Vacant(id)
  /\ \A other \in Ids : key \notin shown[other]
  /\ shown' = [shown EXCEPT ![id] = {key}]

Hide(id) ==
  /\ ~Vacant(id)
  /\ shown' = [shown EXCEPT ![id] = {}]

Next == \E id \in Ids : Hide(id) \/ \E key \in Keys : Show(id, key)

Spec == Init /\ [][Next]_shown
=============================================================================
